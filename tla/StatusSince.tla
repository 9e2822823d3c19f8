---------------------------- MODULE StatusSince ----------------------------
(***************************************************************************)
(* How long each element of a DER's status or availability has had its     *)
(* value: the ElementSinceStore decorator                                  *)
(* (pkg/store/memory/elementsince.go), and the admin read that shows the   *)
(* values beside their times (internal/handler/admin_der_read.go).         *)
(*                                                                         *)
(* A key is <<der, kind>>: the one resource of that kind of that DER.  A   *)
(* resource is a function from the elements it has to their values.  All   *)
(* the DERs are of one device, so a prefix is all the keys of one store.   *)
(***************************************************************************)
EXTENDS Integers, Sequences, FiniteSets, TLC

CONSTANTS
  DerKeys,      \* the keys <<der, kind>>, with kind in {"status", "availability"}
  Contents,     \* the resources: functions from elements to values
  PollRate,     \* DefaultPollRateSeconds
  MaxSeconds,   \* bound on the clock
  SinceBudgets  \* bounds: [write, delete, cascade, tick, read, fault]

NoResource == [absent |-> TRUE]
Kinds == {k[2] : k \in DerKeys}
KeysOf(kind) == {k \in DerKeys : k[2] = kind}
NoList == [at |-> "idle", now |-> 0, todo |-> {}, key |-> CHOOSE k \in DerKeys : TRUE,
           found |-> <<>>, raced |-> FALSE, shown |-> <<>>]

VARIABLES
  resources,     \* the wrapped store: the resource of each key, or NoResource
  since,     \* the recorded times: element -> [value, at]; NoResource for a key not in the map
  seconds,   \* the clock
  history,   \* each key's accepted writes since it was last absent (history)
  unconfirmed, \* the keys whose removal could not be confirmed (history)
  listing,   \* the admin read
  sinceLeft  \* what is left of the budget

sinceVars == <<resources, since, seconds, history, unconfirmed, listing, sinceLeft>>

\* NewElementSinceStore: nothing is recorded of what the store already holds;
\* it starts empty.
InitSince ==
  /\ resources = [k \in DerKeys |-> NoResource] /\ since = [k \in DerKeys |-> NoResource]
  /\ seconds = 1 /\ history = [k \in DerKeys |-> <<>>] /\ unconfirmed = {}
  /\ listing = NoList /\ sinceLeft \in SinceBudgets

SinceSpend(what) == sinceLeft[what] > 0 /\ sinceLeft' = [sinceLeft EXCEPT ![what] = @ - 1]

SecondPasses ==
  /\ seconds < MaxSeconds /\ SinceSpend("tick") /\ seconds' = seconds + 1
  /\ UNCHANGED <<resources, since, history, unconfirmed, listing>>

\* The read that has found a value and not yet its times is overtaken.
Overtaken(keys) == listing' = [listing EXCEPT !.raced = @ \/ (listing.at = "since" /\ listing.key \in keys)]
-----------------------------------------------------------------------------
(* The decorator; each operation holds its lock. *)

\* record: a value that is unchanged keeps its time, an element that is not
\* there loses it.
record(k, resource) ==
  LET prev == IF since[k] = NoResource THEN <<>> ELSE since[k]
      kept(n) == n \in DOMAIN prev /\ prev[n].value = resource[n]
  IN [since EXCEPT ![k] = [n \in DOMAIN resource |->
                             IF kept(n) THEN prev[n] ELSE [value |-> resource[n], at |-> seconds]]]

Wrote(k, resource) ==
  /\ resources' = [resources EXCEPT ![k] = resource]
  /\ since' = record(k, resource)
  /\ history' = [history EXCEPT ![k] = Append(@, [at |-> seconds, resource |-> resource])]
  /\ Overtaken({k}) /\ UNCHANGED <<seconds, unconfirmed>>

CreateStatus(k, resource) == resources[k] = NoResource /\ SinceSpend("write") /\ Wrote(k, resource)

UpdateStatus(k, resource) == resources[k] # NoResource /\ SinceSpend("write") /\ Wrote(k, resource)

\* A refused or failed write changes nothing.
WriteRefused == SinceSpend("fault") /\ UNCHANGED <<resources, since, seconds, history, unconfirmed, listing>>

\* What the wrapped store loses: the resources, and with them their history.
Lose(keys) ==
  /\ resources' = [k \in DerKeys |-> IF k \in keys THEN NoResource ELSE resources[k]]
  /\ history' = [k \in DerKeys |-> IF k \in keys THEN <<>> ELSE history[k]]
  /\ Overtaken(keys)

\* Delete drops the times on success and when there is nothing to delete.
DeleteStatus(k) ==
  /\ SinceSpend("delete") /\ Lose({k})
  /\ since' = [since EXCEPT ![k] = NoResource]
  /\ unconfirmed' = unconfirmed \ {k} /\ UNCHANGED seconds

\* Mutant: the times stay when the removal failed part way.
reconcileNone(matched, unread) == since

\* reconcile: after the removal, a time is dropped for every key the store
\* answers ErrNotFound for; a read that fails otherwise keeps it.
reconcile(matched, unread) ==
  [k \in DerKeys |-> IF k \in matched \ unread /\ resources'[k] = NoResource THEN NoResource ELSE since[k]]

\* A removal that fails part way has removed some of the keys.
Removal(matched, removed, unread) ==
  /\ SinceSpend(IF removed = matched /\ unread = {} THEN "cascade" ELSE "fault")
  /\ Lose(removed)
  /\ since' = reconcile(matched, unread)
  /\ unconfirmed' = {k \in unconfirmed \union {u \in unread : resources'[u] = NoResource} : since'[k] # NoResource}
  /\ UNCHANGED seconds

deleteParent(k) == \E removed \in SUBSET {k}, unread \in SUBSET {k} : Removal({k}, removed, unread)

deletePrefix(kind) == \E removed \in SUBSET KeysOf(kind), unread \in SUBSET KeysOf(kind) : Removal(KeysOf(kind), removed, unread)
-----------------------------------------------------------------------------
(* The admin read. *)

Lists(fields) == listing' = fields @@ listing /\ UNCHANGED <<resources, since, seconds, history, unconfirmed>>

\* The clock is read once for all the DERs of the answer.
HandleList ==
  /\ listing.at = "idle" /\ SinceSpend("read")
  /\ Lists([at |-> "sections", now |-> seconds, todo |-> DerKeys, shown |-> <<>>])

\* Assess: what a reading's age says of it.
Assess(readingTime, at) ==
  LET age == at - readingTime
  IN [stale |-> readingTime = 0 \/ age > 2 * PollRate + 60 \/ -age > PollRate,
      ahead |-> readingTime # 0 /\ -age > PollRate]

\* read: the resource, or why there is none.
read(k) == IF resources[k] = NoResource THEN [reported |-> FALSE] ELSE [reported |-> TRUE, content |-> resources[k]]

\* A section up to its times: the last write is the reading.
Section(k) ==
  /\ listing.at = "sections" /\ k \in listing.todo
  /\ LET got == read(k) IN
     IF got.reported
     THEN LET fresh == Assess(history[k][Len(history[k])].at, listing.now)
          IN Lists([at |-> "since", key |-> k, raced |-> k \in unconfirmed, todo |-> listing.todo \ {k},
                    found |-> [content |-> got.content, fresh |-> fresh, held |-> history[k]]])
     ELSE Lists([todo |-> listing.todo \ {k}, shown |-> (k :> got) @@ listing.shown])
  /\ UNCHANGED sinceLeft

status == \E k \in KeysOf("status") : Section(k)

availability == \E k \in KeysOf("availability") : Section(k)

\* A store that fails: the section says so and the read goes on.
SectionFails(k) ==
  /\ listing.at = "sections" /\ k \in listing.todo /\ SinceSpend("fault")
  /\ Lists([todo |-> listing.todo \ {k}, shown |-> (k :> [reported |-> FALSE]) @@ listing.shown])

\* ElementSince: a copy of the times of one key.
ElementSince(k) == IF since[k] = NoResource THEN <<>> ELSE [n \in DOMAIN since[k] |-> since[k][n].at]

sinceOf ==
  /\ listing.at = "since"
  /\ LET k == listing.key
         view == [reported |-> TRUE, times |-> ElementSince(k), raced |-> listing.raced] @@ listing.found
     IN Lists([at |-> "sections", shown |-> (k :> view) @@ listing.shown])
  /\ UNCHANGED sinceLeft

ListAnswered == listing.at = "sections" /\ listing.todo = {} /\ Lists(NoList) /\ UNCHANGED sinceLeft
-----------------------------------------------------------------------------
SinceNext ==
  \/ SecondPasses \/ WriteRefused
  \/ \E k \in DerKeys :
       \/ \E resource \in Contents : CreateStatus(k, resource) \/ UpdateStatus(k, resource)
       \/ DeleteStatus(k) \/ deleteParent(k) \/ SectionFails(k)
  \/ \E kind \in Kinds : deletePrefix(kind)
  \/ HandleList \/ status \/ availability \/ sinceOf \/ ListAnswered

SinceSpec == InitSince /\ [][SinceNext]_sinceVars
-----------------------------------------------------------------------------
(* Properties. *)

\* When the present run of one value began, told from the writes alone.
FirstSeen(writes, n) ==
  LET same(i) == n \in DOMAIN writes[i].resource /\ writes[i].resource[n] = writes[Len(writes)].resource[n]
      starts == {i \in DOMAIN writes : \A j \in i..Len(writes) : same(j)}
  IN writes[CHOOSE i \in starts : \A j \in starts : i <= j].at

\* An element's time is that of the first of the unbroken run of accepted
\* writes with its present value, and only the elements the store holds have
\* one: an element that leaves and returns, a resource that is removed alone
\* or by a removal that fails part way, and created again, start anew.  What
\* an admin reads is a value with its own time, unless a write came between
\* the two reads.  A key whose removal could not be confirmed is excused.
SinceIsTrue ==
  /\ \A k \in DerKeys \ unconfirmed :
       /\ (since[k] = NoResource) = (resources[k] = NoResource)
       /\ resources[k] # NoResource =>
            /\ DOMAIN since[k] = DOMAIN resources[k]
            /\ \A n \in DOMAIN since[k] : since[k][n].at = FirstSeen(history[k], n)
  /\ \A k \in DOMAIN listing.shown :
       LET v == listing.shown[k] IN
       v.reported /\ ~v.raced =>
         DOMAIN v.times = DOMAIN v.content /\ \A n \in DOMAIN v.times : v.times[n] = FirstSeen(v.held, n)
=============================================================================
