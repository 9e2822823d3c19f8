---------------------------- MODULE Subscriptions ----------------------------
(***************************************************************************)
(* Subscriptions and the notifications they cause: the subscription store  *)
(* with its indexes and snapshot file, the POST and DELETE of a            *)
(* subscription, the clean up when the device that made them is deleted    *)
(* and when its store key is given out again, and the notification manager *)
(* with its bounded queue, its workers and its shutdown.                   *)
(*                                                                         *)
(* Requests and workers are goroutines: each is a process whose steps are  *)
(* the critical sections of the code.  The device stores are reduced to    *)
(* who occupies a key: a number that grows with each registration.         *)
(***************************************************************************)
EXTENDS Integers, Sequences, FiniteSets, FiniteSetsExt

CONSTANTS Devices,     \* store keys of EndDevices
          Ids,         \* subscription ids, each minted once
          Requests,    \* request goroutines
          Workers,     \* the manager's workers
          QueueSize,   \* its queue
          SubBudgets,     \* bound: how often each thing happens in one behaviour
          MaxGen,      \* bound: registrations per key, and device deletes
          None

\* "/edev", which every device may read, or the record of one device.
EndDeviceList == "edev"
Resources == {EndDeviceList} \cup Devices

VARIABLES
    recs,       \* id -> the stored subscription, or None
    indexed,    \* the ids in the resource and device indexes
    disk,       \* the snapshot file
    persistMu,  \* who writes the snapshot, or None
    gen,        \* device key -> its occupant, 0 when vacant
    lastGen,    \* device key -> occupants so far
    subManager,  \* device -> its manager, or None
    proc,       \* what each goroutine does
    queue,      \* the manager's queue
    cancelled,  \* the manager's context is done
    closed,     \* Close has run
    answered,   \* id -> the last answer a client had about it
    subLeft,    \* what is left of the budget
    minted,     \* the ids given out
    unswept     \* ids a registration's sweep could not see when it gave out
                \* the key: gone from memory with the file still to be written,
                \* or stored by a POST that has not indexed them yet

subStore == <<recs, indexed, disk, persistMu>>
devVars == <<gen, lastGen, subManager>>
mgrVars == <<queue, cancelled, closed>>
subVars == <<subStore, devVars, proc, mgrVars, answered, subLeft, minted, unswept>>

Procs == Requests \cup Workers

\* todo: ids still to remove; send: tasks still to queue; deleted: those of
\* the notice that a device is gone, made before it goes.
NoSubWork == [op |-> "idle", pc |-> "idle", dev |-> None, res |-> None, id |-> None,
         gen |-> 0, todo |-> {}, removed |-> 0, snap |-> None, send |-> <<>>,
         deleted |-> <<>>]

NoRecs == [i \in Ids |-> None]

InitSubs ==
    /\ recs = NoRecs /\ indexed = {} /\ disk = NoRecs /\ persistMu = None
    /\ gen = [d \in Devices |-> 1] /\ lastGen = gen
    /\ subManager = [d \in Devices |-> None]
    /\ proc = [p \in Procs |-> NoSubWork]
    /\ queue = <<>> /\ cancelled = FALSE /\ closed = FALSE
    /\ answered = [i \in Ids |-> "nothing"]
    /\ subLeft \in SubBudgets /\ minted = {} /\ unswept = {}

At(p, op, pc) == proc[p].op = op /\ proc[p].pc = pc
GoSub(p, pc) == proc' = [proc EXCEPT ![p].pc = pc]
EndSub(p) == proc' = [proc EXCEPT ![p] = NoSubWork]
Spend(what) == subLeft[what] > 0 /\ subLeft' = [subLeft EXCEPT ![what] = @ - 1]

-----------------------------------------------------------------------------
(* Who may read what: ownershipGate.canRead and checkSubscriber *)

\* decideFor on a read route: the device itself, or its manager.
canRead(d, res) ==
    res \in Devices => gen[res] # 0 /\ d \in {res, subManager[res]}

\* A subscriber that is gone, or is now managed, is sent nothing.
checkSubscriber(d, res) == gen[d] # 0 /\ subManager[d] = None /\ canRead(d, res)

\* Manager.recipients: the indexed subscriptions to res, checked now.
recipients(res) ==
    {i \in indexed : recs[i] # None /\ recs[i].res = res
                     /\ checkSubscriber(recs[i].dev, res)}

\* notifyRecipients: one task each, in any order.
tasks(ids, recheck) ==
    LET order == CHOOSE s \in [1..Cardinality(ids) -> ids] :
                     \A i, j \in DOMAIN s : s[i] = s[j] => i = j
    IN [n \in DOMAIN order |->
          [id |-> order[n], dev |-> recs[order[n]].dev, res |-> recs[order[n]].res,
           recheck |-> recheck]]

\* trySend, under closeMu: refused when closed, dropped when full.
queueAfter(task) ==
    IF closed \/ Len(queue) >= QueueSize THEN queue ELSE Append(queue, task)

-----------------------------------------------------------------------------
(* The snapshot: persistSnapshot holds persistMu over the copy of the      *)
(* records and the write of the file.                                      *)

\* A snapshot copied before the lock is taken.
copyEarly(p) ==
    /\ proc[p].pc = "persist" /\ proc[p].snap = None
    /\ proc' = [proc EXCEPT ![p].snap = recs]
    /\ UNCHANGED <<subStore, devVars, mgrVars, answered, subLeft, minted, unswept>>

copyRecords(p) ==
    /\ proc[p].pc = "persist" /\ persistMu = None
    /\ persistMu' = p
    /\ proc' = [proc EXCEPT ![p].snap = recs]
    /\ UNCHANGED <<recs, indexed, disk, devVars, mgrVars, answered, subLeft, minted, unswept>>

\* Where an operation goes on once its snapshot is written, or has failed.
\* A worker only logs a failure.
AfterPersist(p, ok) ==
    LET op == proc[p].op
    IN CASE op = "create" ->
              /\ EndSub(p)
              /\ answered' = [answered EXCEPT ![proc[p].id] = IF ok THEN "made" ELSE @]
              /\ UNCHANGED <<gen, lastGen>>
         [] op = "delete" ->
              /\ IF ok THEN proc' = [proc EXCEPT ![p].pc = "removed", ![p].snap = None]
                 ELSE EndSub(p)
              /\ answered' = [answered EXCEPT ![proc[p].id] = IF ok THEN "gone" ELSE @]
              /\ UNCHANGED <<gen, lastGen>>
         [] op = "register" ->
              /\ IF ok THEN proc' = [proc EXCEPT ![p].pc = "occupy", ![p].snap = None]
                 ELSE EndSub(p)
              /\ UNCHANGED <<answered, gen, lastGen>>
         [] OTHER -> EndSub(p) /\ UNCHANGED <<answered, gen, lastGen>>

writeFile(p) ==
    /\ proc[p].pc = "persist" /\ proc[p].snap # None
    /\ persistMu \in {p, None}
    /\ persistMu' = None
    /\ \E ok \in BOOLEAN :
         /\ IF ok THEN disk' = proc[p].snap /\ UNCHANGED subLeft
            ELSE UNCHANGED disk /\ Spend("fault")
         /\ AfterPersist(p, ok)
    /\ UNCHANGED <<recs, indexed, subManager, mgrVars, minted, unswept>>

-----------------------------------------------------------------------------
(* POST /edev/{id}/sub *)

HandleCreateSubscription(p, d, res) ==
    /\ Spend("create") /\ At(p, "idle", "idle")
    /\ gen[d] # 0 /\ subManager[d] = None
    /\ canRead(d, res)
    /\ proc' = [proc EXCEPT ![p] = [NoSubWork EXCEPT !.op = "create", !.pc = "validate",
                                      !.dev = d, !.res = res, !.gen = gen[d]]]
    /\ UNCHANGED <<subStore, devVars, mgrVars, answered, minted, unswept>>

\* The destination is resolved, for up to five seconds, and may be refused;
\* then an id is minted and the record stored.
storeCreated(p) ==
    LET q == proc[p]
    IN /\ At(p, "create", "validate")
       /\ \/ EndSub(p) /\ UNCHANGED <<recs, minted>>
          \/ \E i \in Ids \ minted :
               /\ i = CHOOSE k \in Ids \ minted : TRUE
               /\ minted' = minted \cup {i}
               /\ recs' = [recs EXCEPT ![i] = [dev |-> q.dev, res |-> q.res,
                                                gen |-> q.gen, late |-> FALSE]]
               /\ proc' = [proc EXCEPT ![p].pc = "index", ![p].id = i]
       /\ UNCHANGED <<indexed, disk, persistMu, devVars, mgrVars, answered, subLeft, unswept>>

\* indexSub.  The record remembers whether its device went while the request
\* was in flight.
indexSub(p) ==
    LET i == proc[p].id
    IN /\ At(p, "create", "index")
       /\ indexed' = indexed \cup {i}
       /\ recs' = IF recs[i] = None THEN recs
                  ELSE [recs EXCEPT ![i].late = gen[proc[p].dev] # proc[p].gen]
       /\ GoSub(p, "persist")
       /\ UNCHANGED <<disk, persistMu, devVars, mgrVars, answered, subLeft, minted, unswept>>

-----------------------------------------------------------------------------
(* DELETE of a subscription, by its device or by a worker after a 4xx *)

HandleDeleteSubscription(p, i) ==
    /\ Spend("delete") /\ At(p, "idle", "idle")
    /\ recs[i] # None /\ answered[i] = "made"
    /\ gen[recs[i].dev] # 0 /\ subManager[recs[i].dev] = None
    /\ proc' = [proc EXCEPT ![p] = [NoSubWork EXCEPT !.op = "delete", !.pc = "unindex",
                                      !.id = i, !.dev = recs[i].dev, !.res = recs[i].res]]
    /\ UNCHANGED <<subStore, devVars, mgrVars, answered, minted, unswept>>

\* A removal that leaves the id in the index.
keepIndex(p) ==
    LET i == proc[p].id
    IN /\ proc[p].op \in {"delete", "post"} /\ proc[p].pc = "unindex"
       /\ IF recs[i] = None THEN EndSub(p) ELSE GoSub(p, "remove")
       /\ UNCHANGED <<subStore, devVars, mgrVars, answered, subLeft, minted, unswept>>

\* removeOne: the index first, then the record.
unindexSub(p) ==
    LET i == proc[p].id
    IN /\ proc[p].op \in {"delete", "post"} /\ proc[p].pc = "unindex"
       /\ IF recs[i] = None THEN EndSub(p) /\ UNCHANGED indexed
          ELSE GoSub(p, "remove") /\ indexed' = indexed \ {i}
       /\ UNCHANGED <<recs, disk, persistMu, devVars, mgrVars, answered, subLeft, minted, unswept>>

removeRecord(p) ==
    LET i == proc[p].id
    IN /\ proc[p].op \in {"delete", "post"} /\ proc[p].pc = "remove"
       /\ IF recs[i] = None THEN EndSub(p) /\ UNCHANGED recs
          ELSE recs' = [recs EXCEPT ![i] = None] /\ GoSub(p, "persist")
       /\ UNCHANGED <<indexed, disk, persistMu, devVars, mgrVars, answered, subLeft, minted, unswept>>

\* NotifyRemoved, after the delete: no id, so that a 4xx deletes nothing.
NotifyRemoved(p) ==
    /\ At(p, "delete", "removed")
    /\ queue' = queueAfter([id |-> None, dev |-> proc[p].dev, res |-> proc[p].res,
                            recheck |-> FALSE])
    /\ EndSub(p)
    /\ UNCHANGED <<subStore, devVars, cancelled, closed, answered, subLeft, minted, unswept>>

-----------------------------------------------------------------------------
(* The clean up of a device's subscriptions *)

\* Its own, and those others hold on its record.
deviceSubscriptionIDs(d) ==
    {i \in indexed : recs[i] # None /\ (recs[i].dev = d \/ recs[i].res = d)}

\* DELETE /edev/{id}: the notice's recipients are chosen first, then the
\* device goes, the list change and the notice are queued, and the
\* subscriptions are cleaned up.
HandleDeleteEndDevice(p, d) ==
    /\ Spend("deleteDevice") /\ At(p, "idle", "idle")
    /\ gen[d] # 0 /\ lastGen[d] < MaxGen
    /\ proc' = [proc EXCEPT ![p] = [NoSubWork EXCEPT !.op = "deleteDevice", !.pc = "gone",
                                      !.dev = d, !.deleted = tasks(recipients(d), FALSE)]]
    /\ UNCHANGED <<subStore, devVars, mgrVars, answered, minted, unswept>>

deviceGone(p) ==
    /\ At(p, "deleteDevice", "gone")
    /\ IF gen[proc[p].dev] = 0 THEN EndSub(p) /\ UNCHANGED gen
       ELSE gen' = [gen EXCEPT ![proc[p].dev] = 0] /\ GoSub(p, "list")
    /\ UNCHANGED <<subStore, lastGen, subManager, mgrVars, answered, subLeft, minted, unswept>>

notifyList(p) ==
    /\ At(p, "deleteDevice", "list")
    /\ proc' = [proc EXCEPT ![p].pc = "send",
                  ![p].send = tasks(recipients(EndDeviceList), TRUE) \o proc[p].deleted]
    /\ UNCHANGED <<subStore, devVars, mgrVars, answered, subLeft, minted, unswept>>

\* One task is queued.
enqueue(p) ==
    /\ proc[p].pc = "send" /\ proc[p].send # <<>>
    /\ queue' = queueAfter(Head(proc[p].send))
    /\ proc' = [proc EXCEPT ![p].send = Tail(@)]
    /\ UNCHANGED <<subStore, devVars, cancelled, closed, answered, subLeft, minted, unswept>>

afterSend(p) ==
    /\ proc[p].pc = "send" /\ proc[p].send = <<>>
    /\ IF proc[p].op = "deleteDevice"
       THEN proc' = [proc EXCEPT ![p].pc = "clean",
                       ![p].todo = deviceSubscriptionIDs(proc[p].dev)]
       ELSE EndSub(p)
    /\ UNCHANGED <<subStore, devVars, mgrVars, answered, subLeft, minted, unswept>>

\* A device stored with no sweep.
registerUnswept(p, d) ==
    /\ Spend("register") /\ At(p, "idle", "idle")
    /\ gen[d] = 0 /\ lastGen[d] < MaxGen
    /\ proc' = [proc EXCEPT ![p] = [NoSubWork EXCEPT !.op = "register", !.pc = "occupy",
                                      !.dev = d]]
    /\ UNCHANGED <<subStore, devVars, mgrVars, answered, minted, unswept>>

\* POST /edev giving out a vacant key: what a failed DELETE left is swept
\* before the record is stored.  The handler's mutex makes it one at a time.
HandleCreateEndDevice(p, d) ==
    /\ Spend("register") /\ At(p, "idle", "idle")
    /\ gen[d] = 0 /\ lastGen[d] < MaxGen
    /\ \A q \in Requests : proc[q].op # "register"
    /\ proc' = [proc EXCEPT ![p] = [NoSubWork EXCEPT !.op = "register", !.pc = "clean",
                                      !.dev = d, !.todo = deviceSubscriptionIDs(d)]]
    /\ UNCHANGED <<subStore, devVars, mgrVars, answered, minted, unswept>>

\* deleteDevice: one at a time; one already gone is passed over.
cleanOne(p) ==
    \E i \in proc[p].todo :
       /\ proc[p].pc = "clean"
       /\ proc' = [proc EXCEPT ![p].todo = @ \ {i},
                     ![p].removed = @ + (IF recs[i] = None THEN 0 ELSE 1)]
       /\ IF recs[i] = None THEN UNCHANGED <<recs, indexed>>
          ELSE recs' = [recs EXCEPT ![i] = None] /\ indexed' = indexed \ {i}
       /\ UNCHANGED <<disk, persistMu, devVars, mgrVars, answered, subLeft, minted, unswept>>

\* Nothing removed, no snapshot.
cleaned(p) ==
    /\ proc[p].pc = "clean" /\ proc[p].todo = {}
    /\ IF proc[p].removed > 0 THEN GoSub(p, "persist")
       ELSE IF proc[p].op = "register" THEN GoSub(p, "occupy") ELSE EndSub(p)
    /\ UNCHANGED <<subStore, devVars, mgrVars, answered, subLeft, minted, unswept>>

\* What is out of the index and yet in memory, in the file, or in a copy of
\* the records on its way to the file.
UnseenBySweep ==
    {i \in Ids \ indexed :
        \E copy \in {recs, disk} \cup ({proc[p].snap : p \in Procs} \ {None}) : copy[i] # None}

occupy(p) ==
    LET d == proc[p].dev
    IN /\ At(p, "register", "occupy")
       /\ IF gen[d] = 0
          THEN /\ gen' = [gen EXCEPT ![d] = lastGen[d] + 1]
               /\ lastGen' = [lastGen EXCEPT ![d] = @ + 1]
               /\ unswept' = unswept \cup UnseenBySweep
          ELSE UNCHANGED <<gen, lastGen, unswept>>
       /\ EndSub(p)
       /\ UNCHANGED <<subStore, subManager, mgrVars, answered, subLeft, minted>>

-----------------------------------------------------------------------------
(* Notifications *)

\* A change of a resource: flow reservation responses, programs, controls.
Notify(p, res) ==
    /\ Spend("notify") /\ At(p, "idle", "idle")
    /\ proc' = [proc EXCEPT ![p] = [NoSubWork EXCEPT !.op = "notify", !.pc = "send",
                                      !.send = tasks(recipients(res), TRUE)]]
    /\ UNCHANGED <<subStore, devVars, mgrVars, answered, minted, unswept>>

\* A worker takes a task; with the context done it drops it, and a recheck
\* that fails withholds it.
worker(w) ==
    LET task == Head(queue)
    IN /\ w \in Workers /\ At(w, "idle", "idle") /\ queue # <<>>
       /\ queue' = Tail(queue)
       /\ IF cancelled \/ (task.recheck /\ ~checkSubscriber(task.dev, task.res))
          THEN UNCHANGED proc
          ELSE proc' = [proc EXCEPT ![w] = [NoSubWork EXCEPT !.op = "post", !.pc = "deliver",
                                              !.id = task.id, !.dev = task.dev]]
       /\ UNCHANGED <<subStore, devVars, cancelled, closed, answered, subLeft, minted, unswept>>

\* The POST succeeds, fails, or answers 4xx, which deletes the subscription.
deliver(w) ==
    /\ w \in Workers /\ At(w, "post", "deliver")
    /\ \/ EndSub(w)
       \/ proc[w].id # None /\ ~cancelled /\ GoSub(w, "unindex")
    /\ UNCHANGED <<subStore, devVars, mgrVars, answered, subLeft, minted, unswept>>

\* A worker leaves when the closed queue is empty.
leave(w) ==
    /\ w \in Workers /\ At(w, "idle", "idle") /\ closed /\ queue = <<>>
    /\ proc' = [proc EXCEPT ![w].op = "stopped"]
    /\ UNCHANGED <<subStore, devVars, mgrVars, answered, subLeft, minted, unswept>>

\* Start: the context ends, and Close closes the queue.
Cancel ==
    /\ Spend("shutdown") /\ ~cancelled
    /\ cancelled' = TRUE
    /\ UNCHANGED <<subStore, devVars, proc, queue, closed, answered, minted, unswept>>

\* A shutdown that forgets to close the queue.
neverClose == FALSE /\ UNCHANGED subVars

Close ==
    /\ cancelled /\ ~closed
    /\ closed' = TRUE
    /\ UNCHANGED <<subStore, devVars, proc, queue, cancelled, answered, subLeft, minted, unswept>>

-----------------------------------------------------------------------------
\* The operator pairs a device with a manager, or ends the pair.
SetManager(d, m) ==
    /\ Spend("pair") /\ m # d /\ m # subManager[d]
    /\ m # None => subManager[m] = None /\ \A e \in Devices : subManager[e] # d
    /\ subManager' = [subManager EXCEPT ![d] = m]
    /\ UNCHANGED <<subStore, gen, lastGen, proc, mgrVars, answered, minted, unswept>>

\* The process dies and starts again: LoadFromFile indexes what is on disk.
Crash ==
    /\ Spend("crash")
    /\ recs' = disk /\ indexed' = {i \in Ids : disk[i] # None}
    /\ persistMu' = None
    /\ proc' = [p \in Procs |-> NoSubWork]
    /\ queue' = <<>> /\ cancelled' = FALSE /\ closed' = FALSE
    /\ UNCHANGED <<disk, devVars, answered, minted, unswept>>

Step(p) ==
    \/ copyRecords(p) \/ writeFile(p)
    \/ storeCreated(p) \/ indexSub(p)
    \/ unindexSub(p) \/ removeRecord(p) \/ NotifyRemoved(p)
    \/ deviceGone(p) \/ notifyList(p) \/ enqueue(p) \/ afterSend(p)
    \/ cleanOne(p) \/ cleaned(p) \/ occupy(p)
    \/ worker(p) \/ deliver(p) \/ leave(p)

SubArrive(p) ==
    \/ \E d \in Devices, res \in Resources : HandleCreateSubscription(p, d, res)
    \/ \E i \in Ids : HandleDeleteSubscription(p, i)
    \/ \E d \in Devices : HandleDeleteEndDevice(p, d) \/ HandleCreateEndDevice(p, d)
    \/ \E res \in Resources : Notify(p, res)

SubsNext ==
    \/ \E p \in Procs : Step(p)
    \/ \E p \in Requests : SubArrive(p)
    \/ \E d \in Devices, m \in Devices \cup {None} : SetManager(d, m)
    \/ Cancel \/ Close \/ Crash

SubsSpec == InitSubs /\ [][SubsNext]_subVars

\* A goroutine that can run does, the client of a POST gives up after its
\* timeout, and Start's goroutine closes the queue.
FairSubs == SubsSpec /\ (\A p \in Procs : WF_subVars(Step(p))) /\ WF_subVars(Close)

-----------------------------------------------------------------------------
Quiet == \A p \in Procs : proc[p].op \in {"idle", "stopped", "notify"}

\* The indexes hold exactly the stored subscriptions when no write is in
\* progress, whoever removed them in whatever order: a client, a worker that
\* had a 4xx, the clean up of a device.  A stored subscription outside the
\* index is never notified and never cleaned up (subscription.go:45-110).
IndexAgrees == Quiet => indexed = {i \in Ids : recs[i] # None}

\* The file agrees with the answers: a subscription a client was told of is
\* on disk for as long as it is stored, and one whose deletion was answered
\* is not, whichever order concurrent writers reach the file in
\* (persistSnapshot copies the records while it holds the file).
AnswersOnDisk ==
    \A i \in Ids :
        /\ answered[i] = "made" /\ recs[i] # None => disk[i] # None
        /\ answered[i] = "gone" => disk[i] = None

Inherited(i) ==
    /\ i \in indexed /\ recs[i] # None /\ ~recs[i].late
    /\ gen[recs[i].dev] \notin {0, recs[i].gen}
    /\ \A p \in Procs : proc[p].pc = "idle" \/ proc[p].dev # recs[i].dev

\* A new occupant of a device key has none of the old one's subscriptions,
\* also when the clean up after the delete races the registration or a crash
\* cut it short, except those the sweep cannot see (unswept) and one whose
\* POST was in flight when the old occupant went (EndDeviceCleanup and
\* sweepVacantID).
NotInherited == \A i \in Ids \ unswept : ~Inherited(i)

\* What is stored of the subscriptions is what clients were told, and of the
\* device it names: IndexAgrees, AnswersOnDisk and NotInherited.
SubscriptionsKept == IndexAgrees /\ AnswersOnDisk /\ NotInherited

\* Once its context is done the manager stops: every worker drains what is
\* queued and leaves, whatever it was doing (Start waits for them).
ShutdownEnds == cancelled ~> (\A w \in Workers : proc[w].op = "stopped") \/ ~cancelled
=============================================================================
