-------------------------- MODULE ReservationDesk --------------------------
(***************************************************************************)
(* The flow reservation routes of the admin plane and of the device, and   *)
(* the retention sweep, on the requests of one EndDevice                   *)
(* (internal/handler/admin_flowreservation*.go,                            *)
(* pkg/sep2srv/handlers/flow_reservation, internal/flowreservation).       *)
(*                                                                         *)
(* The response to request q is stored under <<q, 0>> and its i-th         *)
(* revision under <<q, i>>.  Each response may have a lifecycle record     *)
(* (cancelled or not) and an answer record (who answered, who cancelled).  *)
(* What the ledger does to the controls of a grant is CommitmentLedger's    *)
(* and the queue's timers and retries are FlowReservationQueue's.  Every   *)
(* store access that another route can meet is a step of its own.          *)
(***************************************************************************)
EXTENDS Integers, Sequences, FiniteSets, FiniteSetsExt

CONSTANTS
  Requests,         \* requests the device may make
  Callers,          \* operators, and the device's own PUT
  MaxRevs,          \* bound on revisions of one answer
  Ends,             \* when a granted window may end
  Grace,            \* the retention grace
  MaxNow,           \* bound on the clock
  MaxCancelPasses,
  ResvBudgets       \* bounds on calls and faults: [answer, due, revise, cancel, put, look, sweep, fault, crash, leave]

ASSUME ReservationAssumption ==
  /\ MaxRevs \in Nat /\ MaxNow \in Nat /\ Grace \in Nat \ {0} /\ MaxCancelPasses \in Nat \ {0} /\ Ends \subseteq Nat

Ids == Requests \X (0..MaxRevs)
Builders == Callers \cup {"deadline"}     \* who may answer a request
Nobody == "nobody"
SomeRequest == CHOOSE q \in Requests : TRUE
NoResponse == [kind |-> "none", end |-> 0, made |-> 0, by |-> Nobody]
NoRecord == [by |-> Nobody, cancelledBy |-> Nobody]
NoCall == [at |-> "idle", q |-> SomeRequest, seen |-> "none", tip |-> 0, next |-> 0, prev |-> NoRecord,
           len |-> 0, pass |-> 0, done |-> {}, err |-> {}, wrote |-> FALSE, reply |-> "none"]
NoBuild == [at |-> "none", q |-> SomeRequest, kind |-> "denial", end |-> 0, prev |-> NoRecord]
NoSweep == [at |-> "idle", now |-> 0, left |-> {}, q |-> SomeRequest, todo |-> {}, orphan |-> FALSE, touched |-> FALSE]
NoReader == [at |-> "idle", op |-> "list", now |-> 0, seen |-> [q \in Requests |-> "none"], answered |-> {}, todo |-> {},
             q |-> SomeRequest, gone |-> FALSE, read |-> <<>>, views |-> <<>>, rows |-> {}]

VARIABLES
  frq,        \* the requests: "none", "requested" or "cancelled"
  resps,      \* the responses by id
  marked,     \* the ids whose lifecycle record says cancelled
  answers,    \* the answer records by id
  now,        \* the clock
  inFleet,    \* whether the device has a fleet
  call,       \* what each caller's handler is doing
  build,      \* what each Queue.build is doing
  pruned,     \* the requests whose key lock a build has pruned
  reader,     \* what a read of the list, or of its pollRate, is doing
  sweep,      \* what the retention sweep is doing
  fleetLock,  \* who holds the fleet's lock, or "free"
  untold,     \* who has changed the list and not yet notified
  answeredOnce,  \* the requests that have been answered (history)
  astray,     \* the ids whose answer record may name another (history): see AnswererIsTrue
  resvLeft    \* what is left of the budget

stores == <<frq, resps, marked, answers>>
builds == <<build, pruned>>
resvVars == <<frq, resps, marked, answers, now, inFleet, call, build, pruned, reader, sweep, fleetLock, untold, answeredOnce, astray, resvLeft>>

InitReservations ==
  /\ frq = [q \in Requests |-> "none"] /\ resps = [i \in Ids |-> NoResponse]
  /\ marked = {} /\ answers = [i \in Ids |-> NoRecord]
  /\ now = 0 /\ inFleet = TRUE
  /\ call = [c \in Callers |-> NoCall] /\ build = [b \in Builders |-> NoBuild] /\ pruned = {}
  /\ reader = NoReader /\ sweep = NoSweep /\ fleetLock = "free"
  /\ untold = {} /\ answeredOnce = {} /\ astray = {} /\ resvLeft \in ResvBudgets

ResvSpend(what) == resvLeft[what] > 0 /\ resvLeft' = [resvLeft EXCEPT ![what] = @ - 1]
-----------------------------------------------------------------------------
(* Reads. *)

\* ChainOf: the responses up to the first id that has none.
chainLen(q) == Cardinality({i \in 0..MaxRevs : \A j \in 0..i : resps[<<q, j>>].kind # "none"})
chain(q) == {<<q, i>> : i \in 0..(chainLen(q) - 1)}

liveGrant(id) == resps[id].kind = "grant" /\ id \notin marked /\ now < resps[id].end
anyLiveGrant(q) == \E id \in chain(q) : liveGrant(id)

\* Mutant: the last answer stands for all.
endedAtTip(q, t) == chainLen(q) > 0 /\ LET r == resps[<<q, chainLen(q) - 1>>] IN Max({r.end, r.made}) + Grace <= t

endsAt(id) == Max({resps[id].end, resps[id].made})
ended(q, t) == chainLen(q) > 0 /\ \A id \in chain(q) : endsAt(id) + Grace <= t

-----------------------------------------------------------------------------
(* The reads of the list by operators, and of its pollRate by the device.    *)
(* No lock is taken: the requests are listed first, then the responses of    *)
(* each are read, and then the records of each response.                     *)

\* fleetViews and NewPendingCheck: the requests are listed.
ListReads(op) ==
  /\ reader.at = "idle" /\ ResvSpend("look")
  /\ reader' = [NoReader EXCEPT !.at = "listed", !.op = op, !.now = now, !.seen = frq, !.answered = answeredOnce,
                 !.todo = {q \in Requests : IF op = "list" THEN inFleet /\ frq[q] # "none" ELSE frq[q] = "requested"}]
  /\ UNCHANGED <<stores, now, inFleet, call, builds, sweep, fleetLock, untold, answeredOnce, astray>>

eventStatusWord(id) ==
  CASE id \in marked -> "cancelled"
    [] resps[id].kind = "grant" -> "scheduled or active"
    [] OTHER -> "none"
actorOf(who) == IF who = Nobody THEN "unrecorded" ELSE who

\* "unanswered" is pending, and overdue once the deadline is past.
chainState(views, t) ==
  LET tip == views[Len(views)] IN
  CASE views = <<>> -> "unanswered"
    [] tip.denial -> "denied"
    [] tip.status = "cancelled" -> "cancelled"
    [] t >= tip.end -> "ended"
    [] OTHER -> "granted"
stateOf(request, views, t) ==
  IF request = "cancelled" /\ chainState(views, t) # "granted" THEN "withdrawn" ELSE chainState(views, t)

\* A request's row, once the records of all its responses are read.
Row(v) == [q |-> v.q, state |-> stateOf(v.seen[v.q], v.views, v.now), gone |-> v.gone, responses |-> v.views]
Rowed(v) ==
  IF Len(v.views) < Len(v.read) THEN v
  ELSE [v EXCEPT !.at = "listed", !.rows = @ \cup {Row(v)}, !.q = SomeRequest, !.gone = FALSE, !.read = <<>>, !.views = <<>>]

\* viewOf up to the loop over the responses.
viewOf(q) ==
  /\ reader.at = "listed" /\ reader.op = "list" /\ q \in reader.todo
  /\ reader' = Rowed([reader EXCEPT !.at = "responses", !.q = q, !.gone = frq[q] = "none", !.todo = @ \ {q},
                       !.read = [i \in 1..chainLen(q) |-> LET id == <<q, i - 1>> IN
                                   [id |-> id, denial |-> resps[id].kind = "denial", end |-> resps[id].end,
                                    status |-> eventStatusWord(id), by |-> resps[id].by]]])
  /\ UNCHANGED <<stores, now, inFleet, call, builds, sweep, fleetLock, untold, answeredOnce, astray, resvLeft>>

\* Whether a record at id may be another attempt's: one has written its
\* record, and neither stored its response nor taken the record back.
Contended(id) == \E b \in Builders : build[b].at = "create" /\ <<build[b].q, 0>> = id

\* responseView: the records of the next response.
responseView ==
  /\ reader.at = "responses"
  /\ LET r == reader.read[Len(reader.views) + 1]
         view == [id |-> r.id, denial |-> r.denial, end |-> r.end, status |-> r.status, by |-> r.by,
                  answeredBy |-> actorOf(answers[r.id].by),
                  cancelledBy |-> IF r.status = "cancelled" THEN actorOf(answers[r.id].cancelledBy) ELSE "none",
                  settled |-> resps[r.id].by = r.by /\ r.id \notin astray /\ ~Contended(r.id)]
     IN reader' = Rowed([reader EXCEPT !.views = Append(@, view)])
  /\ UNCHANGED <<stores, now, inFleet, call, builds, sweep, fleetLock, untold, answeredOnce, astray, resvLeft>>

\* NewPendingCheck: the first request without a response settles it.
PendingCheck(q) ==
  /\ reader.at = "listed" /\ reader.op = "poll" /\ q \in reader.todo
  /\ reader' = IF resps[<<q, 0>>].kind # "none" THEN [reader EXCEPT !.todo = @ \ {q}]
               ELSE [reader EXCEPT !.todo = {}, !.rows = {Row([reader EXCEPT !.q = q, !.gone = frq[q] = "none"])}]
  /\ UNCHANGED <<stores, now, inFleet, call, builds, sweep, fleetLock, untold, answeredOnce, astray, resvLeft>>

\* HandleList writes the rows; a pollRate is pending when there is one.
HandleList ==
  /\ reader.at = "listed" /\ reader.todo = {} /\ reader' = NoReader
  /\ UNCHANGED <<stores, now, inFleet, call, builds, sweep, fleetLock, untold, answeredOnce, astray, resvLeft>>
-----------------------------------------------------------------------------
(* Answer records. *)

\* intend: the record is written before the response and replaces the record
\* an earlier attempt left at the id.  Mutant: it is left as it is found.
intendKeeps(id, who) == IF answers[id].by # Nobody THEN answers ELSE [answers EXCEPT ![id] = [by |-> who, cancelledBy |-> Nobody]]

intend(id, who) == [answers EXCEPT ![id] = [by |-> who, cancelledBy |-> Nobody]]

\* RecordCancel, after the cancel.
RecordCancel(ids, who) == [id \in Ids |-> IF id \in ids THEN [answers[id] EXCEPT !.cancelledBy = who] ELSE answers[id]]

Response(kind, end, who) == [kind |-> kind, end |-> end, made |-> now, by |-> who]

\* recorded's undo: what the id held before is put back, unless another
\* attempt has taken the record away meanwhile.
takeBack(id, prev) == IF prev # NoRecord /\ answers[id] = NoRecord THEN answers ELSE [answers EXCEPT ![id] = prev]

-----------------------------------------------------------------------------
(* The device's POST. *)

HandlePostFlowReservationRequest(q) ==
  /\ frq[q] = "none" /\ q \notin answeredOnce /\ chainLen(q) = 0
  /\ frq' = [frq EXCEPT ![q] = "requested"]
  /\ UNCHANGED <<resps, marked, answers, now, inFleet, call, builds, reader, sweep, fleetLock, untold, answeredOnce, astray, resvLeft>>

-----------------------------------------------------------------------------
Call(c, op) == call[c].at \in {"idle", "done"} /\ ResvSpend(op)
Goes(c, f) == call' = [call EXCEPT ![c] = f]
Done(wrote, code) == [NoCall EXCEPT !.at = "done", !.wrote = wrote, !.reply = code]
Replies(c, code) == Goes(c, Done(call[c].wrote, code))

(* Queue.build, for an operator's answer, a withdrawn request's denial and   *)
(* the deadline.  Its key lock holds the builds of a request apart until one *)
(* of them has ended, which prunes it: later ones may then overlap.          *)

lockKey(q) == q \in pruned \/ \A b \in Builders : build[b].at = "none" \/ build[b].q # q

\* A build ends with code, and its caller goes on.
BuildEnds(b, code) ==
  /\ build' = [build EXCEPT ![b] = NoBuild] /\ pruned' = pruned \cup {build[b].q}
  /\ fleetLock' = IF fleetLock = b THEN "free" ELSE fleetLock
  /\ IF b = "deadline" THEN UNCHANGED call
     ELSE IF call[b].at = "deny" /\ code = "already_answered" THEN Goes(b, [call[b] EXCEPT !.at = "walk"])
     ELSE Goes(b, Done(code = "ok", code))

\* buildLocked up to its call of store: the request has no response yet, and
\* a grant needs one that is not withdrawn.
buildLocked(b, q, kind, end) ==
  /\ build[b].at = "none" /\ lockKey(q)
  /\ resps[<<q, 0>>].kind = "none" /\ frq[q] # "none" /\ (kind = "grant" => frq[q] = "requested")
  /\ build' = [build EXCEPT ![b] = [NoBuild EXCEPT !.at = "store", !.q = q, !.kind = kind, !.end = end]]
  /\ UNCHANGED <<stores, now, inFleet, call, pruned, reader, sweep, fleetLock, untold, answeredOnce, astray>>

\* attemptFallback, at the deadline and again after a failure.
deadlineFallback(q) ==
  /\ ResvSpend("due")
  /\ buildLocked("deadline", q, "denial", 0) \/ \E e \in Ends : buildLocked("deadline", q, "grant", e)

\* store: a grant takes the fleet's lock; then intend reads the record.
store(b) ==
  LET f == build[b] IN
  /\ f.at = "store"
  /\ IF f.kind = "grant" THEN inFleet /\ fleetLock = "free" /\ fleetLock' = b ELSE UNCHANGED fleetLock
  /\ build' = [build EXCEPT ![b].at = "write", ![b].prev = answers[<<f.q, 0>>]]
  /\ UNCHANGED <<stores, now, inFleet, call, pruned, reader, sweep, untold, answeredOnce, astray, resvLeft>>

\* The gate refuses a grant: the calendar holds its window, or the check failed.
GateRefuses(b) ==
  /\ build[b].at = "store" /\ build[b].kind = "grant"
  /\ IF inFleet THEN fleetLock = "free" /\ BuildEnds(b, "conflict") ELSE BuildEnds(b, "internal")
  /\ UNCHANGED <<stores, now, inFleet, reader, sweep, untold, answeredOnce, astray, resvLeft>>

\* intend writes the record, unless another attempt has created or removed
\* one since it was read.
IntendWrites(b) ==
  LET f == build[b]
      id == <<f.q, 0>>
  IN
  /\ f.at = "write"
  /\ IF (f.prev = NoRecord) = (answers[id] = NoRecord)
     THEN /\ answers' = intend(id, b) /\ build' = [build EXCEPT ![b].at = "create"]
          /\ astray' = IF answers[id] = f.prev THEN astray ELSE astray \cup {id}
          /\ UNCHANGED <<call, pruned, fleetLock>>
     ELSE BuildEnds(b, "internal") /\ UNCHANGED <<answers, astray>>
  /\ UNCHANGED <<frq, resps, marked, now, inFleet, reader, sweep, untold, answeredOnce, resvLeft>>

\* An access to a store fails before the record is written.
BuildFails(b) ==
  /\ build[b].at \in {"store", "write"} /\ ResvSpend("fault") /\ BuildEnds(b, "internal")
  /\ UNCHANGED <<stores, now, inFleet, reader, sweep, untold, answeredOnce, astray>>

\* The response is stored, and the list notified of it.
Creates(b) ==
  LET f == build[b]
      id == <<f.q, 0>>
  IN
  /\ f.at = "create" /\ resps[id].kind = "none"
  /\ resps' = [resps EXCEPT ![id] = Response(f.kind, f.end, b)] /\ answeredOnce' = answeredOnce \cup {f.q}
  /\ astray' = IF answers[id].by = b THEN astray \ {id} ELSE astray
  /\ BuildEnds(b, "ok")
  /\ UNCHANGED <<frq, marked, answers, now, inFleet, reader, sweep, untold, resvLeft>>

\* Or it is not, for there is one or the store fails, and the record is
\* taken back, or cannot be.
CreateRefused(b) ==
  LET f == build[b]
      id == <<f.q, 0>>
      free == resps[id].kind = "none"
  IN
  /\ f.at = "create"
  /\ \/ /\ IF free THEN ResvSpend("fault") ELSE UNCHANGED resvLeft
        /\ answers' = takeBack(id, f.prev) /\ astray' = IF answers[id].by = b THEN astray ELSE astray \cup {id}
     \/ ResvSpend("fault") /\ astray' = astray \cup {id} /\ UNCHANGED answers
  /\ BuildEnds(b, IF free THEN "internal" ELSE "already_answered")
  /\ UNCHANGED <<frq, resps, marked, now, inFleet, reader, sweep, untold, answeredOnce>>

BuildStep(b) == store(b) \/ GateRefuses(b) \/ IntendWrites(b) \/ BuildFails(b) \/ Creates(b) \/ CreateRefused(b)
-----------------------------------------------------------------------------
(* The write routes.  target reads the request and its fleet; only an        *)
(* answer needs a fleet.                                                     *)

target(c, op, q) ==
  /\ op \in {"answer", "revise", "cancel"} /\ Call(c, op)
  /\ Goes(c, IF frq[q] = "none" \/ (op = "answer" /\ ~inFleet) THEN Done(FALSE, "request_not_found")
             ELSE [NoCall EXCEPT !.q = q, !.seen = frq[q], !.at = op])
  /\ UNCHANGED <<stores, now, inFleet, builds, reader, sweep, fleetLock, untold, answeredOnce, astray>>

\* HandleAnswer: the operator's decision is built.
HandleAnswer(c, kind, end) == call[c].at = "answer" /\ buildLocked(c, call[c].q, kind, end) /\ UNCHANGED resvLeft

\* What build's first reads refuse, in their order.
refuseAnswer(c) ==
  LET q == call[c].q IN
  /\ call[c].at = "answer" /\ build[c].at = "none" /\ lockKey(q) /\ pruned' = pruned \cup {q}
  /\ IF resps[<<q, 0>>].kind # "none" THEN Replies(c, "already_answered")
     ELSE IF frq[q] = "none" THEN Replies(c, "request_not_found")
     ELSE frq[q] = "cancelled" /\ Replies(c, "request_cancelled")     \* answerFor, for a grant
  /\ UNCHANGED <<stores, now, inFleet, build, reader, sweep, fleetLock, untold, answeredOnce, astray, resvLeft>>

\* HandleRevise up to its call of Revise: the tip is read and must be live.
chainTip(c) ==
  LET q == call[c].q
      tip == <<q, chainLen(q) - 1>>
  IN
  /\ call[c].at = "revise"
  /\ IF call[c].seen = "cancelled" THEN Replies(c, "request_cancelled")
     ELSE IF chainLen(q) = 0 THEN Replies(c, "not_answered")
     ELSE IF ~liveGrant(tip) THEN Replies(c, "grant_not_live")
     ELSE call' = [call EXCEPT ![c].at = "read", ![c].tip = tip[2]]
  /\ UNCHANGED <<stores, now, inFleet, builds, reader, sweep, fleetLock, untold, answeredOnce, astray, resvLeft>>

\* Revise reads the chain again.
ReviseReads(c) ==
  LET q == call[c].q IN
  /\ call[c].at = "read"
  /\ IF chainLen(q) = 0 THEN Replies(c, "not_answered")
     ELSE IF frq[q] = "none" THEN Replies(c, "request_not_found")
     ELSE \/ chainLen(q) <= MaxRevs /\ call' = [call EXCEPT ![c].at = "ledger", ![c].next = chainLen(q), ![c].seen = frq[q]]
          \/ frq[q] = "cancelled" /\ Replies(c, "request_cancelled")     \* answerFor, for a grant
  /\ UNCHANGED <<stores, now, inFleet, builds, reader, sweep, fleetLock, untold, answeredOnce, astray, resvLeft>>

\* Ledger.Revise under the fleet's lock: the revision is recorded and stored.
LedgerRevise(c, kind, end) ==
  LET q == call[c].q
      old == <<q, call[c].next - 1>>
      new == <<q, call[c].next>>
      r == [Response(kind, end, c) EXCEPT !.made = Max({now, resps[old].made + 1})]
      Refused(err) == call' = [call EXCEPT ![c].at = "refuse", ![c].err = {err}] /\ UNCHANGED fleetLock
  IN
  /\ call[c].at = "ledger" /\ fleetLock = "free" /\ (kind = "grant" => call[c].seen = "requested")
  /\ IF resps[old].kind = "none" \/ ~inFleet
     THEN Refused("nogrant") /\ UNCHANGED <<resps, answers, astray, resvLeft>>
     ELSE IF old \in marked \/ resps[old].kind = "denial"
     THEN Refused("conflict") /\ UNCHANGED <<resps, answers, astray, resvLeft>>
     ELSE \/ /\ resps[new].kind = "none"
             /\ resps' = [resps EXCEPT ![new] = r] /\ answers' = intend(new, c) /\ astray' = astray \ {new}
             /\ call' = [call EXCEPT ![c].at = "marking", ![c].prev = answers[new]]
             /\ fleetLock' = c /\ UNCHANGED resvLeft
          \/ /\ IF resps[new].kind = "none" THEN ResvSpend("fault") ELSE UNCHANGED resvLeft
             /\ Refused("store") /\ UNCHANGED <<resps, answers, astray>>
          \/ /\ ResvSpend("fault")     \* and its record could not be taken back
             /\ answers' = intend(new, c) /\ astray' = astray \cup {new}
             /\ Refused("store") /\ UNCHANGED resps
          \/ Refused("conflict") /\ UNCHANGED <<resps, answers, astray, resvLeft>>     \* the calendar refuses
  /\ UNCHANGED <<frq, marked, now, inFleet, builds, reader, sweep, untold, answeredOnce>>

\* Then the grant it replaces is marked.  When that fails the revision is
\* deleted again and its record put back, which may only be logged; a failed
\* undo leaves it stored beside the grant it was to replace.
ReviseMarks(c) ==
  LET q == call[c].q
      new == <<q, call[c].next>>
  IN
  /\ call[c].at = "marking" /\ fleetLock' = "free"
  /\ \/ /\ marked' = marked \cup {<<q, call[c].next - 1>>} /\ untold' = untold \cup {c}
        /\ call' = [call EXCEPT ![c].at = "record", ![c].wrote = TRUE]
        /\ UNCHANGED <<resps, answers, astray, resvLeft>>
     \/ /\ ResvSpend("fault") /\ call' = [call EXCEPT ![c].at = "refuse", ![c].err = {"store"}]
        /\ resps' = [resps EXCEPT ![new] = NoResponse] /\ answers' \in {answers, takeBack(new, call[c].prev)}
        /\ UNCHANGED <<marked, untold, astray>>
     \/ /\ ResvSpend("fault") /\ call' = [call EXCEPT ![c].at = "refuse", ![c].wrote = TRUE, ![c].err = {"undo", "notfound"}]
        /\ astray' = astray \cup {new} /\ UNCHANGED <<resps, answers, marked, untold>>
  /\ UNCHANGED <<frq, now, inFleet, builds, reader, sweep, answeredOnce>>

\* A failed undo is told apart before its causes are.  Mutant: after.
refuseReviseCauseFirst(err) ==
  CASE "conflict" \in err -> "conflict"
    [] "nogrant" \in err -> "grant_unresolved"
    [] "notfound" \in err -> "request_not_found"
    [] OTHER -> "internal"

refuseRevise(err) ==
  CASE "undo" \in err -> "internal"
    [] "conflict" \in err -> "conflict"
    [] "nogrant" \in err -> "grant_unresolved"
    [] "notfound" \in err -> "request_not_found"
    [] OTHER -> "internal"

\* HandleRevise after Revise: the deferred notification, then the refusal or
\* the record of who cancelled the tip that the handler had read.
ReviseRefused(c) ==
  /\ call[c].at = "refuse" /\ Replies(c, refuseRevise(call[c].err))
  /\ UNCHANGED <<stores, now, inFleet, builds, reader, sweep, fleetLock, untold, answeredOnce, astray, resvLeft>>

ReviseRecords(c) ==
  /\ call[c].at = "record"
  /\ answers' = RecordCancel({<<call[c].q, call[c].tip>>}, c)
  /\ untold' = untold \ {c} /\ Replies(c, "ok")
  /\ UNCHANGED <<frq, resps, marked, now, inFleet, builds, reader, sweep, fleetLock, answeredOnce, astray, resvLeft>>

\* HandleCancel up to CancelGrants: some member of the chain must be live.
CancelReads(c) ==
  LET q == call[c].q IN
  /\ call[c].at = "cancel"
  /\ IF chainLen(q) = 0 THEN Replies(c, "not_answered")
     ELSE IF ~anyLiveGrant(q) THEN Replies(c, "grant_not_live")
     ELSE call' = [call EXCEPT ![c].at = "walk"]
  /\ UNCHANGED <<stores, now, inFleet, builds, reader, sweep, fleetLock, untold, answeredOnce, astray, resvLeft>>

\* CancelGrants: every grant of the chain as it is read now, one by one, and
\* again while the chain has grown meanwhile.
CancelGrants(c) ==
  LET q == call[c].q IN
  /\ call[c].at = "walk"
  /\ call' = IF chainLen(q) = 0 THEN [call EXCEPT ![c].at = "stopped", ![c].err = {"notfound"}]
             ELSE [call EXCEPT ![c].at = "member", ![c].len = chainLen(q), ![c].next = 0, ![c].pass = @ + 1]
  /\ UNCHANGED <<stores, now, inFleet, builds, reader, sweep, fleetLock, untold, answeredOnce, astray, resvLeft>>

cancelChain(c) ==
  LET id == <<call[c].q, call[c].next>>
      on == [call EXCEPT ![c].next = @ + 1]
  IN
  /\ call[c].at = "member" /\ call[c].next < call[c].len /\ fleetLock = "free"
  /\ \/ /\ resps[id].kind = "grant" /\ id \notin marked /\ inFleet
        /\ marked' = marked \cup {id} /\ untold' = untold \cup {c}
        /\ call' = [on EXCEPT ![c].done = @ \cup {id}, ![c].wrote = TRUE] /\ UNCHANGED resvLeft
     \/ /\ resps[id].kind = "grant" /\ id \notin marked /\ inFleet /\ ResvSpend("fault")
        /\ call' = [call EXCEPT ![c].at = "stopped", ![c].err = {"store"}] /\ UNCHANGED <<marked, untold>>
     \/ /\ resps[id].kind = "denial" \/ id \in marked
        /\ call' = on /\ UNCHANGED <<marked, untold, resvLeft>>
     \/ /\ (resps[id].kind = "none" \/ ~inFleet) /\ id \notin marked
        /\ call' = [on EXCEPT ![c].err = @ \cup {"unresolved"}] /\ UNCHANGED <<marked, untold, resvLeft>>
  /\ UNCHANGED <<frq, resps, answers, now, inFleet, builds, reader, sweep, fleetLock, answeredOnce, astray>>

CancelWalked(c) ==
  LET f == call[c] IN
  /\ f.at = "member" /\ f.next = f.len
  /\ call' = IF f.err = {} /\ chainLen(f.q) = f.len THEN [call EXCEPT ![c].at = "stopped"]
             ELSE IF f.pass < MaxCancelPasses THEN [call EXCEPT ![c].at = "walk", ![c].err = {}]
             ELSE [call EXCEPT ![c].at = "stopped", ![c].err = IF @ = {} THEN {"moving"} ELSE @]
  /\ UNCHANGED <<stores, now, inFleet, builds, reader, sweep, fleetLock, untold, answeredOnce, astray, resvLeft>>

refuseCancel(f) ==
  CASE f.done # {} -> "cancel_partial"
    [] "store" \in f.err -> "internal"
    [] "unresolved" \in f.err -> "grant_unresolved"
    [] "moving" \in f.err -> "chain_moving"
    [] OTHER -> "not_answered"

\* The deferred notifications, the records of who cancelled, the reply.
recordCancels(c) ==
  LET f == call[c] IN
  /\ f.at = "stopped"
  /\ answers' = RecordCancel(f.done, c) /\ untold' = untold \ {c}
  /\ Replies(c, IF f.err # {} THEN refuseCancel(f) ELSE IF f.done = {} THEN "grant_not_live" ELSE "ok")
  /\ UNCHANGED <<frq, resps, marked, now, inFleet, builds, reader, sweep, fleetLock, answeredOnce, astray, resvLeft>>

\* The device's PUT: the stored request is compared with the body, and only a
\* cancel goes on.
HandlePutFlowReservationRequest(c, q) ==
  /\ Call(c, "put")
  /\ Goes(c, IF frq[q] = "none" THEN Done(FALSE, "request_not_found") ELSE [NoCall EXCEPT !.q = q, !.at = "mark"])
  /\ UNCHANGED <<stores, now, inFleet, builds, reader, sweep, fleetLock, untold, answeredOnce, astray>>

\* Canceller.Cancel: the request is marked, then denied, and when it has an
\* answer already its grants are cancelled.
Cancel(c) ==
  LET q == call[c].q IN
  /\ call[c].at = "mark"
  /\ IF frq[q] = "none" THEN Replies(c, "request_not_found") /\ UNCHANGED frq
     ELSE frq' = [frq EXCEPT ![q] = "cancelled"] /\ call' = [call EXCEPT ![c].at = "deny"]
  /\ UNCHANGED <<resps, marked, answers, now, inFleet, builds, reader, sweep, fleetLock, untold, answeredOnce, astray, resvLeft>>

PutDenies(c) == call[c].at = "deny" /\ buildLocked(c, call[c].q, "denial", 0) /\ UNCHANGED resvLeft

\* build finds a response, whose grants are then cancelled, or no request.
PutFindsAnswer(c) ==
  LET q == call[c].q IN
  /\ call[c].at = "deny" /\ build[c].at = "none" /\ lockKey(q) /\ pruned' = pruned \cup {q}
  /\ IF resps[<<q, 0>>].kind # "none" THEN Goes(c, [call[c] EXCEPT !.at = "walk"])
     ELSE frq[q] = "none" /\ Replies(c, "request_not_found")
  /\ UNCHANGED <<stores, now, inFleet, build, reader, sweep, fleetLock, untold, answeredOnce, astray, resvLeft>>
-----------------------------------------------------------------------------
(* The retention sweep. *)

Sweep ==
  /\ sweep.at = "idle" /\ ResvSpend("sweep")
  /\ sweep' = [NoSweep EXCEPT !.at = "retire", !.now = now, !.left = {q \in Requests : frq[q] # "none"}]
  /\ UNCHANGED <<stores, now, inFleet, call, builds, reader, fleetLock, untold, answeredOnce, astray>>

retire(q) ==
  /\ sweep.at = "retire" /\ q \in sweep.left
  /\ sweep' = IF ended(q, sweep.now) THEN [sweep EXCEPT !.at = "lock", !.q = q, !.left = @ \ {q}]
              ELSE [sweep EXCEPT !.left = @ \ {q}]
  /\ UNCHANGED <<stores, now, inFleet, call, builds, reader, fleetLock, untold, answeredOnce, astray, resvLeft>>

\* What deleteChain deletes, in its order: the records beyond the last
\* answer, the revisions from the last, the request, then its first answer.
\* Mutant: the request goes last.
deleteChainRequestLast(q, n) ==
  {[k |-> 3 * (n - i), what |-> "response", i |-> i] : i \in 0..(n - 1)}
    \cup {[k |-> 3 * (n - i) + 1, what |-> "records", i |-> i] : i \in 0..Min({n, MaxRevs})}
    \cup {[k |-> 3 * n + 2, what |-> "request", i |-> 0]}

deleteChain(q, n) ==
  {[k |-> 3 * (n - i), what |-> "response", i |-> i] : i \in 0..(n - 1)}
    \cup {[k |-> 3 * (n - i) + 1, what |-> "records", i |-> i] : i \in 0..Min({n, MaxRevs})}
    \cup {[k |-> 3 * n - 1, what |-> "request", i |-> 0]}

\* The fleet's lock, when the device has a fleet, and the check again.
underFleetLock ==
  /\ sweep.at = "lock" /\ (inFleet => fleetLock = "free")
  /\ sweep' = IF frq[sweep.q] # "none" /\ ended(sweep.q, sweep.now)
              THEN [sweep EXCEPT !.at = "delete", !.todo = deleteChain(sweep.q, chainLen(sweep.q)), !.orphan = FALSE]
              ELSE [sweep EXCEPT !.at = "retire"]
  /\ fleetLock' = IF sweep'.at = "delete" /\ inFleet THEN "sweep" ELSE fleetLock
  /\ UNCHANGED <<stores, now, inFleet, call, builds, reader, untold, answeredOnce, astray, resvLeft>>

Leaves(touched) == [sweep EXCEPT !.at = IF sweep.orphan THEN "orphans" ELSE "retire", !.todo = {}, !.touched = touched]

Unlocks == fleetLock' = IF fleetLock = "sweep" THEN "free" ELSE fleetLock

deleteRecords(id) == marked' = marked \ {id} /\ answers' = [answers EXCEPT ![id] = NoRecord]

\* One deletion.  deleteMember is a response and then its records.
Delete ==
  /\ sweep.at = "delete" /\ sweep.todo # {}
  /\ LET d == CHOOSE d \in sweep.todo : \A e \in sweep.todo : d.k <= e.k
         id == <<sweep.q, d.i>>
     IN /\ CASE d.what = "response" -> resps' = [resps EXCEPT ![id] = NoResponse] /\ UNCHANGED <<frq, marked, answers>>
             [] d.what = "records" -> deleteRecords(id) /\ UNCHANGED <<frq, resps>>
             [] d.what = "request" -> frq' = [frq EXCEPT ![sweep.q] = "none"] /\ UNCHANGED <<resps, marked, answers>>
        /\ untold' = IF d.what = "response" THEN untold \cup {"sweep"} ELSE untold
        /\ sweep' = [sweep EXCEPT !.todo = @ \ {d}]
  /\ UNCHANGED <<now, inFleet, call, builds, reader, fleetLock, answeredOnce, astray, resvLeft>>

\* A chain gone and a chain left for the next sweep are both notified of.
\* Mutant: only one that is gone.
DeleteFailsQuietly ==
  /\ sweep.at = "delete" /\ sweep.todo # {} /\ ResvSpend("fault")
  /\ sweep' = Leaves(sweep.touched) /\ Unlocks
  /\ UNCHANGED <<stores, now, inFleet, call, builds, reader, untold, answeredOnce, astray>>

DeleteFails ==
  /\ sweep.at = "delete" /\ sweep.todo # {} /\ ResvSpend("fault")
  /\ sweep' = Leaves(TRUE) /\ Unlocks
  /\ UNCHANGED <<stores, now, inFleet, call, builds, reader, untold, answeredOnce, astray>>

Deleted ==
  /\ sweep.at = "delete" /\ sweep.todo = {}
  /\ sweep' = Leaves(TRUE) /\ Unlocks
  /\ UNCHANGED <<stores, now, inFleet, call, builds, reader, untold, answeredOnce, astray, resvLeft>>

\* The responses whose request is gone.
sweepOrphans ==
  /\ sweep.at = "retire" /\ sweep.left = {}
  /\ sweep' = [sweep EXCEPT !.at = "orphans", !.left = {id[1] : id \in {i \in Ids : resps[i].kind # "none"}}]
  /\ UNCHANGED <<stores, now, inFleet, call, builds, reader, fleetLock, untold, answeredOnce, astray, resvLeft>>

\* The last first, so that a chain is never cut from its first answer.
removeOrphanChain(q) ==
  /\ sweep.at = "orphans" /\ q \in sweep.left /\ (inFleet => fleetLock = "free")
  /\ sweep' = IF frq[q] # "none" THEN [sweep EXCEPT !.left = @ \ {q}]
              ELSE [sweep EXCEPT !.left = @ \ {q}, !.q = q, !.at = "delete", !.orphan = TRUE,
                    !.todo = {[k |-> 3 * (MaxRevs - i), what |-> "response", i |-> i] : i \in {j \in 0..MaxRevs : resps[<<q, j>>].kind # "none"}}
                             \cup {[k |-> 3 * (MaxRevs - i) + 1, what |-> "records", i |-> i] : i \in {j \in 0..MaxRevs : resps[<<q, j>>].kind # "none"}}]
  /\ fleetLock' = IF sweep'.at = "delete" /\ inFleet THEN "sweep" ELSE fleetLock
  /\ UNCHANGED <<stores, now, inFleet, call, builds, reader, untold, answeredOnce, astray, resvLeft>>

\* The notifications at the end of a sweep.
Swept ==
  /\ sweep.at = "orphans" /\ sweep.left = {}
  /\ sweep' = NoSweep /\ untold' = IF sweep.touched THEN untold \ {"sweep"} ELSE untold
  /\ UNCHANGED <<stores, now, inFleet, call, builds, reader, fleetLock, answeredOnce, astray, resvLeft>>
\* Start's stop, between two chains.
StopSweep ==
  /\ sweep.at \in {"retire", "orphans"} /\ sweep.left # {} /\ ResvSpend("crash")
  /\ sweep' = [sweep EXCEPT !.at = "orphans", !.left = {}]
  /\ UNCHANGED <<stores, now, inFleet, call, builds, reader, fleetLock, untold, answeredOnce, astray>>
-----------------------------------------------------------------------------
(* The environment. *)

\* settleRevisions at the start: a revision whose old grant is not marked is
\* finished, or deleted when it no longer fits; it stays when that fails.
settleRevisions(q) ==
  LET tip == <<q, chainLen(q) - 1>>
      olds == {id \in chain(q) \ {tip} : resps[id].kind = "grant" /\ id \notin marked}
  IN \/ UNCHANGED <<resps, marked>>
     \/ olds # {} /\ marked' = marked \cup olds /\ UNCHANGED resps
     \/ olds # {} /\ resps[tip].kind = "grant" /\ resps' = [resps EXCEPT ![tip] = NoResponse] /\ UNCHANGED marked

\* The process ends and starts again.
RestartDesk ==
  /\ ResvSpend("crash") /\ \E q \in Requests : settleRevisions(q)
  /\ call' = [c \in Callers |-> NoCall] /\ build' = [b \in Builders |-> NoBuild] /\ pruned' = {} /\ reader' = NoReader
  /\ sweep' = NoSweep /\ fleetLock' = "free" /\ untold' = {}
  /\ astray' = astray \cup {id \in Ids : Contended(id) /\ resps[id].kind # "none"}
  /\ UNCHANGED <<frq, answers, now, inFleet, answeredOnce>>

LeavesFleet ==
  /\ inFleet /\ ResvSpend("leave") /\ inFleet' = FALSE
  /\ UNCHANGED <<stores, now, call, builds, reader, sweep, fleetLock, untold, answeredOnce, astray>>

\* The grace is 900 s at least (config.go), and no build that another has
\* forestalled goes on for so long.
ResvTick ==
  /\ now < MaxNow /\ now' = now + 1
  /\ \A b \in Builders : build[b].at # "none" => build[b].q \notin answeredOnce
  /\ UNCHANGED <<stores, inFleet, call, builds, reader, sweep, fleetLock, untold, answeredOnce, astray, resvLeft>>

CallerStep(c) ==
  \/ \E q \in Requests, op \in {"answer", "revise", "cancel"} : target(c, op, q)
  \/ \E e \in Ends : HandleAnswer(c, "grant", e)
  \/ HandleAnswer(c, "denial", 0)
  \/ refuseAnswer(c) \/ chainTip(c) \/ ReviseReads(c)
  \/ \E e \in Ends : LedgerRevise(c, "grant", e)
  \/ LedgerRevise(c, "denial", 0)
  \/ ReviseMarks(c) \/ ReviseRefused(c) \/ ReviseRecords(c)
  \/ CancelReads(c) \/ CancelGrants(c) \/ cancelChain(c) \/ CancelWalked(c) \/ recordCancels(c)
  \/ \E q \in Requests : HandlePutFlowReservationRequest(c, q)
  \/ Cancel(c)
  \/ PutDenies(c) \/ PutFindsAnswer(c)

ReaderStep ==
  \/ \E op \in {"list", "poll"} : ListReads(op)
  \/ \E q \in Requests : viewOf(q) \/ PendingCheck(q)
  \/ responseView \/ HandleList

SweepStep ==
  \/ Sweep \/ underFleetLock \/ Delete \/ DeleteFails \/ Deleted \/ sweepOrphans \/ Swept \/ StopSweep
  \/ \E q \in Requests : retire(q) \/ removeOrphanChain(q)

ReservationsNext ==
  \/ \E q \in Requests : HandlePostFlowReservationRequest(q) \/ deadlineFallback(q)
  \/ \E c \in Callers : CallerStep(c)
  \/ \E b \in Builders : BuildStep(b)
  \/ ReaderStep \/ SweepStep \/ RestartDesk \/ LeavesFleet \/ ResvTick
-----------------------------------------------------------------------------
(* The sweep retires no answer before the grace after its end is over, also  *)
(* when a later answer of the same request ended first, and when an operator *)
(* revises meanwhile (ended, checked again under the fleet's lock).          *)
SweepKeepsUnended ==
  [][\A id \in Ids : (sweep.at = "delete" /\ ~sweep.orphan /\ resps[id].kind # "none" /\ resps'[id].kind = "none" /\ sweep'.at = "delete" /\ call' = call) => endsAt(id) + Grace <= now]_resvVars

(* A request that was answered has its first answer as long as it is stored, *)
(* wherever the sweep was stopped, or the deadline would answer it again     *)
(* (deleteChain's order).  An operator's list, or the pollRate check, that   *)
(* began after the answer shows it as unanswered only when the sweep deleted *)
(* the request before its responses were read.                               *)
AnsweredStaysAnswered ==
  /\ \A q \in answeredOnce : frq[q] # "none" => resps[<<q, 0>>].kind # "none"
  /\ \A r \in reader.rows : (r.state = "unanswered" /\ r.q \in reader.answered) => r.gone

(* The record of a response, and the row of it in a list, name as its        *)
(* answerer who answered it, or nobody, though ids are used again after a    *)
(* revision is undone and builds overlap.  Except while another attempt has  *)
(* its record there; where a take-back failed, was cut off by a crash or met *)
(* another attempt's record (Answers.recorded); and in a row whose response  *)
(* was deleted before its record was read.                                   *)
AnswererIsTrue ==
  /\ \A id \in Ids : (resps[id].kind # "none" /\ id \notin astray /\ ~Contended(id)) => answers[id].by \in {Nobody, resps[id].by}
  /\ \A row \in reader.rows : \A i \in DOMAIN row.responses :
       row.responses[i].settled => row.responses[i].answeredBy \in {"unrecorded", row.responses[i].by}

(* A caller told that nothing was done is told the truth: only "ok", a       *)
(* partial cancel and an internal failure follow a write (refuseRevise,      *)
(* refuseCancel).                                                            *)
RefusalWroteNothing ==
  \A c \in Callers : (call[c].at = "done" /\ call[c].wrote) => call[c].reply \in {"ok", "cancel_partial", "internal"}

(* Whoever changed the device's list has notified of it when it is done,     *)
(* failures included (notifyLater, DeferNotifications); except a revision    *)
(* whose undo failed, which leaves a response that nobody is told of.        *)
ChangesAreTold ==
  \A a \in untold : IF a = "sweep" THEN sweep.at # "idle" ELSE call[a].at \notin {"idle", "done"}


\* What the desk says of flow reservations is so: AnsweredStaysAnswered,
\* AnswererIsTrue, RefusalWroteNothing and ChangesAreTold at every state,
\* SweepKeepsUnended at every step.
ReservationsAccounted ==
  /\ [](AnsweredStaysAnswered /\ AnswererIsTrue /\ RefusalWroteNothing /\ ChangesAreTold)
  /\ SweepKeepsUnended
=============================================================================
