------------------------ MODULE FlowReservationQueue ------------------------
(***************************************************************************)
(* The answer path of one flow reservation request                        *)
(* (internal/flowreservation: queue.go, answers.go, cancel.go, recover.go). *)
(*                                                                         *)
(* A POST stores the request and arms a deadline timer.  The operator's    *)
(* Answer, the timer's fallback, the client's cancel and the startup       *)
(* recovery all answer through the same build, under a key lock that the   *)
(* queue prunes, and only the response store's refusal of a second create  *)
(* decides the winner.  Requests share nothing but the closed flag, so one *)
(* request is modelled; the other requests of the fleet are the gate's     *)
(* free choice between a free window, a conflict and a failed check.       *)
(* Every store operation is one step that succeeds durably or fails with   *)
(* no change (PersistentScopedStore); a crash keeps the stores and loses   *)
(* threads, locks and timers.                                              *)
(***************************************************************************)
EXTENDS Naturals, FiniteSets

CONSTANTS
    Operators,      \* admin request threads, each one Answer at a time
    Asks,           \* the kinds of interval a request may name
    RetryAttempts,  \* Config.RetryAttempts
    MaxDeletes,     \* bound on deletes of the EndDevice
    MaxFaults,      \* bound on failing store operations
    MaxRestarts     \* bound on crashes and restarts

ASSUME QueueAssumption ==
    /\ RetryAttempts \in Nat \ {0}
    /\ Asks \subseteq {"window", "none", "zero"}
    /\ MaxDeletes \in Nat
    /\ MaxFaults \in Nat
    /\ MaxRestarts \in Nat
    /\ Operators \cap {"client", "fallback", "recovery", "nobody"} = {}

VARIABLES
    phase,     \* "boot" (Recover runs), "serving", "closing" (Close waits), "closed" (Close returned)
    frq,       \* the stored request: "none" before its POST, "requested", "cancelled", "deleted"
    ask,       \* the interval it names: positive duration, none at all, or zero duration
    frp,       \* the stored response
    rec,       \* the answer record: the attribution kind it names, or "none"
    timer,     \* the timers entry: "none", "pending", or "fired" (entry left by a callback that ran)
    attempt,   \* the attempt the pending or running fallback is
    keyLock,   \* the mutex keyLocks holds for the request, or "nobody"
    holder,    \* who holds each mutex
    fleet,     \* who holds the fleet's commitment lock
    del,       \* how far a delete of the EndDevice has come: "idle", "requests", "responses"
    taken,     \* what that delete removed and would restore
    pc,        \* what each thread does next
    loc,       \* each thread's locals
    givenUp,   \* the fallback ran out of attempts
    undeleted, \* a delete of the EndDevice failed and was undone
    unrepaired,\* Recover failed on the request and left it for the next start
    settled,   \* a client cancel has returned success
    faults, deletes, restarts

volatile == <<timer, attempt, keyLock, holder, fleet, del, taken, pc, loc>>
stored == <<frq, ask, frp, rec>>
ghost == <<givenUp, undeleted, unrepaired, settled, faults, deletes, restarts>>
vars == <<phase, stored, volatile, ghost>>

Nobody == "nobody"
Procs == Operators \cup {"client", "fallback", "recovery"}
Kind(p) == IF p \in Operators THEN "operator" ELSE p
Kinds == {"operator", "client", "fallback", "recovery"}

NoResponse == [kind |-> "none", by |-> "none", cancelled |-> FALSE]
Responses == {NoResponse} \cup [kind : {"grant", "deny"}, by : Kinds, cancelled : BOOLEAN]
Answered == frp # NoResponse

NothingTaken == [frq |-> "none", frp |-> NoResponse, rec |-> "none"]

Results == {"ok", "answered", "gone", "cancelled", "refused", "conflict", "failed"}
Locals == [dec : {"grant", "deny"}, mutex : Procs \cup {Nobody},
           prev : Kinds \cup {"none"}, result : Results]
IdleLocals == [dec |-> "deny", mutex |-> Nobody, prev |-> "none", result |-> "ok"]

BuildSteps == {"lookup", "lock", "check", "request", "gate", "intend", "record",
               "create", "undo", "stopTimer", "unlock"}
Steps == BuildSteps \cup {"idle", "submit", "mark", "cancelGrants", "read", "repair", "built"}
----------------------------------------------------------------------------
(* Thread p moves to step s, its locals updated by the record u. *)
Goto(p, s) == pc' = [pc EXCEPT ![p] = s] /\ UNCHANGED loc
GotoWith(p, s, l) == pc' = [pc EXCEPT ![p] = s] /\ loc' = [loc EXCEPT ![p] = l]
Return(p, r) == GotoWith(p, "unlock", [loc[p] EXCEPT !.result = r, !.prev = "none"])

(* One store operation fails and changes nothing. *)
Fault == faults < MaxFaults /\ faults' = faults + 1
NoFault == UNCHANGED faults
KeepRest == UNCHANGED <<del, taken, givenUp, undeleted, unrepaired, settled, deletes, restarts>>

(* build is called by p with a decision. *)
Call(p, d) == GotoWith(p, "lookup", [IdleLocals EXCEPT !.dec = d])
----------------------------------------------------------------------------
(* Queue.build, one action per step between two shared accesses. *)

(* A mutex no thread uses.  There is one for a thread that looks for it, as  *)
(* each other thread uses at most one.                                       *)
Unused(m) == \A q \in Procs : loc[q].mutex # m
FreshMutex == CHOOSE m \in Procs : (\E n \in Procs : Unused(n)) => Unused(m)

(* lockKey: find the request's mutex, or put a fresh one in the map. *)
Lookup(p) ==
    /\ pc[p] = "lookup"
    /\ LET m == IF keyLock = Nobody THEN FreshMutex ELSE keyLock
       IN  keyLock' = m /\ GotoWith(p, "lock", [loc[p] EXCEPT !.mutex = m])
    /\ UNCHANGED <<phase, stored, timer, attempt, holder, fleet, del, taken, ghost>>

Lock(p) ==
    /\ pc[p] = "lock"
    /\ holder[loc[p].mutex] = Nobody
    /\ holder' = [holder EXCEPT ![loc[p].mutex] = p]
    /\ Goto(p, "check")
    /\ UNCHANGED <<phase, stored, timer, attempt, keyLock, fleet, del, taken, ghost>>

(* frp.Get: a stored response means the request is answered. *)
Check(p) ==
    /\ pc[p] = "check"
    /\ \/ Answered /\ Return(p, "answered") /\ NoFault
       \/ ~Answered /\ Goto(p, "request") /\ NoFault
       \/ Fault /\ Return(p, "failed")
    /\ KeepRest
    /\ UNCHANGED <<phase, stored, timer, attempt, keyLock, holder, fleet>>

(* frq.Get and answerFor.  A grant of a cancelled or a zero-duration request *)
(* is refused; so may an operator's grant be that asks too much.             *)
Request(p) ==
    /\ pc[p] = "request"
    /\ \/ frq = "deleted" /\ Return(p, "gone") /\ NoFault
       \/ /\ frq # "deleted" /\ loc[p].dec = "grant" /\ frq = "cancelled"
          /\ Return(p, "cancelled") /\ NoFault
       \/ /\ frq = "requested" /\ loc[p].dec = "grant"
          /\ ask = "zero" \/ p \in Operators
          /\ Return(p, "refused") /\ NoFault
       \/ /\ frq = "requested" /\ loc[p].dec = "grant" /\ ask = "window"
          /\ Goto(p, "gate") /\ NoFault
       \/ /\ frq # "deleted"
          /\ loc[p].dec = "deny" \/ (ask = "none" /\ frq = "requested")
          /\ Goto(p, "intend") /\ NoFault
       \/ Fault /\ Return(p, "failed")
    /\ KeepRest
    /\ UNCHANGED <<phase, stored, timer, attempt, keyLock, holder, fleet>>

(* Gate.Grant: under the fleet lock, a free window lets the create run; a   *)
(* window another request or control holds, or a check that cannot complete, *)
(* refuses it.                                                              *)
Gate(p) ==
    /\ pc[p] = "gate"
    /\ \/ fleet = Nobody /\ fleet' = p /\ Goto(p, "intend")
       \/ fleet = Nobody /\ Return(p, "conflict") /\ UNCHANGED fleet
    /\ UNCHANGED <<phase, stored, timer, attempt, keyLock, holder, del, taken, ghost>>

ReleaseFleet(p) == fleet' = IF fleet = p THEN Nobody ELSE fleet

(* Answers.intend, first half: read what the key holds now. *)
Intend(p) ==
    /\ pc[p] = "intend"
    /\ \/ /\ GotoWith(p, "record", [loc[p] EXCEPT !.prev = rec])
          /\ NoFault /\ UNCHANGED fleet
       \/ Fault /\ Return(p, "failed") /\ ReleaseFleet(p)
    /\ KeepRest
    /\ UNCHANGED <<phase, stored, timer, attempt, keyLock, holder>>

(* Answers.intend, second half: Create when there was no record, Update when *)
(* there was; a record another attempt made or removed since refuses it.     *)
Record(p) ==
    /\ pc[p] = "record"
    /\ \/ /\ (rec = "none") <=> (loc[p].prev = "none")
          /\ rec' = Kind(p)
          /\ Goto(p, "create") /\ NoFault /\ UNCHANGED fleet
       \/ /\ (rec = "none") # (loc[p].prev = "none")
          /\ Return(p, "failed") /\ ReleaseFleet(p) /\ NoFault /\ UNCHANGED rec
       \/ Fault /\ Return(p, "failed") /\ ReleaseFleet(p) /\ UNCHANGED rec
    /\ KeepRest
    /\ UNCHANGED <<phase, frq, ask, frp, timer, attempt, keyLock, holder>>

(* Mutant: the response store overwrites instead of refusing a duplicate. *)
CreateOverwriting(p) ==
    /\ pc[p] = "create"
    /\ \/ /\ frp' = [kind |-> loc[p].dec, by |-> Kind(p), cancelled |-> FALSE]
          /\ GotoWith(p, "stopTimer", [loc[p] EXCEPT !.result = "ok", !.prev = "none"])
          /\ ReleaseFleet(p) /\ NoFault
       \/ /\ Fault /\ GotoWith(p, "undo", [loc[p] EXCEPT !.result = "failed"])
          /\ UNCHANGED <<frp, fleet>>
    /\ KeepRest
    /\ UNCHANGED <<phase, frq, ask, rec, timer, attempt, keyLock, holder>>

(* FRPStore.Create refuses a second response under the request's id. *)
Create(p) ==
    /\ pc[p] = "create"
    /\ \/ /\ ~Answered
          /\ frp' = [kind |-> loc[p].dec, by |-> Kind(p), cancelled |-> FALSE]
          /\ GotoWith(p, "stopTimer", [loc[p] EXCEPT !.result = "ok", !.prev = "none"])
          /\ ReleaseFleet(p) /\ NoFault
       \/ /\ Answered /\ GotoWith(p, "undo", [loc[p] EXCEPT !.result = "answered"])
          /\ NoFault /\ UNCHANGED <<frp, fleet>>
       \/ /\ Fault /\ GotoWith(p, "undo", [loc[p] EXCEPT !.result = "failed"])
          /\ UNCHANGED <<frp, fleet>>
    /\ KeepRest
    /\ UNCHANGED <<phase, frq, ask, rec, timer, attempt, keyLock, holder>>

(* The undo Answers.intend returned: Delete the record it created, or Update *)
(* back the one it replaced; either finds nothing when another attempt's     *)
(* undo was first.  The outcome of the build does not depend on it.          *)
Undo(p) ==
    /\ pc[p] = "undo"
    /\ \/ rec' = (IF rec = "none" THEN rec ELSE loc[p].prev) /\ NoFault
       \/ Fault /\ UNCHANGED rec
    /\ ReleaseFleet(p)
    /\ Return(p, loc[p].result)
    /\ KeepRest
    /\ UNCHANGED <<phase, frq, ask, frp, timer, attempt, keyLock, holder>>

(* After a create: the deadline timer is stopped and its entry deleted. *)
StopTimer(p) ==
    /\ pc[p] = "stopTimer"
    /\ timer' = "none"
    /\ Goto(p, "unlock")
    /\ UNCHANGED <<phase, stored, attempt, keyLock, holder, fleet, del, taken, ghost>>

(* Mutant: an early return that skips the unlock. *)
UnlockOnlyOnSuccess(p) ==
    /\ pc[p] = "unlock"
    /\ keyLock' = Nobody
    /\ holder' = IF loc[p].result = "ok"
                 THEN [holder EXCEPT ![loc[p].mutex] = Nobody] ELSE holder
    /\ GotoWith(p, "built", [loc[p] EXCEPT !.mutex = Nobody])
    /\ UNCHANGED <<phase, stored, timer, attempt, fleet, del, taken, ghost>>

(* The deferred func of buildLocked: prune the map entry, whichever mutex it *)
(* holds by now, then unlock.                                                *)
Unlock(p) ==
    /\ pc[p] = "unlock"
    /\ keyLock' = Nobody
    /\ holder' = [holder EXCEPT ![loc[p].mutex] = Nobody]
    /\ GotoWith(p, "built", [loc[p] EXCEPT !.mutex = Nobody])
    /\ UNCHANGED <<phase, stored, timer, attempt, fleet, del, taken, ghost>>

Build(p) ==
    \/ Lookup(p) \/ Lock(p) \/ Check(p) \/ Request(p) \/ Gate(p) \/ Intend(p)
    \/ Record(p) \/ Create(p) \/ Undo(p) \/ StopTimer(p) \/ Unlock(p)
----------------------------------------------------------------------------
(* The operator: Answer on a request the admin routes show. *)
Answer(p, d) ==
    /\ phase # "boot" /\ p \in Operators /\ pc[p] = "idle"
    /\ frq \in {"requested", "cancelled"}
    /\ Call(p, d)
    /\ UNCHANGED <<phase, stored, timer, attempt, keyLock, holder, fleet, del, taken, ghost>>

AnswerReturns(p) ==
    /\ p \in Operators /\ pc[p] = "built"
    /\ GotoWith(p, "idle", IdleLocals)
    /\ UNCHANGED <<phase, stored, timer, attempt, keyLock, holder, fleet, del, taken, ghost>>
----------------------------------------------------------------------------
(* The client: POST, then any number of cancelling PUTs. *)

(* POST /edev/{id}/frq stores the request ... *)
Post ==
    /\ phase = "serving" /\ pc["client"] = "idle" /\ frq = "none"
    /\ \/ frq' = "requested" /\ Goto("client", "submit") /\ NoFault
       \/ Fault /\ UNCHANGED <<frq, pc, loc>>
    /\ KeepRest
    /\ UNCHANGED <<phase, ask, frp, rec, timer, attempt, keyLock, holder, fleet>>

(* Queue.arm: replace the timer by one for the first attempt; refused once  *)
(* the queue is closed.                                                     *)
Arm ==
    /\ timer' = IF phase \in {"closing", "closed"} THEN timer ELSE "pending"
    /\ attempt' = IF phase \in {"closing", "closed"} THEN attempt ELSE 1

(* ... and submits it. *)
Submit ==
    /\ pc["client"] = "submit"
    /\ Arm
    /\ Goto("client", "idle")
    /\ UNCHANGED <<phase, stored, keyLock, holder, fleet, del, taken, ghost>>

(* PUT /edev/{id}/frq/{id} with status Cancelled: Canceller.Cancel. *)
Cancel ==
    /\ phase = "serving" /\ pc["client"] = "idle"
    /\ \/ frq = "requested" /\ Goto("client", "mark")
       \/ frq = "cancelled" /\ Call("client", "deny")
    /\ UNCHANGED <<phase, stored, timer, attempt, keyLock, holder, fleet, del, taken, ghost>>

MarkRequest ==
    /\ pc["client"] = "mark"
    /\ \/ /\ frq # "deleted" /\ frq' = "cancelled"
          /\ Call("client", "deny") /\ NoFault
       \/ frq = "deleted" /\ Goto("client", "idle") /\ NoFault /\ UNCHANGED frq
       \/ Fault /\ Goto("client", "idle") /\ UNCHANGED frq
    /\ KeepRest
    /\ UNCHANGED <<phase, ask, frp, rec, timer, attempt, keyLock, holder, fleet>>

(* A response that commits a window and is not cancelled. *)
LiveGrant == frp.kind = "grant" /\ ask = "window" /\ ~frp.cancelled
Cancelled == IF LiveGrant THEN [frp EXCEPT !.cancelled = TRUE] ELSE frp

(* Mutant: ErrAlreadyAnswered reported to the client as success. *)
CancelIgnoringGrant ==
    /\ pc["client"] = "built"
    /\ GotoWith("client", "idle", IdleLocals)
    /\ settled' = (settled \/ loc["client"].result \in {"ok", "answered"})
    /\ UNCHANGED <<phase, stored, timer, attempt, keyLock, holder, fleet, del, taken,
                   givenUp, undeleted, unrepaired, faults, deletes, restarts>>

(* A denial stored, the cancel is done; an answered request goes on to its  *)
(* grants; any other error is the PUT's.                                    *)
CancelBuilt ==
    /\ pc["client"] = "built"
    /\ IF loc["client"].result = "answered"
       THEN Goto("client", "cancelGrants") /\ UNCHANGED settled
       ELSE /\ GotoWith("client", "idle", IdleLocals)
            /\ settled' = (settled \/ loc["client"].result = "ok")
    /\ UNCHANGED <<phase, stored, timer, attempt, keyLock, holder, fleet, del, taken,
                   givenUp, undeleted, unrepaired, faults, deletes, restarts>>

(* CancelGrants over the one response this module knows, under the fleet    *)
(* lock; CommitmentLedger models the passes over a chain of revisions.      *)
CancelGrants ==
    /\ pc["client"] = "cancelGrants" /\ fleet = Nobody
    /\ \/ /\ Answered
          /\ frp' = Cancelled
          /\ settled' = TRUE /\ NoFault
       \/ ~Answered /\ NoFault /\ UNCHANGED <<frp, settled>>
       \/ Fault /\ UNCHANGED <<frp, settled>>
    /\ GotoWith("client", "idle", IdleLocals)
    /\ UNCHANGED <<phase, frq, ask, rec, timer, attempt, keyLock, holder, fleet, del, taken,
                   givenUp, undeleted, unrepaired, deletes, restarts>>
----------------------------------------------------------------------------
(* The deadline fallback. *)

(* fire: past the closed check, the callback counts as running. *)
Fire ==
    /\ timer = "pending" /\ pc["fallback"] = "idle"
    /\ phase \notin {"closing", "closed"}
    /\ timer' = "fired"
    /\ Goto("fallback", "read")
    /\ UNCHANGED <<phase, stored, attempt, keyLock, holder, fleet, del, taken, ghost>>

FallbackDone == GotoWith("fallback", "idle", IdleLocals)

ForgetTimer == timer' = "none" /\ UNCHANGED <<attempt, givenUp>>

(* Mutant: the next attempt is counted but its timer never scheduled. *)
RetryWithoutTimer ==
    IF attempt >= RetryAttempts
    THEN givenUp' = TRUE /\ timer' = "none" /\ UNCHANGED attempt
    ELSE timer' = timer /\ attempt' = attempt + 1 /\ UNCHANGED givenUp

(* retryOrGiveUp: schedule the next attempt, unless closed, or give up. *)
RetryOrGiveUp ==
    IF attempt >= RetryAttempts
    THEN givenUp' = TRUE /\ timer' = "none" /\ UNCHANGED attempt
    ELSE /\ timer' = IF phase \in {"closing", "closed"} THEN timer ELSE "pending"
         /\ attempt' = attempt + 1
         /\ UNCHANGED givenUp

(* attemptFallback reads the request: gone, it is forgotten; withdrawn or of *)
(* zero duration, it is denied; otherwise granted as asked.                  *)
FallbackRead ==
    /\ pc["fallback"] = "read"
    /\ \/ frq = "deleted" /\ ForgetTimer /\ FallbackDone /\ NoFault
       \/ /\ frq # "deleted" /\ NoFault
          /\ Call("fallback", IF frq = "cancelled" \/ ask = "zero" THEN "deny" ELSE "grant")
          /\ UNCHANGED <<timer, attempt, givenUp>>
       \/ Fault /\ RetryOrGiveUp /\ FallbackDone
    /\ UNCHANGED <<phase, stored, keyLock, holder, fleet, del, taken,
                   undeleted, unrepaired, settled, deletes, restarts>>

(* Mutant: a refused grant is retried like a store failure, not denied. *)
FallbackRetriesRefusal ==
    /\ pc["fallback"] = "built"
    /\ LET l == loc["fallback"] IN
       \/ l.result = "ok" /\ FallbackDone /\ UNCHANGED <<timer, attempt, givenUp>>
       \/ l.result \in {"answered", "gone"} /\ ForgetTimer /\ FallbackDone
       \/ l.result \in {"conflict", "cancelled", "failed"} /\ RetryOrGiveUp /\ FallbackDone
    /\ UNCHANGED <<phase, stored, keyLock, holder, fleet, del, taken,
                   undeleted, unrepaired, settled, faults, deletes, restarts>>

(* What the fallback makes of build's outcome.  A refused grant, and one a  *)
(* cancel overtook between the two reads, is answered by a denial.          *)
FallbackBuilt ==
    /\ pc["fallback"] = "built"
    /\ LET l == loc["fallback"] IN
       \/ l.result = "ok" /\ FallbackDone /\ UNCHANGED <<timer, attempt, givenUp>>
       \/ l.result \in {"answered", "gone"} /\ ForgetTimer /\ FallbackDone
       \/ /\ l.dec = "grant" /\ l.result \in {"conflict", "cancelled"}
          /\ Call("fallback", "deny") /\ UNCHANGED <<timer, attempt, givenUp>>
       \/ l.result = "failed" /\ RetryOrGiveUp /\ FallbackDone
    /\ UNCHANGED <<phase, stored, keyLock, holder, fleet, del, taken,
                   undeleted, unrepaired, settled, faults, deletes, restarts>>
----------------------------------------------------------------------------
(* Recover, before either listener binds. *)

Serve(l) == phase' = "serving" /\ GotoWith("recovery", "idle", l)

(* Mutant: only requests already answered are looked at again. *)
RecoverWithoutRearm ==
    /\ phase = "boot" /\ pc["recovery"] = "idle"
    /\ \/ frq \in {"none", "deleted", "requested"} /\ Serve(IdleLocals)
       \/ frq = "cancelled" /\ ~Answered /\ Call("recovery", "deny") /\ UNCHANGED phase
       \/ frq = "cancelled" /\ Answered /\ Goto("recovery", "repair") /\ UNCHANGED phase
    /\ UNCHANGED <<timer, attempt, stored, keyLock, holder, fleet, del, taken, ghost>>

(* recoverRequest: a pending request is re-armed, a cancelled one without a *)
(* response denied, a cancelled one with a live grant has it cancelled.     *)
Recover ==
    /\ phase = "boot" /\ pc["recovery"] = "idle"
    /\ \/ /\ frq = "requested" /\ ~Answered /\ Arm /\ Serve(IdleLocals)
       \/ /\ frq = "cancelled" /\ ~Answered /\ Call("recovery", "deny")
          /\ UNCHANGED <<phase, timer, attempt>>
       \/ /\ frq = "cancelled" /\ Answered /\ Goto("recovery", "repair")
          /\ UNCHANGED <<phase, timer, attempt>>
       \/ /\ frq \in {"none", "deleted"} \/ (frq = "requested" /\ Answered)
          /\ Serve(IdleLocals) /\ UNCHANGED <<timer, attempt>>
    /\ UNCHANGED <<stored, keyLock, holder, fleet, del, taken, ghost>>

(* The repair of one request may fail; it is counted and left as it is. *)
RecoverBuilt ==
    /\ pc["recovery"] = "built"
    /\ unrepaired' = (unrepaired \/ loc["recovery"].result \notin {"ok", "answered"})
    /\ Serve(IdleLocals)
    /\ UNCHANGED <<stored, timer, attempt, keyLock, holder, fleet, del, taken,
                   givenUp, undeleted, settled, faults, deletes, restarts>>

RecoverGrant ==
    /\ pc["recovery"] = "repair"
    /\ \/ frp' = Cancelled /\ NoFault /\ UNCHANGED unrepaired
       \/ Fault /\ unrepaired' = TRUE /\ UNCHANGED frp
    /\ Serve(IdleLocals)
    /\ UNCHANGED <<frq, ask, rec, timer, attempt, keyLock, holder, fleet, del, taken,
                   givenUp, undeleted, settled, deletes, restarts>>
----------------------------------------------------------------------------
(* DELETE of the EndDevice: FlowReservationLinkedEndDeviceStore.Delete takes *)
(* the requests, then the responses with their records, then the device; a   *)
(* step that fails puts back what the earlier ones took.                     *)
DeleteRequests ==
    /\ phase # "boot" /\ del = "idle" /\ frq \in {"requested", "cancelled"}
    /\ deletes < MaxDeletes /\ deletes' = deletes + 1
    /\ del' = "requests"
    /\ taken' = [taken EXCEPT !.frq = frq]
    /\ frq' = "deleted"
    /\ UNCHANGED <<phase, ask, frp, rec, timer, attempt, keyLock, holder, fleet, pc, loc,
                   givenUp, undeleted, unrepaired, settled, faults, restarts>>

DeleteResponses ==
    /\ del = "requests"
    /\ \/ /\ del' = "responses"
          /\ taken' = [taken EXCEPT !.frp = frp, !.rec = rec]
          /\ frp' = NoResponse /\ rec' = "none"
          /\ NoFault /\ UNCHANGED <<frq, undeleted>>
       \/ /\ Fault /\ del' = "idle" /\ frq' = taken.frq /\ undeleted' = TRUE
          /\ taken' = NothingTaken /\ UNCHANGED <<frp, rec>>
    /\ UNCHANGED <<phase, ask, timer, attempt, keyLock, holder, fleet, pc, loc,
                   givenUp, unrepaired, settled, deletes, restarts>>

DeleteDevice ==
    /\ del = "responses"
    /\ del' = "idle" /\ taken' = NothingTaken
    /\ \/ NoFault /\ UNCHANGED <<frq, frp, rec, undeleted>>
       \/ /\ Fault /\ undeleted' = TRUE
          /\ frq' = taken.frq
          /\ frp' = IF Answered THEN frp ELSE taken.frp
          /\ rec' = IF rec # "none" THEN rec ELSE taken.rec
    /\ UNCHANGED <<phase, ask, timer, attempt, keyLock, holder, fleet, pc, loc,
                   givenUp, unrepaired, settled, deletes, restarts>>
----------------------------------------------------------------------------
(* Shutdown: the protocol listener has drained, the admin one need not have: *)
(* its drain is bounded.  Close stops every timer and waits for a running    *)
(* fallback.                                                                 *)
Close ==
    /\ phase = "serving" /\ pc["client"] = "idle"
    /\ phase' = "closing"
    /\ timer' = "none"
    /\ UNCHANGED <<stored, attempt, keyLock, holder, fleet, del, taken, pc, loc, ghost>>

CloseReturns ==
    /\ phase = "closing" /\ pc["fallback"] = "idle"
    /\ phase' = "closed"
    /\ UNCHANGED <<stored, volatile, ghost>>

(* The process exits or crashes at any point and starts again. *)
Restart ==
    /\ restarts < MaxRestarts
    /\ restarts' = restarts + 1
    /\ phase' = "boot"
    /\ timer' = "none" /\ attempt' = 0
    /\ keyLock' = Nobody /\ fleet' = Nobody
    /\ holder' = [m \in Procs |-> Nobody]
    /\ pc' = [p \in Procs |-> "idle"]
    /\ loc' = [p \in Procs |-> IdleLocals]
    /\ del' = "idle"
    /\ taken' = NothingTaken
    /\ givenUp' = FALSE /\ unrepaired' = FALSE
    /\ UNCHANGED <<stored, undeleted, settled, faults, deletes>>
----------------------------------------------------------------------------
Init ==
    /\ phase = "boot"
    /\ frq = "none" /\ ask \in Asks
    /\ frp = NoResponse /\ rec = "none"
    /\ timer = "none" /\ attempt = 0
    /\ keyLock = Nobody /\ fleet = Nobody
    /\ holder = [m \in Procs |-> Nobody]
    /\ pc = [p \in Procs |-> "idle"]
    /\ loc = [p \in Procs |-> IdleLocals]
    /\ del = "idle" /\ taken = NothingTaken
    /\ givenUp = FALSE /\ undeleted = FALSE /\ unrepaired = FALSE /\ settled = FALSE
    /\ faults = 0 /\ deletes = 0 /\ restarts = 0

OperatorStep(p) == AnswerReturns(p) \/ Build(p)
ClientStep == Submit \/ MarkRequest \/ CancelBuilt \/ CancelGrants \/ Build("client")
FallbackStep == FallbackRead \/ FallbackBuilt \/ Build("fallback")
RecoveryStep == Recover \/ RecoverBuilt \/ RecoverGrant \/ Build("recovery")
DeleteStep == DeleteResponses \/ DeleteDevice

Next ==
    \/ \E p \in Operators : OperatorStep(p) \/ \E d \in {"grant", "deny"} : Answer(p, d)
    \/ Post \/ Cancel \/ ClientStep
    \/ Fire \/ FallbackStep
    \/ RecoveryStep
    \/ DeleteRequests \/ DeleteStep
    \/ Close \/ CloseReturns \/ Restart

Spec == Init /\ [][Next]_vars

(* Every goroutine runs on and every timer fires; a sync.Mutex hands itself *)
(* to the longest waiter, so a thread that keeps finding it free gets it.   *)
(* Clients, operators, deletes and restarts need never come.                *)
Fairness ==
    /\ \A p \in Operators : WF_vars(OperatorStep(p)) /\ SF_vars(Lock(p)) /\ SF_vars(Gate(p))
    /\ \A p \in {"client", "fallback", "recovery"} : SF_vars(Lock(p)) /\ SF_vars(Gate(p))
    /\ WF_vars(ClientStep) /\ WF_vars(FallbackStep) /\ WF_vars(RecoveryStep)
    /\ SF_vars(CancelGrants)
    /\ WF_vars(Fire) /\ WF_vars(DeleteStep) /\ WF_vars(CloseReturns)

FairSpec == Spec /\ Fairness
----------------------------------------------------------------------------
(* Every variable keeps its type; the retry counter never passes its bound. *)
TypeOK ==
    /\ phase \in {"boot", "serving", "closing", "closed"}
    /\ frq \in {"none", "requested", "cancelled", "deleted"}
    /\ ask \in Asks
    /\ frp \in Responses
    /\ rec \in Kinds \cup {"none"}
    /\ timer \in {"none", "pending", "fired"}
    /\ attempt \in 0..RetryAttempts
    /\ keyLock \in Procs \cup {Nobody} /\ fleet \in Procs \cup {Nobody}
    /\ holder \in [Procs -> Procs \cup {Nobody}]
    /\ del \in {"idle", "requests", "responses"}
    /\ taken \in [frq : {"none", "requested", "cancelled"}, frp : Responses, rec : Kinds \cup {"none"}]
    /\ pc \in [Procs -> Steps]
    /\ loc \in [Procs -> Locals]
    /\ givenUp \in BOOLEAN /\ undeleted \in BOOLEAN /\ unrepaired \in BOOLEAN /\ settled \in BOOLEAN
    /\ faults \in 0..MaxFaults /\ deletes \in 0..MaxDeletes /\ restarts \in 0..MaxRestarts

(* Exactly one answer: whichever of the operator, the deadline fallback, the *)
(* client's cancel and the recovery stores the response first, no other ever *)
(* replaces it.  A stored response only gains its cancel mark or goes with   *)
(* the EndDevice (Queue.build's "exactly-once").                             *)
ResponseNeverReplaced ==
    [][Answered => \/ frp' = frp
                   \/ frp' = [frp EXCEPT !.cancelled = TRUE]
                   \/ frq = "deleted" /\ frp' = NoResponse]_vars

(* A client cancel that returned success leaves nothing committed, whoever   *)
(* answered first and however the fallback, the operator and a restart       *)
(* interleave with it afterwards, for as long as the request is stored       *)
(* (Canceller.Cancel).                                                       *)
CancelSettles == (settled /\ frq # "deleted" /\ ~undeleted) => ~LiveGrant

(* No stored request is forgotten: while the server runs, a request with no  *)
(* response has a deadline timer pending, or a thread that will still arm or *)
(* answer it, unless the fallback gave up, Recover failed on it, or a failed *)
(* delete put it back (attemptFallback, forgetTimer, retryOrGiveUp, arm).    *)
InHand ==
    \/ timer = "pending"
    \/ pc["fallback"] # "idle"
    \/ pc["client"] = "submit"
    \/ givenUp \/ unrepaired

NoRequestForgotten ==
    (phase = "serving" /\ frq \in {"requested", "cancelled"} /\ ~Answered /\ ~undeleted) => InHand

(* Races alone never make the fallback give up: a request left unanswered   *)
(* with its attempts used up has met a failing store, whatever conflicts,   *)
(* cancels and moved answer records it lost to (attemptFallback,            *)
(* recordStoreErr, retryOrGiveUp).                                          *)
GiveUpNeedsFault ==
    (givenUp /\ ~Answered /\ frq # "deleted" /\ \A p \in Procs : pc[p] = "idle")
        => faults > 0

(* A stored request stays in the queue's hands until it is answered, and    *)
(* only a failing store takes it out of them (Queue).                       *)
RequestIsKept == NoRequestForgotten /\ GiveUpNeedsFault

(* Every stored request is answered in the end, across crashes between any   *)
(* two steps, unless it is deleted, the server is stopped, the fallback gave *)
(* up, or a repair or a delete failed half way (Submit, Fire,                *)
(* attemptFallback, Recover).                                                *)
EveryRequestAnswered ==
    (frq \in {"requested", "cancelled"}) ~>
        (\/ Answered \/ frq = "deleted"
         \/ phase \in {"closing", "closed"}
         \/ givenUp \/ unrepaired \/ undeleted)
=============================================================================
