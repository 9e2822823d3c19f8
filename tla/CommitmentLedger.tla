-------------------------- MODULE CommitmentLedger --------------------------
(***************************************************************************)
(* The commitments of one fleet (internal/commitment: ledger.go,           *)
(* operations.go; internal/flowreservation: revise.go, cancel.go,          *)
(* recover.go).                                                            *)
(*                                                                         *)
(* A request's answer is a chain of responses: the first under the         *)
(* request's own id, each revision under the next id.  A response with a   *)
(* window and no cancel mark is a live grant and holds that window of the  *)
(* fleet; DER controls execute it through a link in their lifecycle        *)
(* record.  Gate.Grant, Issue, Revise, CancelGrant and CompleteRevision    *)
(* run under the fleet's lock; the chain walks of CancelGrants and an      *)
(* operator's cancel of one control do not.  A window is a set of slots,   *)
(* a denial the empty one; which executions a grant's power and energy     *)
(* admit is GrantDecision's subject, here they only lie in its window.     *)
(* Each control is on a device of its own, so none supersedes another.     *)
(* A store operation succeeds durably or fails with no change.             *)
(***************************************************************************)
EXTENDS Naturals, FiniteSets, Sequences

CONSTANTS
    Requests,    \* the requests of the fleet
    Revisable,   \* the ones operators revise and cancel in this instance
    Controls,    \* DER control ids
    Windows,     \* the intervals a grant or control may name, as sets of slots
    Revisions,   \* what a revision may ask for: windows, or a denial
    Revisers,    \* admin threads that revise
    MaxIds,      \* bound on the length of a chain
    MaxMRIDs,    \* bound on the responses ever created
    MaxPasses,   \* maxCancelPasses
    MaxFaults,   \* bound on failing store operations
    MaxCrashes   \* bound on crashes

ASSUME LedgerAssumption ==
    /\ Revisable \subseteq Requests /\ Requests # {}
    /\ MaxIds \in Nat \ {0} /\ MaxMRIDs \in Nat /\ MaxPasses \in Nat
    /\ MaxFaults \in Nat /\ MaxCrashes \in Nat
    /\ {} \notin Windows /\ Revisions \subseteq Windows \cup {{}}
    /\ Revisers \cap {"canceller", "recovery", "nobody"} = {}

VARIABLES
    phase,      \* "boot" while Recover runs, then "serving"
    resp,       \* the response stored at each id of each request
    mark,       \* the ids whose lifecycle record says cancelled
    withdrawn,  \* requests their client has cancelled
    ctl,        \* the controls, with the grant each one executes
    minted,     \* the last mRID minted
    fleet,      \* who holds the fleet lock
    pc, loc,    \* each thread's next step and locals
    torev,      \* requests Recover has not looked at yet
    settled,    \* requests a CancelGrants has returned success for
    broken,     \* requests whose undo or recovery failed part way
    faults, crashes

stored == <<resp, mark, withdrawn, ctl, minted>>
vars == <<phase, stored, fleet, pc, loc, torev, settled, broken, faults, crashes>>

Nobody == "nobody"
Threads == Revisers \cup {"canceller", "recovery"}
Ids == 1..MaxIds
MRIDs == 1..MaxMRIDs
NoMRID == 0
Denial == {}

NoResponse == [mrid |-> NoMRID, win |-> Denial]
Responses == [mrid : MRIDs, win : Windows \cup {Denial}]
Stored(q, i) == i \in Ids /\ resp[q][i] # NoResponse

NoControl == [st |-> "none", win |-> Denial, grant |-> NoMRID]
ControlRecords == [st : {"live", "ended", "cancelled"}, win : Windows, grant : MRIDs \cup {NoMRID}]

(* A thread's locals: the request, the response it works on and its id, the *)
(* window asked for, the executions still to write and those written, the   *)
(* chain as walked, the member reached, and what went wrong.                *)
IdleLocals == [q |-> CHOOSE q \in Requests : TRUE, mrid |-> NoMRID, pos |-> 0, win |-> Denial,
               todo |-> {}, touched |-> {}, walk |-> <<>>, n |-> 0, pass |-> 0, bad |-> FALSE]

Goto(p, s, l) == pc' = [pc EXCEPT ![p] = s] /\ loc' = [loc EXCEPT ![p] = l]
Done(p) == Goto(p, "idle", IdleLocals)
Fault == faults < MaxFaults /\ faults' = faults + 1
NoFault == UNCHANGED faults
----------------------------------------------------------------------------
(* What the ledger reads. *)

LiveAt(q, i) == Stored(q, i) /\ i \notin mark[q] /\ resp[q][i].win # Denial
LiveGrant(m) == \E q \in Requests, i \in Ids : LiveAt(q, i) /\ resp[q][i].mrid = m

(* liveExecutions: the grant's uncancelled executions. *)
Executions(m) == {c \in Controls : ctl[c].grant = m /\ ctl[c].st \in {"live", "ended"}}

(* Live: a control that is not cancelled is a plain dispatch unless it      *)
(* executes a live grant.                                                   *)
Plain == {c \in Controls : ctl[c].st \in {"live", "ended"} /\ ~LiveGrant(ctl[c].grant)}

Overlap(v, w) == v \cap w # {}

(* view.CheckGrant: no other live grant and no plain control in the window. *)
CheckGrant(w, except) ==
    /\ \A q \in Requests, i \in Ids :
         (LiveAt(q, i) /\ resp[q][i].mrid # except) => ~Overlap(resp[q][i].win, w)
    /\ \A c \in Plain : ~Overlap(ctl[c].win, w)

(* view.checkPlain *)
CheckPlain(w) == \A q \in Requests, i \in Ids : LiveAt(q, i) => ~Overlap(resp[q][i].win, w)

(* view.checkExecution *)
CheckExecution(m, w) ==
    \E q \in Requests, i \in Ids : LiveAt(q, i) /\ resp[q][i].mrid = m /\ w \subseteq resp[q][i].win

(* fitsRevision *)
FitsRevision(w, cs) == \A c \in cs : ctl[c].win \subseteq w

(* The id an mRID is stored under in q's chain, 0 when it is not. *)
IdOf(q, m) == IF \E i \in Ids : resp[q][i].mrid = m THEN CHOOSE i \in Ids : resp[q][i].mrid = m ELSE 0

(* Issuer.CancelLive: a control that is over counts as stopped. *)
Stop(c) == ctl' = IF ctl[c].st = "live" THEN [ctl EXCEPT ![c].st = "cancelled"] ELSE ctl

Link(c, m) == ctl' = [ctl EXCEPT ![c].grant = m]
MarkCancelled(q, ids) == mark' = [mark EXCEPT ![q] = @ \cup ids]
----------------------------------------------------------------------------
(* Single writes under the fleet lock. *)

(* Mutant: the gate does not look at the plain dispatches. *)
GrantOverPlain(q, w) ==
    /\ phase = "serving" /\ fleet = Nobody
    /\ ~Stored(q, 1) /\ q \notin withdrawn /\ minted < MaxMRIDs
    /\ CheckPlain(w)
    /\ minted' = minted + 1
    /\ resp' = [resp EXCEPT ![q][1] = [mrid |-> minted + 1, win |-> w]]
    /\ UNCHANGED <<phase, mark, withdrawn, ctl, fleet, pc, loc, torev, settled, broken, faults, crashes>>

(* Queue.store through Gate.Grant: the first response of a request. *)
Grant(q, w) ==
    /\ phase = "serving" /\ fleet = Nobody
    /\ ~Stored(q, 1) /\ q \notin withdrawn /\ minted < MaxMRIDs
    /\ CheckGrant(w, NoMRID)
    /\ minted' = minted + 1
    /\ resp' = [resp EXCEPT ![q][1] = [mrid |-> minted + 1, win |-> w]]
    /\ UNCHANGED <<phase, mark, withdrawn, ctl, fleet, pc, loc, torev, settled, broken, faults, crashes>>

(* Issuer.IssueInFleet: a plain dispatch, or the execution of a grant. *)
Issue(c, m, w) ==
    /\ phase = "serving" /\ fleet = Nobody /\ ctl[c].st = "none"
    /\ IF m = NoMRID THEN CheckPlain(w) ELSE CheckExecution(m, w)
    /\ ctl' = [ctl EXCEPT ![c] = [st |-> "live", win |-> w, grant |-> m]]
    /\ UNCHANGED <<phase, resp, mark, withdrawn, minted, fleet, pc, loc, torev, settled, broken, faults, crashes>>

(* Issuer.Cancel of one control by an operator takes no fleet lock; and a    *)
(* control's interval may end at any time.                                   *)
CancelControl(c) ==
    /\ phase = "serving" /\ ctl[c].st = "live"
    /\ ctl' = [ctl EXCEPT ![c].st = "cancelled"]
    /\ UNCHANGED <<phase, resp, mark, withdrawn, minted, fleet, pc, loc, torev, settled, broken, faults, crashes>>

ControlEnds(c) ==
    /\ ctl[c].st = "live"
    /\ ctl' = [ctl EXCEPT ![c].st = "ended"]
    /\ UNCHANGED <<phase, resp, mark, withdrawn, minted, fleet, pc, loc, torev, settled, broken, faults, crashes>>
----------------------------------------------------------------------------
(* flowreservation.Revise and Ledger.Revise by thread v. *)

(* ChainOf and the request are read before the lock: the tip may be stale by *)
(* the time it is used.                                                      *)
ReviseRead(v, q, w) ==
    /\ phase = "serving" /\ pc[v] = "idle"
    /\ w = Denial \/ q \notin withdrawn
    /\ \E i \in Ids :
         /\ Stored(q, i) /\ i < MaxIds /\ ~Stored(q, i + 1)
         /\ \A j \in 1..i : Stored(q, j)
         /\ Goto(v, "revise", [IdleLocals EXCEPT !.q = q, !.mrid = resp[q][i].mrid, !.pos = i, !.win = w])
    /\ UNCHANGED <<phase, stored, fleet, torev, settled, broken, faults, crashes>>

(* Mutant: a revision is not checked against the rest of the fleet. *)
ReviseAdmittedUnchecked(l) ==
    /\ IdOf(l.q, l.mrid) # 0 /\ LiveAt(l.q, IdOf(l.q, l.mrid))
    /\ l.win # Denial => FitsRevision(l.win, Executions(l.mrid))

(* Under the fleet lock: the tip must still be a live grant, and unless the  *)
(* revision is a denial its window free and every execution inside it.       *)
ReviseAdmitted(l) ==
    /\ IdOf(l.q, l.mrid) # 0 /\ LiveAt(l.q, IdOf(l.q, l.mrid))
    /\ l.win # Denial => CheckGrant(l.win, l.mrid) /\ FitsRevision(l.win, Executions(l.mrid))

ReviseLock(v) ==
    /\ pc[v] = "revise" /\ fleet = Nobody
    /\ LET l == loc[v] IN
       \/ /\ ReviseAdmitted(l) /\ minted < MaxMRIDs
          /\ fleet' = v
          /\ Goto(v, IF l.win = Denial THEN "stopExecutions" ELSE "create",
                  [l EXCEPT !.todo = Executions(l.mrid)])
       \/ ~ReviseAdmitted(l) /\ Done(v) /\ UNCHANGED fleet
    /\ UNCHANGED <<phase, stored, torev, settled, broken, faults, crashes>>

(* Mutant: an operation that gives up keeps the lock. *)
GiveUpLocked(p) == Done(p) /\ UNCHANGED fleet

(* A refused or failed operation lets the lock go; what it left behind is    *)
(* what its undo could not remove.                                           *)
GiveUp(p) == fleet' = Nobody /\ Done(p)

(* reviseToDenial cancels the executions first. *)
ReviseStopExecution(v) ==
    /\ pc[v] = "stopExecutions"
    /\ LET l == loc[v] IN
       \/ /\ l.todo = {} /\ Goto(v, "create", l)
          /\ NoFault /\ UNCHANGED <<ctl, fleet>>
       \/ \E c \in l.todo :
            /\ Stop(c)
            /\ Goto(v, "stopExecutions", [l EXCEPT !.todo = @ \ {c}])
            /\ NoFault /\ UNCHANGED fleet
       \/ l.todo # {} /\ Fault /\ GiveUp(v) /\ UNCHANGED ctl
    /\ UNCHANGED <<phase, resp, mark, withdrawn, minted, torev, settled, broken, crashes>>

(* Replacement.Create at the id after the tip's: refused when an earlier     *)
(* revision's failed undo left a response there.                             *)
ReviseCreate(v) ==
    /\ pc[v] = "create"
    /\ LET l == loc[v] IN
       \/ /\ ~Stored(l.q, l.pos + 1)
          /\ minted' = minted + 1
          /\ resp' = [resp EXCEPT ![l.q][l.pos + 1] = [mrid |-> minted + 1, win |-> l.win]]
          /\ Goto(v, IF l.win = Denial THEN "mark" ELSE "relink", l)
          /\ NoFault /\ UNCHANGED fleet
       \/ Stored(l.q, l.pos + 1) /\ GiveUp(v) /\ NoFault /\ UNCHANGED <<minted, resp>>
       \/ Fault /\ GiveUp(v) /\ UNCHANGED <<minted, resp>>
    /\ UNCHANGED <<phase, mark, withdrawn, ctl, torev, settled, broken, crashes>>

(* reviseWrites relinks each execution to the new response. *)
ReviseRelink(v) ==
    /\ pc[v] = "relink"
    /\ LET l == loc[v] IN
       \/ l.todo = {} /\ Goto(v, "mark", l) /\ NoFault /\ UNCHANGED ctl
       \/ \E c \in l.todo :
            /\ Link(c, resp[l.q][l.pos + 1].mrid)
            /\ Goto(v, "relink", [l EXCEPT !.todo = @ \ {c}, !.touched = @ \cup {c}])
            /\ NoFault
       \/ /\ Fault /\ UNCHANGED ctl
          /\ \E c \in l.todo : \E t \in {l.touched, l.touched \cup {c}} :
               Goto(v, "undo", [l EXCEPT !.todo = {}, !.touched = t])
    /\ UNCHANGED <<phase, resp, mark, withdrawn, minted, fleet, torev, settled, broken, crashes>>

(* Mutant: a mark that failed is ignored. *)
ReviseMarkIgnoringFailure(v) ==
    /\ pc[v] = "mark"
    /\ LET l == loc[v] IN
       \/ MarkCancelled(l.q, {l.pos}) /\ GiveUp(v) /\ NoFault
       \/ Fault /\ GiveUp(v) /\ UNCHANGED mark
    /\ UNCHANGED <<phase, resp, withdrawn, ctl, minted, torev, settled, broken, crashes>>

(* Last, the old grant is marked cancelled. *)
ReviseMark(v) ==
    /\ pc[v] = "mark"
    /\ LET l == loc[v] IN
       \/ MarkCancelled(l.q, {l.pos}) /\ GiveUp(v) /\ NoFault
       \/ Fault /\ Goto(v, "undo", l) /\ UNCHANGED <<mark, fleet>>
    /\ UNCHANGED <<phase, resp, withdrawn, ctl, minted, torev, settled, broken, crashes>>

(* Mutant: the new response is deleted though an execution may still name it. *)
ReviseUndoAlways(v) ==
    /\ pc[v] = "undo"
    /\ LET l == loc[v] IN
       \/ \E c \in l.touched :
            /\ Goto(v, "undo", [l EXCEPT !.touched = @ \ {c}])
            /\ \/ Link(c, l.mrid) /\ NoFault
               \/ Fault /\ UNCHANGED ctl
            /\ UNCHANGED <<resp, fleet, broken>>
       \/ /\ l.touched = {} /\ GiveUp(v)
          /\ resp' = [resp EXCEPT ![l.q][l.pos + 1] = NoResponse]
          /\ NoFault /\ UNCHANGED <<ctl, broken>>
    /\ UNCHANGED <<phase, mark, withdrawn, minted, torev, settled, crashes>>

(* The undo: relink back what was touched, then delete the new response      *)
(* unless an execution may still name it.                                    *)
ReviseUndo(v) ==
    /\ pc[v] = "undo"
    /\ LET l == loc[v] IN
       \/ \E c \in l.touched :
            /\ \/ /\ Link(c, l.mrid) /\ NoFault
                  /\ Goto(v, "undo", [l EXCEPT !.touched = @ \ {c}])
               \/ /\ Fault /\ UNCHANGED ctl
                  /\ Goto(v, "undo", [l EXCEPT !.touched = @ \ {c}, !.bad = TRUE])
            /\ UNCHANGED <<resp, fleet, broken>>
       \/ /\ l.touched = {} /\ ~l.bad /\ GiveUp(v)
          /\ resp' = [resp EXCEPT ![l.q][l.pos + 1] = NoResponse]
          /\ NoFault /\ UNCHANGED <<ctl, broken>>
       \/ /\ l.touched = {} /\ GiveUp(v)
          /\ IF l.bad THEN NoFault ELSE Fault
          /\ broken' = broken \cup {l.q} /\ UNCHANGED <<ctl, resp>>
    /\ UNCHANGED <<phase, mark, withdrawn, minted, torev, settled, crashes>>

Revise(v) ==
    \/ ReviseLock(v) \/ ReviseStopExecution(v) \/ ReviseCreate(v) \/ ReviseRelink(v)
    \/ ReviseMark(v) \/ ReviseUndo(v)
----------------------------------------------------------------------------
(* Canceller.CancelGrants: by an operator, or by the client, who first marks *)
(* the request.  The chain is walked one id at a time without the lock.      *)

CancelStart(q) ==
    /\ phase = "serving" /\ pc["canceller"] = "idle"
    /\ withdrawn' \in {withdrawn, withdrawn \cup {q}}
    /\ Goto("canceller", "walk", [IdleLocals EXCEPT !.q = q, !.pass = 1])
    /\ UNCHANGED <<phase, resp, mark, ctl, minted, fleet, torev, settled, broken, faults, crashes>>

(* ChainOf: the first missing id ends the walk. *)
Walk ==
    /\ pc["canceller"] = "walk"
    /\ LET l == loc["canceller"]
           i == Len(l.walk) + 1
       IN \/ /\ Stored(l.q, i) /\ NoFault
             /\ Goto("canceller", "walk", [l EXCEPT !.walk = Append(@, resp[l.q][i])])
          \/ /\ ~Stored(l.q, i) /\ l.walk # <<>> /\ NoFault
             /\ Goto("canceller", "cancel", [l EXCEPT !.n = 1])
          \/ ~Stored(l.q, i) /\ l.walk = <<>> /\ NoFault /\ Done("canceller")
          \/ Fault /\ Done("canceller")
    /\ UNCHANGED <<phase, stored, fleet, torev, settled, broken, crashes>>

(* Mutant: a grant is cancelled without waiting for the fleet lock. *)
CancelMemberUnlocked ==
    /\ pc["canceller"] = "cancel"
    /\ LET l == loc["canceller"]
           m == l.walk[l.n]
           i == IdOf(l.q, m.mrid)
       IN \/ /\ l.n > Len(l.walk) /\ UNCHANGED fleet
             /\ Goto("canceller", "rewalk", [l EXCEPT !.n = 0])
          \/ /\ l.n <= Len(l.walk) /\ (m.win = Denial \/ i \in mark[l.q]) /\ UNCHANGED fleet
             /\ Goto("canceller", "cancel", [l EXCEPT !.n = @ + 1])
          \/ /\ l.n <= Len(l.walk) /\ m.win # Denial /\ i # 0 /\ i \notin mark[l.q] /\ UNCHANGED fleet
             /\ Goto("canceller", "stop", [l EXCEPT !.mrid = m.mrid, !.pos = i, !.todo = Executions(m.mrid)])
    /\ UNCHANGED <<phase, stored, torev, settled, broken, faults, crashes>>

(* cancelChain, one member at a time: a denial commits nothing, a member the *)
(* ledger no longer knows is remembered as gone, a cancelled one skipped.    *)
CancelMember ==
    /\ pc["canceller"] = "cancel"
    /\ LET l == loc["canceller"]
           m == l.walk[l.n]
           i == IdOf(l.q, m.mrid)
           Skip == Goto("canceller", "cancel", [l EXCEPT !.n = @ + 1]) /\ UNCHANGED fleet
       IN \/ /\ l.n > Len(l.walk) /\ UNCHANGED fleet
             /\ Goto("canceller", "rewalk", [l EXCEPT !.n = 0])
          \/ l.n <= Len(l.walk) /\ m.win = Denial /\ Skip
          \/ /\ l.n <= Len(l.walk) /\ m.win # Denial /\ fleet = Nobody
             /\ \/ i # 0 /\ i \in mark[l.q] /\ Skip
                \/ /\ i = 0 /\ UNCHANGED fleet
                   /\ Goto("canceller", "cancel", [l EXCEPT !.n = @ + 1, !.bad = TRUE])
                \/ /\ i # 0 /\ i \notin mark[l.q] /\ fleet' = "canceller"
                   /\ Goto("canceller", "stop", [l EXCEPT !.mrid = m.mrid, !.pos = i,
                                                          !.todo = Executions(m.mrid)])
    /\ UNCHANGED <<phase, stored, torev, settled, broken, faults, crashes>>

(* A failed cancel ends the call; Recover counts the request as failed. *)
CancelFails(p) ==
    /\ fleet' = Nobody
    /\ IF p = "recovery"
       THEN Goto(p, "next", IdleLocals) /\ broken' = broken \cup {loc[p].q}
       ELSE Done(p) /\ UNCHANGED broken

(* Mutant: the grant is marked first, its executions stopped after. *)
StopExecutionAfterMark(p) ==
    /\ pc[p] = "stop"
    /\ LET l == loc[p] IN
       \/ /\ l.pos \notin mark[l.q] /\ MarkCancelled(l.q, {l.pos})
          /\ NoFault /\ UNCHANGED <<ctl, pc, loc, fleet>>
       \/ /\ l.todo = {} /\ Goto(p, "markGrant", l)
          /\ NoFault /\ UNCHANGED <<ctl, mark, fleet>>
       \/ \E c \in l.todo :
            /\ l.pos \in mark[l.q]
            /\ Stop(c)
            /\ Goto(p, "stop", [l EXCEPT !.todo = @ \ {c}])
            /\ NoFault /\ UNCHANGED <<mark, fleet>>
    /\ UNCHANGED <<phase, resp, withdrawn, minted, torev, settled, broken, crashes>>

(* Ledger.CancelGrant: the executions first (one that has ended or was      *)
(* cancelled meanwhile counts as stopped), then the grant's mark.           *)
StopExecution(p) ==
    /\ pc[p] = "stop"
    /\ LET l == loc[p] IN
       \/ /\ l.todo = {} /\ Goto(p, "markGrant", l)
          /\ NoFault /\ UNCHANGED <<ctl, fleet, broken>>
       \/ \E c \in l.todo :
            /\ Stop(c)
            /\ Goto(p, "stop", [l EXCEPT !.todo = @ \ {c}])
            /\ NoFault /\ UNCHANGED <<fleet, broken>>
       \/ l.todo # {} /\ Fault /\ CancelFails(p) /\ UNCHANGED ctl
    /\ UNCHANGED <<phase, resp, mark, withdrawn, minted, torev, settled, crashes>>

MarkGrant(p) ==
    /\ pc[p] = "markGrant"
    /\ LET l == loc[p] IN
       \/ /\ MarkCancelled(l.q, {l.pos}) /\ fleet' = Nobody
          /\ Goto(p, "cancel", [l EXCEPT !.n = @ + 1, !.mrid = NoMRID, !.pos = 0])
          /\ NoFault /\ UNCHANGED broken
       \/ Fault /\ CancelFails(p) /\ UNCHANGED mark
    /\ UNCHANGED <<phase, resp, withdrawn, ctl, minted, torev, settled, crashes>>

(* Mutant: the walk is repeated until it holds still, however often. *)
RewalkForever ==
    /\ pc["canceller"] = "rewalk"
    /\ LET l == loc["canceller"] IN
       \/ /\ Stored(l.q, l.n + 1) /\ UNCHANGED settled
          /\ Goto("canceller", "rewalk", [l EXCEPT !.n = @ + 1])
       \/ /\ ~Stored(l.q, l.n + 1) /\ UNCHANGED settled
          /\ Goto("canceller", "walk", [IdleLocals EXCEPT !.q = l.q, !.pass = l.pass])
    /\ UNCHANGED <<phase, stored, fleet, torev, broken, faults, crashes>>

(* The chain is walked again: only a pass that left it as long as it was and *)
(* met no member that was gone settles the request.                          *)
Rewalk ==
    /\ pc["canceller"] = "rewalk"
    /\ LET l == loc["canceller"]
           ended == ~Stored(l.q, l.n + 1)
           still == ~l.bad /\ l.n = Len(l.walk)
       IN \/ /\ ~ended /\ NoFault /\ UNCHANGED settled
             /\ Goto("canceller", "rewalk", [l EXCEPT !.n = @ + 1])
          \/ /\ ended /\ still /\ NoFault
             /\ settled' = settled \cup {l.q} /\ Done("canceller")
          \/ /\ ended /\ ~still /\ NoFault /\ UNCHANGED settled
             /\ IF l.pass < MaxPasses
                THEN Goto("canceller", "walk", [IdleLocals EXCEPT !.q = l.q, !.pass = l.pass + 1])
                ELSE Done("canceller")
          \/ Fault /\ Done("canceller") /\ UNCHANGED settled
    /\ UNCHANGED <<phase, stored, fleet, torev, broken, crashes>>

CancelGrants == Walk \/ CancelMember \/ StopExecution("canceller") \/ MarkGrant("canceller") \/ Rewalk
----------------------------------------------------------------------------
(* Recover, after a crash and before anything else runs: each request's     *)
(* half-made revision is finished or rolled back (settleRevisions,          *)
(* Ledger.CompleteRevision), and a withdrawn request's grants cancelled.    *)

Unmarked(q) == {i \in Ids : Stored(q, i) /\ i \notin mark[q]}
Olds(l) == Unmarked(l.q) \ {l.pos}
OnOlds(l) == UNION {Executions(resp[l.q][i].mrid) : i \in Olds(l)}
OnTip(l) == Executions(resp[l.q][l.pos].mrid)

(* len(st.chain), as the request's recovery first reads it. *)
ChainLength(q) == Cardinality({i \in Ids : Stored(q, i)})

(* A request's repair begins with as many passes as its chain is long. *)
RecoverNext ==
    /\ phase = "boot" /\ pc["recovery"] = "next"
    /\ \/ \E q \in torev :
            /\ torev' = torev \ {q}
            /\ Goto("recovery", "settle", [IdleLocals EXCEPT !.q = q, !.pass = ChainLength(q)])
            /\ UNCHANGED phase
       \/ torev = {} /\ phase' = "serving" /\ Done("recovery") /\ UNCHANGED torev
    /\ UNCHANGED <<stored, fleet, settled, broken, faults, crashes>>

(* A repair that fails is reported, unless the request is withdrawn: then    *)
(* cancelling every live response settles it too.                            *)
RepairFails ==
    LET q == loc["recovery"].q IN
    IF q \in withdrawn
    THEN Goto("recovery", "cancel", [IdleLocals EXCEPT !.q = q]) /\ UNCHANGED broken
    ELSE Goto("recovery", "next", IdleLocals) /\ broken' = broken \cup {q}

(* CompleteRevision: a denial at the tip, or a grant every execution fits,   *)
(* rolls forward; any other rolls back.  A cancelled tip is refused.         *)
CompleteRevision(l) ==
    LET tip == resp[l.q][l.pos]
        Repair(s, cs) == Goto("recovery", s, [l EXCEPT !.todo = cs]) /\ UNCHANGED broken
    IN IF l.pos \in mark[l.q] THEN RepairFails
       ELSE IF tip.win = Denial THEN Repair("repairStop", OnOlds(l))
       ELSE IF FitsRevision(tip.win, OnOlds(l) \cup OnTip(l)) THEN Repair("repairForward", OnOlds(l))
       ELSE Repair("repairBack", OnTip(l))

(* settleRevisions: a chain with one unmarked response, or none, is settled. *)
(* So is one whose passes are used up: nothing tells the two apart.          *)
RecoverSettle ==
    /\ pc["recovery"] = "settle"
    /\ LET l == loc["recovery"] IN
       \/ /\ l.pass = 0 \/ \A i, j \in Unmarked(l.q) : i = j
          /\ Goto("recovery", "cancel", [IdleLocals EXCEPT !.q = l.q]) /\ UNCHANGED broken
       \/ /\ l.pass > 0 /\ \E i, j \in Unmarked(l.q) : i # j
          /\ \E tip \in Ids : /\ Stored(l.q, tip) /\ ~Stored(l.q, tip + 1)
                              /\ CompleteRevision([l EXCEPT !.pos = tip, !.pass = @ - 1])
    /\ UNCHANGED <<phase, stored, fleet, torev, settled, faults, crashes>>

(* Rolling forward: the older grants' executions are stopped for a denial,   *)
(* or moved to the tip ...                                                   *)
RecoverForward ==
    /\ pc["recovery"] \in {"repairStop", "repairForward"}
    /\ LET l == loc["recovery"] IN
       \/ l.todo = {} /\ Goto("recovery", "repairMark", l) /\ NoFault /\ UNCHANGED <<ctl, broken>>
       \/ \E c \in l.todo :
            /\ IF pc["recovery"] = "repairForward" THEN Link(c, resp[l.q][l.pos].mrid)
               ELSE Stop(c)
            /\ Goto("recovery", pc["recovery"], [l EXCEPT !.todo = @ \ {c}])
            /\ NoFault /\ UNCHANGED broken
       \/ l.todo # {} /\ Fault /\ RepairFails /\ UNCHANGED ctl
    /\ UNCHANGED <<phase, resp, mark, withdrawn, minted, fleet, torev, settled, crashes>>

(* ... and the older grants marked, oldest first. *)
RecoverMark ==
    /\ pc["recovery"] = "repairMark"
    /\ LET l == loc["recovery"] IN
       \/ /\ Olds(l) = {} /\ Goto("recovery", "settle", [IdleLocals EXCEPT !.q = l.q, !.pass = l.pass])
          /\ NoFault /\ UNCHANGED <<mark, broken>>
       \/ /\ \E i \in Olds(l) : (\A j \in Olds(l) : i <= j) /\ MarkCancelled(l.q, {i})
          /\ NoFault /\ UNCHANGED <<pc, loc, broken>>
       \/ Olds(l) # {} /\ Fault /\ RepairFails /\ UNCHANGED mark
    /\ UNCHANGED <<phase, resp, withdrawn, ctl, minted, fleet, torev, settled, crashes>>

(* Mutant: the grant the revision was to replace is deleted, not the tip. *)
RecoverBackDeletesOld ==
    /\ pc["recovery"] = "repairBack"
    /\ LET l == loc["recovery"] IN
       /\ \E i \in Olds(l) : resp' = [resp EXCEPT ![l.q][i] = NoResponse]
       /\ Goto("recovery", "settle", l)
    /\ UNCHANGED <<phase, mark, withdrawn, ctl, minted, fleet, torev, settled, broken, faults, crashes>>

(* Mutant: the tip is kept, so the passes run out with two live responses. *)
RecoverBackKeepsTip ==
    /\ pc["recovery"] = "repairBack"
    /\ Goto("recovery", "settle", loc["recovery"])
    /\ UNCHANGED <<phase, stored, fleet, torev, settled, broken, faults, crashes>>

(* Rolling back: the tip's executions move to the newest older grant, then   *)
(* the tip is deleted.                                                       *)
RecoverBack ==
    /\ pc["recovery"] = "repairBack"
    /\ LET l == loc["recovery"] IN
       \/ \E c \in l.todo, i \in Olds(l) :
            /\ \A j \in Olds(l) : j <= i
            /\ Link(c, resp[l.q][i].mrid)
            /\ Goto("recovery", "repairBack", [l EXCEPT !.todo = @ \ {c}])
            /\ NoFault /\ UNCHANGED <<resp, broken>>
       \/ /\ l.todo = {} /\ resp' = [resp EXCEPT ![l.q][l.pos] = NoResponse]
          /\ Goto("recovery", "settle", l) /\ NoFault /\ UNCHANGED <<ctl, broken>>
       \/ Fault /\ RepairFails /\ UNCHANGED <<ctl, resp>>
    /\ UNCHANGED <<phase, mark, withdrawn, minted, fleet, torev, settled, crashes>>

(* Mutant: a withdrawn request's grants are left alone. *)
RecoverCancelNothing ==
    /\ pc["recovery"] = "cancel"
    /\ Goto("recovery", "next", IdleLocals)
    /\ UNCHANGED <<phase, stored, fleet, torev, settled, broken, faults, crashes>>

(* A withdrawn request's live grants are cancelled as Canceller would. *)
RecoverCancel ==
    /\ pc["recovery"] = "cancel"
    /\ LET l == loc["recovery"]
           live == {i \in Ids : LiveAt(l.q, i)}
       IN \/ \E i \in live :
               /\ l.q \in withdrawn /\ \A j \in live : i <= j
               /\ fleet' = "recovery"
               /\ Goto("recovery", "stop", [l EXCEPT !.mrid = resp[l.q][i].mrid, !.pos = i,
                                                     !.todo = Executions(resp[l.q][i].mrid)])
          \/ /\ l.q \notin withdrawn \/ live = {}
             /\ Goto("recovery", "next", IdleLocals) /\ UNCHANGED fleet
    /\ UNCHANGED <<phase, stored, torev, settled, broken, faults, crashes>>

Recover == RecoverNext \/ RecoverSettle \/ RecoverForward \/ RecoverMark \/ RecoverBack
           \/ RecoverCancel \/ StopExecution("recovery") \/ MarkGrant("recovery")

(* The process dies between any two steps: threads and locks are gone, the  *)
(* stores stay.                                                             *)
Crash ==
    /\ crashes < MaxCrashes
    /\ crashes' = crashes + 1
    /\ phase' = "boot" /\ torev' = Requests
    /\ fleet' = Nobody
    /\ pc' = [p \in Threads |-> IF p = "recovery" THEN "next" ELSE "idle"]
    /\ loc' = [p \in Threads |-> IdleLocals]
    /\ broken' = {}
    /\ UNCHANGED <<stored, settled, faults>>
----------------------------------------------------------------------------
Init ==
    /\ phase = "serving"
    /\ resp = [q \in Requests |-> [i \in Ids |-> NoResponse]]
    /\ mark = [q \in Requests |-> {}]
    /\ withdrawn = {}
    /\ ctl = [c \in Controls |-> NoControl]
    /\ minted = 0
    /\ fleet = Nobody
    /\ pc = [p \in Threads |-> "idle"]
    /\ loc = [p \in Threads |-> IdleLocals]
    /\ torev = {} /\ settled = {} /\ broken = {}
    /\ faults = 0 /\ crashes = 0

Next ==
    \/ \E q \in Requests, w \in Windows : Grant(q, w)
    \/ \E c \in Controls, w \in Windows, m \in {NoMRID} \cup MRIDs : Issue(c, m, w)
    \/ \E c \in Controls : CancelControl(c) \/ ControlEnds(c)
    \/ \E v \in Revisers : \/ \E q \in Revisable, w \in Revisions : ReviseRead(v, q, w)
                           \/ Revise(v)
    \/ \E q \in Revisable : CancelStart(q)
    \/ CancelGrants
    \/ Recover
    \/ Crash

Spec == Init /\ [][Next]_vars

(* Nothing a lock holder waits for needs another thread, so each thread      *)
(* keeps taking its steps; a call waiting for the lock gets its turn         *)
(* (sync.Mutex hands itself to a waiter that starves).                       *)
FairSpec == Spec /\ WF_vars(Recover) /\ SF_vars(CancelGrants) /\ \A v \in Revisers : SF_vars(Revise(v))
----------------------------------------------------------------------------
(* Every variable keeps its type. *)
TypeOK ==
    /\ phase \in {"boot", "serving"}
    /\ resp \in [Requests -> [Ids -> Responses \cup {NoResponse}]]
    /\ mark \in [Requests -> SUBSET Ids]
    /\ withdrawn \subseteq Requests
    /\ ctl \in [Controls -> ControlRecords \cup {NoControl}]
    /\ minted \in 0..MaxMRIDs
    /\ fleet \in Threads \cup {Nobody}
    /\ torev \subseteq Requests /\ settled \subseteq Requests /\ broken \subseteq Requests
    /\ faults \in 0..MaxFaults /\ crashes \in 0..MaxCrashes

(* The ledger's one rule: two requests never hold a common slot of the      *)
(* fleet, and no plain control in force lies over a live grant, through     *)
(* every prefix of a revision, a cancel and a recovery (view.CheckGrant,    *)
(* checkPlain, reviseWrites, CompleteRevision).                             *)
NeverDoubleBooked ==
    /\ \A q, r \in Requests, i, j \in Ids :
         (q # r /\ LiveAt(q, i) /\ LiveAt(r, j)) => ~Overlap(resp[q][i].win, resp[r][j].win)
    /\ \A c \in Controls : (ctl[c].st = "live" /\ ctl[c].grant = NoMRID) => CheckPlain(ctl[c].win)

(* A control in force that executes a grant always names one that is stored *)
(* and live: executions are stopped or moved before their grant is marked,  *)
(* and the new response outlives every link to it (CancelGrant,             *)
(* reviseWrites, reviseToDenial, CompleteRevision).                         *)
ExecutionsHaveLiveGrant ==
    \A c \in Controls : (ctl[c].st = "live" /\ ctl[c].grant # NoMRID) => LiveGrant(ctl[c].grant)

(* The ids of a chain have no gap, so a walk that stops at the first missing *)
(* id sees every response (ChainOf).                                         *)
ChainHasNoGap == \A q \in Requests, i \in Ids : (i > 1 /\ Stored(q, i)) => Stored(q, i - 1)

(* Outside a revision at most one response of a chain is live, unless an    *)
(* undo or a repair failed and was reported (Revise, settleRevisions).      *)
AtMostOneLive ==
    (phase = "serving" /\ fleet = Nobody) =>
        \A q \in Requests \ broken : Cardinality({i \in Ids : LiveAt(q, i)}) <= 1

(* A cancel mark always belongs to a stored response, so the response a     *)
(* later revision stores under a freed id is never born cancelled           *)
(* (reviseWrites, CompleteRevision's deleteTip).                            *)
MarksBelongToResponses == \A q \in Requests, i \in Ids : i \in mark[q] => Stored(q, i)

(* Every walk of a chain sees one grant to act on, and all of it: the ids    *)
(* have no gap, each mark has its response, and outside a revision at most   *)
(* one response is live (ChainOf, Revise, settleRevisions).                  *)
ChainsAreOrderly == ChainHasNoGap /\ MarksBelongToResponses /\ AtMostOneLive

(* When recovery ends, a request its client withdrew holds no grant, unless *)
(* its repair failed and was reported (recoverRequest).                     *)
RecoveryCancelsWithdrawn ==
    [][(phase = "boot" /\ phase' = "serving") =>
          \A q \in withdrawn \ broken, i \in Ids : ~LiveAt(q, i)]_vars

(* Every call ends: a revision, a cancel whose chain revisions move under    *)
(* it, and the recovery return whatever fails, since each lets the fleet     *)
(* lock go on every path and the passes of a cancel are bounded (Revise,     *)
(* CancelGrant, maxCancelPasses).  A revision that MaxMRIDs keeps from       *)
(* minting is the model's to excuse.                                         *)
EveryCallEnds ==
    \A p \in Threads : (pc[p] # "idle") ~> (pc[p] = "idle" \/ (pc[p] = "revise" /\ minted = MaxMRIDs))
----------------------------------------------------------------------------
(* The calendar the ledger implements. *)
Held == [p \in Requests \cup {"plain"} |->
            IF p = "plain" THEN UNION {ctl[c].win : c \in {d \in Controls : ctl[d].st = "live" /\ ctl[d].grant = NoMRID}}
            ELSE UNION {resp[p][i].win : i \in {j \in Ids : LiveAt(p, j)}}]

Calendar == INSTANCE FleetCalendar WITH Parties <- Requests \cup {"plain"}, Slots <- UNION Windows, held <- Held

(* Every step of the ledger, of its undo and of its repair is a rebooking by *)
(* one party, or changes no holding.                                         *)
KeepsCalendar == Calendar!Spec
=============================================================================
