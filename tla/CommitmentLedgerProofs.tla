----------------------- MODULE CommitmentLedgerProofs -----------------------
(***************************************************************************)
(* Theorems about CommitmentLedger, for every fleet: any number of         *)
(* requests, controls, windows, revising operators, faults and crashes.    *)
(* They rest on the inductive invariant of LedgerInvariant.                *)
(***************************************************************************)
EXTENDS LedgerRevisionProofs, LedgerRecoveryProofs, FiniteSetTheorems

(* What the invariants say nothing of. *)
Bounded ==
    /\ withdrawn \subseteq Requests /\ torev \subseteq Requests
    /\ settled \subseteq Requests /\ broken \subseteq Requests
    /\ faults \in 0..MaxFaults /\ crashes \in 0..MaxCrashes

LEMMA BoundedStays == ASSUME LedgerInv, Bounded, [Next]_vars PROVE Bounded'
  <1>1. \A p \in Threads : loc[p].q \in Requests BY DEF LedgerInv, Typed, Locals
  <1>2. ASSUME Fault \/ NoFault PROVE faults' \in 0..MaxFaults
    BY <1>2, LedgerAssumption DEF Fault, NoFault, Bounded
  <1> USE DEF Bounded
  <1>3. CASE UNCHANGED vars BY <1>3 DEF vars, stored
  <1>4. ASSUME NEW q \in Requests, NEW w \in Windows, Grant(q, w) PROVE Bounded' BY <1>4 DEF Grant
  <1>5. ASSUME NEW c \in Controls, NEW w \in Windows, NEW m \in {NoMRID} \cup MRIDs, Issue(c, m, w) PROVE Bounded'
    BY <1>5 DEF Issue
  <1>6. ASSUME NEW c \in Controls, CancelControl(c) \/ ControlEnds(c) PROVE Bounded' BY <1>6 DEF CancelControl, ControlEnds
  <1>7. ASSUME NEW v \in Revisers, NEW q \in Revisable, NEW w \in Revisions, ReviseRead(v, q, w) PROVE Bounded'
    BY <1>7 DEF ReviseRead, stored
  <1>8. ASSUME NEW v \in Revisers, Revise(v) PROVE Bounded'
    <2>0. loc[v].q \in Requests BY <1>1, ThreadFacts, SMTT(60), Z3T(60)
    <2>1. UNCHANGED <<withdrawn, torev, settled, crashes>>
      BY <1>8, ZenonT(60) DEF Revise, ReviseLock, ReviseStopExecution, ReviseCreate, ReviseRelink, ReviseMark, ReviseUndo, stored
    <2>2. faults' \in 0..MaxFaults
      <3>1. Fault \/ NoFault
        BY <1>8, ZenonT(60) DEF Revise, ReviseLock, ReviseStopExecution, ReviseCreate, ReviseRelink, ReviseMark, ReviseUndo, NoFault
      <3> QED BY <1>2, <3>1, SMTT(60), Z3T(60)
    <2>3. broken' \subseteq Requests
      BY <1>8, <2>0, ZenonT(60) DEF Revise, ReviseLock, ReviseStopExecution, ReviseCreate, ReviseRelink, ReviseMark, ReviseUndo
    <2> QED BY <2>1, <2>2, <2>3
  <1>9. ASSUME NEW q \in Revisable, CancelStart(q) PROVE Bounded' BY <1>9, LedgerAssumption DEF CancelStart
  <1>10. ASSUME NEW p \in {"canceller", "recovery"}, StopExecution(p) \/ MarkGrant(p) PROVE Bounded'
    <2>0. loc[p].q \in Requests BY <1>1, ThreadFacts
    <2>1. UNCHANGED <<withdrawn, torev, settled, crashes>> /\ (Fault \/ NoFault) BY <1>10, ZenonT(60) DEF StopExecution, MarkGrant
    <2>2. broken' \subseteq Requests BY <1>10, <2>0, ZenonT(60) DEF StopExecution, MarkGrant, CancelFails
    <2> QED BY <1>2, <2>1, <2>2
  <1>11. ASSUME Walk \/ CancelMember \/ Rewalk PROVE Bounded'
    <2>0. loc["canceller"].q \in Requests BY <1>1, ThreadFacts, SMTT(60), Z3T(60)
    <2>1. UNCHANGED <<withdrawn, torev, broken, crashes>> /\ (Fault \/ NoFault)
      BY <1>11, SMTT(60), Z3T(60) DEF Walk, CancelMember, Rewalk, stored, NoFault
    <2>2. settled' \subseteq Requests BY <1>11, <2>0 DEF Walk, CancelMember, Rewalk
    <2> QED BY <1>2, <2>1, <2>2
  <1>12. ASSUME RecoverNext \/ RecoverSettle \/ RecoverForward \/ RecoverMark \/ RecoverBack \/ RecoverCancel PROVE Bounded'
    <2>0. loc["recovery"].q \in Requests BY <1>1, ThreadFacts, SMTT(60), Z3T(60)
    <2>1. UNCHANGED <<withdrawn, settled, crashes>> /\ (Fault \/ NoFault)
      BY <1>12, ZenonT(60) DEF RecoverNext, RecoverSettle, RecoverForward, RecoverMark, RecoverBack, RecoverCancel, stored, NoFault
    <2>2. torev' \subseteq Requests
      BY <1>12, ZenonT(60) DEF RecoverNext, RecoverSettle, RecoverForward, RecoverMark, RecoverBack, RecoverCancel
    <2>a. RepairFails => broken' \subseteq Requests BY <2>0 DEF RepairFails
    <2>b. \A l : CompleteRevision(l) => RepairFails \/ UNCHANGED broken BY SMTT(60), Z3T(60) DEF CompleteRevision
    <2>3. broken' \subseteq Requests
      BY <1>12, <2>a, <2>b, ZenonT(60) DEF RecoverNext, RecoverSettle, RecoverForward, RecoverMark, RecoverBack, RecoverCancel
    <2> QED BY <1>2, <2>1, <2>2, <2>3
  <1>13. CASE Crash BY <1>13, LedgerAssumption DEF Crash, stored
  <1> QED BY <1>3, <1>4, <1>5, <1>6, <1>7, <1>8, <1>9, <1>10, <1>11, <1>12, <1>13, SMTT(60), Z3T(60) DEF Next, CancelGrants, Recover

LEMMA LedgerInvStays == ASSUME LedgerInv, Bounded, [Next]_vars PROVE LedgerInv'
  <1>1. CASE UNCHANGED vars
    <2>1. UNCHANGED <<phase, resp, mark, ctl, minted, fleet, pc, loc>> BY <1>1 DEF vars, stored
    <2>2. Typed' BY <2>1 DEF LedgerInv, Typed, StoreTyped
    <2>3. /\ Sound' /\ \A m : LiveOn(m)' = LiveOn(m)
          /\ \A q, j : (LiveAt(q, j)' <=> LiveAt(q, j)) /\ (Stored(q, j)' <=> Stored(q, j))
      BY <2>1, SameStores DEF LedgerInv
    <2>4. Excluded' BY <2>1 DEF LedgerInv, Excluded
    <2>5. ASSUME NEW v \in Threads PROVE Anchored(v)' /\ Revising(v)' /\ Cancelling(v)' /\ Known(v)'
      <3>1. Anchored(v)' BY <2>1, SMTT(60), Z3T(60) DEF LedgerInv, Anchored
      <3>a. Revising(v) /\ Cancelling(v) BY DEF LedgerInv
      <3>2. Revising(v)' BY <2>1, <3>a DEF Revising, LiveAt, LiveOn, Stored
      <3>3. Cancelling(v)' BY <2>1, <3>a DEF Cancelling, LiveOn
      <3>4. Known(v)' BY <2>1, SMTT(60), Z3T(60) DEF LedgerInv, Known
      <3> QED BY <3>1, <3>2, <3>3, <3>4, SMTT(60), Z3T(60)
    <2>6. Repairing'
      <3>1. Olds(loc["recovery"])' = Olds(loc["recovery"]) BY <2>1, <2>3 DEF Olds, Unmarked
      <3> QED BY <2>1, <2>3, <3>1, SMTT(60), Z3T(60) DEF LedgerInv, Repairing
    <2> QED BY <2>2, <2>3, <2>4, <2>5, <2>6 DEF LedgerInv
  <1>2. ASSUME NEW v \in Revisers, NEW q \in Revisable, NEW w \in Revisions, ReviseRead(v, q, w) PROVE LedgerInv'
    <2>1. q \in Requests /\ w \in Windows \cup {Denial} BY LedgerAssumption DEF Denial
    <2> QED BY <1>2, <2>1, ReviseReadStep
  <1>3. ASSUME NEW v \in Revisers, Revise(v) PROVE LedgerInv'
    BY <1>3, ReviseLockStep, ReviseStopStep, ReviseCreateStep, ReviseRelinkStep, ReviseMarkStep, ReviseUndoStep, SMTT(60), Z3T(60) DEF Revise
  <1>4. ASSUME NEW q \in Revisable, CancelStart(q) PROVE LedgerInv' BY <1>4, LedgerAssumption, CancelStartStep
  <1>5. CASE CancelGrants
    BY <1>5, WalkStep, CancelMemberStep, StopExecutionStep, MarkGrantStep, RewalkStep DEF CancelGrants
  <1>6. CASE Recover
    BY <1>6, RecoverNextStep, RecoverSettleStep, RecoverForwardStep, RecoverMarkStep, RecoverBackStep,
       RecoverCancelStep, StopExecutionStep, MarkGrantStep, SMTT(60), Z3T(60) DEF Recover, Bounded
  <1> QED BY <1>1, <1>2, <1>3, <1>4, <1>5, <1>6, GrantStep, IssueStep, EndStep, CrashStep, SMTT(60), Z3T(60) DEF Next
----------------------------------------------------------------------------
(* LedgerInv holds throughout: it starts true and each action keeps it. *)
THEOREM Inductive == Spec => [](LedgerInv /\ Bounded)
  <1>1. Init => LedgerInv /\ Bounded
    <2>1. Init => Bounded BY LedgerAssumption DEF Init, Bounded
    <2> QED BY <2>1, InitInv
  <1>2. LedgerInv /\ Bounded /\ [Next]_vars => (LedgerInv /\ Bounded)' BY LedgerInvStays, BoundedStays
  <1> QED BY <1>1, <1>2, PTL DEF Spec

(* Every variable keeps its type, for every size of the instance. *)
THEOREM TypeCorrect == Spec => []TypeOK
  <1>1. LedgerInv /\ Bounded => TypeOK BY DEF LedgerInv, Typed, StoreTyped, Bounded, TypeOK
  <1> QED BY <1>1, Inductive, PTL

(* The ledger's rule: no two requests ever hold a common slot and no plain   *)
(* control in force lies over a live grant, through every prefix of a        *)
(* revision, its undo, a cancel, a crash and the repair after it             *)
(* (CheckGrant, checkPlain, reviseWrites, CompleteRevision).                 *)
THEOREM LedgerRule == Spec => []NeverDoubleBooked
  <1>1. LedgerInv => NeverDoubleBooked BY DEF LedgerInv, Sound
  <1> QED BY <1>1, Inductive, PTL

(* A control in force that executes a grant always names a stored, live one *)
(* (CancelGrant, reviseWrites, reviseToDenial, CompleteRevision).            *)
THEOREM NoOrphanedExecution == Spec => []ExecutionsHaveLiveGrant
  <1>1. LedgerInv => ExecutionsHaveLiveGrant BY DEF LedgerInv, Sound
  <1> QED BY <1>1, Inductive, PTL

(* A walk that stops at the first missing id sees the whole chain (ChainOf). *)
THEOREM ChainsAreWhole == Spec => []ChainHasNoGap
  <1>1. LedgerInv => ChainHasNoGap
    <2> SUFFICES ASSUME LedgerInv, NEW q \in Requests, NEW i \in Ids, i > 1, Stored(q, i) PROVE Stored(q, i - 1)
      BY DEF ChainHasNoGap
    <2>1. i - 1 \in Ids /\ i - 1 < i BY LedgerAssumption, SMTT(60), Z3T(60) DEF Ids
    <2> QED BY <2>1 DEF LedgerInv, Sound, Chained
  <1> QED BY <1>1, Inductive, PTL

(* A response stored under a freed id is never born cancelled (deleteTip).   *)
THEOREM NoStrayMark == Spec => []MarksBelongToResponses
  <1>1. LedgerInv => MarksBelongToResponses BY DEF LedgerInv, Sound, Chained, MarksBelongToResponses
  <1> QED BY <1>1, Inductive, PTL
----------------------------------------------------------------------------
(* The ledger implements the calendar: a step writes the controls, or the   *)
(* responses and marks of one request.                                      *)
OneParty ==
    \/ UNCHANGED <<resp, mark>>
    \/ /\ UNCHANGED ctl
       /\ \E q \in Requests : \A r \in Requests \ {q} : resp'[r] = resp[r] /\ mark'[r] = mark[r]

LEMMA StepsAreOneParty == ASSUME LedgerInv, [Next]_vars PROVE OneParty
  <1>1. \A p \in Threads : loc[p].q \in Requests BY DEF LedgerInv, Typed, Locals
  <1>2. ASSUME NEW q, NEW i, NEW x, resp' = [resp EXCEPT ![q][i] = x] PROVE \A r \in Requests \ {q} : resp'[r] = resp[r]
    BY <1>2 DEF LedgerInv, Typed, StoreTyped
  <1>3. ASSUME NEW q, NEW ids, MarkCancelled(q, ids) PROVE \A r \in Requests \ {q} : mark'[r] = mark[r]
    BY <1>3 DEF MarkCancelled, LedgerInv, Typed, StoreTyped
  <1>4. CASE UNCHANGED vars BY <1>4 DEF vars, stored, OneParty
  <1>5. ASSUME NEW q \in Requests, NEW w \in Windows, Grant(q, w) PROVE OneParty
    <2>1. \A r \in Requests \ {q} : resp'[r] = resp[r] BY <1>2, <1>5 DEF Grant
    <2> QED BY <1>5, <2>1 DEF Grant, OneParty
  <1>6. ASSUME NEW v \in Revisers, Revise(v) PROVE OneParty
    <2>1. PICK q \in Requests : q = loc[v].q BY <1>1, ThreadFacts, SMTT(60), Z3T(60)
    <2>2. CASE ReviseLock(v) \/ ReviseStopExecution(v) \/ ReviseRelink(v)
      BY <2>2, ZenonT(60) DEF ReviseLock, ReviseStopExecution, ReviseRelink, stored, OneParty
    <2>3. CASE ReviseCreate(v)
      <3>a. UNCHANGED resp \/ \E i, x : resp' = [resp EXCEPT ![q][i] = x]
        <4>1. \/ UNCHANGED resp
              \/ resp' = [resp EXCEPT ![loc[v].q][loc[v].pos + 1] = [mrid |-> minted + 1, win |-> loc[v].win]]
          BY <2>3 DEF ReviseCreate
        <4> QED BY <2>1, <4>1, ZenonT(60)
      <3>1. UNCHANGED resp \/ \A r \in Requests \ {q} : resp'[r] = resp[r] BY <1>2, <3>a
      <3> QED BY <2>3, <3>1 DEF ReviseCreate, OneParty
    <2>4. CASE ReviseMark(v)
      <3>1. UNCHANGED mark \/ \A r \in Requests \ {q} : mark'[r] = mark[r] BY <1>3, <2>1, <2>4 DEF ReviseMark
      <3> QED BY <2>4, <3>1 DEF ReviseMark, OneParty
    <2>5. CASE ReviseUndo(v)
      <3>1. UNCHANGED resp \/ (UNCHANGED ctl /\ resp' = [resp EXCEPT ![q][loc[v].pos + 1] = NoResponse])
        BY <2>1, <2>5, ZenonT(60) DEF ReviseUndo
      <3>2. UNCHANGED resp \/ (UNCHANGED ctl /\ \A r \in Requests \ {q} : resp'[r] = resp[r]) BY <1>2, <3>1
      <3> QED BY <2>5, <3>2, ZenonT(60) DEF ReviseUndo, OneParty
    <2> QED BY <1>6, <2>2, <2>3, <2>4, <2>5 DEF Revise
  <1>7. ASSUME NEW p \in {"canceller", "recovery"}, MarkGrant(p) PROVE OneParty
    <2>1. PICK q \in Requests : q = loc[p].q BY <1>1, ThreadFacts
    <2>2. UNCHANGED mark \/ \A r \in Requests \ {q} : mark'[r] = mark[r] BY <1>3, <1>7, <2>1 DEF MarkGrant
    <2> QED BY <1>7, <2>2 DEF MarkGrant, OneParty
  <1>8. CASE RecoverMark
    <2>1. PICK q \in Requests : q = loc["recovery"].q BY <1>1, ThreadFacts
    <2>2. UNCHANGED mark \/ \A r \in Requests \ {q} : mark'[r] = mark[r] BY <1>3, <1>8, <2>1, ZenonT(60) DEF RecoverMark
    <2> QED BY <1>8, <2>2 DEF RecoverMark, OneParty
  <1>9. CASE RecoverBack
    <2>1. PICK q \in Requests : q = loc["recovery"].q BY <1>1, ThreadFacts
    <2>a. UNCHANGED resp \/ (UNCHANGED ctl /\ resp' = [resp EXCEPT ![q][loc["recovery"].pos] = NoResponse])
      BY <1>9, <2>1, ZenonT(60) DEF RecoverBack
    <2>2. UNCHANGED resp \/ (UNCHANGED ctl /\ \A r \in Requests \ {q} : resp'[r] = resp[r]) BY <1>2, <2>a, SMTT(60), Z3T(60)
    <2> QED BY <1>9, <2>2 DEF RecoverBack, OneParty
  <1>10. \A c, m, w : Issue(c, m, w) \/ CancelControl(c) \/ ControlEnds(c) => OneParty
    BY DEF Issue, CancelControl, ControlEnds, OneParty
  <1>11. \A v, q, w : ReviseRead(v, q, w) \/ CancelStart(q) => OneParty BY ZenonT(60) DEF ReviseRead, CancelStart, OneParty, stored
  <1>12. \A p : StopExecution(p) => OneParty BY SMTT(60), Z3T(60) DEF StopExecution, OneParty
  <1>13. Walk \/ CancelMember \/ Rewalk \/ RecoverNext \/ RecoverSettle \/ RecoverForward \/ RecoverCancel \/ Crash => OneParty
    BY ZenonT(60) DEF Walk, CancelMember, Rewalk, RecoverNext, RecoverSettle, RecoverForward, RecoverCancel, Crash, OneParty, stored
  <1> QED BY <1>4, <1>5, <1>6, <1>7, <1>8, <1>9, <1>10, <1>11, <1>12, <1>13, SMTT(60), Z3T(60) DEF Next, CancelGrants, Recover

(* After any step the parties' holdings are apart. *)
LEMMA HoldingsApart ==
    ASSUME LedgerInv', NEW p \in Requests \cup {"plain"}
    PROVE  /\ Held'[p] \subseteq UNION Windows
           /\ \A r \in (Requests \cup {"plain"}) \ {p} : Held'[p] \cap Held'[r] = {}
  <1>0. Typed' /\ NeverDoubleBooked' BY DEF LedgerInv, Sound
  <1>1. Held'["plain"] = UNION {ctl'[c].win : c \in {d \in Controls : ctl'[d].st = "live" /\ ctl'[d].grant = NoMRID}}
    BY DEF Held
  <1>2. ASSUME NEW q \in Requests, q # "plain"
        PROVE  Held'[q] = UNION {resp'[q][i].win : i \in {j \in Ids : LiveAt(q, j)'}}
    BY <1>2 DEF Held, LiveAt, Stored
  <1>3. \A c \in Controls : ctl'[c].st = "live" => ctl'[c].win \in Windows
    <2> SUFFICES ASSUME NEW c \in Controls, ctl'[c].st = "live" PROVE ctl'[c].win \in Windows OBVIOUS
    <2>1. ctl'[c] \in ControlRecords \cup {NoControl} BY <1>0 DEF Typed, StoreTyped
    <2>2. ctl'[c] # NoControl BY DEF NoControl
    <2> QED BY <2>1, <2>2 DEF ControlRecords
  <1>4. \A q \in Requests, i \in Ids : LiveAt(q, i)' => resp'[q][i].win \in Windows
    <2> SUFFICES ASSUME NEW q \in Requests, NEW i \in Ids, LiveAt(q, i)' PROVE resp'[q][i].win \in Windows OBVIOUS
    <2>1. resp'[q][i] \in Responses \cup {NoResponse} BY <1>0 DEF Typed, StoreTyped
    <2>2. resp'[q][i] # NoResponse /\ resp'[q][i].win # Denial BY DEF LiveAt, Stored
    <2> QED BY <2>1, <2>2 DEF Responses
  <1>5. Held'[p] \subseteq UNION Windows BY <1>1, <1>2, <1>3, <1>4, SMTT(60), Z3T(60)
  <1>6. ASSUME NEW q \in Requests, q # "plain" PROVE Held'["plain"] \cap Held'[q] = {}
    BY <1>0, <1>1, <1>2, <1>6, SMTT(60), Z3T(60) DEF NeverDoubleBooked, CheckPlain, Overlap
  <1>7. ASSUME NEW q \in Requests, NEW r \in Requests, q # "plain", r # "plain", q # r PROVE Held'[q] \cap Held'[r] = {}
    BY <1>0, <1>2, <1>7 DEF NeverDoubleBooked, Overlap
  <1> QED BY <1>5, <1>6, <1>7

LEMMA StepsRebook == ASSUME LedgerInv, LedgerInv', [Next]_vars PROVE [Calendar!Next]_Held
  <1> DEFINE P == Requests \cup {"plain"}
  <1>1. PICK p \in P : \A r \in P \ {p} : Held'[r] = Held[r]
    <2>1. CASE UNCHANGED <<resp, mark>>
      <3>1. \A q, j : LiveAt(q, j)' <=> LiveAt(q, j) BY <2>1 DEF LiveAt, Stored
      <3>2. \A r \in P \ {"plain"} : Held'[r] = Held[r] BY <2>1, <3>1, ZenonT(60) DEF Held
      <3> QED BY <3>2
    <2>2. ASSUME UNCHANGED ctl, NEW q \in Requests, \A r \in Requests \ {q} : resp'[r] = resp[r] /\ mark'[r] = mark[r]
          PROVE  \A r \in P \ {q} : Held'[r] = Held[r]
      <3>1. \A r \in Requests \ {q}, j \in Ids : LiveAt(r, j)' <=> LiveAt(r, j) BY <2>2 DEF LiveAt, Stored
      <3>2. Held'["plain"] = Held["plain"] BY <2>2 DEF Held
      <3>3. ASSUME NEW r \in Requests \ {q}, r # "plain" PROVE Held'[r] = Held[r]
        <4>1. resp'[r] = resp[r] /\ {j \in Ids : LiveAt(r, j)'} = {j \in Ids : LiveAt(r, j)} BY <2>2, <3>1
        <4>2. Held[r] = UNION {resp[r][i].win : i \in {j \in Ids : LiveAt(r, j)}} BY <3>3 DEF Held
        <4>3. Held'[r] = UNION {resp'[r][i].win : i \in {j \in Ids : LiveAt(r, j)'}} BY <3>3 DEF Held, LiveAt, Stored
        <4> QED BY <4>1, <4>2, <4>3
      <3> QED BY <3>2, <3>3
    <2> QED BY <2>1, <2>2, StepsAreOneParty DEF OneParty
  <1>2. PICK S : S = Held'[p] OBVIOUS
  <1>3. S \subseteq UNION Windows /\ \A r \in P \ {p} : S \cap Held'[r] = {} BY <1>2, HoldingsApart
  <1>4. Held' = [Held EXCEPT ![p] = S]
    <2>1. Held \in [P -> SUBSET UNION {Held[r] : r \in P}] /\ Held' = [r \in P |-> Held'[r]] BY DEF Held
    <2> QED BY <1>1, <1>2, <2>1, SMTT(60), Z3T(60)
  <1>5. S \subseteq Calendar!Free(p)
    <2>1. \A r \in P \ {p} : S \cap Held[r] = {} BY <1>1, <1>3
    <2> QED BY <1>3, <2>1 DEF Calendar!Free
  <1> QED BY <1>3, <1>4, <1>5, ZenonT(60) DEF Calendar!Next, Calendar!Rebook

(* The ledger keeps the calendar of its fleet: each step of an admission, a  *)
(* revision, its undo, a cancel or a repair is a rebooking by one party into *)
(* slots no other party holds, or changes no holding (Ledger.Within).        *)
THEOREM ImplementsCalendar == Spec => KeepsCalendar
  <1>1. Init => Calendar!Init
    <2> SUFFICES ASSUME Init PROVE Calendar!Init OBVIOUS
    <2>1. \A c \in Controls : ctl[c].st = "none" BY DEF Init, NoControl
    <2>2. \A q \in Requests, i \in Ids : ~LiveAt(q, i) BY DEF Init, LiveAt, Stored
    <2>3. \A p \in Requests \cup {"plain"} : Held[p] = {} BY <2>1, <2>2, SMTT(60), Z3T(60) DEF Held
    <2>4. Held = [p \in Requests \cup {"plain"} |-> Held[p]] BY DEF Held
    <2> QED BY <2>3, <2>4 DEF Calendar!Init
  <1>2. LedgerInv /\ LedgerInv' /\ [Next]_vars => [Calendar!Next]_Held BY StepsRebook
  <1> QED BY <1>1, <1>2, Inductive, PTL DEF Spec, KeepsCalendar, Calendar!Spec

(* One response of a chain is live, or none.  A second one appears only      *)
(* inside a revision, and goes with it or is reported in broken; a crash     *)
(* leaves both to recovery, which has seen to every request not in torev.    *)
SingleLive(q) == \A i, j \in Ids : LiveAt(q, i) /\ LiveAt(q, j) => i = j
Recovered(q) == SingleLive(q) /\ (q \in withdrawn => \A i \in Ids : ~LiveAt(q, i))

NewStored == {"relink", "mark", "undo"}

BeingRevised(q) ==
    \E v \in Revisers : /\ fleet = v /\ pc[v] \in NewStored /\ loc[v].q = q
                        /\ \A i \in Ids : LiveAt(q, i) => i \in {loc[v].pos, loc[v].pos + 1}

BeingRecovered(q) == pc["recovery"] \notin {"next", "idle"} /\ loc["recovery"].q = q

Repaired ==
    /\ phase = "serving" => \A q \in Requests \ broken : SingleLive(q) \/ BeingRevised(q)
    /\ phase = "boot" => \A q \in Requests \ (broken \cup torev) : Recovered(q) \/ BeingRecovered(q)
    /\ pc["recovery"] \in {"cancel", "stop", "markGrant"} =>
         loc["recovery"].q \in withdrawn \/ SingleLive(loc["recovery"].q)

(* No step makes a response live. *)
NoneNew == \A q \in Requests, i \in Ids : LiveAt(q, i)' => LiveAt(q, i)

LEMMA SameLive ==
    ASSUME UNCHANGED <<resp, mark>>
    PROVE  NoneNew /\ \A q, i : LiveAt(q, i)' <=> LiveAt(q, i)
  BY DEF LiveAt, Stored, NoneNew

LEMMA MarkedLive ==
    ASSUME Typed, NEW q \in Requests, NEW i \in Ids, MarkCancelled(q, {i}), UNCHANGED resp
    PROVE  /\ NoneNew /\ ~LiveAt(q, i)'
           /\ \A r \in Requests \ {q}, j \in Ids : LiveAt(r, j)' <=> LiveAt(r, j)
  <1>1. mark'[q] = mark[q] \cup {i} /\ \A r \in Requests \ {q} : mark'[r] = mark[r]
    BY DEF MarkCancelled, Typed, StoreTyped
  <1> QED BY <1>1 DEF LiveAt, Stored, NoneNew

LEMMA DeletedLive ==
    ASSUME Typed, NEW q \in Requests, NEW i \in Ids, resp' = [resp EXCEPT ![q][i] = NoResponse], UNCHANGED mark
    PROVE  /\ NoneNew /\ ~LiveAt(q, i)'
           /\ \A r \in Requests \ {q}, j \in Ids : LiveAt(r, j)' <=> LiveAt(r, j)
  <1>1. resp'[q][i] = NoResponse /\ \A r \in Requests, j \in Ids : (r # q \/ j # i) => resp'[r][j] = resp[r][j]
    BY RespWrite
  <1> QED BY <1>1 DEF LiveAt, Stored, NoneNew

LEMMA MoveFacts ==
    ASSUME LedgerInv, NEW p \in Threads, NEW s, NEW l, Goto(p, s, l)
    PROVE  /\ pc'[p] = s /\ loc'[p] = l
           /\ \A r \in Threads \ {p} : pc'[r] = pc[r] /\ loc'[r] = loc[r]
  BY DEF LedgerInv, Typed, Goto

LEMMA SingleStays == ASSUME NoneNew, NEW q \in Requests, SingleLive(q) PROVE SingleLive(q)'
  <1>1. \A i \in Ids : LiveAt(q, i)' => LiveAt(q, i) BY DEF NoneNew
  <1> QED BY <1>1 DEF SingleLive

(* While serving: whoever has stored a second response goes on with it. *)
LEMMA ServingStep ==
    ASSUME Repaired, phase = "serving", phase' = "serving", pc'["recovery"] = "idle", broken \subseteq broken', NoneNew,
           \A v \in Revisers : (fleet = v /\ pc[v] \in NewStored) =>
               fleet' = v /\ pc'[v] \in NewStored /\ loc'[v].q = loc[v].q /\ loc'[v].pos = loc[v].pos
    PROVE  Repaired'
  <1>1. ASSUME NEW q \in Requests \ broken' PROVE SingleLive(q)' \/ BeingRevised(q)'
    <2>1. SingleLive(q) \/ BeingRevised(q) BY <1>1 DEF Repaired
    <2>2. CASE BeingRevised(q)
      <3>1. PICK v \in Revisers : /\ fleet = v /\ pc[v] \in NewStored /\ loc[v].q = q
                                  /\ \A i \in Ids : LiveAt(q, i) => i \in {loc[v].pos, loc[v].pos + 1}
        BY <2>2 DEF BeingRevised
      <3>2. \A i \in Ids : LiveAt(q, i)' => i \in {loc'[v].pos, loc'[v].pos + 1} BY <3>1 DEF NoneNew
      <3>3. fleet' = v /\ pc'[v] \in NewStored /\ loc'[v].q = q BY <3>1
      <3> QED BY <3>2, <3>3 DEF BeingRevised
    <2> QED BY <2>1, <2>2, SingleStays
  <1> QED BY <1>1 DEF Repaired

(* While serving: a thread moves that has not stored a second response. *)
LEMMA ThreadStep ==
    ASSUME LedgerInv, Repaired, phase = "serving", UNCHANGED <<phase, broken>>, NoneNew,
           NEW p \in Threads \ {"recovery"}, NEW s, NEW l, Goto(p, s, l), pc[p] \notin NewStored,
           fleet' = fleet \/ fleet \notin Revisers \/ fleet = p
    PROVE  Repaired'
  <1>1. \A r \in Threads \ {p} : pc'[r] = pc[r] /\ loc'[r] = loc[r] BY MoveFacts
  <1>2. pc'["recovery"] = "idle" BY <1>1, ThreadFacts DEF LedgerInv, Excluded
  <1>3. \A v \in Revisers : (fleet = v /\ pc[v] \in NewStored) => v \in Threads \ {p} BY ThreadFacts
  <1> QED BY <1>1, <1>2, <1>3, ServingStep

(* The revision that stored a second response lets the lock go. *)
LEMMA RevisionEnds ==
    ASSUME LedgerInv, Repaired, NEW v \in Revisers, pc[v] \in NewStored, GiveUp(v), UNCHANGED phase,
           broken \subseteq broken', NoneNew, NEW x \in Requests, x = loc[v].q, x \in broken' \/ SingleLive(x)'
    PROVE  Repaired'
  <1>0. InsideRevision(v) BY DEF InsideRevision, NewStored
  <1>1. phase = "serving" /\ fleet = v /\ v \in Threads /\ v # "recovery" BY <1>0, Holding
  <1>2. pc'["recovery"] = "idle" BY <1>1, ThreadFacts, MoveFacts DEF GiveUp, Done, LedgerInv, Excluded
  <1>3. ASSUME NEW q \in Requests \ broken' PROVE SingleLive(q)'
    <2>1. CASE q = x BY <1>3, <2>1
    <2>2. CASE q # x
      <3>1. ~BeingRevised(q) BY <1>1, <2>2 DEF BeingRevised
      <3> QED BY <1>1, <3>1, SingleStays DEF Repaired
    <2> QED BY <2>1, <2>2
  <1> QED BY <1>1, <1>2, <1>3 DEF Repaired

(* At boot: recovery works on one request. *)
LEMMA BootStep ==
    ASSUME LedgerInv, Repaired, phase = "boot", UNCHANGED <<phase, withdrawn, torev>>, broken \subseteq broken', NoneNew,
           NEW q \in Requests, q = loc["recovery"].q,
           \/ /\ pc'["recovery"] \notin {"next", "idle"} /\ loc'["recovery"].q = q
              /\ pc'["recovery"] \in {"cancel", "stop", "markGrant"} => q \in withdrawn \/ SingleLive(q)'
           \/ pc'["recovery"] = "next" /\ (q \in broken' \/ Recovered(q)')
    PROVE  Repaired'
  <1>1. ASSUME NEW r \in Requests \ (broken' \cup torev') PROVE Recovered(r)' \/ BeingRecovered(r)'
    <2>1. CASE r = q BY <2>1, <1>1 DEF BeingRecovered
    <2>2. CASE r # q
      <3>1. Recovered(r) BY <1>1, <2>2 DEF Repaired, BeingRecovered
      <3>2. SingleLive(r)' BY <3>1, SingleStays DEF Recovered
      <3>3. r \in withdrawn' => \A i \in Ids : ~LiveAt(r, i)' BY <3>1 DEF Recovered, NoneNew
      <3> QED BY <3>2, <3>3 DEF Recovered
    <2> QED BY <2>1, <2>2
  <1>2. phase' # "serving" OBVIOUS
  <1> QED BY <1>1, <1>2 DEF Repaired

LEMMA GrantRepaired == ASSUME LedgerInv, Repaired, NEW q \in Requests, NEW w \in Windows, Grant(q, w) PROVE Repaired'
  <1>0. Typed /\ Sound /\ phase = "serving" /\ phase' = "serving" /\ fleet = Nobody
    BY DEF LedgerInv, Grant
  <1>1. \A r \in Requests : ~BeingRevised(r) BY <1>0, ThreadFacts DEF BeingRevised
  <1>2. pc'["recovery"] = "idle" BY <1>0 DEF Grant, LedgerInv, Excluded
  <1>3. \A r \in Requests, j \in Ids : (r # q \/ j # 1) => resp'[r][j] = resp[r][j]
    BY <1>0 DEF Grant, Typed, StoreTyped
  <1>4. \A j \in Ids : ~Stored(q, j)
    <2>1. 1 \in Ids /\ \A j \in Ids : j = 1 \/ 1 < j BY LedgerAssumption DEF Ids
    <2> QED BY <1>0, <2>1 DEF Grant, Sound, Chained
  <1>5. \A r \in Requests, j \in Ids : LiveAt(r, j)' => LiveAt(r, j) \/ (r = q /\ j = 1)
    BY <1>3 DEF LiveAt, Stored, Grant
  <1>6. ASSUME NEW r \in Requests \ broken' PROVE SingleLive(r)'
    <2>1. SingleLive(r) BY <1>0, <1>1, <1>6 DEF Repaired, Grant
    <2>2. CASE r = q BY <1>4, <1>5, <2>2 DEF SingleLive, LiveAt
    <2>3. CASE r # q
      <3>1. \A j \in Ids : LiveAt(r, j)' => LiveAt(r, j) BY <1>5, <2>3
      <3> QED BY <2>1, <3>1 DEF SingleLive
    <2> QED BY <2>2, <2>3
  <1> QED BY <1>0, <1>2, <1>6 DEF Repaired

(* What changes no response and no mark, and moves no thread. *)
LEMMA QuietRepaired ==
    ASSUME LedgerInv, Repaired, UNCHANGED <<phase, resp, mark, withdrawn, fleet, pc, loc, torev, broken>>
    PROVE  Repaired'
  <1>1. \A q, i : LiveAt(q, i)' <=> LiveAt(q, i) BY SameLive
  <1>2. \A q \in Requests : /\ SingleLive(q)' <=> SingleLive(q)
                            /\ Recovered(q)' <=> Recovered(q)
                            /\ BeingRevised(q)' <=> BeingRevised(q)
                            /\ BeingRecovered(q)' <=> BeingRecovered(q)
    <2>1. \A q \in Requests : SingleLive(q)' <=> SingleLive(q) BY <1>1 DEF SingleLive
    <2>2. \A q \in Requests : Recovered(q)' <=> Recovered(q) BY <1>1, <2>1 DEF Recovered
    <2>3. \A q \in Requests : BeingRevised(q)' <=> BeingRevised(q) BY <1>1 DEF BeingRevised
    <2> QED BY <2>1, <2>2, <2>3 DEF BeingRecovered
  <1>3. loc["recovery"].q \in Requests BY ThreadFacts DEF LedgerInv, Typed, Locals
  <1> QED BY <1>2, <1>3 DEF Repaired

LEMMA ReviseRepaired == ASSUME LedgerInv, Repaired, NEW v \in Revisers, Revise(v) PROVE Repaired'
  <1>0. v \in Threads /\ v # "recovery" BY ThreadFacts
  <1>p. phase = "serving" /\ phase' = phase
    <2>1. pc[v] # "idle" BY Zenon DEF Revise, ReviseLock, ReviseStopExecution, ReviseCreate, ReviseRelink, ReviseMark, ReviseUndo
    <2>2. phase = "serving" BY <1>0, <2>1, RunsWhen DEF LedgerInv, Typed
    <2>3. phase' = phase
      BY ZenonT(60) DEF Revise, ReviseLock, ReviseStopExecution, ReviseCreate, ReviseRelink, ReviseMark, ReviseUndo
    <2> QED BY <2>2, <2>3
  <1>1. CASE ReviseLock(v)
    <2>1. UNCHANGED <<resp, mark, broken>> /\ fleet = Nobody /\ pc[v] = "revise" BY <1>1 DEF ReviseLock, stored
    <2>2. \E s, l : Goto(v, s, l) BY <1>1, ZenonT(60) DEF ReviseLock, Done
    <2>3. fleet \notin Revisers /\ pc[v] \notin NewStored BY <2>1, ThreadFacts DEF NewStored
    <2> QED BY <1>0, <1>p, <2>1, <2>2, <2>3, SameLive, ThreadStep
  <1>2. CASE ReviseStopExecution(v)
    <2>1. UNCHANGED <<resp, mark, broken>> /\ pc[v] = "stopExecutions" BY <1>2 DEF ReviseStopExecution
    <2>2. \E s, l : Goto(v, s, l) BY <1>2, ZenonT(60) DEF ReviseStopExecution, Done, GiveUp
    <2>3. fleet = v /\ pc[v] \notin NewStored BY <1>0, <2>1, HolderAlone DEF NewStored, LockedSteps
    <2> QED BY <1>0, <1>p, <2>1, <2>2, <2>3, SameLive, ThreadStep
  <1>3. CASE ReviseCreate(v)
    <2>0. UNCHANGED <<mark, broken>> /\ pc[v] = "create" BY <1>3 DEF ReviseCreate
    <2>1. fleet = v /\ pc[v] \notin NewStored BY <1>0, <2>0, HolderAlone DEF NewStored, LockedSteps
    <2>2. CASE GiveUp(v) /\ UNCHANGED resp
      <3>1. \E s, l : Goto(v, s, l) BY <2>2 DEF Done, GiveUp
      <3> QED BY <1>0, <1>p, <2>0, <2>1, <2>2, <3>1, SameLive, ThreadStep
    <2>l. PICK l \in Locals : l = loc[v] BY <1>0 DEF LedgerInv, Typed
    <2>3. CASE /\ resp' = [resp EXCEPT ![l.q][l.pos + 1] = [mrid |-> minted + 1, win |-> l.win]]
               /\ Goto(v, IF l.win = Denial THEN "mark" ELSE "relink", l)
               /\ UNCHANGED fleet
      <3>1. InsideRevision(v) BY <2>0 DEF InsideRevision
      <3>2. PICK q \in Requests : q = l.q BY DEF Locals
      <3>3. LiveAt(q, l.pos) /\ l.pos \in Ids /\ Typed BY <2>l, <3>1, <3>2, Holding
      <3>4. \A r \in Requests \ broken : SingleLive(r)
        BY <1>p, <2>1 DEF Repaired, BeingRevised
      <3>5. \A r \in Requests, j \in Ids : (r # q \/ j # l.pos + 1) => resp'[r][j] = resp[r][j]
        BY <2>3, <3>2, <3>3, SMTT(60), Z3T(60) DEF Typed, StoreTyped
      <3>6. \A r \in Requests, j \in Ids : LiveAt(r, j)' => LiveAt(r, j) \/ (r = q /\ j = l.pos + 1)
        BY <2>0, <3>5 DEF LiveAt, Stored
      <3>7. pc'[v] \in NewStored /\ loc'[v] = l /\ pc'["recovery"] = pc["recovery"]
        <4>1. PICK s : s = IF l.win = Denial THEN "mark" ELSE "relink" OBVIOUS
        <4>2. s \in NewStored BY <4>1 DEF NewStored
        <4>3. Goto(v, s, l) BY <2>3, <4>1
        <4> QED BY <1>0, <4>2, <4>3, MoveFacts, ThreadFacts
      <3>8. ASSUME NEW r \in Requests \ broken' PROVE SingleLive(r)' \/ BeingRevised(r)'
        <4>0. SingleLive(r) BY <2>0, <3>4, <3>8
        <4>1. CASE r = q
          <5>1. \A j \in Ids : LiveAt(q, j) => j = l.pos BY <3>3, <4>0, <4>1 DEF SingleLive
          <5>2. \A j \in Ids : LiveAt(q, j)' => j \in {loc'[v].pos, loc'[v].pos + 1} BY <3>6, <3>7, <5>1
          <5>3. fleet' = v /\ loc'[v].q = q BY <2>1, <2>3, <3>2, <3>7
          <5> QED BY <3>7, <4>1, <5>2, <5>3 DEF BeingRevised
        <4>2. CASE r # q
          <5>1. \A j \in Ids : LiveAt(r, j)' => LiveAt(r, j) BY <3>6, <4>2
          <5> QED BY <4>0, <5>1 DEF SingleLive
        <4> QED BY <4>1, <4>2
      <3>9. pc["recovery"] = "idle" BY <1>p DEF LedgerInv, Excluded
      <3> QED BY <1>p, <3>7, <3>8, <3>9 DEF Repaired
    <2> QED BY <1>3, <2>l, <2>2, <2>3 DEF ReviseCreate
  <1>i. ASSUME pc[v] \in NewStored
        PROVE  /\ InsideRevision(v) /\ fleet = v /\ loc[v] \in Locals /\ loc[v].q \in Requests
               /\ loc[v].pos \in Ids /\ loc[v].pos + 1 \in Ids /\ Typed /\ pc["recovery"] = "idle"
    <2>1. InsideRevision(v) BY <1>i DEF InsideRevision, NewStored
    <2>2. pc["recovery"] = "idle" BY <1>p DEF LedgerInv, Excluded
    <2> QED BY <2>1, <2>2, Holding
  <1>g. ASSUME pc[v] \in NewStored, NEW s \in NewStored, NEW k, Goto(v, s, k), k.q = loc[v].q, k.pos = loc[v].pos,
               UNCHANGED <<resp, mark, fleet, broken>>
        PROVE  Repaired'
    <2>1. /\ pc'[v] = s /\ loc'[v] = k /\ pc'["recovery"] = "idle" /\ fleet = v /\ fleet' = v
          /\ k.q = loc[v].q /\ k.pos = loc[v].pos
      BY <1>0, <1>g, <1>i, MoveFacts, ThreadFacts
    <2>2. \A u \in Revisers : (fleet = u /\ pc[u] \in NewStored) =>
             fleet' = u /\ pc'[u] \in NewStored /\ loc'[u].q = loc[u].q /\ loc'[u].pos = loc[u].pos
      BY <2>1
    <2> QED BY <1>g, <1>p, <2>1, <2>2, SameLive, ServingStep
  <1>4. CASE ReviseRelink(v)
    <2>0. UNCHANGED <<resp, mark, fleet, broken>> /\ pc[v] = "relink" /\ pc[v] \in NewStored
      BY <1>4, Zenon DEF ReviseRelink, NewStored
    <2>1. PICK l \in Locals : l = loc[v] BY <1>i, <2>0
    <2>2. ASSUME NEW s \in NewStored, NEW a, NEW b, Goto(v, s, [l EXCEPT !.todo = a, !.touched = b]) PROVE Repaired'
      <3>1. PICK k : k = [l EXCEPT !.todo = a, !.touched = b] OBVIOUS
      <3>2. k.q = l.q /\ k.pos = l.pos BY <3>1 DEF Locals
      <3>3. Goto(v, s, k) BY <2>2, <3>1
      <3> QED BY <1>g, <2>0, <2>1, <3>2, <3>3
    <2>3. CASE Goto(v, "mark", l) BY <1>g, <2>0, <2>1, <2>3 DEF NewStored
    <2>4. CASE \E c \in l.todo : Goto(v, "relink", [l EXCEPT !.todo = @ \ {c}, !.touched = @ \cup {c}])
      <3>1. "relink" \in NewStored BY DEF NewStored
      <3> QED BY <2>2, <2>4, <3>1, Zenon
    <2>5. CASE \E c \in l.todo, t \in SUBSET Controls : Goto(v, "undo", [l EXCEPT !.todo = {}, !.touched = t])
      <3>1. "undo" \in NewStored BY DEF NewStored
      <3> QED BY <2>2, <2>5, <3>1, Zenon
    <2>6. \A c \in l.todo : l.touched \in SUBSET Controls /\ l.touched \cup {c} \in SUBSET Controls BY DEF Locals
    <2> QED BY <1>4, <2>1, <2>3, <2>4, <2>5, <2>6, Zenon DEF ReviseRelink
  <1>5. CASE ReviseMark(v)
    <2>0. UNCHANGED <<resp, broken>> /\ pc[v] = "mark" /\ pc[v] \in NewStored BY <1>5 DEF ReviseMark, NewStored
    <2>1. CASE Goto(v, "undo", loc[v]) /\ UNCHANGED <<mark, fleet>> BY <1>g, <2>0, <2>1 DEF NewStored
    <2>2. CASE MarkCancelled(loc[v].q, {loc[v].pos}) /\ GiveUp(v)
      <3>1. PICK q \in Requests, i \in Ids : q = loc[v].q /\ i = loc[v].pos BY <1>i, <2>0
      <3>2. NoneNew /\ ~LiveAt(q, i)' BY <1>i, <2>0, <2>2, <3>1, MarkedLive
      <3>3. ASSUME q \notin broken' PROVE SingleLive(q)'
        <4>1. SingleLive(q) \/ BeingRevised(q) BY <1>p, <2>0, <3>3 DEF Repaired
        <4>2. CASE BeingRevised(q)
          <5>1. \A j \in Ids : LiveAt(q, j) => j \in {i, i + 1} BY <1>i, <2>0, <3>1, <4>2 DEF BeingRevised
          <5>2. \A j \in Ids : LiveAt(q, j)' => j = i + 1 BY <3>2, <5>1 DEF NoneNew
          <5> QED BY <5>2 DEF SingleLive
        <4> QED BY <3>2, <4>1, <4>2, SingleStays
      <3> QED BY <1>p, <2>0, <2>2, <3>1, <3>2, <3>3, RevisionEnds
    <2> QED BY <1>5, <2>1, <2>2 DEF ReviseMark
  <1>6. CASE ReviseUndo(v)
    <2>0. UNCHANGED mark /\ pc[v] = "undo" /\ pc[v] \in NewStored BY <1>6, Zenon DEF ReviseUndo, NewStored
    <2>1. PICK l \in Locals : l = loc[v] BY <1>i, <2>0
    <2>2. CASE \E c \in l.touched : /\ \/ Goto(v, "undo", [l EXCEPT !.touched = @ \ {c}])
                                       \/ Goto(v, "undo", [l EXCEPT !.touched = @ \ {c}, !.bad = TRUE])
                                    /\ UNCHANGED <<resp, fleet, broken>>
      <3>1. PICK c, k : k \in {[l EXCEPT !.touched = @ \ {c}], [l EXCEPT !.touched = @ \ {c}, !.bad = TRUE]}
                        /\ Goto(v, "undo", k) /\ UNCHANGED <<resp, fleet, broken>>
        BY <2>2, ZenonT(60)
      <3>2. k.q = l.q /\ k.pos = l.pos BY <3>1, Zenon DEF Locals
      <3> QED BY <1>g, <2>0, <2>1, <3>1, <3>2 DEF NewStored
    <2>q. PICK q \in Requests, i \in Ids : q = l.q /\ i = l.pos + 1 BY <1>i, <2>0, <2>1
    <2>3. CASE GiveUp(v) /\ resp' = [resp EXCEPT ![l.q][l.pos + 1] = NoResponse] /\ UNCHANGED broken
      <3>2. NoneNew /\ ~LiveAt(q, i)' BY <1>i, <2>0, <2>3, <2>q, DeletedLive, Zenon
      <3>3. ASSUME q \notin broken' PROVE SingleLive(q)'
        <4>1. SingleLive(q) \/ BeingRevised(q) BY <1>p, <2>3, <3>3 DEF Repaired
        <4>2. CASE BeingRevised(q)
          <5>1. \A j \in Ids : LiveAt(q, j) => j \in {l.pos, i} BY <1>i, <2>0, <2>1, <2>q, <4>2 DEF BeingRevised
          <5>2. \A j \in Ids : LiveAt(q, j)' => j = l.pos BY <3>2, <5>1 DEF NoneNew
          <5> QED BY <5>2 DEF SingleLive
        <4> QED BY <3>2, <4>1, <4>2, SingleStays
      <3> QED BY <1>p, <2>0, <2>1, <2>3, <2>q, <3>2, <3>3, RevisionEnds
    <2>4. CASE GiveUp(v) /\ broken' = broken \cup {l.q} /\ UNCHANGED resp
      BY <1>p, <2>0, <2>1, <2>4, <2>q, SameLive, RevisionEnds
    <2> QED BY <1>6, <2>1, <2>2, <2>3, <2>4, ZenonT(60) DEF ReviseUndo
  <1> QED BY <1>1, <1>2, <1>3, <1>4, <1>5, <1>6 DEF Revise

(* The passes left suffice: a chain not yet settled is no longer than there  *)
(* are passes left to shorten it (settleRevisions).                          *)
PassesLeft ==
    LET l == loc["recovery"] IN
    /\ pc["recovery"] = "settle" =>
         (\A i, j \in Unmarked(l.q) : i = j) \/ (\A i \in Ids : Stored(l.q, i) => i <= l.pass)
    /\ pc["recovery"] \in RepairSteps => l.pos <= l.pass + 1

(* Recovery is in no pass. *)
LEMMA NoPass == ASSUME NEW s, pc'["recovery"] = s, s \in {"idle", "next", "cancel", "stop", "markGrant"} PROVE PassesLeft'
  BY DEF PassesLeft, RepairSteps

LEMMA RepairFailsPasses == ASSUME LedgerInv, RepairFails PROVE PassesLeft'
  <1>1. \E s \in {"cancel", "next"} : \E k : Goto("recovery", s, k) BY Zenon DEF RepairFails
  <1> QED BY <1>1, ThreadFacts, MoveFacts, NoPass

LEMMA RecoverPasses == ASSUME LedgerInv, Bounded, PassesLeft, Recover PROVE PassesLeft'
  <1>0. "recovery" \in Threads /\ Typed /\ Sound BY ThreadFacts DEF LedgerInv
  <1>l. PICK l \in Locals : l = loc["recovery"] BY <1>0 DEF Typed
  <1>q. l.q \in Requests /\ l.pass \in Nat BY DEF Locals
  <1>f. ASSUME RepairFails PROVE PassesLeft' BY <1>f, RepairFailsPasses
  <1>k. ASSUME NEW s \in RepairSteps, NEW k, Goto("recovery", s, k), k.pos <= k.pass + 1 PROVE PassesLeft'
    <2>1. pc'["recovery"] = s /\ loc'["recovery"] = k BY <1>0, <1>k, MoveFacts
    <2> QED BY <1>k, <2>1 DEF PassesLeft, RepairSteps
  <1>t. ASSUME pc["recovery"] \in RepairSteps, NEW s \in RepairSteps, NEW a, Goto("recovery", s, [l EXCEPT !.todo = a])
        PROVE  PassesLeft'
    <2>1. PICK k : k = [l EXCEPT !.todo = a] BY Zenon
    <2>2. k.pos = l.pos /\ k.pass = l.pass BY <2>1 DEF Locals
    <2>3. l.pos <= l.pass + 1 BY <1>l, <1>t DEF PassesLeft
    <2>4. Goto("recovery", s, k) BY <1>t, <2>1, Zenon
    <2> QED BY <1>k, <2>2, <2>3, <2>4
  <1>1. CASE RecoverNext
    <2>1. UNCHANGED resp BY <1>1 DEF RecoverNext, stored
    <2>2. CASE Done("recovery") BY <1>0, <2>2, MoveFacts, NoPass DEF Done
    <2>3. ASSUME NEW q \in torev, Goto("recovery", "settle", [IdleLocals EXCEPT !.q = q, !.pass = ChainLength(q)])
          PROVE  PassesLeft'
      <3>1. PICK k : k = [IdleLocals EXCEPT !.q = q, !.pass = ChainLength(q)] BY Zenon
      <3>2. k.q = q /\ k.pass = ChainLength(q) BY <3>1 DEF IdleLocals
      <3>g. Goto("recovery", "settle", k) BY <2>3, <3>1, Zenon
      <3>3. pc'["recovery"] = "settle" /\ loc'["recovery"] = k BY <1>0, <3>g, MoveFacts
      <3>4. q \in Requests BY DEF Bounded
      <3>5. \A i \in Ids : Stored(q, i)' => i <= k.pass BY <1>0, <2>1, <3>2, <3>4, ChainLengthFacts DEF Stored
      <3> QED BY <3>2, <3>3, <3>5 DEF PassesLeft, RepairSteps
    <2> QED BY <1>1, <2>2, <2>3, Zenon DEF RecoverNext
  <1>2. CASE RecoverSettle
    <2>1. ASSUME NEW k, Goto("recovery", "cancel", k) PROVE PassesLeft' BY <1>0, <2>1, MoveFacts, NoPass
    <2>2. ASSUME NEW tip \in Ids, Stored(l.q, tip), l.pass > 0, \E i, j \in Unmarked(l.q) : i # j,
                 CompleteRevision([l EXCEPT !.pos = tip, !.pass = @ - 1])
          PROVE  PassesLeft'
      <3>1. PICK t : t = [l EXCEPT !.pos = tip, !.pass = @ - 1] BY Zenon
      <3>2. t.pos = tip /\ t.pass = l.pass - 1 BY <3>1 DEF Locals
      <3>3. tip <= l.pass BY <1>2, <1>l, <2>2 DEF PassesLeft, RecoverSettle
      <3>4. t.pos <= t.pass + 1 BY <1>q, <3>2, <3>3, LedgerAssumption DEF Ids
      <3>5. RepairFails \/ \E s \in RepairSteps : \E a : Goto("recovery", s, [t EXCEPT !.todo = a])
        BY <2>2, <3>1, ZenonT(60) DEF CompleteRevision, RepairSteps
      <3>6. ASSUME NEW s \in RepairSteps, NEW a, Goto("recovery", s, [t EXCEPT !.todo = a]) PROVE PassesLeft'
        <4>1. PICK k : k = [t EXCEPT !.todo = a] BY Zenon
        <4>2. k.pos = t.pos /\ k.pass = t.pass BY <3>1, <4>1 DEF Locals
        <4>3. Goto("recovery", s, k) BY <3>6, <4>1, Zenon
        <4> QED BY <1>k, <3>4, <4>2, <4>3
      <3> QED BY <1>f, <3>5, <3>6, Zenon
    <2> QED BY <1>2, <1>l, <2>1, <2>2, ZenonT(60) DEF RecoverSettle
  <1>3. CASE RecoverForward
    <2>0. pc["recovery"] \in RepairSteps /\ "repairMark" \in RepairSteps BY <1>3 DEF RecoverForward, RepairSteps
    <2>1. CASE Goto("recovery", "repairMark", l)
      <3>1. l.pos <= l.pass + 1 BY <1>l, <2>0 DEF PassesLeft
      <3> QED BY <1>k, <2>0, <2>1, <3>1
    <2> QED BY <1>3, <1>f, <1>l, <1>t, <2>0, <2>1, ZenonT(60) DEF RecoverForward
  <1>4. CASE RecoverMark
    <2>0. UNCHANGED resp /\ pc["recovery"] = "repairMark" /\ pc["recovery"] \in RepairSteps BY <1>4 DEF RecoverMark, RepairSteps
    <2>1. CASE Olds(l) = {} /\ UNCHANGED mark /\ Goto("recovery", "settle", [IdleLocals EXCEPT !.q = l.q, !.pass = l.pass])
      <3>1. PICK k : k = [IdleLocals EXCEPT !.q = l.q, !.pass = l.pass] BY Zenon
      <3>2. k.q = l.q BY <3>1 DEF IdleLocals
      <3>g. Goto("recovery", "settle", k) BY <2>1, <3>1, Zenon
      <3>3. pc'["recovery"] = "settle" /\ loc'["recovery"] = k BY <1>0, <3>g, MoveFacts
      <3>4. Unmarked(l.q) \subseteq {l.pos} BY <2>1 DEF Olds
      <3>5. \A i : i \in Unmarked(k.q)' => i \in Unmarked(l.q) BY <2>0, <2>1, <3>2 DEF Unmarked, Stored
      <3>6. \A i, j \in Unmarked(loc["recovery"].q)' : i = j BY <3>3, <3>4, <3>5 DEF Unmarked, Stored
      <3> QED BY <3>3, <3>6 DEF PassesLeft, RepairSteps
    <2>2. CASE UNCHANGED <<pc, loc>> BY <2>0, <2>2 DEF PassesLeft, RepairSteps
    <2> QED BY <1>4, <1>f, <1>l, <2>1, <2>2, ZenonT(60) DEF RecoverMark
  <1>5. CASE RecoverBack
    <2>0. pc["recovery"] = "repairBack" /\ pc["recovery"] \in RepairSteps BY <1>5 DEF RecoverBack, RepairSteps
    <2>1. CASE Goto("recovery", "settle", l) /\ resp' = [resp EXCEPT ![l.q][l.pos] = NoResponse]
      <3>1. pc'["recovery"] = "settle" /\ loc'["recovery"] = l BY <1>0, <2>1, MoveFacts
      <3>2. l.pos <= l.pass + 1 BY <1>l, <2>0 DEF PassesLeft
      <3>3. l.pos \in Ids /\ \A j \in Ids : j > l.pos => ~Stored(l.q, j) BY <1>l, <2>0, RepairFacts
      <3>4. ASSUME NEW i \in Ids, Stored(l.q, i)' PROVE i <= l.pass
        <4>1. i # l.pos /\ Stored(l.q, i) BY <1>0, <1>q, <2>1, <3>3, <3>4 DEF Stored, Typed, StoreTyped
        <4> QED BY <1>q, <3>2, <3>3, <4>1, LedgerAssumption DEF Ids
      <3> QED BY <3>1, <3>4 DEF PassesLeft, RepairSteps
    <2> QED BY <1>5, <1>f, <1>l, <1>t, <2>0, <2>1, ZenonT(60) DEF RecoverBack
  <1>6. CASE RecoverCancel \/ StopExecution("recovery") \/ MarkGrant("recovery")
    <2>1. \E s \in {"next", "stop", "markGrant", "cancel"} : \E k : Goto("recovery", s, k)
      BY <1>6, ZenonT(60) DEF RecoverCancel, StopExecution, MarkGrant, CancelFails
    <2> QED BY <1>0, <2>1, MoveFacts, NoPass
  <1> QED BY <1>1, <1>2, <1>3, <1>4, <1>5, <1>6 DEF Recover

LEMMA PassesStay == ASSUME LedgerInv, LedgerInv', Bounded, PassesLeft, [Next]_vars PROVE PassesLeft'
  <1>1. CASE UNCHANGED <<resp, mark, pc, loc>> BY <1>1, Zenon DEF PassesLeft, Unmarked, Stored
  <1>2. CASE phase' = "serving"
    <2>1. pc'["recovery"] = "idle" BY <1>2 DEF LedgerInv, Excluded
    <2> QED BY <2>1, NoPass
  <1>3. CASE Crash
    <2>1. pc'["recovery"] = "next" BY <1>3, ThreadFacts DEF Crash
    <2> QED BY <2>1, NoPass
  <1>4. CASE UNCHANGED vars BY <1>1, <1>4 DEF vars, stored
  <1>5. ASSUME NEW c \in Controls, NEW m, NEW w, Issue(c, m, w) \/ CancelControl(c) \/ ControlEnds(c) PROVE PassesLeft'
    BY <1>1, <1>5, Zenon DEF Issue, CancelControl, ControlEnds
  <1>6. ASSUME NEW q, NEW w, Grant(q, w) PROVE PassesLeft' BY <1>2, <1>6, Zenon DEF Grant
  <1>7. ASSUME NEW v \in Revisers, NEW q, NEW w, ReviseRead(v, q, w) PROVE PassesLeft' BY <1>2, <1>7, Zenon DEF ReviseRead
  <1>8. ASSUME NEW v \in Revisers, Revise(v) PROVE PassesLeft'
    <2>1. pc[v] # "idle" /\ UNCHANGED phase
      BY <1>8, ZenonT(60) DEF Revise, ReviseLock, ReviseStopExecution, ReviseCreate, ReviseRelink, ReviseMark, ReviseUndo
    <2>2. v \in Threads /\ v # "recovery" BY ThreadFacts
    <2>3. phase = "serving" BY <2>1, <2>2, RunsWhen DEF LedgerInv, Typed
    <2> QED BY <1>2, <2>1, <2>3
  <1>9. ASSUME CancelGrants \/ \E q \in Revisable : CancelStart(q) PROVE PassesLeft'
    <2>1. UNCHANGED phase /\ (phase = "serving" \/ pc["canceller"] # "idle")
      BY <1>9, ZenonT(60) DEF CancelGrants, CancelStart, Walk, CancelMember, Rewalk, StopExecution, MarkGrant
    <2>2. phase = "serving" BY <2>1, ThreadFacts, RunsWhen DEF LedgerInv, Typed
    <2> QED BY <1>2, <2>1, <2>2
  <1> QED BY <1>3, <1>4, <1>5, <1>6, <1>7, <1>8, <1>9, RecoverPasses, Zenon DEF Next

LEMMA RecoverNextRepaired == ASSUME LedgerInv, Bounded, Repaired, RecoverNext PROVE Repaired'
  <1>1. UNCHANGED <<resp, mark, withdrawn, broken>> /\ phase = "boot" /\ pc["recovery"] = "next"
    BY DEF RecoverNext, stored
  <1>2. \A q, i : LiveAt(q, i)' <=> LiveAt(q, i) BY <1>1, SameLive
  <1>3. \A q \in Requests \ (broken \cup torev) : Recovered(q) BY <1>1 DEF Repaired, BeingRecovered
  <1>4. \A q \in Requests : Recovered(q) => Recovered(q)' /\ SingleLive(q)' BY <1>1, <1>2 DEF Recovered, SingleLive
  <1>5. ASSUME NEW q \in torev, torev' = torev \ {q}, UNCHANGED phase,
               Goto("recovery", "settle", [IdleLocals EXCEPT !.q = q, !.pass = ChainLength(q)])
        PROVE  Repaired'
    <2>1. PICK k : k = [IdleLocals EXCEPT !.q = q, !.pass = ChainLength(q)] BY Zenon
    <2>2. k.q = q BY <2>1 DEF IdleLocals
    <2>3. pc'["recovery"] = "settle" /\ loc'["recovery"] = k BY <1>5, <2>1, ThreadFacts, MoveFacts
    <2>4. BeingRecovered(q)' BY <2>2, <2>3 DEF BeingRecovered
    <2>5. \A r \in Requests \ (broken' \cup torev') : Recovered(r)' \/ BeingRecovered(r)' BY <1>1, <1>3, <1>4, <1>5, <2>4
    <2>6. phase' = "boot" /\ phase' # "serving" /\ pc'["recovery"] \notin {"cancel", "stop", "markGrant"} BY <1>1, <1>5, <2>3
    <2> QED BY <2>5, <2>6 DEF Repaired
  <1>6. CASE torev = {} /\ phase' = "serving" /\ Done("recovery")
    <2>1. pc'["recovery"] = "idle" BY <1>6, ThreadFacts, MoveFacts DEF Done
    <2>2. \A r \in Requests \ broken' : SingleLive(r)' BY <1>1, <1>3, <1>4, <1>6
    <2> QED BY <1>6, <2>1, <2>2 DEF Repaired
  <1> QED BY <1>5, <1>6, Zenon DEF RecoverNext

LEMMA RecoverRepaired == ASSUME LedgerInv, Bounded, PassesLeft, Repaired, Recover PROVE Repaired'
  <1>0. "recovery" \in Threads /\ Typed BY ThreadFacts DEF LedgerInv
  <1>l. PICK l \in Locals : l = loc["recovery"] BY <1>0 DEF Typed
  <1>q. PICK q \in Requests : q = l.q BY DEF Locals
  <1>p. phase = "boot"
    <2>1. pc["recovery"] # "idle"
      BY ZenonT(60) DEF Recover, RecoverNext, RecoverSettle, RecoverForward, RecoverMark, RecoverBack, RecoverCancel,
                        StopExecution, MarkGrant
    <2> QED BY <1>0, <2>1, RunsWhen
  <1>c. pc["recovery"] \in {"cancel", "stop", "markGrant"} => q \in withdrawn \/ SingleLive(q) BY <1>l, <1>q DEF Repaired
  <1>u. CASE RecoverNext BY <1>u, RecoverNextRepaired
  <1>a. ASSUME NEW s, NEW k, Goto("recovery", s, k), k.q = q, s \notin {"next", "idle"},
               UNCHANGED <<phase, withdrawn, torev, broken>>, NoneNew,
               s \in {"cancel", "stop", "markGrant"} => q \in withdrawn \/ SingleLive(q)
        PROVE  Repaired'
    <2>1. pc'["recovery"] = s /\ loc'["recovery"] = k BY <1>0, <1>a, MoveFacts
    <2>2. SingleLive(q) => SingleLive(q)' BY <1>a, SingleStays
    <2> QED BY <1>a, <1>l, <1>p, <1>q, <2>1, <2>2, BootStep
  <1>b. ASSUME Goto("recovery", "next", IdleLocals), UNCHANGED <<phase, withdrawn, torev>>, broken \subseteq broken', NoneNew,
               q \in broken' \/ Recovered(q)'
        PROVE  Repaired'
    <2>1. pc'["recovery"] = "next" BY <1>0, <1>b, MoveFacts
    <2> QED BY <1>b, <1>l, <1>p, <1>q, <2>1, BootStep
  <1>i. PICK idle : idle = [IdleLocals EXCEPT !.q = q] BY Zenon
  <1>j. idle.q = q BY <1>i DEF IdleLocals
  <1>f. ASSUME RepairFails, UNCHANGED <<phase, withdrawn, torev>>, NoneNew PROVE Repaired'
    <2>1. CASE q \in withdrawn
      <3>1. Goto("recovery", "cancel", idle) /\ UNCHANGED broken
        BY <1>f, <1>i, <1>l, <1>q, <2>1 DEF RepairFails
      <3> QED BY <1>a, <1>f, <1>j, <2>1, <3>1
    <2>2. CASE q \notin withdrawn
      <3>1. Goto("recovery", "next", IdleLocals) /\ broken' = broken \cup {q} BY <1>f, <1>l, <1>q, <2>2 DEF RepairFails
      <3> QED BY <1>b, <1>f, <3>1
    <2> QED BY <2>1, <2>2
  <1>1. CASE RecoverSettle
    <2>0. UNCHANGED <<phase, withdrawn, torev, resp, mark>> /\ NoneNew BY <1>1, SameLive DEF RecoverSettle, stored
    <2>1. CASE /\ l.pass = 0 \/ \A i, j \in Unmarked(l.q) : i = j
               /\ Goto("recovery", "cancel", [IdleLocals EXCEPT !.q = l.q]) /\ UNCHANGED broken
      <3>1. ASSUME l.pass = 0 PROVE \A i, j \in Unmarked(l.q) : i = j
        <4>1. \A i \in Ids : i > 0 BY LedgerAssumption DEF Ids
        <4>2. (\A i, j \in Unmarked(l.q) : i = j) \/ (\A i \in Ids : Stored(l.q, i) => i <= 0)
          BY <1>1, <1>l, <3>1 DEF PassesLeft, RecoverSettle
        <4> QED BY <4>1, <4>2, LedgerAssumption DEF Unmarked, Ids
      <3>2. SingleLive(q) BY <1>q, <2>1, <3>1 DEF SingleLive, LiveAt, Unmarked
      <3>3. Goto("recovery", "cancel", idle) BY <1>i, <1>q, <2>1
      <3> QED BY <1>a, <1>j, <2>0, <2>1, <3>2, <3>3
    <2>2. ASSUME NEW tip \in Ids, CompleteRevision([l EXCEPT !.pos = tip, !.pass = @ - 1]) PROVE Repaired'
      <3>1. PICK t : t = [l EXCEPT !.pos = tip, !.pass = @ - 1] BY Zenon
      <3>3. RepairFails \/ (UNCHANGED broken /\ \E s \in RepairSteps : \E a : Goto("recovery", s, [t EXCEPT !.todo = a]))
        BY <2>2, <3>1, ZenonT(60) DEF CompleteRevision, RepairSteps
      <3>4. ASSUME NEW s \in RepairSteps, NEW a, Goto("recovery", s, [t EXCEPT !.todo = a]), UNCHANGED broken PROVE Repaired'
        <4>1. PICK k : k = [t EXCEPT !.todo = a] BY Zenon
        <4>2. k.q = q BY <3>1, <4>1, <1>q DEF Locals
        <4> QED BY <1>a, <2>0, <3>4, <4>1, <4>2, Zenon DEF RepairSteps
      <3> QED BY <1>f, <2>0, <3>3, <3>4, Zenon
    <2> QED BY <1>1, <1>l, <2>1, <2>2, ZenonT(60) DEF RecoverSettle
  <1>2. CASE RecoverForward
    <2>0. UNCHANGED <<phase, withdrawn, torev, resp, mark>> /\ NoneNew /\ pc["recovery"] \in RepairSteps
      BY <1>2, SameLive DEF RecoverForward, RepairSteps
    <2>1. \/ RepairFails
          \/ UNCHANGED broken /\ Goto("recovery", "repairMark", l)
          \/ UNCHANGED broken /\ \E a : Goto("recovery", pc["recovery"], [l EXCEPT !.todo = a])
      BY <1>2, <1>l, ZenonT(60) DEF RecoverForward
    <2>2. ASSUME NEW a, Goto("recovery", pc["recovery"], [l EXCEPT !.todo = a]), UNCHANGED broken PROVE Repaired'
      <3>1. PICK k : k = [l EXCEPT !.todo = a] BY Zenon
      <3>2. k.q = q BY <1>q, <3>1 DEF Locals
      <3> QED BY <1>a, <2>0, <2>2, <3>1, <3>2, Zenon DEF RepairSteps
    <2> QED BY <1>a, <1>f, <1>q, <2>0, <2>1, <2>2, Zenon
  <1>3. CASE RecoverMark
    <2>0. UNCHANGED <<phase, withdrawn, torev, resp>> /\ pc["recovery"] = "repairMark" BY <1>3 DEF RecoverMark
    <2>1. CASE RepairFails /\ UNCHANGED mark BY <1>f, <2>0, <2>1, SameLive
    <2>2. CASE Goto("recovery", "settle", [IdleLocals EXCEPT !.q = q, !.pass = l.pass]) /\ UNCHANGED <<mark, broken>>
      <3>1. PICK k : k = [IdleLocals EXCEPT !.q = q, !.pass = l.pass] BY Zenon
      <3>2. k.q = q BY <3>1 DEF IdleLocals
      <3>3. Goto("recovery", "settle", k) BY <2>2, <3>1, Zenon
      <3> QED BY <1>a, <2>0, <2>2, <3>2, <3>3, SameLive
    <2>3. ASSUME NEW i \in Olds(l), MarkCancelled(q, {i}), UNCHANGED <<pc, loc, broken>> PROVE Repaired'
      <3>1. i \in Ids BY DEF Olds, Unmarked
      <3>2. NoneNew BY <1>0, <2>0, <2>3, <3>1, MarkedLive
      <3>3. pc'["recovery"] = "repairMark" /\ loc'["recovery"].q = q BY <1>l, <1>q, <2>0, <2>3
      <3> QED BY <1>l, <1>p, <1>q, <2>0, <2>3, <3>2, <3>3, BootStep
    <2> QED BY <1>3, <1>i, <1>l, <1>q, <2>1, <2>2, <2>3, ZenonT(60) DEF RecoverMark
  <1>4. CASE RecoverBack
    <2>0. UNCHANGED <<phase, withdrawn, torev, mark>> /\ pc["recovery"] = "repairBack" BY <1>4 DEF RecoverBack
    <2>1. CASE RepairFails /\ UNCHANGED resp BY <1>f, <2>0, <2>1, SameLive
    <2>2. CASE Goto("recovery", "settle", l) /\ UNCHANGED broken /\ resp' = [resp EXCEPT ![q][l.pos] = NoResponse]
      <3>1. l.pos \in Ids BY <1>l, <2>0, RepairFacts DEF RepairSteps
      <3>2. NoneNew BY <1>0, <2>0, <2>2, <3>1, DeletedLive, Zenon
      <3> QED BY <1>a, <1>q, <2>0, <2>2, <3>2
    <2>3. ASSUME NEW a, Goto("recovery", "repairBack", [l EXCEPT !.todo = a]), UNCHANGED <<resp, broken>> PROVE Repaired'
      <3>1. PICK k : k = [l EXCEPT !.todo = a] BY Zenon
      <3>2. k.q = q BY <1>q, <3>1 DEF Locals
      <3> QED BY <1>a, <2>0, <2>3, <3>1, <3>2, SameLive, Zenon
    <2> QED BY <1>4, <1>l, <1>q, <2>1, <2>2, <2>3, ZenonT(60) DEF RecoverBack
  <1>5. CASE RecoverCancel
    <2>0. UNCHANGED <<phase, withdrawn, torev, broken, resp, mark>> /\ pc["recovery"] = "cancel" /\ NoneNew
      BY <1>5, SameLive, Zenon DEF RecoverCancel, stored
    <2>1. CASE Goto("recovery", "next", IdleLocals) /\ (q \notin withdrawn \/ {i \in Ids : LiveAt(q, i)} = {})
      <3>1. SingleLive(q) BY <1>c, <2>0, <2>1 DEF SingleLive
      <3>2. Recovered(q)'
        <4>1. SingleLive(q)' BY <2>0, <3>1, SingleStays
        <4>2. q \in withdrawn' => \A i \in Ids : ~LiveAt(q, i)' BY <2>0, <2>1 DEF NoneNew
        <4> QED BY <4>1, <4>2 DEF Recovered
      <3> QED BY <1>b, <2>0, <2>1, <3>2
    <2>2. ASSUME q \in withdrawn, NEW a, NEW b, NEW c, Goto("recovery", "stop", [l EXCEPT !.mrid = a, !.pos = b, !.todo = c])
          PROVE  Repaired'
      <3>1. PICK k : k = [l EXCEPT !.mrid = a, !.pos = b, !.todo = c] OBVIOUS
      <3>2. k.q = q /\ Goto("recovery", "stop", k) BY <1>q, <2>2, <3>1 DEF Locals
      <3> QED BY <1>a, <2>0, <2>2, <3>2
    <2> QED BY <1>5, <1>l, <1>q, <2>1, <2>2, ZenonT(60) DEF RecoverCancel
  <1>e. ASSUME CancelFails("recovery"), UNCHANGED <<phase, withdrawn, torev>>, NoneNew PROVE Repaired'
    <2>1. Goto("recovery", "next", IdleLocals) /\ broken' = broken \cup {q} BY <1>e, <1>l, <1>q DEF CancelFails
    <2> QED BY <1>b, <1>e, <2>1
  <1>6. CASE StopExecution("recovery")
    <2>0. UNCHANGED <<phase, withdrawn, torev, resp, mark>> /\ pc["recovery"] = "stop" /\ NoneNew
      BY <1>6, SameLive DEF StopExecution
    <2>1. CASE Goto("recovery", "markGrant", l) /\ UNCHANGED broken BY <1>a, <1>c, <1>q, <2>0, <2>1
    <2>2. ASSUME NEW a, Goto("recovery", "stop", [l EXCEPT !.todo = a]), UNCHANGED broken PROVE Repaired'
      <3>1. PICK k : k = [l EXCEPT !.todo = a] BY Zenon
      <3>2. k.q = q BY <1>q, <3>1 DEF Locals
      <3> QED BY <1>a, <1>c, <2>0, <2>2, <3>1, <3>2, Zenon
    <2> QED BY <1>6, <1>e, <1>l, <2>0, <2>1, <2>2, ZenonT(60) DEF StopExecution
  <1>7. CASE MarkGrant("recovery")
    <2>0. UNCHANGED <<phase, withdrawn, torev, resp>> /\ pc["recovery"] = "markGrant" BY <1>7 DEF MarkGrant
    <2>1. CASE CancelFails("recovery") /\ UNCHANGED mark BY <1>e, <2>0, <2>1, SameLive
    <2>2. ASSUME NEW a, NEW b, NEW c, Goto("recovery", "cancel", [l EXCEPT !.n = a, !.mrid = b, !.pos = c]), UNCHANGED broken,
                 MarkCancelled(l.q, {l.pos})
          PROVE  Repaired'
      <3>0. l.pos \in Ids BY <1>0, <1>l, <2>0 DEF LedgerInv, Cancelling
      <3>1. PICK k : k = [l EXCEPT !.n = a, !.mrid = b, !.pos = c] OBVIOUS
      <3>2. k.q = q /\ Goto("recovery", "cancel", k) BY <1>q, <2>2, <3>1 DEF Locals
      <3>3. NoneNew BY <1>0, <1>q, <2>0, <2>2, <3>0, MarkedLive
      <3> QED BY <1>a, <1>c, <2>0, <2>2, <3>2, <3>3
    <2> QED BY <1>7, <1>l, <2>1, <2>2, ZenonT(60) DEF MarkGrant
  <1> QED BY <1>u, <1>1, <1>2, <1>3, <1>4, <1>5, <1>6, <1>7 DEF Recover

(* The canceller, while serving. *)
LEMMA CancelRepaired ==
    ASSUME LedgerInv, Repaired, CancelGrants \/ \E q \in Revisable : CancelStart(q) PROVE Repaired'
  <1>0. "canceller" \in Threads \ {"recovery"} /\ "canceller" \notin Revisers /\ Typed BY ThreadFacts DEF LedgerInv
  <1>1. \E s, k : Goto("canceller", s, k)
    BY ZenonT(60) DEF CancelGrants, CancelStart, Walk, CancelMember, Rewalk, StopExecution, MarkGrant, CancelFails, Done
  <1>2. UNCHANGED <<phase, broken>>
    BY ZenonT(60) DEF CancelGrants, CancelStart, Walk, CancelMember, Rewalk, StopExecution, MarkGrant, CancelFails
  <1>3. phase = "serving"
    <2>1. phase = "serving" \/ pc["canceller"] # "idle"
      BY Zenon DEF CancelGrants, CancelStart, Walk, CancelMember, Rewalk, StopExecution, MarkGrant
    <2> QED BY <1>0, <2>1, RunsWhen DEF Typed
  <1>4. NoneNew
    <2>1. UNCHANGED <<resp, mark>> \/ MarkGrant("canceller")
      BY ZenonT(60) DEF CancelGrants, CancelStart, Walk, CancelMember, Rewalk, StopExecution, stored
    <2>2. ASSUME MarkGrant("canceller") PROVE NoneNew
      <3>1. UNCHANGED resp /\ (UNCHANGED mark \/ MarkCancelled(loc["canceller"].q, {loc["canceller"].pos}))
        BY <2>2 DEF MarkGrant
      <3>2. PICK q \in Requests, i \in Ids : q = loc["canceller"].q /\ i = loc["canceller"].pos
        <4>1. loc["canceller"].pos \in Ids BY <1>0, <2>2 DEF LedgerInv, Cancelling, MarkGrant
        <4>2. loc["canceller"].q \in Requests BY <1>0 DEF Typed, Locals
        <4> QED BY <4>1, <4>2
      <3> QED BY <1>0, <3>1, <3>2, SameLive, MarkedLive
    <2> QED BY <2>1, <2>2, SameLive
  <1>5. fleet' = fleet \/ fleet \notin Revisers
    <2>1. fleet' = fleet \/ fleet = Nobody \/ pc["canceller"] \in {"stop", "markGrant"}
      BY ZenonT(60) DEF CancelGrants, CancelStart, Walk, CancelMember, Rewalk, StopExecution, MarkGrant
    <2>2. pc["canceller"] \in {"stop", "markGrant"} => fleet = "canceller" BY <1>0, HolderAlone DEF LockedSteps
    <2> QED BY <1>0, <2>1, <2>2, ThreadFacts
  <1>6. pc["canceller"] \notin NewStored
    BY <1>0, Zenon DEF CancelGrants, CancelStart, Walk, CancelMember, Rewalk, StopExecution, MarkGrant, NewStored
  <1> QED BY <1>0, <1>1, <1>2, <1>3, <1>4, <1>5, <1>6, ThreadStep

LEMMA RepairedStays == ASSUME LedgerInv, Bounded, PassesLeft, Repaired, [Next]_vars PROVE Repaired'
  <1>1. CASE UNCHANGED vars BY <1>1, QuietRepaired DEF vars, stored
  <1>2. ASSUME NEW c \in Controls, NEW m, NEW w, Issue(c, m, w) \/ CancelControl(c) \/ ControlEnds(c) PROVE Repaired'
    BY <1>2, QuietRepaired DEF Issue, CancelControl, ControlEnds
  <1>3. ASSUME NEW v \in Revisers, NEW q \in Revisable, NEW w \in Revisions, ReviseRead(v, q, w) PROVE Repaired'
    <2>1. UNCHANGED <<phase, resp, mark, broken, fleet>> /\ phase = "serving" /\ pc[v] \notin NewStored
      BY <1>3 DEF ReviseRead, stored, NewStored
    <2>2. \E s, l : Goto(v, s, l) BY <1>3, ZenonT(60) DEF ReviseRead
    <2> QED BY <2>1, <2>2, SameLive, ThreadFacts, ThreadStep
  <1>4. CASE Crash
    <2>1. phase' = "boot" /\ torev' = Requests /\ pc'["recovery"] = "next" BY <1>4, ThreadFacts DEF Crash
    <2> QED BY <2>1 DEF Repaired
  <1> QED BY <1>1, <1>2, <1>3, <1>4, GrantRepaired, ReviseRepaired, CancelRepaired, RecoverRepaired DEF Next

(* The bound on the passes of a repair never cuts it short (settleRevisions). *)
THEOREM PassesSuffice == Spec => []PassesLeft
  <1>1. Init => PassesLeft
    <2> SUFFICES ASSUME Init PROVE PassesLeft OBVIOUS
    <2>1. pc["recovery"] = "idle" BY ThreadFacts DEF Init
    <2> QED BY <2>1 DEF PassesLeft, RepairSteps
  <1>2. LedgerInv /\ LedgerInv' /\ Bounded /\ PassesLeft /\ [Next]_vars => PassesLeft' BY PassesStay
  <1> QED BY <1>1, <1>2, Inductive, PTL DEF Spec

(* Repaired holds of every behaviour: what a revision, its undo, a cancel, a *)
(* crash or one repair of the boot leaves behind is seen to (Recover).       *)
THEOREM RepairInductive == Spec => []Repaired
  <1>1. Init => Repaired
    <2> SUFFICES ASSUME Init PROVE Repaired OBVIOUS
    <2>1. \A q \in Requests, i \in Ids : ~LiveAt(q, i) BY DEF Init, LiveAt, Stored
    <2>2. phase = "serving" /\ pc["recovery"] = "idle" BY ThreadFacts DEF Init
    <2> QED BY <2>1, <2>2 DEF Repaired, SingleLive
  <1>2. LedgerInv /\ Bounded /\ PassesLeft /\ Repaired /\ [Next]_vars => Repaired' BY RepairedStays
  <1> QED BY <1>1, <1>2, Inductive, PassesSuffice, PTL DEF Spec

(* A request has one live grant at most whenever nobody revises it, and its  *)
(* chain has neither a gap nor a stray mark: neither a failed write, a failed *)
(* undo nor a crash inside Revise leaves two, unless it is reported in broken *)
(* (Revise, settleRevisions, recoverRequest).                                 *)
THEOREM OneLiveGrant == Spec => []ChainsAreOrderly
  <1>1. LedgerInv /\ Repaired => AtMostOneLive
    <2> SUFFICES ASSUME LedgerInv, Repaired, phase = "serving", fleet = Nobody, NEW q \in Requests \ broken
                 PROVE  Cardinality({i \in Ids : LiveAt(q, i)}) <= 1
      BY DEF AtMostOneLive
    <2>1. SingleLive(q) BY ThreadFacts DEF Repaired, BeingRevised
    <2>2. CASE \A i \in Ids : ~LiveAt(q, i)
      <3>1. {i \in Ids : LiveAt(q, i)} = {} BY <2>2
      <3> QED BY <3>1, FS_EmptySet
    <2>3. ASSUME NEW i \in Ids, LiveAt(q, i) PROVE Cardinality({j \in Ids : LiveAt(q, j)}) <= 1
      <3>1. {j \in Ids : LiveAt(q, j)} = {i} BY <2>1, <2>3 DEF SingleLive
      <3> QED BY <3>1, FS_Singleton
    <2> QED BY <2>2, <2>3
  <1> QED BY <1>1, Inductive, RepairInductive, ChainsAreWhole, NoStrayMark, PTL DEF ChainsAreOrderly

(* The server serves again only when no request its client withdrew holds a  *)
(* grant, save those whose repair failed and was reported (Recover,           *)
(* recoverRequest).                                                           *)
THEOREM WithdrawnHoldNothing == Spec => RecoveryCancelsWithdrawn
  <1>1. ASSUME LedgerInv, Bounded, Repaired, [Next]_vars
        PROVE  [(phase = "boot" /\ phase' = "serving") => \A q \in withdrawn \ broken, i \in Ids : ~LiveAt(q, i)]_vars
    <2> SUFFICES ASSUME phase = "boot", phase' = "serving", NEW q \in withdrawn \ broken, NEW i \in Ids PROVE ~LiveAt(q, i)
      OBVIOUS
    <2>1. RecoverNext
      <3>1. phase' # phase OBVIOUS
      <3>2. ~\E v \in Revisers : Revise(v)
        BY <3>1 DEF Revise, ReviseLock, ReviseStopExecution, ReviseCreate, ReviseRelink, ReviseMark, ReviseUndo
      <3>3. ~CancelGrants /\ \A r \in Revisable : ~CancelStart(r)
        BY <3>1 DEF CancelGrants, CancelStart, Walk, CancelMember, StopExecution, MarkGrant, Rewalk
      <3>4. Recover => RecoverNext
        BY <3>1 DEF Recover, RecoverSettle, RecoverForward, RecoverMark, RecoverBack, RecoverCancel, StopExecution, MarkGrant
      <3> QED BY <1>1, <3>1, <3>2, <3>3, <3>4
          DEF Next, Grant, Issue, CancelControl, ControlEnds, ReviseRead, Crash, vars
    <2>2. torev = {} /\ pc["recovery"] = "next" BY <2>1 DEF RecoverNext
    <2>3. Recovered(q) BY <1>1, <2>2 DEF Repaired, BeingRecovered, Bounded
    <2> QED BY <2>3 DEF Recovered
  <1> QED BY <1>1, Inductive, RepairInductive, PTL DEF Spec, RecoveryCancelsWithdrawn
=============================================================================
