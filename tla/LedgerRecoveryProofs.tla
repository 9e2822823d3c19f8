------------------------ MODULE LedgerRecoveryProofs ------------------------
(***************************************************************************)
(* The steps of a cancel, a crash and a recovery keep LedgerInv.           *)
(***************************************************************************)
EXTENDS LedgerInvariant, FiniteSetTheorems

(* The steps of a cancel. *)
LEMMA Walking ==
    ASSUME LedgerInv, pc["canceller"] # "idle"
    PROVE  /\ "canceller" \in Threads /\ phase = "serving" /\ Typed /\ Sound /\ loc["canceller"] \in Locals
           /\ Known("canceller") /\ Anchored("canceller")
  <1>1. "canceller" \in Threads BY ThreadFacts
  <1>2. Typed BY DEF LedgerInv
  <1>3. phase = "serving" BY <1>1, <1>2, RunsWhen DEF Typed
  <1> QED BY <1>1, <1>2, <1>3 DEF LedgerInv, Typed

(* From one unlocked step of a cancel to the next. *)
LEMMA WalkGoto ==
    ASSUME LedgerInv, phase = "serving", NEW s \in {"walk", "cancel", "rewalk"}, NEW k \in Locals,
           Goto("canceller", s, k), UNCHANGED <<phase, resp, mark, ctl, minted, fleet>>,
           k.todo \cup k.touched \subseteq loc["canceller"].todo \cup loc["canceller"].touched,
           s = "cancel" => k.n # 0
    PROVE  LedgerInv'
  <1>1. "canceller" \in Threads /\ s \in Steps /\ s \notin LockedSteps /\ s \notin RevisionSteps
    BY ThreadFacts, StepNames
  <1>2. Typed /\ Known("canceller") BY <1>1 DEF LedgerInv
  <1>3. pc'["canceller"] = s /\ loc'["canceller"] = k BY <1>1, <1>2, GotoFacts
  <1>4. Anchored("canceller")' BY <1>1, <1>3 DEF Anchored
  <1>5. \A c \in k.todo \cup k.touched : ctl[c].st # "none" BY <1>2 DEF Known
  <1> QED BY <1>1, <1>4, <1>5, QuietStep

LEMMA CancelStartStep == ASSUME LedgerInv, NEW q \in Requests, CancelStart(q) PROVE LedgerInv'
  <1>1. PICK k : k = [IdleLocals EXCEPT !.q = q, !.pass = 1] OBVIOUS
  <1>2. k \in Locals BY <1>1, IdleTyped, ZenonT(60) DEF Locals
  <1>3. k.todo = {} /\ k.touched = {} BY <1>1 DEF IdleLocals
  <1>4. UNCHANGED <<phase, resp, mark, ctl, minted, fleet>> /\ phase = "serving" /\ Goto("canceller", "walk", k)
    BY <1>1 DEF CancelStart
  <1> QED BY <1>2, <1>3, <1>4, WalkGoto

LEMMA WalkStep == ASSUME LedgerInv, Walk PROVE LedgerInv'
  <1>1. pc["canceller"] # "idle" /\ UNCHANGED <<phase, resp, mark, ctl, minted, fleet>> BY DEF Walk, stored
  <1>l. PICK l \in Locals : l = loc["canceller"] BY <1>1, Walking
  <1>2. CASE Done("canceller") BY <1>1, <1>2, Walking, IdleStep
  <1>3. CASE Goto("canceller", "cancel", [l EXCEPT !.n = 1])
    <2>1. PICK k : k = [l EXCEPT !.n = 1] BY ZenonT(60)
    <2>2. k \in Locals /\ k.n # 0 /\ k.todo = l.todo /\ k.touched = l.touched BY <2>1 DEF Locals
    <2> QED BY <1>1, <1>l, <1>3, <2>1, <2>2, Walking, WalkGoto, ZenonT(60)
  <1>4. CASE /\ Stored(l.q, Len(l.walk) + 1)
             /\ Goto("canceller", "walk", [l EXCEPT !.walk = Append(@, resp[l.q][Len(l.walk) + 1])])
    <2>1. PICK k : k = [l EXCEPT !.walk = Append(@, resp[l.q][Len(l.walk) + 1])] BY ZenonT(60)
    <2>2. l.q \in Requests /\ Len(l.walk) + 1 \in Ids BY <1>4 DEF Locals, Stored
    <2>3. resp[l.q][Len(l.walk) + 1] \in Responses BY <1>1, <1>4, <2>2, Walking, RespFacts
    <2>4. Append(l.walk, resp[l.q][Len(l.walk) + 1]) \in Seq(Responses) BY <2>3 DEF Locals
    <2>5. k \in Locals /\ k.todo = l.todo /\ k.touched = l.touched BY <2>1, <2>4, ZenonT(60) DEF Locals
    <2> QED BY <1>1, <1>l, <1>4, <2>1, <2>5, Walking, WalkGoto, ZenonT(60)
  <1> QED BY <1>l, <1>2, <1>3, <1>4 DEF Walk

LEMMA RewalkStep == ASSUME LedgerInv, Rewalk PROVE LedgerInv'
  <1>1. pc["canceller"] # "idle" /\ UNCHANGED <<phase, resp, mark, ctl, minted, fleet>> BY DEF Rewalk, stored
  <1>l. PICK l \in Locals : l = loc["canceller"] BY <1>1, Walking
  <1>2. CASE Done("canceller") BY <1>1, <1>2, Walking, IdleStep
  <1>3. CASE Goto("canceller", "rewalk", [l EXCEPT !.n = @ + 1])
    <2>1. PICK k : k = [l EXCEPT !.n = @ + 1] BY ZenonT(60)
    <2>2. k \in Locals /\ k.todo = l.todo /\ k.touched = l.touched BY <2>1, SMTT(60), Z3T(60) DEF Locals
    <2> QED BY <1>1, <1>l, <1>3, <2>1, <2>2, Walking, WalkGoto, ZenonT(60)
  <1>4. CASE Goto("canceller", "walk", [IdleLocals EXCEPT !.q = l.q, !.pass = l.pass + 1])
    <2>1. PICK k : k = [IdleLocals EXCEPT !.q = l.q, !.pass = l.pass + 1] OBVIOUS
    <2>a. l.q \in Requests /\ l.pass + 1 \in Nat BY DEF Locals
    <2>2. k \in Locals BY <2>1, <2>a, IdleTyped, ZenonT(60) DEF Locals
    <2>3. k.todo = {} /\ k.touched = {} BY <2>1 DEF IdleLocals
    <2> QED BY <1>1, <1>l, <1>4, <2>1, <2>2, <2>3, Walking, WalkGoto, ZenonT(60)
  <1> QED BY <1>l, <1>2, <1>3, <1>4 DEF Rewalk

LEMMA CancelMemberStep == ASSUME LedgerInv, CancelMember PROVE LedgerInv'
  <1>1. pc["canceller"] = "cancel" /\ UNCHANGED <<phase, resp, mark, ctl, minted>> BY DEF CancelMember, stored
  <1>l. PICK l \in Locals : l = loc["canceller"] BY <1>1, Walking
  <1>m. PICK m : m = l.walk[l.n] OBVIOUS
  <1>i. PICK i : i = IdOf(l.q, m.mrid) OBVIOUS
  <1>2. CASE UNCHANGED fleet /\ Goto("canceller", "rewalk", [l EXCEPT !.n = 0])
    <2>1. PICK k : k = [l EXCEPT !.n = 0] BY ZenonT(60)
    <2>2. k \in Locals /\ k.todo = l.todo /\ k.touched = l.touched BY <2>1 DEF Locals
    <2> QED BY <1>1, <1>l, <1>2, <2>1, <2>2, Walking, WalkGoto, ZenonT(60)
  <1>3. CASE UNCHANGED fleet /\ Goto("canceller", "cancel", [l EXCEPT !.n = @ + 1])
    <2>1. PICK k : k = [l EXCEPT !.n = @ + 1] BY ZenonT(60)
    <2>a. l.n + 1 \in Nat /\ l.n + 1 # 0 BY DEF Locals
    <2>2. k \in Locals /\ k.todo = l.todo /\ k.touched = l.touched /\ k.n # 0 BY <2>1, <2>a, SMTT(60), Z3T(60) DEF Locals
    <2> QED BY <1>1, <1>l, <1>3, <2>1, <2>2, Walking, WalkGoto, ZenonT(60)
  <1>4. CASE UNCHANGED fleet /\ Goto("canceller", "cancel", [l EXCEPT !.n = @ + 1, !.bad = TRUE])
    <2>1. PICK k : k = [l EXCEPT !.n = @ + 1, !.bad = TRUE] OBVIOUS
    <2>a. l.n + 1 \in Nat /\ l.n + 1 # 0 BY DEF Locals
    <2>2. k \in Locals /\ k.todo = l.todo /\ k.touched = l.touched /\ k.n # 0 BY <2>1, <2>a, ZenonT(60) DEF Locals
    <2> QED BY <1>1, <1>l, <1>4, <2>1, <2>2, Walking, WalkGoto, ZenonT(60)
  <1>5. CASE /\ l.n <= Len(l.walk) /\ fleet = Nobody /\ i # 0 /\ fleet' = "canceller"
             /\ Goto("canceller", "stop", [l EXCEPT !.mrid = m.mrid, !.pos = i, !.todo = Executions(m.mrid)])
    <2>0. Typed /\ Sound /\ "canceller" \in Threads /\ phase = "serving" /\ l.q \in Requests /\ Known("canceller")
      BY <1>1, <1>l, Walking DEF Locals
    <2>1. i \in Ids /\ resp[l.q][i].mrid = m.mrid BY <1>i, <1>5, <2>0, IdOfFacts
    <2>2. m \in Responses /\ m.mrid \in MRIDs
      <3>1. l.n # 0 BY <1>1, <1>l, Walking DEF Anchored
      <3>2. l.n \in 1..Len(l.walk) BY <1>5, <3>1 DEF Locals
      <3>3. l.walk[l.n] \in Responses BY <3>2 DEF Locals
      <3> QED BY <1>m, <3>3 DEF Responses
    <2>3. PICK k : k = [l EXCEPT !.mrid = m.mrid, !.pos = i, !.todo = Executions(m.mrid)] OBVIOUS
    <2>4. i \in 0..MaxIds /\ Executions(m.mrid) \subseteq Controls BY <2>1, LedgerAssumption DEF Ids, Executions
    <2>5. k \in Locals /\ k.q = l.q /\ k.mrid = m.mrid /\ k.pos = i /\ k.todo = Executions(m.mrid)
          /\ k.touched = l.touched
      BY <2>2, <2>3, <2>4, ZenonT(60) DEF Locals
    <2>6. "stop" \in Steps /\ "stop" \notin RevisionSteps BY StepNames
    <2>7. Goto("canceller", "stop", k) BY <1>5, <2>3
    <2>8. pc'["canceller"] = "stop" /\ loc'["canceller"] = k BY <2>0, <2>5, <2>6, <2>7, GotoFacts
    <2>9. Anchored("canceller")' BY <2>6, <2>8 DEF Anchored
    <2>a. StoreTyped' /\ Sound' /\ RespGrows /\ \A x : LiveOn(x)' = LiveOn(x) BY <1>1, <2>0, SameStores
    <2>b. LiveOn(m.mrid)' \subseteq k.todo BY <2>a, <2>5, SMTT(60), Z3T(60) DEF LiveOn, Executions
    <2>c. Revising("canceller")' BY <2>8 DEF Revising
    <2>d. Cancelling("canceller")' BY <1>1, <2>1, <2>2, <2>5, <2>8, <2>b DEF Cancelling
    <2>e. \A c \in k.todo \cup k.touched : ctl'[c].st # "none" BY <1>1, <1>l, <2>0, <2>5 DEF Known, Executions
    <2> QED BY <1>1, <1>5, <2>0, <2>5, <2>6, <2>7, <2>9, <2>a, <2>c, <2>d, <2>e, LockFree, LockedStep
  <1> QED BY <1>l, <1>m, <1>i, <1>2, <1>3, <1>4, <1>5 DEF CancelMember

(* A step of a cancel inside the lock, by a canceller or by recovery. *)
LEMMA CancelGoto ==
    ASSUME LedgerInv, NEW p \in {"canceller", "recovery"}, pc[p] \in {"stop", "markGrant"},
           NEW s \in {"stop", "markGrant", "cancel", "next", "idle"}, NEW k \in Locals, Goto(p, s, k),
           UNCHANGED phase, StoreTyped', Sound', RespGrows,
           \/ s \notin LockedSteps /\ fleet' = Nobody
           \/ UNCHANGED fleet,
           k.todo \cup k.touched \subseteq loc[p].todo \cup loc[p].touched,
           s = "cancel" => k.n # 0,
           pc'[p] = s /\ loc'[p] = k => Cancelling(p)'
    PROVE  LedgerInv'
  <1>1. p \in Threads /\ pc[p] \in LockedSteps /\ pc[p] # "idle" BY ThreadFacts, StepNames
  <1>2. s \in Steps /\ s \notin RevisionSteps /\ s \notin RepairSteps BY DEF Steps, RevisionSteps, LockedSteps, RepairSteps
  <1>3. Typed /\ Known(p) /\ loc[p] \in Locals BY <1>1 DEF LedgerInv, Typed
  <1>4. pc'[p] = s /\ loc'[p] = k BY <1>1, <1>2, <1>3, GotoFacts
  <1>5. fleet = p /\ \A r \in Threads \ {p} : pc[r] \notin LockedSteps BY <1>1, HolderAlone
  <1>6. p = "recovery" <=> phase = "boot" BY <1>1, RunsWhen
  <1>7. Anchored(p)' BY <1>2, <1>4, SMTT(60), Z3T(60) DEF Anchored
  <1>8. Revising(p)'
    <2>1. s \notin {"stopExecutions", "create", "relink", "mark", "undo"} OBVIOUS
    <2> QED BY <1>4, <2>1 DEF Revising
  <1>9. p = "recovery" => Repairing' BY <1>2, <1>4, NotRepairing, SMTT(60), Z3T(60)
  <1>10. \A c \in k.todo \cup k.touched : ctl'[c].st # "none" BY <1>3 DEF Known, RespGrows, Locals
  <1>11. fleet' \in Threads \cup {Nobody} /\ (s \in LockedSteps => fleet' = p) BY <1>1, <1>5
  <1>12. Cancelling(p)' BY <1>4
  <1> QED BY <1>1, <1>2, <1>5, <1>6, <1>7, <1>8, <1>9, <1>10, <1>11, <1>12, LockedStep, SMTT(60), Z3T(60)

LEMMA CancelFailsStep ==
    ASSUME LedgerInv, NEW p \in {"canceller", "recovery"}, pc[p] \in {"stop", "markGrant"}, CancelFails(p),
           UNCHANGED phase, StoreTyped', Sound', RespGrows
    PROVE  LedgerInv'
  <1>1. IdleLocals.todo = {} /\ IdleLocals.touched = {} BY DEF IdleLocals
  <1>2. PICK s \in {"next", "idle"} : Goto(p, s, IdleLocals) BY DEF CancelFails, Done
  <1>3. s \notin LockedSteps /\ fleet' = Nobody BY DEF CancelFails, LockedSteps
  <1>4. pc'[p] = s => Cancelling(p)' BY DEF Cancelling
  <1> QED BY <1>1, <1>2, <1>3, <1>4, IdleTyped, CancelGoto

LEMMA StopExecutionStep ==
    ASSUME LedgerInv, NEW p \in {"canceller", "recovery"}, StopExecution(p)
    PROVE  LedgerInv'
  <1>0. pc[p] = "stop" /\ p \in Threads BY ThreadFacts DEF StopExecution
  <1>1. UNCHANGED <<phase, resp, mark, minted>> BY DEF StopExecution
  <1>l. PICK l \in Locals : l = loc[p] BY <1>0 DEF LedgerInv, Typed
  <1>2. Typed /\ Sound BY DEF LedgerInv
  <1>3. l.pos \in Ids /\ resp[l.q][l.pos].mrid = l.mrid /\ l.mrid \in MRIDs /\ LiveOn(l.mrid) \subseteq l.todo
    BY <1>0, <1>l DEF LedgerInv, Cancelling
  <1>4. CASE l.todo = {} /\ Goto(p, "markGrant", l) /\ UNCHANGED <<ctl, fleet>>
    <2>1. StoreTyped' /\ Sound' /\ RespGrows /\ \A m : LiveOn(m)' = LiveOn(m) BY <1>1, <1>2, <1>4, SameStores
    <2>2. LiveOn(l.mrid)' = {} BY <1>3, <1>4, <2>1
    <2>3. ASSUME pc'[p] = "markGrant", loc'[p] = l PROVE Cancelling(p)'
      BY <1>1, <1>3, <2>2, <2>3 DEF Cancelling
    <2> QED BY <1>0, <1>1, <1>l, <1>4, <2>1, <2>3, CancelGoto
  <1>5. ASSUME NEW c \in l.todo, Stop(c), Goto(p, "stop", [l EXCEPT !.todo = @ \ {c}]), UNCHANGED fleet
        PROVE  LedgerInv'
    <2>2. PICK k : k = [l EXCEPT !.todo = @ \ {c}] BY ZenonT(60)
    <2>3. k \in Locals /\ k.q = l.q /\ k.mrid = l.mrid /\ k.pos = l.pos
          /\ k.touched = l.touched /\ k.todo = l.todo \ {c} /\ c \in Controls
      BY <2>2 DEF Locals
    <2>4. CtlShrinks /\ ctl'[c].st # "live" BY <1>2, <1>5, <2>3, StopFacts
    <2>5. Sound' /\ \A m : LiveOn(m)' \subseteq LiveOn(m) BY <1>1, <1>2, <2>4, ShrinkData
    <2>6. StoreTyped' /\ RespGrows BY <1>1, <1>2, <2>4, ShrinkWrite
    <2>7. LiveOn(l.mrid)' \subseteq k.todo
      <3>1. c \notin LiveOn(l.mrid)' BY <2>4 DEF LiveOn
      <3> QED BY <1>3, <2>3, <2>5, <3>1
    <2>8. ASSUME pc'[p] = "stop", loc'[p] = k PROVE Cancelling(p)'
      BY <1>1, <1>3, <2>3, <2>7, <2>8 DEF Cancelling
    <2> QED BY <1>0, <1>1, <1>l, <1>5, <2>2, <2>3, <2>5, <2>6, <2>8, CancelGoto, ZenonT(60)
  <1>6. CASE CancelFails(p) /\ UNCHANGED ctl
    <2>1. StoreTyped' /\ Sound' /\ RespGrows BY <1>1, <1>2, <1>6, SameStores
    <2> QED BY <1>0, <1>1, <1>6, <2>1, CancelFailsStep
  <1> QED BY <1>l, <1>4, <1>5, <1>6, ZenonT(60) DEF StopExecution

LEMMA MarkGrantStep ==
    ASSUME LedgerInv, NEW p \in {"canceller", "recovery"}, MarkGrant(p)
    PROVE  LedgerInv'
  <1>0. pc[p] = "markGrant" /\ p \in Threads BY ThreadFacts DEF MarkGrant
  <1>1. UNCHANGED <<phase, resp, ctl, minted>> BY DEF MarkGrant
  <1>l. PICK l \in Locals : l = loc[p] BY <1>0 DEF LedgerInv, Typed
  <1>2. Typed /\ Sound BY DEF LedgerInv
  <1>3. l.pos \in Ids /\ resp[l.q][l.pos].mrid = l.mrid /\ l.mrid \in MRIDs /\ LiveOn(l.mrid) = {} /\ l.q \in Requests
    BY <1>0, <1>l, ZenonT(60) DEF LedgerInv, Cancelling, Locals
  <1>4. CASE /\ MarkCancelled(l.q, {l.pos}) /\ fleet' = Nobody
             /\ Goto(p, "cancel", [l EXCEPT !.n = @ + 1, !.mrid = NoMRID, !.pos = 0])
    <2>1. PICK k : k = [l EXCEPT !.n = @ + 1, !.mrid = NoMRID, !.pos = 0] OBVIOUS
    <2>2. l.n + 1 \in Nat /\ l.n + 1 # 0 /\ 0 \in 0..MaxIds BY LedgerAssumption DEF Locals
    <2>3. k \in Locals /\ k.n # 0 /\ k.todo = l.todo /\ k.touched = l.touched BY <2>1, <2>2, ZenonT(60) DEF Locals
    <2>4. Stored(l.q, l.pos) BY <1>2, <1>3, RespFacts
    <2>5. Sound' /\ mark' \in [Requests -> SUBSET Ids] BY <1>1, <1>2, <1>3, <1>4, <2>4, MarkData
    <2>6. StoreTyped' /\ RespGrows BY <1>1, <1>2, <2>5, MarkWrite
    <2>7. pc'[p] = "cancel" => Cancelling(p)' BY DEF Cancelling
    <2>8. "cancel" \notin LockedSteps BY StepNames
    <2> QED BY <1>0, <1>1, <1>l, <1>4, <2>1, <2>3, <2>5, <2>6, <2>7, <2>8, CancelGoto, ZenonT(60)
  <1>5. CASE CancelFails(p) /\ UNCHANGED mark
    <2>1. StoreTyped' /\ Sound' /\ RespGrows BY <1>1, <1>2, <1>5, SameStores
    <2> QED BY <1>0, <1>1, <1>5, <2>1, CancelFailsStep
  <1> QED BY <1>l, <1>4, <1>5 DEF MarkGrant
----------------------------------------------------------------------------
(* The steps of recovery. *)
RecoverySteps == RepairSteps \cup {"next", "settle", "cancel"}

LEMMA Recovering ==
    ASSUME LedgerInv, pc["recovery"] \in RecoverySteps
    PROVE  /\ "recovery" \in Threads /\ phase = "boot" /\ Typed /\ Sound /\ Repairing
           /\ loc["recovery"] \in Locals /\ loc["recovery"].q \in Requests /\ Known("recovery")
           /\ \A r \in Threads \ {"recovery"} : pc[r] \notin LockedSteps
  <1>1. "recovery" \in Threads /\ pc["recovery"] # "idle" BY ThreadFacts DEF RecoverySteps, RepairSteps
  <1>2. phase = "boot" BY <1>1, RunsWhen
  <1>3. \A r \in Threads \ {"recovery"} : pc[r] = "idle" BY <1>2 DEF LedgerInv, Excluded
  <1>4. Typed /\ Known("recovery") BY <1>1 DEF LedgerInv
  <1>5. loc["recovery"] \in Locals /\ loc["recovery"].q \in Requests BY <1>1, <1>4, SMTT(60), Z3T(60) DEF Typed, Locals
  <1> QED BY <1>1, <1>2, <1>3, <1>4, <1>5, StepNames DEF LedgerInv

LEMMA RecoverGoto ==
    ASSUME LedgerInv, pc["recovery"] \in RecoverySteps, NEW s \in RecoverySteps, NEW k \in Locals,
           Goto("recovery", s, k), UNCHANGED <<phase, fleet>>, StoreTyped', Sound', RespGrows,
           \A c \in k.todo \cup k.touched : ctl[c].st # "none",
           (s \in RepairSteps /\ pc'["recovery"] = s /\ loc'["recovery"] = k) => Repairing'
    PROVE  LedgerInv'
  <1> USE Recovering
  <1>1. s \in Steps /\ s \notin LockedSteps /\ s \notin RevisionSteps
    BY SMTT(60), Z3T(60) DEF RecoverySteps, Steps, RevisionSteps, LockedSteps, RepairSteps
  <1>2. pc'["recovery"] = s /\ loc'["recovery"] = k BY <1>1, GotoFacts
  <1>3. Anchored("recovery")' BY <1>1, <1>2 DEF Anchored
  <1>4. Revising("recovery")' /\ Cancelling("recovery")' BY <1>1, <1>2, OutsideLock
  <1>5. Repairing' BY <1>2, NotRepairing, SMTT(60), Z3T(60)
  <1>6. \A c \in k.todo \cup k.touched : ctl'[c].st # "none" BY DEF RespGrows, Locals
  <1>7. fleet' \in Threads \cup {Nobody} BY DEF Typed
  <1> QED BY <1>1, <1>3, <1>4, <1>5, <1>6, <1>7, LockedStep, SMTT(60), Z3T(60)

(* The length of a chain is a number, and no id of a chain without a gap is *)
(* beyond it.                                                                *)
LEMMA ChainLengthFacts ==
    ASSUME Sound, NEW q \in Requests
    PROVE  ChainLength(q) \in Nat /\ \A i \in Ids : Stored(q, i) => i <= ChainLength(q)
  <1>1. PICK S : S = {i \in Ids : Stored(q, i)} OBVIOUS
  <1>2. IsFiniteSet(Ids) BY LedgerAssumption, FS_Interval DEF Ids
  <1>3. IsFiniteSet(S) /\ Cardinality(S) \in Nat BY <1>1, <1>2, FS_Subset, FS_CardinalityType
  <1>4. ASSUME NEW i \in Ids, Stored(q, i) PROVE i <= Cardinality(S)
    <2>1. i \in Nat /\ i >= 1 BY LedgerAssumption DEF Ids
    <2>2. 1..i \subseteq S
      <3> SUFFICES ASSUME NEW j \in 1..i PROVE j \in S OBVIOUS
      <3>1. j \in Ids BY <2>1, LedgerAssumption DEF Ids
      <3>2. j = i \/ j < i BY <2>1
      <3> QED BY <1>1, <1>4, <3>1, <3>2 DEF Sound, Chained
    <2>3. Cardinality(1..i) = i BY <2>1, FS_Interval
    <2> QED BY <1>3, <2>2, <2>3, FS_Subset
  <1> QED BY <1>1, <1>3, <1>4 DEF ChainLength

(* Recovery goes on with nothing written and nothing kept but its passes. *)
LEMMA RecoverOn ==
    ASSUME LedgerInv, pc["recovery"] \in RecoverySteps, NEW s \in {"next", "settle", "cancel"}, NEW q \in Requests,
           NEW n \in Nat,
           \/ Goto("recovery", s, IdleLocals)
           \/ Goto("recovery", s, [IdleLocals EXCEPT !.q = q])
           \/ Goto("recovery", s, [IdleLocals EXCEPT !.q = q, !.pass = n]),
           UNCHANGED <<phase, fleet>>, StoreTyped', Sound', RespGrows
    PROVE  LedgerInv'
  <1>1. PICK k : /\ \/ k = IdleLocals
                    \/ k = [IdleLocals EXCEPT !.q = q]
                    \/ k = [IdleLocals EXCEPT !.q = q, !.pass = n]
                 /\ Goto("recovery", s, k)
    BY Zenon
  <1>2. k \in Locals BY <1>1, IdleTyped DEF Locals
  <1>3. k.todo = {} /\ k.touched = {}
    <2>1. CASE k = IdleLocals BY <2>1 DEF IdleLocals
    <2>2. CASE k = [IdleLocals EXCEPT !.q = q] BY <2>2 DEF IdleLocals
    <2>3. CASE k = [IdleLocals EXCEPT !.q = q, !.pass = n] BY <2>3 DEF IdleLocals
    <2> QED BY <1>1, <2>1, <2>2, <2>3
  <1>4. s \in RecoverySteps /\ s \notin RepairSteps BY DEF RecoverySteps, RepairSteps
  <1> QED BY <1>1, <1>2, <1>3, <1>4, RecoverGoto

LEMMA RepairFailsStep ==
    ASSUME LedgerInv, pc["recovery"] \in RecoverySteps, RepairFails, UNCHANGED <<phase, fleet>>, StoreTyped', Sound', RespGrows
    PROVE  LedgerInv'
  <1>1. PICK q \in Requests : q = loc["recovery"].q BY Recovering
  <1>2. \/ Goto("recovery", "cancel", [IdleLocals EXCEPT !.q = q])
        \/ Goto("recovery", "next", IdleLocals)
    BY <1>1 DEF RepairFails
  <1> QED BY <1>1, <1>2, RecoverOn

(* Every thread but recovery is idle, and recovery about to start or done. *)
LEMMA AllQuiet ==
    ASSUME Typed', Sound', \A p \in Threads : pc'[p] = "idle" \/ (p = "recovery" /\ pc'[p] = "next"),
           phase' = "serving" => pc'["recovery"] = "idle",
           \A p \in Threads : loc'[p].todo = {} /\ loc'[p].touched = {}
    PROVE  LedgerInv'
  <1>1. Excluded' BY ThreadFacts, StepNames, SMTT(60), Z3T(60) DEF Excluded
  <1>2. \A p \in Threads : Anchored(p)' /\ Revising(p)' /\ Cancelling(p)'
    BY ZenonT(60) DEF Anchored, Revising, Cancelling, RevisionSteps
  <1>3. Repairing' BY ThreadFacts, NotRepairing, StepNames
  <1>4. \A p \in Threads : Known(p)' BY DEF Known
  <1> QED BY <1>1, <1>2, <1>3, <1>4 DEF LedgerInv

LEMMA CrashStep == ASSUME LedgerInv, Crash PROVE LedgerInv'
  <1>1. Typed /\ Sound /\ UNCHANGED <<resp, mark, ctl, minted>> BY DEF LedgerInv, Crash, stored
  <1>2. StoreTyped' /\ Sound' BY <1>1, SameStores
  <1>3. \A p \in Threads : loc'[p].todo = {} /\ loc'[p].touched = {} BY DEF Crash, IdleLocals
  <1>4. Typed'
    <2>1. pc' \in [Threads -> Steps] BY StepNames DEF Crash
    <2>2. loc' \in [Threads -> Locals] BY IdleTyped DEF Crash
    <2> QED BY <1>2, <2>1, <2>2 DEF Typed, Crash
  <1>5. \A p \in Threads : pc'[p] = "idle" \/ (p = "recovery" /\ pc'[p] = "next") BY DEF Crash
  <1>6. phase' # "serving" BY DEF Crash
  <1> QED BY <1>2, <1>3, <1>4, <1>5, <1>6, AllQuiet

LEMMA RecoverNextStep == ASSUME LedgerInv, RecoverNext, torev \subseteq Requests PROVE LedgerInv'
  <1>0. pc["recovery"] \in RecoverySteps BY DEF RecoverNext, RecoverySteps
  <1>1. Typed /\ Sound /\ UNCHANGED <<resp, mark, ctl, minted, fleet>> BY DEF LedgerInv, RecoverNext, stored
  <1>2. StoreTyped' /\ Sound' /\ RespGrows BY <1>1, SameStores
  <1>3. ASSUME NEW q \in torev, Goto("recovery", "settle", [IdleLocals EXCEPT !.q = q, !.pass = ChainLength(q)]),
               UNCHANGED phase
        PROVE  LedgerInv'
    <2>1. ChainLength(q) \in Nat BY <1>1, ChainLengthFacts
    <2> QED BY <1>0, <1>1, <1>2, <1>3, <2>1, RecoverOn
  <1>4. CASE phase' = "serving" /\ Done("recovery")
    <2>1. "recovery" \in Threads /\ \A r \in Threads \ {"recovery"} : pc[r] = "idle"
      BY ThreadFacts DEF LedgerInv, Excluded, RecoverNext
    <2>2. /\ pc' \in [Threads -> Steps] /\ loc' \in [Threads -> Locals]
          /\ pc'["recovery"] = "idle" /\ loc'["recovery"] = IdleLocals
          /\ \A r \in Threads \ {"recovery"} : pc'[r] = pc[r] /\ loc'[r] = loc[r]
      BY <1>1, <1>4, <2>1, IdleTyped, StepNames, GotoFacts DEF Done
    <2>3. Typed' BY <1>1, <1>2, <1>4, <2>2 DEF Typed
    <2>4. Excluded' BY <2>1, <2>2, StepNames DEF Excluded
    <2>5. \A p \in Threads : pc'[p] = "idle" BY <2>1, <2>2, SMTT(60), Z3T(60)
    <2>6. \A p \in Threads : Anchored(p)' /\ Revising(p)' /\ Cancelling(p)'
      BY <2>5 DEF Anchored, Revising, Cancelling, RevisionSteps
    <2>7. Repairing' BY <2>2, NotRepairing, StepNames
    <2>8. ASSUME NEW p \in Threads PROVE Known(p)'
      <3>1. CASE p = "recovery"
        <4>1. IdleLocals.todo = {} /\ IdleLocals.touched = {} BY DEF IdleLocals
        <4> QED BY <2>2, <3>1, <4>1 DEF Known
      <3>2. CASE p # "recovery"
        <4>1. Known(p) BY DEF LedgerInv
        <4>2. loc'[p] = loc[p] /\ ctl' = ctl BY <1>1, <2>2, <3>2
        <4> QED BY <4>1, <4>2 DEF Known
      <3> QED BY <3>1, <3>2, SMTT(60), Z3T(60)
    <2> QED BY <1>2, <2>3, <2>4, <2>6, <2>7, <2>8 DEF LedgerInv
  <1> QED BY <1>3, <1>4, ZenonT(60) DEF RecoverNext

LEMMA RecoverSettleStep == ASSUME LedgerInv, RecoverSettle PROVE LedgerInv'
  <1>0. pc["recovery"] \in RecoverySteps BY DEF RecoverSettle, RecoverySteps
  <1>1. UNCHANGED <<phase, resp, mark, ctl, minted, fleet>> BY DEF RecoverSettle, stored
  <1>l. PICK l \in Locals : l = loc["recovery"] BY <1>0, Recovering
  <1>2. /\ StoreTyped' /\ Sound' /\ RespGrows /\ \A m : LiveOn(m)' = LiveOn(m)
        /\ \A q, j : (LiveAt(q, j)' <=> LiveAt(q, j)) /\ (Stored(q, j)' <=> Stored(q, j))
    BY <1>0, <1>1, Recovering, SameStores
  <1>3. CASE Goto("recovery", "cancel", [IdleLocals EXCEPT !.q = l.q])
    <2>1. l.q \in Requests BY DEF Locals
    <2> QED BY <1>0, <1>1, <1>2, <1>3, <2>1, RecoverOn
  <1>4. ASSUME NEW tip \in Ids, Stored(l.q, tip), ~Stored(l.q, tip + 1), l.pass > 0,
               CompleteRevision([l EXCEPT !.pos = tip, !.pass = @ - 1]), \E i, j \in Unmarked(l.q) : i # j
        PROVE  LedgerInv'
    <2>1. CASE RepairFails BY <1>0, <1>1, <1>2, <2>1, RepairFailsStep
    <2>2. PICK t : t = [l EXCEPT !.pos = tip, !.pass = @ - 1] BY ZenonT(60)
    <2>a. l.pass - 1 \in Nat BY <1>4 DEF Locals
    <2>3. tip \in 0..MaxIds /\ tip \in Nat BY LedgerAssumption DEF Ids
    <2>4. t \in Locals /\ t.q = l.q /\ t.pos = tip /\ t.touched = l.touched BY <2>2, <2>a, <2>3 DEF Locals
    <2>5. \A j \in Ids : j > tip => ~Stored(l.q, j)
      <3> SUFFICES ASSUME NEW j \in Ids, j > tip, Stored(l.q, j) PROVE FALSE OBVIOUS
      <3>1. tip + 1 \in Ids /\ (tip + 1 < j \/ tip + 1 = j) BY <2>3, LedgerAssumption DEF Ids
      <3>2. tip + 1 = j \/ Stored(l.q, tip + 1) BY <1>0, <1>l, <3>1, Recovering DEF Sound, Chained
      <3> QED BY <1>4, <3>2
    <2>6. \A i \in Olds(t) : LiveOn(resp[t.q][i].mrid) \subseteq OnOlds(t) BY DEF LiveOn, OnOlds, Executions
    <2>7. LiveOn(resp[t.q][t.pos].mrid) \subseteq OnTip(t) BY DEF LiveOn, OnTip, Executions
    <2>8. \A c \in OnOlds(t) \cup OnTip(t) : c \in Controls /\ ctl[c].st # "none"
      BY DEF OnOlds, OnTip, Executions
    <2>9. Olds(t) # {} BY <1>4, <2>4 DEF Olds
    <2>10. ASSUME NEW s \in RepairSteps, NEW cs \in {OnOlds(t), OnTip(t)}, Goto("recovery", s, [t EXCEPT !.todo = cs]),
                  s \in {"repairStop", "repairForward"} => cs = OnOlds(t),
                  s = "repairForward" => resp[t.q][t.pos].win # Denial, s # "repairMark",
                  s = "repairBack" => cs = OnTip(t), tip \notin mark[l.q]
           PROVE  LedgerInv'
      <3>1. cs \subseteq Controls /\ \A c \in cs : ctl[c].st # "none" BY <2>8
      <3>2. PICK k : k = [t EXCEPT !.todo = cs] BY ZenonT(60)
      <3>3. k \in Locals /\ k.q = t.q /\ k.pos = t.pos /\ k.todo = cs /\ k.touched = t.touched BY <2>4, <3>1, <3>2, ZenonT(60) DEF Locals
      <3>4. \A c \in k.todo \cup k.touched : ctl[c].st # "none" BY <1>0, <1>l, <2>4, <3>1, <3>3, Recovering DEF Known
      <3>5. s \in RecoverySteps BY DEF RecoverySteps
      <3>6. ASSUME pc'["recovery"] = s, loc'["recovery"] = k PROVE Repairing'
        <4>1. Olds(k)' = Olds(k) /\ Olds(k) = Olds(t) BY <1>1, <1>2, <3>3, SMTT(60), Z3T(60) DEF Olds, Unmarked
        <4>2. \A i \in Olds(t) : LiveOn(resp[t.q][i].mrid)' = LiveOn(resp[t.q][i].mrid) BY <1>1, <1>2, SMTT(60), Z3T(60)
        <4>3. LiveOn(resp[t.q][t.pos].mrid)' = LiveOn(resp[t.q][t.pos].mrid) BY <1>1, <1>2, SMTT(60), Z3T(60)
        <4>4. Olds(loc["recovery"])' = Olds(t) BY <3>6, <4>1 DEF Olds, Unmarked, Stored
        <4>5. Stored(t.q, t.pos)' /\ t.pos \notin mark'[t.q] /\ \A j \in Ids : j > t.pos => ~Stored(t.q, j)'
          BY <1>1, <1>2, <1>4, <2>4, <2>5, <2>10, SMTT(60), Z3T(60)
        <4>6. s \in {"repairStop", "repairForward"} => \A i \in Olds(t) : LiveOn(resp[t.q][i].mrid)' \subseteq k.todo
          BY <2>6, <2>10, <3>3, <4>2, SMTT(60), Z3T(60)
        <4>7. s = "repairBack" => LiveOn(resp[t.q][t.pos].mrid)' \subseteq k.todo BY <2>7, <2>10, <3>3, <4>3
        <4> QED BY <1>1, <2>9, <2>10, <3>3, <3>6, <4>4, <4>5, <4>6, <4>7, SMTT(60), Z3T(60) DEF Repairing
      <3> QED BY <1>0, <1>1, <1>2, <2>10, <3>2, <3>3, <3>4, <3>5, <3>6, RecoverGoto, ZenonT(60)
    <2>11. {"repairStop", "repairForward", "repairBack"} \subseteq RepairSteps BY DEF RepairSteps
    <2>12. \/ RepairFails
           \/ /\ t.pos \notin mark[t.q]
              /\ \/ Goto("recovery", "repairStop", [t EXCEPT !.todo = OnOlds(t)])
                 \/ resp[t.q][t.pos].win # Denial /\ Goto("recovery", "repairForward", [t EXCEPT !.todo = OnOlds(t)])
                 \/ Goto("recovery", "repairBack", [t EXCEPT !.todo = OnTip(t)])
      BY <1>4, <2>2, SMTT(60), Z3T(60) DEF CompleteRevision
    <2> QED BY <2>1, <2>4, <2>10, <2>11, <2>12, SMTT(60), Z3T(60)
  <1> QED BY <1>l, <1>3, <1>4, ZenonT(60) DEF RecoverSettle

(* What a repair knows: the older responses are live, and none is the tip. *)
LEMMA RepairFacts ==
    ASSUME LedgerInv, pc["recovery"] \in RepairSteps, NEW l \in Locals, l = loc["recovery"]
    PROVE  /\ l.q \in Requests /\ l.pos \in Ids /\ resp[l.q][l.pos].mrid \in MRIDs
           /\ Stored(l.q, l.pos) /\ l.pos \notin mark[l.q] /\ \A j \in Ids : j > l.pos => ~Stored(l.q, j)
           /\ \A i \in Olds(l) : /\ i \in Ids /\ i # l.pos /\ LiveAt(l.q, i) /\ resp[l.q][i].mrid \in MRIDs
                                 /\ resp[l.q][i].mrid # resp[l.q][l.pos].mrid
           /\ \A c \in l.todo \cup l.touched : c \in Controls /\ ctl[c].st # "none"
  <1>0. pc["recovery"] \in RecoverySteps BY DEF RecoverySteps
  <1>1. Typed /\ Sound /\ l.q \in Requests /\ Known("recovery") /\ Repairing BY <1>0, Recovering, SMTT(60), Z3T(60)
  <1>2. Stored(l.q, l.pos) /\ l.pos \notin mark[l.q] /\ \A j \in Ids : j > l.pos => ~Stored(l.q, j)
    BY <1>1 DEF Repairing
  <1>3. l.pos \in Ids BY <1>2 DEF Stored
  <1>4. resp[l.q][l.pos].mrid \in MRIDs BY <1>1, <1>2, <1>3, RespFacts, SMTT(60), Z3T(60)
  <1>5. ASSUME NEW i \in Olds(l)
        PROVE  /\ i \in Ids /\ i # l.pos /\ LiveAt(l.q, i) /\ resp[l.q][i].mrid \in MRIDs
               /\ resp[l.q][i].mrid # resp[l.q][l.pos].mrid
    <2>1. i \in Ids /\ i # l.pos /\ Stored(l.q, i) /\ i \notin mark[l.q] BY <1>5 DEF Olds, Unmarked
    <2>2. i < l.pos BY <1>2, <1>3, <2>1, SMTT(60), Z3T(60) DEF Ids
    <2>3. resp[l.q][i].win # Denial BY <1>1, <1>2, <1>3, <2>1, <2>2, SMTT(60), Z3T(60) DEF Sound, Chained
    <2>4. resp[l.q][i].mrid \in MRIDs /\ resp[l.q][i].mrid # NoMRID BY <1>1, <2>1, RespFacts, SMTT(60), Z3T(60)
    <2>5. resp[l.q][i].mrid # resp[l.q][l.pos].mrid BY <1>1, <1>3, <2>1, <2>4, SMTT(60), Z3T(60) DEF Sound, Minted
    <2> QED BY <2>1, <2>3, <2>4, <2>5, SMTT(60), Z3T(60) DEF LiveAt
  <1>6. \A c \in l.todo \cup l.touched : c \in Controls /\ ctl[c].st # "none" BY <1>1, SMTT(60), Z3T(60) DEF Known, Locals
  <1> QED BY <1>1, <1>2, <1>3, <1>4, <1>5, <1>6, SMTT(60), Z3T(60)

(* A repair step that moves or stops c, or nothing: what is left to do of the *)
(* older responses shrinks with it.                                           *)
LEMMA ForwardStays ==
    ASSUME LedgerInv, NEW l \in Locals, l = loc["recovery"], NEW k \in Locals, k.q = l.q, k.pos = l.pos,
           NEW s \in {"repairStop", "repairForward", "repairMark"}, pc["recovery"] \in {"repairStop", "repairForward"},
           s = "repairForward" => pc["recovery"] = "repairForward",
           UNCHANGED <<resp, mark>>, pc'["recovery"] = s, loc'["recovery"] = k,
           s # "repairMark" => \A i \in Olds(l) : LiveOn(resp[l.q][i].mrid)' \subseteq k.todo,
           s = "repairMark" => \A i \in Olds(l) : LiveOn(resp[l.q][i].mrid)' = {}
    PROVE  Repairing'
  <1>0. pc["recovery"] \in RepairSteps BY SMTT(60), Z3T(60) DEF RepairSteps
  <1>1. Repairing BY SMTT(60), Z3T(60) DEF LedgerInv
  <1>2. \A q, j : Stored(q, j)' <=> Stored(q, j) BY SMTT(60), Z3T(60) DEF Stored
  <1>3. Olds(loc["recovery"])' = Olds(l) BY <1>2, SMTT(60), Z3T(60) DEF Olds, Unmarked
  <1>4. Stored(k.q, k.pos)' /\ k.pos \notin mark'[k.q] /\ \A j \in Ids : j > k.pos => ~Stored(k.q, j)'
    BY <1>0, <1>1, <1>2, SMTT(60), Z3T(60) DEF Repairing
  <1>5. s = "repairForward" => resp'[k.q][k.pos].win # Denial BY <1>1, SMTT(60), Z3T(60) DEF Repairing
  <1>6. s # "repairBack" BY SMTT(60), Z3T(60)
  <1> QED BY <1>3, <1>4, <1>5, <1>6, SMTT(60), Z3T(60) DEF Repairing

LEMMA RecoverForwardStep == ASSUME LedgerInv, RecoverForward PROVE LedgerInv'
  <1>0. /\ pc["recovery"] \in {"repairStop", "repairForward"}
        /\ pc["recovery"] \in RepairSteps /\ pc["recovery"] \in RecoverySteps
    BY DEF RecoverForward, RepairSteps, RecoverySteps
  <1>1. UNCHANGED <<phase, resp, mark, minted, fleet>> BY DEF RecoverForward
  <1>l. PICK l \in Locals : l = loc["recovery"] BY <1>0, Recovering
  <1>2. Typed /\ Sound BY DEF LedgerInv
  <1>3. \A i \in Olds(l) : LiveOn(resp[l.q][i].mrid) \subseteq l.todo BY <1>0, <1>l DEF LedgerInv, Repairing
  <1>4. CASE l.todo = {} /\ Goto("recovery", "repairMark", l) /\ UNCHANGED ctl
    <2>1. StoreTyped' /\ Sound' /\ RespGrows /\ \A m : LiveOn(m)' = LiveOn(m) BY <1>1, <1>2, <1>4, SameStores, SMTT(60), Z3T(60)
    <2>2. \A i \in Olds(l) : LiveOn(resp[l.q][i].mrid)' = {}
      <3>1. \A i \in Olds(l) : LiveOn(resp[l.q][i].mrid)' = LiveOn(resp[l.q][i].mrid) BY <1>1, <2>1
      <3> QED BY <1>3, <1>4, <3>1, SMTT(60), Z3T(60)
    <2>3. "repairMark" \in RecoverySteps BY SMTT(60), Z3T(60) DEF RecoverySteps, RepairSteps
    <2>4. ASSUME pc'["recovery"] = "repairMark", loc'["recovery"] = l PROVE Repairing'
      BY <1>0, <1>1, <1>l, <2>2, <2>4, ForwardStays, SMTT(60), Z3T(60)
    <2> QED BY <1>0, <1>1, <1>l, <1>4, <2>1, <2>3, <2>4, RepairFacts, RecoverGoto, SMTT(60), Z3T(60)
  <1>5. ASSUME NEW c \in l.todo,
               IF pc["recovery"] = "repairForward" THEN Link(c, resp[l.q][l.pos].mrid) ELSE Stop(c),
               Goto("recovery", pc["recovery"], [l EXCEPT !.todo = @ \ {c}])
        PROVE  LedgerInv'
    <2>1. PICK k : k = [l EXCEPT !.todo = @ \ {c}] BY ZenonT(60)
    <2>2. k \in Locals /\ k.q = l.q /\ k.pos = l.pos /\ k.todo = l.todo \ {c} /\ k.touched = l.touched BY <2>1, SMTT(60), Z3T(60) DEF Locals
    <2>3. PICK s : s = pc["recovery"] OBVIOUS
    <2>4. c \in Controls /\ ctl[c].st # "none" BY <1>0, <1>l, RepairFacts
    <2>5. /\ StoreTyped' /\ Sound' /\ RespGrows
          /\ \A i \in Olds(l) : LiveOn(resp[l.q][i].mrid)' \subseteq LiveOn(resp[l.q][i].mrid) \ {c}
      <3>1. CASE s = "repairForward"
        <4>1. PICK m : m = resp[l.q][l.pos].mrid BY SMTT(60), Z3T(60)
        <4>2. resp[l.q][l.pos].win # Denial BY <1>l, <2>3, <3>1, SMTT(60), Z3T(60) DEF LedgerInv, Repairing
        <4>3. LiveGrant(m) /\ m \in MRIDs BY <1>0, <1>l, <4>1, <4>2, RepairFacts DEF LiveGrant, LiveAt
        <4>4. Link(c, m) BY <1>5, <2>3, <3>1, <4>1, SMTT(60), Z3T(60)
        <4>5. /\ Sound' /\ ctl' \in [Controls -> ControlRecords \cup {NoControl}]
              /\ \A d \in Controls : ctl'[d].st = ctl[d].st
              /\ \A x : x # m => LiveOn(x)' \subseteq LiveOn(x) \ {c}
          BY <1>1, <1>2, <2>4, <4>3, <4>4, LinkData, SMTT(60), Z3T(60)
        <4>6. StoreTyped' /\ RespGrows BY <1>1, <1>2, <4>5, CtlWrite, SMTT(60), Z3T(60)
        <4>7. ASSUME NEW i \in Olds(l) PROVE LiveOn(resp[l.q][i].mrid)' \subseteq LiveOn(resp[l.q][i].mrid) \ {c}
          <5>1. PICK x : x = resp[l.q][i].mrid BY SMTT(60), Z3T(60)
          <5>2. x # m BY <1>0, <1>l, <4>1, <5>1, RepairFacts, SMTT(60), Z3T(60)
          <5>3. LiveOn(x)' \subseteq LiveOn(x) \ {c} BY <4>5, <5>2, SMTT(60), Z3T(60)
          <5> QED BY <1>1, <5>1, <5>3
        <4> QED BY <4>5, <4>6, <4>7
      <3>2. CASE s # "repairForward"
        <4>1. CtlShrinks /\ ctl'[c].st # "live" BY <1>2, <1>5, <2>3, <2>4, <3>2, StopFacts, SMTT(60), Z3T(60)
        <4>2. Sound' /\ \A m : LiveOn(m)' \subseteq LiveOn(m) BY <1>1, <1>2, <4>1, ShrinkData, SMTT(60), Z3T(60)
        <4>3. StoreTyped' /\ RespGrows BY <1>1, <1>2, <4>1, ShrinkWrite
        <4>4. \A m : c \notin LiveOn(m)' BY <4>1, SMTT(60), Z3T(60) DEF LiveOn
        <4>5. ASSUME NEW i \in Olds(l) PROVE LiveOn(resp[l.q][i].mrid)' \subseteq LiveOn(resp[l.q][i].mrid) \ {c}
          <5>1. PICK x : x = resp[l.q][i].mrid OBVIOUS
          <5>2. LiveOn(x)' \subseteq LiveOn(x) \ {c} BY <4>2, <4>4, SMTT(60), Z3T(60)
          <5> QED BY <1>1, <5>1, <5>2
        <4> QED BY <4>2, <4>3, <4>5
      <3> QED BY <3>1, <3>2, SMTT(60), Z3T(60)
    <2>6. \A i \in Olds(l) : LiveOn(resp[l.q][i].mrid)' \subseteq k.todo BY <1>3, <2>2, <2>5
    <2>7. s \in {"repairStop", "repairForward"} /\ s \in RecoverySteps /\ Goto("recovery", s, k) BY <1>0, <1>5, <2>1, <2>3, SMTT(60), Z3T(60)
    <2>8. ASSUME pc'["recovery"] = s, loc'["recovery"] = k PROVE Repairing'
      BY <1>0, <1>1, <1>l, <2>2, <2>3, <2>6, <2>7, <2>8, ForwardStays, SMTT(60), Z3T(60)
    <2>9. \A d \in k.todo \cup k.touched : ctl[d].st # "none" BY <1>0, <1>l, <2>2, RepairFacts, SMTT(60), Z3T(60)
    <2> QED BY <1>0, <1>1, <2>2, <2>5, <2>7, <2>8, <2>9, RecoverGoto, SMTT(60), Z3T(60)
  <1>6. CASE RepairFails /\ UNCHANGED ctl
    <2>1. StoreTyped' /\ Sound' /\ RespGrows BY <1>1, <1>2, <1>6, SameStores, SMTT(60), Z3T(60)
    <2> QED BY <1>0, <1>1, <1>6, <2>1, RepairFailsStep, SMTT(60), Z3T(60)
  <1> QED BY <1>l, <1>4, <1>5, <1>6, ZenonT(60) DEF RecoverForward

LEMMA RecoverMarkStep == ASSUME LedgerInv, RecoverMark PROVE LedgerInv'
  <1>0. pc["recovery"] = "repairMark" /\ pc["recovery"] \in RepairSteps /\ pc["recovery"] \in RecoverySteps
    BY DEF RecoverMark, RepairSteps, RecoverySteps
  <1>1. UNCHANGED <<phase, resp, ctl, minted, fleet>> BY DEF RecoverMark
  <1>l. PICK l \in Locals : l = loc["recovery"] BY <1>0, Recovering
  <1>2. Typed /\ Sound /\ Repairing BY DEF LedgerInv
  <1>3. \A i \in Olds(l) : LiveOn(resp[l.q][i].mrid) = {} BY <1>0, <1>2, <1>l, ZenonT(60) DEF Repairing
  <1>4. CASE Goto("recovery", "settle", [IdleLocals EXCEPT !.q = l.q, !.pass = l.pass]) /\ UNCHANGED mark
    <2>1. StoreTyped' /\ Sound' /\ RespGrows BY <1>1, <1>2, <1>4, SameStores
    <2>2. l.q \in Requests /\ l.pass \in Nat BY SMTT(60), Z3T(60) DEF Locals
    <2>3. PICK q \in Requests, n \in Nat : q = l.q /\ n = l.pass BY <2>2, Zenon
    <2>4. Goto("recovery", "settle", [IdleLocals EXCEPT !.q = q, !.pass = n]) BY <1>4, <2>3, Zenon
    <2>5. UNCHANGED <<phase, fleet>> BY <1>1, Zenon
    <2>6. "settle" \in {"next", "settle", "cancel"} OBVIOUS
    <2> QED BY <1>0, <2>1, <2>4, <2>5, <2>6, RecoverOn, ZenonT(60)
  <1>5. ASSUME NEW i \in Olds(l), MarkCancelled(l.q, {i}), UNCHANGED <<pc, loc>>
        PROVE  LedgerInv'
    <2>1. i \in Ids /\ i # l.pos /\ LiveAt(l.q, i) /\ l.q \in Requests BY <1>0, <1>l, RepairFacts, SMTT(60), Z3T(60)
    <2>2. Stored(l.q, i) BY <2>1, SMTT(60), Z3T(60) DEF LiveAt
    <2>3. /\ Sound' /\ mark' \in [Requests -> SUBSET Ids] /\ \A m : LiveOn(m)' = LiveOn(m)
          /\ mark'[l.q] = mark[l.q] \cup {i}
      BY <1>1, <1>2, <1>3, <1>5, <2>1, <2>2, MarkData, ZenonT(60)
    <2>4. StoreTyped' /\ RespGrows BY <1>1, <1>2, <2>3, MarkWrite, SMTT(60), Z3T(60)
    <2>5. Goto("recovery", "repairMark", l) BY <1>0, <1>2, <1>l, <1>5, ThreadFacts, SMTT(60), Z3T(60) DEF Goto, Typed
    <2>6. Repairing'
      <3>1. \A q, j : Stored(q, j)' <=> Stored(q, j) BY <1>1, SMTT(60), Z3T(60) DEF Stored
      <3>2. Olds(loc["recovery"])' \subseteq Olds(l) BY <1>l, <1>5, <2>3, <3>1, SMTT(60), Z3T(60) DEF Olds, Unmarked
      <3>3. \A j \in Olds(l) : LiveOn(resp[l.q][j].mrid)' = {}
        <4>1. \A j \in Olds(l) : LiveOn(resp[l.q][j].mrid)' = LiveOn(resp[l.q][j].mrid) BY <1>1, <2>3, SMTT(60), Z3T(60)
        <4> QED BY <1>3, <4>1, SMTT(60), Z3T(60)
      <3>4. Stored(l.q, l.pos)' /\ l.pos \notin mark'[l.q] /\ \A j \in Ids : j > l.pos => ~Stored(l.q, j)'
        BY <1>0, <1>l, <2>1, <2>3, <3>1, RepairFacts, SMTT(60), Z3T(60)
      <3>5. pc'["recovery"] = "repairMark" /\ loc'["recovery"] = l BY <1>0, <1>l, <1>5
      <3> QED BY <3>2, <3>3, <3>4, <3>5, SMTT(60), Z3T(60) DEF Repairing
    <2>7. "repairMark" \in RecoverySteps BY <1>0
    <2> QED BY <1>0, <1>1, <1>l, <2>3, <2>4, <2>5, <2>6, <2>7, RepairFacts, RecoverGoto, SMTT(60), Z3T(60)
  <1>6. CASE RepairFails /\ UNCHANGED mark
    <2>1. StoreTyped' /\ Sound' /\ RespGrows BY <1>1, <1>2, <1>6, SameStores, SMTT(60), Z3T(60)
    <2> QED BY <1>0, <1>1, <1>6, <2>1, RepairFailsStep, SMTT(60), Z3T(60)
  <1> QED BY <1>l, <1>4, <1>5, <1>6, ZenonT(60) DEF RecoverMark

LEMMA RecoverBackStep == ASSUME LedgerInv, RecoverBack PROVE LedgerInv'
  <1>0. pc["recovery"] = "repairBack" /\ pc["recovery"] \in RepairSteps /\ pc["recovery"] \in RecoverySteps
    BY DEF RecoverBack, RepairSteps, RecoverySteps
  <1>1. UNCHANGED <<phase, mark, minted, fleet>> BY DEF RecoverBack
  <1>l. PICK l \in Locals : l = loc["recovery"] BY <1>0, Recovering
  <1>2. Typed /\ Sound /\ Repairing BY DEF LedgerInv
  <1>3. Olds(l) # {} /\ LiveOn(resp[l.q][l.pos].mrid) \subseteq l.todo BY <1>0, <1>2, <1>l DEF Repairing
  <1>4. ASSUME NEW c \in l.todo, NEW i \in Olds(l), Link(c, resp[l.q][i].mrid),
               Goto("recovery", "repairBack", [l EXCEPT !.todo = @ \ {c}]), UNCHANGED resp
        PROVE  LedgerInv'
    <2>1. PICK k : k = [l EXCEPT !.todo = @ \ {c}] BY ZenonT(60)
    <2>2. k \in Locals /\ k.q = l.q /\ k.pos = l.pos /\ k.todo = l.todo \ {c} /\ k.touched = l.touched BY <2>1, SMTT(60), Z3T(60) DEF Locals
    <2>3. c \in Controls /\ ctl[c].st # "none" BY <1>0, <1>l, RepairFacts
    <2>4. PICK m : m = resp[l.q][i].mrid OBVIOUS
    <2>5. PICK t : t = resp[l.q][l.pos].mrid BY SMTT(60), Z3T(60)
    <2>6. m \in MRIDs /\ LiveGrant(m) /\ t # m BY <1>0, <1>l, <2>4, <2>5, RepairFacts, SMTT(60), Z3T(60) DEF LiveGrant
    <2>7. Link(c, m) BY <1>4, <2>4
    <2>8. /\ Sound' /\ ctl' \in [Controls -> ControlRecords \cup {NoControl}]
          /\ \A d \in Controls : ctl'[d].st = ctl[d].st
          /\ \A x : x # m => LiveOn(x)' \subseteq LiveOn(x) \ {c}
      BY <1>1, <1>2, <1>4, <2>3, <2>6, <2>7, LinkData, SMTT(60), Z3T(60)
    <2>9. StoreTyped' /\ RespGrows BY <1>1, <1>2, <1>4, <2>8, CtlWrite, SMTT(60), Z3T(60)
    <2>10. LiveOn(resp[l.q][l.pos].mrid)' \subseteq k.todo
      <3>1. LiveOn(t)' \subseteq k.todo BY <1>3, <2>2, <2>5, <2>6, <2>8, SMTT(60), Z3T(60)
      <3> QED BY <1>4, <2>5, <3>1, SMTT(60), Z3T(60)
    <2>11. ASSUME pc'["recovery"] = "repairBack", loc'["recovery"] = k PROVE Repairing'
      <3>1. \A q, j : Stored(q, j)' <=> Stored(q, j) BY <1>4, SMTT(60), Z3T(60) DEF Stored
      <3>2. Olds(loc["recovery"])' = Olds(l) BY <1>1, <2>2, <2>11, <3>1, SMTT(60), Z3T(60) DEF Olds, Unmarked
      <3>3. Stored(k.q, k.pos)' /\ k.pos \notin mark'[k.q] /\ \A j \in Ids : j > k.pos => ~Stored(k.q, j)'
        BY <1>0, <1>1, <1>l, <2>2, <3>1, RepairFacts, SMTT(60), Z3T(60)
      <3> QED BY <1>3, <2>2, <2>10, <2>11, <3>2, <3>3, SMTT(60), Z3T(60) DEF Repairing
    <2>12. \A d \in k.todo \cup k.touched : ctl[d].st # "none" BY <1>0, <1>l, <2>2, RepairFacts
    <2>13. Goto("recovery", "repairBack", k) /\ "repairBack" \in RecoverySteps BY <1>0, <1>4, <2>1, SMTT(60), Z3T(60)
    <2> QED BY <1>0, <1>1, <2>2, <2>8, <2>9, <2>11, <2>12, <2>13, RecoverGoto, SMTT(60), Z3T(60)
  <1>5. CASE /\ l.todo = {} /\ resp' = [resp EXCEPT ![l.q][l.pos] = NoResponse]
             /\ Goto("recovery", "settle", l) /\ UNCHANGED ctl
    <2>1. PICK i \in Ids : i = l.pos BY <1>0, <1>l, RepairFacts, SMTT(60), Z3T(60)
    <2>2. /\ l.q \in Requests /\ i \notin mark[l.q] /\ LiveOn(resp[l.q][i].mrid) = {}
          /\ \A j \in Ids : j > i => ~Stored(l.q, j)
      BY <1>0, <1>3, <1>l, <1>5, <2>1, RepairFacts
    <2>3. resp' = [resp EXCEPT ![l.q][i] = NoResponse] BY <1>5, <2>1, SMTT(60), Z3T(60)
    <2>4. /\ Sound' /\ resp' \in [Requests -> [Ids -> Responses \cup {NoResponse}]]
          /\ \A r \in Requests, j \in Ids : resp'[r][j] = NoResponse \/ resp'[r][j] = resp[r][j]
      BY <1>1, <1>2, <1>5, <2>2, <2>3, DeleteData, ZenonT(60)
    <2>5. StoreTyped' /\ RespGrows BY <1>1, <1>2, <1>5, <2>4, DeleteWrite
    <2>7. "settle" \in RecoverySteps /\ "settle" \notin RepairSteps BY DEF RecoverySteps, RepairSteps
    <2>8. \A d \in l.todo \cup l.touched : ctl[d].st # "none" BY <1>0, <1>l, RepairFacts
    <2>9. Goto("recovery", "settle", l) /\ UNCHANGED <<phase, fleet>> BY <1>1, <1>5
    <2> QED BY <1>0, <2>4, <2>5, <2>7, <2>8, <2>9, RecoverGoto, SMTT(60), Z3T(60)
  <1>6. CASE RepairFails /\ UNCHANGED <<ctl, resp>>
    <2>1. StoreTyped' /\ Sound' /\ RespGrows BY <1>1, <1>2, <1>6, SameStores, SMTT(60), Z3T(60)
    <2> QED BY <1>0, <1>1, <1>6, <2>1, RepairFailsStep, SMTT(60), Z3T(60)
  <1> QED BY <1>l, <1>4, <1>5, <1>6, ZenonT(60) DEF RecoverBack

LEMMA RecoverCancelStep == ASSUME LedgerInv, RecoverCancel PROVE LedgerInv'
  <1>0. pc["recovery"] \in RecoverySteps BY ZenonT(60) DEF RecoverCancel, RecoverySteps
  <1>1. UNCHANGED <<phase, resp, mark, ctl, minted>> BY ZenonT(60) DEF RecoverCancel, stored
  <1>l. PICK l \in Locals : l = loc["recovery"] BY <1>0, Recovering
  <1>2. /\ "recovery" \in Threads /\ phase = "boot" /\ Typed /\ Sound /\ l.q \in Requests /\ Known("recovery")
        /\ \A r \in Threads \ {"recovery"} : pc[r] \notin LockedSteps
    BY <1>0, <1>l, Recovering, SMTT(60), Z3T(60)
  <1>3. StoreTyped' /\ Sound' /\ RespGrows /\ \A m : LiveOn(m)' = LiveOn(m) BY <1>1, <1>2, SameStores
  <1>4. CASE Goto("recovery", "next", IdleLocals) /\ UNCHANGED fleet BY <1>0, <1>1, <1>2, <1>3, <1>4, RecoverOn, ZenonT(60)
  <1>5. ASSUME NEW i \in Ids, LiveAt(l.q, i), fleet' = "recovery",
               Goto("recovery", "stop", [l EXCEPT !.mrid = resp[l.q][i].mrid, !.pos = i,
                                                  !.todo = Executions(resp[l.q][i].mrid)])
        PROVE  LedgerInv'
    <2>1. PICK m : m = resp[l.q][i].mrid OBVIOUS
    <2>2. m \in MRIDs BY <1>2, <1>5, <2>1, RespFacts DEF LiveAt
    <2>3. PICK k : k = [l EXCEPT !.mrid = m, !.pos = i, !.todo = Executions(m)] BY SMTT(60), Z3T(60)
    <2>4. i \in 0..MaxIds /\ Executions(m) \subseteq Controls BY LedgerAssumption DEF Ids, Executions
    <2>5. k \in Locals /\ k.q = l.q /\ k.mrid = m /\ k.pos = i /\ k.todo = Executions(m) /\ k.touched = l.touched
      BY <2>2, <2>3, <2>4, ZenonT(60) DEF Locals
    <2>6. "stop" \in Steps /\ "stop" \notin RevisionSteps /\ "stop" \notin RepairSteps BY StepNames
    <2>7. Goto("recovery", "stop", k) BY <1>5, <2>1, <2>3
    <2>8. pc'["recovery"] = "stop" /\ loc'["recovery"] = k BY <1>2, <2>5, <2>6, <2>7, GotoFacts
    <2>9. Anchored("recovery")' BY <2>6, <2>8 DEF Anchored
    <2>10. LiveOn(m)' \subseteq k.todo BY <1>3, <2>5, SMTT(60), Z3T(60) DEF LiveOn, Executions
    <2>11. Revising("recovery")' BY <2>8, ZenonT(60) DEF Revising
    <2>12. Cancelling("recovery")' BY <1>1, <2>1, <2>2, <2>5, <2>8, <2>10, SMTT(60), Z3T(60) DEF Cancelling
    <2>13. Repairing' BY <2>6, <2>8, NotRepairing, SMTT(60), Z3T(60)
    <2>14. \A c \in k.todo \cup k.touched : ctl'[c].st # "none" BY <1>1, <1>l, <1>2, <2>5 DEF Known, Executions
    <2> QED BY <1>1, <1>2, <1>3, <1>5, <2>5, <2>6, <2>7, <2>9, <2>11, <2>12, <2>13, <2>14, LockedStep
  <1> QED BY <1>l, <1>4, <1>5, ZenonT(60) DEF RecoverCancel
=============================================================================
