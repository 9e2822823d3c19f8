------------------------ MODULE LedgerRevisionProofs ------------------------
(***************************************************************************)
(* The steps of a revision and of its undo keep LedgerInv.                 *)
(***************************************************************************)
EXTENDS LedgerInvariant

LEMMA ReviseReadStep ==
    ASSUME LedgerInv, NEW v \in Revisers, NEW q \in Requests, NEW w \in Windows \cup {Denial}, ReviseRead(v, q, w)
    PROVE  LedgerInv'
  <1>0. Typed /\ Sound BY SMTT(60), Z3T(60) DEF LedgerInv
  <1>1. PICK i \in Ids : /\ Stored(q, i) /\ i < MaxIds
                         /\ Goto(v, "revise", [IdleLocals EXCEPT !.q = q, !.mrid = resp[q][i].mrid, !.pos = i, !.win = w])
    BY ZenonT(60) DEF ReviseRead
  <1> DEFINE k == [IdleLocals EXCEPT !.q = q, !.mrid = resp[q][i].mrid, !.pos = i, !.win = w]
  <1>2. resp[q][i].mrid \in MRIDs BY <1>0, <1>1, RespFacts
  <1>3. i \in 0..MaxIds /\ i + 1 \in Ids BY <1>1, LedgerAssumption DEF Ids
  <1>4. k \in Locals BY <1>2, <1>3, IdleTyped, ZenonT(60) DEF Locals
  <1>5. k.q = q /\ k.mrid = resp[q][i].mrid /\ k.pos = i /\ ~k.bad /\ k.touched = {} /\ k.todo = {} BY DEF IdleLocals
  <1>6. Goto(v, "revise", k) BY <1>1
  <1> HIDE DEF k
  <1>7. v \in Threads /\ v # "recovery" /\ "revise" \in Steps /\ "revise" \notin LockedSteps BY ThreadFacts, StepNames
  <1>8. pc'[v] = "revise" /\ loc'[v] = k BY <1>0, <1>4, <1>6, <1>7, GotoFacts
  <1>9. UNCHANGED <<phase, resp, mark, ctl, minted, fleet>> /\ phase = "serving" BY DEF ReviseRead, stored
  <1>10. Anchored(v)'
    <2>1. k.mrid \in MRIDs /\ k.mrid <= minted BY <1>0, <1>2, <1>5 DEF Sound, Minted
    <2>2. NoMRID \notin MRIDs BY LedgerAssumption DEF MRIDs, NoMRID
    <2>3. \A r \in Requests, j \in Ids : resp[r][j].mrid = k.mrid => r = q /\ j = i
      BY <1>0, <1>2, <1>5, <2>2 DEF Sound, Minted
    <2> QED BY <1>3, <1>5, <1>8, <1>9, <2>1, <2>3 DEF Anchored
  <1> QED BY <1>4, <1>5, <1>6, <1>7, <1>9, <1>10, QuietStep

LEMMA ReviseLockStep == ASSUME LedgerInv, NEW v \in Revisers, ReviseLock(v) PROVE LedgerInv'
  <1>0. Typed /\ Sound BY DEF LedgerInv
  <1>1. v \in Threads /\ v # "recovery" BY ThreadFacts
  <1>2. UNCHANGED <<phase, resp, mark, ctl, minted>> /\ pc[v] = "revise" /\ fleet = Nobody BY DEF ReviseLock, stored
  <1>3. phase = "serving" BY <1>0, <1>1, <1>2, RunsWhen DEF Typed
  <1> DEFINE l == loc[v]
  <1>4. l \in Locals BY <1>0, <1>1 DEF Typed
  <1>5. CASE Done(v) /\ UNCHANGED fleet BY <1>1, <1>2, <1>3, <1>5, IdleStep
  <1>6. CASE /\ ReviseAdmitted(l) /\ minted < MaxMRIDs
             /\ fleet' = v
             /\ Goto(v, IF l.win = Denial THEN "stopExecutions" ELSE "create", [l EXCEPT !.todo = Executions(l.mrid)])
    <2> DEFINE k == [l EXCEPT !.todo = Executions(l.mrid)]
               s == IF l.win = Denial THEN "stopExecutions" ELSE "create"
    <2>1. k \in Locals /\ k.q = l.q /\ k.mrid = l.mrid /\ k.pos = l.pos /\ k.win = l.win
          /\ k.touched = l.touched /\ k.bad = l.bad /\ k.todo = Executions(l.mrid)
      BY <1>4 DEF Locals, Executions
    <2>2. s \in Steps /\ s \in {"stopExecutions", "create"} /\ s \in RevisionSteps BY StepNames
    <2>3. Goto(v, s, k) BY <1>6
    <2>4. s = "create" <=> l.win # Denial OBVIOUS
    <2> HIDE DEF k, s
    <2>5. pc'[v] = s /\ loc'[v] = k BY <1>0, <1>1, <2>1, <2>2, <2>3, GotoFacts
    <2>6. Anchored(v) /\ pc[v] \in RevisionSteps BY <1>1, <1>2, StepNames DEF LedgerInv
    <2>7. Anchored(v)' BY <1>2, <2>1, <2>2, <2>5, <2>6 DEF Anchored
    <2>8. l.q \in Requests /\ l.mrid \in MRIDs /\ ~l.bad /\ l.touched = {} BY <1>2, <1>4, <2>6 DEF Anchored, Locals
    <2>9. LiveAt(l.q, l.pos) /\ resp[l.q][l.pos].mrid = l.mrid
      BY <1>0, <1>6, <2>6, <2>8, IdOfFacts DEF ReviseAdmitted, Anchored
    <2>10. LiveOn(l.mrid) \subseteq Executions(l.mrid) BY DEF LiveOn, Executions
    <2>11. \A r \in Requests \ {l.q}, i \in Ids : LiveAt(r, i) => ~Overlap(resp[r][i].win, l.win)
      <3>1. CASE l.win = Denial BY <3>1 DEF Denial, Overlap
      <3>2. CASE l.win # Denial BY <1>6, <2>6, <3>2 DEF ReviseAdmitted, CheckGrant, Anchored
      <3> QED BY <3>1, <3>2
    <2>12. \A c \in LiveOn(NoMRID) : ~Overlap(ctl[c].win, l.win)
      <3>1. CASE l.win = Denial BY <3>1 DEF Denial, Overlap
      <3>2. CASE l.win # Denial
        <4>1. ~LiveGrant(NoMRID) BY <1>0, RespFacts DEF LiveGrant, LiveAt
        <4>2. \A c \in LiveOn(NoMRID) : c \in Plain BY <4>1 DEF LiveOn, Plain
        <4> QED BY <1>6, <3>2, <4>2 DEF ReviseAdmitted, CheckGrant
      <3> QED BY <3>1, <3>2
    <2>a. /\ \A m : LiveOn(m)' = LiveOn(m)
          /\ \A q, j : (LiveAt(q, j)' <=> LiveAt(q, j)) /\ (Stored(q, j)' <=> Stored(q, j))
      BY <1>2, SMTT(60), Z3T(60) DEF LiveOn, LiveAt, Stored
    <2>13. Revising(v)'
      BY <1>2, <1>6, <2>1, <2>2, <2>4, <2>5, <2>8, <2>9, <2>10, <2>11, <2>12, <2>a, SMTT(60), Z3T(60) DEF Revising
    <2>14. Cancelling(v)' BY <2>2, <2>5 DEF Cancelling
    <2>15. StoreTyped' /\ Sound' /\ RespGrows
      BY <1>0, <1>2, SameCtlShrinks, ShrinkData DEF Typed, StoreTyped, RespGrows
    <2>16. \A c \in k.todo \cup k.touched : ctl'[c].st # "none" BY <1>2, <2>1, <2>8 DEF Executions
    <2> QED BY <1>1, <1>2, <1>3, <1>6, <2>1, <2>2, <2>3, <2>7, <2>13, <2>14, <2>15, <2>16, LockFree, LockedStep, SMTT(60), Z3T(60)
  <1> QED BY <1>5, <1>6 DEF ReviseLock

InsideRevision(v) == pc[v] \in {"stopExecutions", "create", "relink", "mark", "undo"}

LEMMA Holding ==
    ASSUME LedgerInv, NEW v \in Revisers, InsideRevision(v)
    PROVE  /\ v \in Threads /\ v # "recovery" /\ phase = "serving" /\ fleet = v
           /\ \A r \in Threads \ {v} : pc[r] \notin LockedSteps
           /\ Typed /\ Sound /\ Anchored(v) /\ Revising(v)
           /\ loc[v] \in Locals /\ loc[v].q \in Requests /\ loc[v].mrid \in MRIDs
           /\ loc[v].pos \in Ids /\ loc[v].pos + 1 \in Ids
           /\ LiveAt(loc[v].q, loc[v].pos) /\ resp[loc[v].q][loc[v].pos].mrid = loc[v].mrid
           /\ LiveGrant(loc[v].mrid) /\ Known(v)
  <1>1. v \in Threads /\ v # "recovery" BY ThreadFacts
  <1>2. pc[v] \in LockedSteps /\ pc[v] \in RevisionSteps /\ pc[v] # "idle"
    BY DEF InsideRevision, LockedSteps, RevisionSteps
  <1>3. fleet = v /\ \A r \in Threads \ {v} : pc[r] \notin LockedSteps BY <1>1, <1>2, HolderAlone
  <1>4. Typed /\ Sound /\ Anchored(v) /\ Revising(v) BY <1>1 DEF LedgerInv
  <1>5. phase = "serving" BY <1>1, <1>2, <1>4, RunsWhen DEF Typed
  <1>6. loc[v] \in Locals BY <1>1, <1>4 DEF Typed
  <1>7. loc[v].q \in Requests BY <1>6 DEF Locals
  <1>8. loc[v].mrid \in MRIDs /\ loc[v].pos \in Ids /\ loc[v].pos + 1 \in Ids BY <1>2, <1>4, SMTT(60), Z3T(60) DEF Anchored
  <1>9. LiveAt(loc[v].q, loc[v].pos) /\ resp[loc[v].q][loc[v].pos].mrid = loc[v].mrid
    BY <1>4 DEF Revising, InsideRevision
  <1>10. LiveGrant(loc[v].mrid) BY <1>7, <1>8, <1>9 DEF LiveGrant
  <1> QED BY <1>1, <1>3, <1>4, <1>5, <1>6, <1>7, <1>8, <1>9, <1>10 DEF LedgerInv

(* From one locked step of a revision to the next. *)
LEMMA ReviseGoto ==
    ASSUME LedgerInv, NEW v \in Revisers, InsideRevision(v),
           NEW s \in {"stopExecutions", "create", "relink", "mark", "undo"}, NEW k \in Locals, Goto(v, s, k),
           k.q = loc[v].q, k.mrid = loc[v].mrid, k.pos = loc[v].pos,
           UNCHANGED <<phase, fleet>>, StoreTyped', Sound', RespGrows,
           k.todo \cup k.touched \subseteq loc[v].todo \cup loc[v].touched,
           pc'[v] = s /\ loc'[v] = k => Revising(v)'
    PROVE  LedgerInv'
  <1>h. /\ v \in Threads /\ v # "recovery" /\ phase = "serving" /\ fleet = v
        /\ \A r \in Threads \ {v} : pc[r] \notin LockedSteps
        /\ Typed /\ Anchored(v) /\ Known(v)
    BY Holding
  <1>1. s \in Steps /\ s \in LockedSteps /\ s \in RevisionSteps /\ s # "revise" /\ s # "cancel"
    BY DEF Steps, LockedSteps, RevisionSteps
  <1>2. pc'[v] = s /\ loc'[v] = k BY <1>h, <1>1, GotoFacts
  <1>3. pc[v] \in RevisionSteps BY DEF InsideRevision, RevisionSteps
  <1>4. Anchored(v)'
    <2>1. minted \in Nat /\ minted' \in Nat BY <1>h DEF Typed, StoreTyped
    <2>a. /\ k.mrid \in MRIDs /\ k.mrid <= minted /\ k.pos \in Ids /\ k.pos + 1 \in Ids
          /\ \A r \in Requests, j \in Ids : resp[r][j].mrid = k.mrid => r = k.q /\ j = k.pos
      BY <1>h, <1>3 DEF Anchored
    <2>2. k.mrid \in Nat /\ k.mrid # NoMRID /\ k.mrid # minted + 1
      BY <2>1, <2>a, LedgerAssumption DEF MRIDs, NoMRID
    <2>3. \A r \in Requests, j \in Ids : resp'[r][j].mrid = k.mrid => r = k.q /\ j = k.pos
      BY <2>a, <2>2 DEF RespGrows
    <2>4. k.mrid <= minted' BY <2>1, <2>2, <2>a DEF RespGrows
    <2> QED BY <1>1, <1>2, <2>3, <2>4, <2>a, SMTT(60), Z3T(60) DEF Anchored
  <1>5. Cancelling(v)' BY <1>2 DEF Cancelling
  <1>6. fleet' \in Threads \cup {Nobody} /\ fleet' = v BY <1>h
  <1>7. v = "recovery" <=> phase = "boot" BY <1>h
  <1>8. \A c \in k.todo \cup k.touched : ctl'[c].st # "none"
    <2>1. k.todo \cup k.touched \subseteq Controls BY DEF Locals
    <2>2. \A c \in k.todo \cup k.touched : ctl[c].st # "none" BY <1>h DEF Known
    <2> QED BY <2>1, <2>2 DEF RespGrows
  <1>9. Revising(v)' BY <1>2, SMTT(60), Z3T(60)
  <1> QED BY <1>h, <1>1, <1>4, <1>5, <1>6, <1>7, <1>8, <1>9, LockedStep, SMTT(60), Z3T(60)

LEMMA GiveUpStep ==
    ASSUME LedgerInv, NEW v \in Revisers, InsideRevision(v), GiveUp(v), UNCHANGED phase, StoreTyped', Sound', RespGrows
    PROVE  LedgerInv'
  <1>1. Done(v) /\ fleet' \in Threads \cup {Nobody} BY DEF GiveUp
  <1> QED BY <1>1, Holding, IdleStep

LEMMA ReviseStopStep == ASSUME LedgerInv, NEW v \in Revisers, ReviseStopExecution(v) PROVE LedgerInv'
  <1>0. InsideRevision(v) /\ pc[v] = "stopExecutions" BY DEF ReviseStopExecution, InsideRevision
  <1>1. UNCHANGED <<phase, resp, mark, minted>> BY SMTT(60), Z3T(60) DEF ReviseStopExecution
  <1>l. PICK l \in Locals : l = loc[v] BY <1>0, Holding, SMTT(60), Z3T(60)
  <1>2. l.win = Denial /\ ~l.bad /\ l.touched = {} /\ LiveOn(l.mrid) \subseteq l.todo /\ minted < MaxMRIDs
    BY <1>0, <1>l, Holding DEF Revising
  <1>3. \A q, j : (LiveAt(q, j)' <=> LiveAt(q, j)) /\ (Stored(q, j)' <=> Stored(q, j)) BY <1>1 DEF LiveAt, Stored
  <1>a. LiveAt(l.q, l.pos) /\ resp[l.q][l.pos].mrid = l.mrid BY <1>0, <1>l, Holding, SMTT(60), Z3T(60)
  <1>4. CASE l.todo = {} /\ Goto(v, "create", l) /\ UNCHANGED <<ctl, fleet>>
    <2>1. StoreTyped' /\ Sound' /\ RespGrows /\ \A m : LiveOn(m)' = LiveOn(m)
      BY <1>0, <1>1, <1>4, Holding, SameStores, SMTT(60), Z3T(60)
    <2>2. ASSUME pc'[v] = "create", loc'[v] = l PROVE Revising(v)'
      <3>1. \A x : ~Overlap(x, l.win) BY <1>2 DEF Denial, Overlap
      <3>2. LiveOn(l.mrid)' = {} BY <1>2, <1>4, <2>1
      <3> QED BY <1>1, <1>2, <1>3, <1>a, <2>2, <3>1, <3>2, SMTT(60), Z3T(60) DEF Revising
    <2> QED BY <1>0, <1>1, <1>l, <1>4, <2>1, <2>2, ReviseGoto, SMTT(60), Z3T(60)
  <1>5. CASE \E c \in l.todo : /\ Stop(c) /\ UNCHANGED fleet
                               /\ Goto(v, "stopExecutions", [l EXCEPT !.todo = @ \ {c}])
    <2>1. PICK c \in l.todo : Stop(c) /\ UNCHANGED fleet /\ Goto(v, "stopExecutions", [l EXCEPT !.todo = @ \ {c}])
      BY <1>5
    <2>2. PICK k : k = [l EXCEPT !.todo = @ \ {c}] BY ZenonT(60)
    <2>3. k \in Locals /\ k.q = l.q /\ k.mrid = l.mrid /\ k.pos = l.pos /\ k.win = l.win
          /\ k.touched = l.touched /\ k.bad = l.bad /\ k.todo = l.todo \ {c} /\ c \in Controls
      BY <2>2 DEF Locals
    <2>4. CtlShrinks /\ ctl'[c].st # "live" BY <1>0, <2>1, <2>3, Holding, StopFacts
    <2>5. Sound' /\ \A m : LiveOn(m)' \subseteq LiveOn(m) BY <1>0, <1>1, <2>4, Holding, ShrinkData, SMTT(60), Z3T(60)
    <2>a. Typed BY <1>0, Holding
    <2>6. StoreTyped' /\ RespGrows BY <1>1, <2>4, <2>a, ShrinkWrite
    <2>7. LiveOn(l.mrid)' \subseteq k.todo
      <3>1. c \notin LiveOn(l.mrid)' BY <2>4, SMTT(60), Z3T(60) DEF LiveOn
      <3> QED BY <1>2, <2>3, <2>5, <3>1
    <2>8. ASSUME pc'[v] = "stopExecutions", loc'[v] = k PROVE Revising(v)'
      BY <1>1, <1>2, <1>3, <1>a, <2>3, <2>7, <2>8, SMTT(60), Z3T(60) DEF Revising
    <2> QED BY <1>0, <1>1, <1>l, <2>1, <2>2, <2>3, <2>5, <2>6, <2>8, ReviseGoto, ZenonT(60)
  <1>6. CASE GiveUp(v) /\ UNCHANGED ctl
    <2>1. StoreTyped' /\ Sound' /\ RespGrows BY <1>0, <1>1, <1>6, Holding, SameStores, SMTT(60), Z3T(60)
    <2> QED BY <1>0, <1>1, <1>6, <2>1, GiveUpStep, SMTT(60), Z3T(60)
  <1> QED BY <1>l, <1>4, <1>5, <1>6 DEF ReviseStopExecution

LEMMA ReviseCreateStep == ASSUME LedgerInv, NEW v \in Revisers, ReviseCreate(v) PROVE LedgerInv'
  <1>0. InsideRevision(v) /\ pc[v] = "create" BY DEF ReviseCreate, InsideRevision
  <1>1. UNCHANGED <<phase, mark, ctl>> BY DEF ReviseCreate
  <1>l. PICK l \in Locals : l = loc[v] BY <1>0, Holding
  <1>2. CASE GiveUp(v) /\ UNCHANGED <<minted, resp>>
    <2>1. StoreTyped' /\ Sound' /\ RespGrows BY <1>0, <1>1, <1>2, Holding, SameStores, SMTT(60), Z3T(60)
    <2> QED BY <1>0, <1>1, <1>2, <2>1, GiveUpStep, SMTT(60), Z3T(60)
  <1>3. CASE /\ ~Stored(l.q, l.pos + 1)
             /\ minted' = minted + 1
             /\ resp' = [resp EXCEPT ![l.q][l.pos + 1] = [mrid |-> minted + 1, win |-> l.win]]
             /\ Goto(v, IF l.win = Denial THEN "mark" ELSE "relink", l)
             /\ UNCHANGED fleet
    <2>1. PICK q \in Requests : q = l.q BY DEF Locals
    <2>2. PICK i \in Ids : i = l.pos + 1 BY <1>0, <1>l, Holding
    <2>3. PICK w \in Windows \cup {Denial} : w = l.win BY DEF Locals
    <2>4. PICK s : s = IF l.win = Denial THEN "mark" ELSE "relink" BY SMTT(60), Z3T(60)
    <2>p. l.pos \in Ids /\ i = l.pos + 1 /\ i \in Nat /\ l.pos \in Nat BY <1>0, <1>l, <2>2, Holding, SMTT(60), Z3T(60) DEF Ids
    <2>5. Typed /\ Sound /\ LiveAt(q, l.pos) /\ resp[q][l.pos].mrid = l.mrid /\ l.mrid \in MRIDs /\ minted < MaxMRIDs
      BY <1>0, <1>l, <2>1, Holding, ZenonT(60) DEF Revising
    <2>6. /\ ~l.bad /\ l.touched = {}
          /\ l.win = Denial => LiveOn(l.mrid) = {}
          /\ l.win # Denial => LiveOn(l.mrid) \subseteq l.todo
          /\ \A r \in Requests \ {q}, j \in Ids : LiveAt(r, j) => ~Overlap(resp[r][j].win, w)
          /\ \A c \in LiveOn(NoMRID) : ~Overlap(ctl[c].win, w)
      BY <1>0, <1>l, <2>1, <2>3, Holding, ZenonT(60) DEF Revising
    <2>7. \A j \in Ids : j < i => Stored(q, j) /\ resp[q][j].win # Denial
      <3>1. Stored(q, l.pos) /\ resp[q][l.pos].win # Denial BY <2>5 DEF LiveAt
      <3>2. \A j \in Ids : j < l.pos => Stored(q, j) /\ resp[q][j].win # Denial
        BY <2>5, <2>p, <3>1 DEF Sound, Chained
      <3>3. \A j \in Ids : j < i => j < l.pos \/ j = l.pos BY <2>p, SMTT(60), Z3T(60) DEF Ids
      <3> QED BY <3>1, <3>2, <3>3
    <2>8. Creates(q, i, w) BY <1>1, <1>3, <2>1, <2>2, <2>3, <2>5, <2>6, <2>7, SMTT(60), Z3T(60) DEF Creates
    <2>9. /\ Sound' /\ resp' \in [Requests -> [Ids -> Responses \cup {NoResponse}]]
          /\ minted' \in 0..MaxMRIDs
          /\ resp'[q][i] = [mrid |-> minted + 1, win |-> w]
          /\ \A c \in Controls : ctl'[c].grant # minted + 1
          /\ \A m : LiveOn(m)' = LiveOn(m)
          /\ \A r \in Requests, j \in Ids : (r # q \/ j # i) => resp'[r][j] = resp[r][j]
          /\ i \notin mark[q]
      BY <2>5, <2>8, CreateData, SMTT(60), Z3T(60)
    <2>a. resp'[q][i].mrid = minted + 1 /\ resp'[q][i].win = w BY <2>9
    <2>b. StoreTyped' BY <1>1, <2>5, <2>9, SMTT(60), Z3T(60) DEF Typed, StoreTyped
    <2>c. minted \in Nat BY <2>5, SMTT(60), Z3T(60) DEF Typed, StoreTyped
    <2>d. RespGrows BY <1>1, <1>3, <2>9, <2>a, <2>c, SMTT(60), Z3T(60) DEF RespGrows
    <2>e. Stored(q, i)' /\ resp'[q][l.pos] = resp[q][l.pos] /\ LiveAt(q, l.pos)'
      <3>1. minted + 1 # NoMRID BY <2>c, SMTT(60), Z3T(60) DEF NoMRID
      <3>2. Stored(q, i)' BY <2>a, <3>1, SMTT(60), Z3T(60) DEF Stored, NoResponse
      <3>3. resp'[q][l.pos] = resp[q][l.pos] BY <2>9, <2>p
      <3> QED BY <1>1, <2>5, <3>2, <3>3 DEF LiveAt, Stored
    <2>f. \A j \in Ids : j > i => ~Stored(q, j)'
      <3> SUFFICES ASSUME NEW j \in Ids, j > i, Stored(q, j)' PROVE FALSE OBVIOUS
      <3>1. i # j BY <2>p DEF Ids
      <3>2. Stored(q, j) BY <2>9, <3>1 DEF Stored
      <3>3. i < j BY <2>p, SMTT(60), Z3T(60) DEF Ids
      <3>4. Stored(q, i) BY <2>5, <3>2, <3>3, SMTT(60), Z3T(60) DEF Sound, Chained
      <3> QED BY <3>4, <1>3, <2>1, <2>2
    <2>g. LiveOn(resp[q][i].mrid)' = {}
      <3>1. \A c \in Controls : ctl'[c].grant # resp'[q][i].mrid BY <2>9, <2>a
      <3> QED BY <3>1 DEF LiveOn
    <2>h. ASSUME pc'[v] = s, loc'[v] = l PROVE Revising(v)'
      <3>0. LiveOn(l.mrid)' = LiveOn(l.mrid) BY <2>9, SMTT(60), Z3T(60)
      <3>1. CASE s = "mark" /\ l.win = Denial
        BY <1>1, <3>0, <2>1, <2>2, <2>3, <2>5, <2>6, <2>9, <2>a, <2>e, <2>f, <2>g, <2>h, <3>1, ZenonT(60) DEF Revising
      <3>2. CASE s = "relink" /\ l.win # Denial
        BY <1>1, <3>0, <2>1, <2>2, <2>3, <2>5, <2>6, <2>9, <2>a, <2>e, <2>f, <2>g, <2>h, <3>2, ZenonT(60) DEF Revising
      <3> QED BY <3>1, <3>2, <2>4, SMTT(60), Z3T(60)
    <2>i. s \in {"stopExecutions", "create", "relink", "mark", "undo"} /\ Goto(v, s, l) BY <1>3, <2>4, SMTT(60), Z3T(60)
    <2> QED BY <1>0, <1>1, <1>3, <1>l, <2>9, <2>b, <2>d, <2>h, <2>i, ReviseGoto, SMTT(60), Z3T(60)
  <1> QED BY <1>l, <1>2, <1>3 DEF ReviseCreate

LEMMA ReviseRelinkStep == ASSUME LedgerInv, NEW v \in Revisers, ReviseRelink(v) PROVE LedgerInv'
  <1>0. InsideRevision(v) /\ pc[v] = "relink" BY ZenonT(60) DEF ReviseRelink, InsideRevision
  <1>1. UNCHANGED <<phase, resp, mark, minted, fleet>> BY ZenonT(60) DEF ReviseRelink
  <1>l. PICK l \in Locals : l = loc[v] BY <1>0, Holding, SMTT(60), Z3T(60)
  <1>2. PICK i \in Ids : i = l.pos + 1 BY <1>0, <1>l, Holding, SMTT(60), Z3T(60)
  <1>3. PICK m : m = resp[l.q][i].mrid BY SMTT(60), Z3T(60)
  <1>4. /\ Stored(l.q, i) /\ i \notin mark[l.q] /\ resp[l.q][i].win = l.win
        /\ \A j \in Ids : j > i => ~Stored(l.q, j)
        /\ l.win # Denial /\ ~l.bad /\ LiveOn(l.mrid) \subseteq l.todo /\ LiveOn(m) \subseteq l.touched
    BY <1>0, <1>l, <1>2, <1>3, Holding, ZenonT(60) DEF Revising
  <1>5. \A q, j : (LiveAt(q, j)' <=> LiveAt(q, j)) /\ (Stored(q, j)' <=> Stored(q, j)) BY <1>1, SMTT(60), Z3T(60) DEF LiveAt, Stored
  <1>6. Typed /\ Sound /\ LiveAt(l.q, l.pos) /\ resp[l.q][l.pos].mrid = l.mrid /\ l.q \in Requests /\ l.pos \in Ids
    BY <1>0, <1>l, Holding, SMTT(60), Z3T(60)
  <1>7. m \in MRIDs /\ m # l.mrid
    <2>1. m \in MRIDs BY <1>3, <1>4, <1>6, RespFacts, SMTT(60), Z3T(60)
    <2>2. i # l.pos /\ NoMRID \notin MRIDs BY <1>2, <1>6, LedgerAssumption, SMTT(60), Z3T(60) DEF Ids, MRIDs, NoMRID
    <2> QED BY <1>3, <1>6, <2>1, <2>2, SMTT(60), Z3T(60) DEF Sound, Minted
  <1>8. LiveGrant(m) BY <1>3, <1>4, <1>6, SMTT(60), Z3T(60) DEF LiveGrant, LiveAt
  <1>9. CASE /\ UNCHANGED ctl
             /\ \/ l.todo = {} /\ Goto(v, "mark", l)
                \/ \E c \in l.todo : \E t \in {l.touched, l.touched \cup {c}} :
                     Goto(v, "undo", [l EXCEPT !.todo = {}, !.touched = t])
    <2>1. StoreTyped' /\ Sound' /\ RespGrows /\ \A x : LiveOn(x)' = LiveOn(x)
      BY <1>1, <1>6, <1>9, SameStores, ZenonT(60)
    <2>2. LiveOn(resp[l.q][l.pos + 1].mrid)' \subseteq l.touched
      <3>1. LiveOn(m)' \subseteq l.touched BY <1>4, <2>1, SMTT(60), Z3T(60)
      <3> QED BY <1>1, <1>2, <1>3, <3>1, SMTT(60), Z3T(60)
    <2>3. CASE l.todo = {} /\ Goto(v, "mark", l)
      <3>1. ASSUME pc'[v] = "mark", loc'[v] = l PROVE Revising(v)'
        BY <1>1, <1>2, <1>4, <1>5, <1>6, <2>1, <2>2, <2>3, <3>1, ZenonT(60) DEF Revising
      <3> QED BY <1>0, <1>1, <1>l, <2>1, <2>3, <3>1, ReviseGoto, SMTT(60), Z3T(60)
    <2>4. CASE \E c \in l.todo : \E t \in {l.touched, l.touched \cup {c}} :
                  Goto(v, "undo", [l EXCEPT !.todo = {}, !.touched = t])
      <3>c. PICK c \in l.todo : \E t \in {l.touched, l.touched \cup {c}} :
                                   Goto(v, "undo", [l EXCEPT !.todo = {}, !.touched = t])
        BY <2>4, ZenonT(60)
      <3>1. PICK t \in {l.touched, l.touched \cup {c}} : Goto(v, "undo", [l EXCEPT !.todo = {}, !.touched = t])
        BY <3>c, ZenonT(60)
      <3>2. PICK k : k = [l EXCEPT !.todo = {}, !.touched = t] OBVIOUS
      <3>3. k \in Locals /\ k.q = l.q /\ k.mrid = l.mrid /\ k.pos = l.pos /\ k.win = l.win
            /\ k.touched = t /\ k.bad = l.bad /\ k.todo = {}
        BY <3>2, ZenonT(60) DEF Locals
      <3>4. l.touched \subseteq k.touched BY <3>3
      <3>5. ASSUME pc'[v] = "undo", loc'[v] = k PROVE Revising(v)'
        BY <1>1, <1>2, <1>4, <1>5, <1>6, <2>1, <2>2, <3>3, <3>4, <3>5, ZenonT(60) DEF Revising
      <3> QED BY <1>0, <1>1, <1>l, <2>1, <3>1, <3>2, <3>3, <3>5, ReviseGoto, ZenonT(60)
    <2> QED BY <1>9, <2>3, <2>4, ZenonT(60)
  <1>10. CASE \E c \in l.todo : /\ Link(c, m)
                                /\ Goto(v, "relink", [l EXCEPT !.todo = @ \ {c}, !.touched = @ \cup {c}])
    <2>1. PICK c \in l.todo : /\ Link(c, m)
                              /\ Goto(v, "relink", [l EXCEPT !.todo = @ \ {c}, !.touched = @ \cup {c}])
      BY <1>10, ZenonT(60)
    <2>2. PICK k : k = [l EXCEPT !.todo = @ \ {c}, !.touched = @ \cup {c}] OBVIOUS
    <2>3. k \in Locals /\ k.q = l.q /\ k.mrid = l.mrid /\ k.pos = l.pos /\ k.win = l.win
          /\ k.touched = l.touched \cup {c} /\ k.bad = l.bad /\ k.todo = l.todo \ {c} /\ c \in Controls
      BY <2>2, ZenonT(60) DEF Locals
    <2>4. ctl[c].st # "none" BY <1>0, <1>l, <2>1, Holding DEF Known
    <2>5. /\ Sound' /\ ctl' \in [Controls -> ControlRecords \cup {NoControl}]
          /\ \A d \in Controls : ctl'[d].st = ctl[d].st
          /\ LiveOn(m)' \subseteq LiveOn(m) \cup {c}
          /\ \A x : x # m => LiveOn(x)' \subseteq LiveOn(x) \ {c}
      BY <1>1, <1>6, <1>7, <1>8, <2>1, <2>3, <2>4, LinkData
    <2>6. StoreTyped' /\ RespGrows BY <1>1, <1>6, <2>5, CtlWrite, ZenonT(60)
    <2>7. LiveOn(m)' \subseteq k.touched /\ LiveOn(l.mrid)' \subseteq k.todo BY <1>4, <1>7, <2>3, <2>5, SMTT(60), Z3T(60)
    <2>8. LiveOn(resp[l.q][l.pos + 1].mrid)' \subseteq k.touched BY <1>1, <1>2, <1>3, <2>7, SMTT(60), Z3T(60)
    <2>9. ASSUME pc'[v] = "relink", loc'[v] = k PROVE Revising(v)'
      BY <1>1, <1>2, <1>4, <1>5, <1>6, <2>3, <2>7, <2>8, <2>9, ZenonT(60) DEF Revising
    <2> QED BY <1>0, <1>1, <1>l, <2>1, <2>2, <2>3, <2>5, <2>6, <2>9, ReviseGoto, ZenonT(60)
  <1>11. \/ UNCHANGED ctl /\ l.todo = {} /\ Goto(v, "mark", l)
         \/ UNCHANGED ctl /\ \E c \in l.todo : \E t \in {l.touched, l.touched \cup {c}} :
                  Goto(v, "undo", [l EXCEPT !.todo = {}, !.touched = t])
         \/ \E c \in l.todo : /\ Link(c, m)
                              /\ Goto(v, "relink", [l EXCEPT !.todo = @ \ {c}, !.touched = @ \cup {c}])
    BY <1>l, <1>2, <1>3, ZenonT(60) DEF ReviseRelink
  <1> QED BY <1>9, <1>10, <1>11, ZenonT(60)

LEMMA ReviseMarkStep == ASSUME LedgerInv, NEW v \in Revisers, ReviseMark(v) PROVE LedgerInv'
  <1>0. InsideRevision(v) /\ pc[v] = "mark" BY DEF ReviseMark, InsideRevision
  <1>1. UNCHANGED <<phase, resp, ctl, minted>> BY DEF ReviseMark
  <1>l. PICK l \in Locals : l = loc[v] BY <1>0, Holding, SMTT(60), Z3T(60)
  <1>2. Typed /\ Sound /\ LiveAt(l.q, l.pos) /\ resp[l.q][l.pos].mrid = l.mrid /\ l.q \in Requests /\ l.pos \in Ids
    BY <1>0, <1>l, Holding
  <1>3. CASE MarkCancelled(l.q, {l.pos}) /\ GiveUp(v)
    <2>1. Stored(l.q, l.pos) /\ LiveOn(resp[l.q][l.pos].mrid) = {} BY <1>0, <1>l, <1>2, Holding, ZenonT(60) DEF LiveAt, Revising
    <2>2. Sound' /\ mark' \in [Requests -> SUBSET Ids] BY <1>1, <1>2, <1>3, <2>1, MarkData, ZenonT(60)
    <2>3. StoreTyped' /\ RespGrows BY <1>1, <1>2, <2>2, MarkWrite, SMTT(60), Z3T(60)
    <2> QED BY <1>0, <1>1, <1>3, <2>2, <2>3, GiveUpStep, SMTT(60), Z3T(60)
  <1>4. CASE Goto(v, "undo", l) /\ UNCHANGED <<mark, fleet>>
    <2>1. /\ StoreTyped' /\ Sound' /\ RespGrows /\ \A x : LiveOn(x)' = LiveOn(x)
          /\ \A q, j : (LiveAt(q, j)' <=> LiveAt(q, j)) /\ (Stored(q, j)' <=> Stored(q, j))
      BY <1>1, <1>2, <1>4, SameStores, ZenonT(60)
    <2>2. ASSUME pc'[v] = "undo", loc'[v] = l PROVE Revising(v)'
      BY <1>0, <1>1, <1>l, <1>2, <1>4, <2>1, <2>2, Holding, ZenonT(60) DEF Revising
    <2> QED BY <1>0, <1>1, <1>l, <1>4, <2>1, <2>2, ReviseGoto, ZenonT(60)
  <1> QED BY <1>l, <1>3, <1>4, SMTT(60), Z3T(60) DEF ReviseMark

LEMMA ReviseUndoStep == ASSUME LedgerInv, NEW v \in Revisers, ReviseUndo(v) PROVE LedgerInv'
  <1>0. InsideRevision(v) /\ pc[v] = "undo" BY ZenonT(60) DEF ReviseUndo, InsideRevision
  <1>1. UNCHANGED <<phase, mark, minted>> BY ZenonT(60) DEF ReviseUndo
  <1>l. PICK l \in Locals : l = loc[v] BY <1>0, Holding, ZenonT(60)
  <1>2. PICK i \in Ids : i = l.pos + 1 BY <1>0, <1>l, Holding, ZenonT(60)
  <1>3. PICK m : m = resp[l.q][i].mrid OBVIOUS
  <1>4. /\ Stored(l.q, i) /\ i \notin mark[l.q] /\ resp[l.q][i].win = l.win
        /\ \A j \in Ids : j > i => ~Stored(l.q, j)
        /\ l.bad \/ LiveOn(m) \subseteq l.touched
    BY <1>0, <1>l, <1>2, <1>3, Holding, ZenonT(60) DEF Revising
  <1>5. /\ Typed /\ Sound /\ LiveAt(l.q, l.pos) /\ resp[l.q][l.pos].mrid = l.mrid
        /\ l.q \in Requests /\ l.pos \in Ids /\ l.mrid \in MRIDs /\ LiveGrant(l.mrid)
    BY <1>0, <1>l, Holding, ZenonT(60)
  <1>6. m # l.mrid
    <2>1. i # l.pos /\ NoMRID \notin MRIDs BY <1>2, <1>5, LedgerAssumption, SMTT(60), Z3T(60) DEF Ids, MRIDs, NoMRID
    <2>2. resp[l.q][l.pos].mrid # NoMRID BY <1>5, <2>1
    <2>3. resp[l.q][i].mrid # resp[l.q][l.pos].mrid BY <1>5, <2>1, <2>2, MRIDsDiffer
    <2> QED BY <1>3, <1>5, <2>3
  <1>7. ASSUME UNCHANGED resp
        PROVE  \A q, j : (LiveAt(q, j)' <=> LiveAt(q, j)) /\ (Stored(q, j)' <=> Stored(q, j))
    BY <1>1, <1>7 DEF LiveAt, Stored
  <1>8. ASSUME NEW c \in l.touched, Link(c, l.mrid), Goto(v, "undo", [l EXCEPT !.touched = @ \ {c}]),
               UNCHANGED <<resp, fleet>>
        PROVE  LedgerInv'
    <2>2. PICK k : k = [l EXCEPT !.touched = @ \ {c}] BY ZenonT(60)
    <2>3. k \in Locals /\ k.q = l.q /\ k.mrid = l.mrid /\ k.pos = l.pos /\ k.win = l.win
          /\ k.touched = l.touched \ {c} /\ k.bad = l.bad /\ k.todo = l.todo /\ c \in Controls
      BY <2>2 DEF Locals
    <2>4. ctl[c].st # "none" BY <1>0, <1>l, Holding DEF Known
    <2>5. /\ Sound' /\ ctl' \in [Controls -> ControlRecords \cup {NoControl}]
          /\ \A d \in Controls : ctl'[d].st = ctl[d].st
          /\ \A x : x # l.mrid => LiveOn(x)' \subseteq LiveOn(x) \ {c}
      BY <1>1, <1>5, <1>8, <2>3, <2>4, LinkData
    <2>6. StoreTyped' /\ RespGrows BY <1>1, <1>5, <1>8, <2>5, CtlWrite, SMTT(60), Z3T(60)
    <2>7. k.bad \/ LiveOn(m)' \subseteq k.touched BY <1>4, <1>6, <2>3, <2>5
    <2>8. k.bad \/ LiveOn(resp[l.q][l.pos + 1].mrid)' \subseteq k.touched BY <1>2, <1>3, <1>8, <2>7, SMTT(60), Z3T(60)
    <2>9. ASSUME pc'[v] = "undo", loc'[v] = k PROVE Revising(v)'
      BY <1>1, <1>2, <1>4, <1>5, <1>7, <1>8, <2>3, <2>8, <2>9, SMTT(60), Z3T(60) DEF Revising
    <2> QED BY <1>0, <1>1, <1>l, <1>8, <2>2, <2>3, <2>5, <2>6, <2>9, ReviseGoto, ZenonT(60)
  <1>9. ASSUME NEW c \in l.touched, UNCHANGED ctl, Goto(v, "undo", [l EXCEPT !.touched = @ \ {c}, !.bad = TRUE]),
               UNCHANGED <<resp, fleet>>
        PROVE  LedgerInv'
    <2>2. PICK k : k = [l EXCEPT !.touched = @ \ {c}, !.bad = TRUE] OBVIOUS
    <2>3. k \in Locals /\ k.q = l.q /\ k.mrid = l.mrid /\ k.pos = l.pos /\ k.win = l.win
          /\ k.touched = l.touched \ {c} /\ k.bad /\ k.todo = l.todo /\ c \in Controls
      BY <2>2, ZenonT(60) DEF Locals
    <2>4. StoreTyped' /\ Sound' /\ RespGrows BY <1>1, <1>5, <1>9, SameStores
    <2>5. ASSUME pc'[v] = "undo", loc'[v] = k PROVE Revising(v)'
      BY <1>1, <1>2, <1>4, <1>5, <1>7, <1>9, <2>3, <2>5, SMTT(60), Z3T(60) DEF Revising
    <2> QED BY <1>0, <1>1, <1>l, <1>9, <2>2, <2>3, <2>4, <2>5, ReviseGoto, ZenonT(60)
  <1>10. CASE /\ l.touched = {} /\ ~l.bad /\ GiveUp(v) /\ UNCHANGED ctl
              /\ resp' = [resp EXCEPT ![l.q][l.pos + 1] = NoResponse]
    <2>1. resp' = [resp EXCEPT ![l.q][i] = NoResponse] BY <1>2, <1>10
    <2>2. LiveOn(resp[l.q][i].mrid) = {} BY <1>3, <1>4, <1>10, SMTT(60), Z3T(60)
    <2>3. /\ Sound' /\ resp' \in [Requests -> [Ids -> Responses \cup {NoResponse}]]
          /\ \A r \in Requests, j \in Ids : resp'[r][j] = NoResponse \/ resp'[r][j] = resp[r][j]
      BY <1>1, <1>4, <1>5, <1>10, <2>1, <2>2, DeleteData, ZenonT(60)
    <2>4. StoreTyped' /\ RespGrows BY <1>1, <1>5, <1>10, <2>3, DeleteWrite
    <2> QED BY <1>0, <1>1, <1>10, <2>3, <2>4, GiveUpStep
  <1>11. CASE GiveUp(v) /\ UNCHANGED <<ctl, resp>>
    <2>1. StoreTyped' /\ Sound' /\ RespGrows BY <1>1, <1>5, <1>11, SameStores
    <2> QED BY <1>0, <1>1, <1>11, <2>1, GiveUpStep, SMTT(60), Z3T(60)
  <1> QED BY <1>l, <1>8, <1>9, <1>10, <1>11, ZenonT(60) DEF ReviseUndo
=============================================================================
