-------------------------- MODULE LedgerInvariant ---------------------------
(***************************************************************************)
(* The inductive invariant LedgerInv of CommitmentLedger, what each kind   *)
(* of write does to the stores, and the one-step actions.  Its core says   *)
(* what each thread may rely on while it holds the fleet lock, or while it *)
(* is the only one running: which live executions can still name the       *)
(* response it is about to mark or delete.                                 *)
(***************************************************************************)
EXTENDS CommitmentLedger, TLAPS

RevisionSteps == {"revise", "stopExecutions", "create", "relink", "mark", "undo"}
LockedSteps == {"stopExecutions", "create", "relink", "mark", "undo", "stop", "markGrant"}
RepairSteps == {"repairStop", "repairForward", "repairMark", "repairBack"}
Steps == RevisionSteps \cup LockedSteps \cup RepairSteps
         \cup {"idle", "walk", "cancel", "rewalk", "next", "settle"}

Locals == [q : Requests, mrid : MRIDs \cup {NoMRID}, pos : 0..MaxIds, win : Windows \cup {Denial},
           todo : SUBSET Controls, touched : SUBSET Controls, walk : Seq(Responses),
           n : Nat, pass : Nat, bad : BOOLEAN]

StoreTyped ==
    /\ resp \in [Requests -> [Ids -> Responses \cup {NoResponse}]]
    /\ mark \in [Requests -> SUBSET Ids]
    /\ ctl \in [Controls -> ControlRecords \cup {NoControl}]
    /\ minted \in 0..MaxMRIDs

Typed ==
    /\ StoreTyped
    /\ phase \in {"boot", "serving"}
    /\ fleet \in Threads \cup {Nobody}
    /\ pc \in [Threads -> Steps]
    /\ loc \in [Threads -> Locals]

LiveOn(m) == {c \in Controls : ctl[c].st = "live" /\ ctl[c].grant = m}

(* An mRID is minted once. *)
Minted ==
    /\ \A q \in Requests, i \in Ids : resp[q][i].mrid <= minted
    /\ \A c \in Controls : ctl[c].grant <= minted
    /\ \A q, r \in Requests, i, j \in Ids :
         (resp[q][i].mrid = resp[r][j].mrid /\ resp[q][i].mrid # NoMRID) => q = r /\ i = j

(* A chain has no gap, a denial ends it, and a mark belongs to a response. *)
Chained ==
    \A q \in Requests, i \in Ids :
        /\ i \in mark[q] => Stored(q, i)
        /\ Stored(q, i) => \A j \in Ids : j < i => Stored(q, j) /\ resp[q][j].win # Denial

(* Who may run: recovery alone at boot, and one thread inside the lock. *)
Excluded ==
    /\ phase = "boot" => \A p \in Threads \ {"recovery"} : pc[p] = "idle"
    /\ phase = "serving" => pc["recovery"] = "idle"
    /\ \A p \in Threads : pc[p] \in LockedSteps => fleet = p
    /\ pc["recovery"] \notin RevisionSteps

(* The response a revision read sits at its id or nowhere; a cancel counts  *)
(* the members of its walk from one.                                        *)
Anchored(v) ==
    /\ pc[v] \in RevisionSteps =>
        /\ v \in Revisers
        /\ pc[v] = "revise" => ~loc[v].bad /\ loc[v].touched = {}
        /\ loc[v].mrid \in MRIDs /\ loc[v].mrid <= minted
        /\ loc[v].pos \in Ids /\ loc[v].pos + 1 \in Ids
        /\ \A r \in Requests, j \in Ids : resp[r][j].mrid = loc[v].mrid => r = loc[v].q /\ j = loc[v].pos
    /\ (pc[v] = "cancel" /\ v = "canceller") => loc[v].n # 0

(* Inside the lock the old grant is live and the new response where it was  *)
(* put; which executions may name either is known at every step.            *)
Revising(v) ==
    LET l == loc[v]
        new == resp[l.q][l.pos + 1]
    IN
    /\ pc[v] \in {"stopExecutions", "create"} => minted < MaxMRIDs
    /\ pc[v] \in {"stopExecutions", "create", "relink", "mark", "undo"} =>
         resp[l.q][l.pos].mrid = l.mrid /\ LiveAt(l.q, l.pos)
    /\ pc[v] = "stopExecutions" => l.win = Denial /\ ~l.bad /\ l.touched = {} /\ LiveOn(l.mrid) \subseteq l.todo
    /\ pc[v] = "create" => /\ ~l.bad /\ l.touched = {}
                           /\ l.win = Denial => LiveOn(l.mrid) = {}
                           /\ l.win # Denial => LiveOn(l.mrid) \subseteq l.todo
                           /\ \A r \in Requests \ {l.q}, i \in Ids : LiveAt(r, i) => ~Overlap(resp[r][i].win, l.win)
                           /\ \A c \in LiveOn(NoMRID) : ~Overlap(ctl[c].win, l.win)
    /\ pc[v] \in {"relink", "mark", "undo"} =>
         /\ Stored(l.q, l.pos + 1) /\ l.pos + 1 \notin mark[l.q] /\ new.win = l.win
         /\ \A j \in Ids : j > l.pos + 1 => ~Stored(l.q, j)
    /\ pc[v] = "relink" => l.win # Denial /\ ~l.bad /\ LiveOn(l.mrid) \subseteq l.todo /\ LiveOn(new.mrid) \subseteq l.touched
    /\ pc[v] = "mark" => ~l.bad /\ LiveOn(l.mrid) = {} /\ LiveOn(new.mrid) \subseteq l.touched
    /\ pc[v] = "undo" => l.bad \/ LiveOn(new.mrid) \subseteq l.touched

(* A cancel inside the lock. *)
Cancelling(p) ==
    LET l == loc[p] IN
    /\ pc[p] \in {"stop", "markGrant"} =>
         p \in {"canceller", "recovery"} /\ l.pos \in Ids /\ resp[l.q][l.pos].mrid = l.mrid /\ l.mrid \in MRIDs
    /\ pc[p] = "stop" => LiveOn(l.mrid) \subseteq l.todo
    /\ pc[p] = "markGrant" => LiveOn(l.mrid) = {}

(* A repair, with nothing else running. *)
Repairing ==
    LET l == loc["recovery"]
        tip == resp[l.q][l.pos]
    IN
    /\ pc["recovery"] \in RepairSteps =>
         Stored(l.q, l.pos) /\ l.pos \notin mark[l.q] /\ \A j \in Ids : j > l.pos => ~Stored(l.q, j)
    /\ pc["recovery"] \in {"repairStop", "repairForward"} => \A i \in Olds(l) : LiveOn(resp[l.q][i].mrid) \subseteq l.todo
    /\ pc["recovery"] = "repairForward" => tip.win # Denial
    /\ pc["recovery"] = "repairMark" => \A i \in Olds(l) : LiveOn(resp[l.q][i].mrid) = {}
    /\ pc["recovery"] = "repairBack" => Olds(l) # {} /\ LiveOn(tip.mrid) \subseteq l.todo

(* What a thread set out to stop or move was an execution. *)
Known(v) == \A c \in loc[v].todo \cup loc[v].touched : ctl[c].st # "none"

Sound == Minted /\ Chained /\ NeverDoubleBooked /\ ExecutionsHaveLiveGrant

LedgerInv ==
    /\ Typed /\ Sound /\ Excluded
    /\ \A v \in Threads : Anchored(v) /\ Revising(v) /\ Cancelling(v) /\ Known(v)
    /\ Repairing
----------------------------------------------------------------------------
(* What the types give. *)
LEMMA ThreadFacts ==
    /\ "recovery" \in Threads /\ "canceller" \in Threads /\ Nobody \notin Threads
    /\ "recovery" \notin Revisers /\ "canceller" \notin Revisers
    /\ \A v \in Revisers : v \in Threads
  BY LedgerAssumption DEF Threads, Nobody

LEMMA IdleTyped == IdleLocals \in Locals
  <1>1. (CHOOSE q \in Requests : TRUE) \in Requests BY LedgerAssumption
  <1>2. 0 \in 0..MaxIds /\ <<>> \in Seq(Responses) BY LedgerAssumption
  <1> QED BY <1>1, <1>2 DEF IdleLocals, Locals, NoMRID, Denial

(* A stored response is one with an mRID. *)
LEMMA RespFacts ==
    ASSUME Typed, NEW q \in Requests, NEW i \in Ids
    PROVE  /\ resp[q][i].mrid \in Nat /\ resp[q][i].mrid \in MRIDs \cup {NoMRID}
           /\ resp[q][i].win \in Windows \cup {Denial}
           /\ Stored(q, i) <=> resp[q][i].mrid # NoMRID
           /\ Stored(q, i) <=> resp[q][i].mrid \in MRIDs
           /\ Stored(q, i) <=> resp[q][i] \in Responses
  <1>1. resp[q][i] \in Responses \cup {NoResponse} BY DEF Typed, StoreTyped
  <1>2. CASE resp[q][i] \in Responses
    <2>1. resp[q][i].mrid \in MRIDs /\ resp[q][i].win \in Windows \cup {Denial} BY <1>2 DEF Responses
    <2>2. resp[q][i].mrid \in Nat /\ resp[q][i].mrid # NoMRID BY <2>1, LedgerAssumption DEF MRIDs, NoMRID
    <2> QED BY <1>2, <2>1, <2>2 DEF Stored, NoResponse
  <1>3. CASE resp[q][i] = NoResponse
    <2>1. resp[q][i].mrid = NoMRID /\ resp[q][i].win = Denial BY <1>3 DEF NoResponse
    <2>2. NoMRID \notin MRIDs BY LedgerAssumption DEF MRIDs, NoMRID
    <2>3. resp[q][i] \notin Responses BY <2>1, <2>2 DEF Responses
    <2> QED BY <1>3, <2>1, <2>2, <2>3 DEF Stored, NoMRID
  <1> QED BY <1>1, <1>2, <1>3

LEMMA CtlFacts ==
    ASSUME Typed, NEW c \in Controls
    PROVE  /\ ctl[c].st \in {"none", "live", "ended", "cancelled"}
           /\ ctl[c].grant \in Nat /\ ctl[c].grant \in MRIDs \cup {NoMRID}
           /\ ctl[c].st # "none" => ctl[c] \in ControlRecords
  <1>1. ctl[c] \in ControlRecords \cup {NoControl} BY DEF Typed, StoreTyped
  <1>2. \A m \in MRIDs \cup {NoMRID} : m \in Nat BY LedgerAssumption DEF MRIDs, NoMRID
  <1>3. CASE ctl[c] \in ControlRecords BY <1>2, <1>3 DEF ControlRecords
  <1>4. CASE ctl[c] = NoControl BY <1>2, <1>4 DEF NoControl
  <1> QED BY <1>1, <1>3, <1>4

(* A thread's move. *)
LEMMA GotoFacts ==
    ASSUME Typed, NEW p \in Threads, NEW s \in Steps, NEW l \in Locals, Goto(p, s, l)
    PROVE  /\ pc' \in [Threads -> Steps] /\ loc' \in [Threads -> Locals]
           /\ pc'[p] = s /\ loc'[p] = l
           /\ \A r \in Threads \ {p} : pc'[r] = pc[r] /\ loc'[r] = loc[r]
  BY DEF Typed, StoreTyped, Goto

(* A write to one control keeps its type; moving or stopping it keeps its window. *)
LEMMA LinkFacts ==
    ASSUME Typed, NEW c \in Controls, NEW m \in MRIDs, ctl[c].st # "none", Link(c, m)
    PROVE  /\ ctl' \in [Controls -> ControlRecords \cup {NoControl}]
           /\ ctl'[c].grant = m /\ ctl'[c].st = ctl[c].st /\ ctl'[c].win = ctl[c].win
           /\ \A d \in Controls \ {c} : ctl'[d] = ctl[d]
  <1>1. ctl \in [Controls -> ControlRecords \cup {NoControl}] BY DEF Typed, StoreTyped
  <1>2. ctl[c] \in ControlRecords BY CtlFacts
  <1>3. [ctl[c] EXCEPT !.grant = m] \in ControlRecords BY <1>2 DEF ControlRecords
  <1>4. ctl' = [ctl EXCEPT ![c] = [ctl[c] EXCEPT !.grant = m]] BY DEF Link
  <1>5. ctl'[c] = [ctl[c] EXCEPT !.grant = m] BY <1>1, <1>4
  <1>6. ctl'[c].grant = m /\ ctl'[c].st = ctl[c].st /\ ctl'[c].win = ctl[c].win
    BY <1>2, <1>5 DEF ControlRecords
  <1> QED BY <1>1, <1>3, <1>4, <1>6
----------------------------------------------------------------------------
(* What each kind of write does to the stores. *)
(* Controls only stop or end. *)
CtlShrinks ==
    /\ ctl' \in [Controls -> ControlRecords \cup {NoControl}]
    /\ \A d \in Controls : /\ ctl'[d].grant = ctl[d].grant /\ ctl'[d].win = ctl[d].win
                           /\ ctl'[d].st = "live" => ctl[d].st = "live"
                           /\ ctl[d].st # "none" => ctl'[d].st # "none"

LEMMA EndFacts ==
    ASSUME Typed, NEW c \in Controls, ctl[c].st # "none", NEW s \in {"ended", "cancelled"},
           ctl' = [ctl EXCEPT ![c].st = s]
    PROVE  CtlShrinks /\ ctl'[c].st # "live"
  <1>1. ctl \in [Controls -> ControlRecords \cup {NoControl}] BY DEF Typed, StoreTyped
  <1>2. ctl[c] \in ControlRecords BY CtlFacts
  <1>3. [ctl[c] EXCEPT !.st = s] \in ControlRecords BY <1>2 DEF ControlRecords
  <1>4. ctl' = [ctl EXCEPT ![c] = [ctl[c] EXCEPT !.st = s]] OBVIOUS
  <1>5. ctl'[c] = [ctl[c] EXCEPT !.st = s] BY <1>1, <1>4
  <1>6. ctl'[c].grant = ctl[c].grant /\ ctl'[c].st = s /\ ctl'[c].win = ctl[c].win
    BY <1>2, <1>5 DEF ControlRecords
  <1>7. \A d \in Controls \ {c} : ctl'[d] = ctl[d] BY <1>1, <1>4
  <1>8. ctl' \in [Controls -> ControlRecords \cup {NoControl}] BY <1>1, <1>3, <1>4
  <1> QED BY <1>6, <1>7, <1>8 DEF CtlShrinks

LEMMA StopFacts ==
    ASSUME Typed, NEW c \in Controls, Stop(c)
    PROVE  CtlShrinks /\ ctl'[c].st # "live"
  <1>1. CASE ctl[c].st = "live" BY <1>1, EndFacts, ZenonT(60) DEF Stop
  <1>2. CASE ctl[c].st # "live" BY <1>2 DEF Stop, CtlShrinks, Typed, StoreTyped
  <1> QED BY <1>1, <1>2

LEMMA SameCtlShrinks == ASSUME Typed, UNCHANGED ctl PROVE CtlShrinks
  BY DEF Typed, StoreTyped, CtlShrinks

LEMMA ShrinkData ==
    ASSUME Typed, Sound, CtlShrinks, UNCHANGED <<resp, mark, minted>>
    PROVE  Sound' /\ \A m : LiveOn(m)' \subseteq LiveOn(m)
  <1>1. Minted' BY DEF Sound, Minted, CtlShrinks
  <1>2. Chained' BY DEF Sound, Chained, Stored
  <1>3. NeverDoubleBooked' BY DEF Sound, NeverDoubleBooked, CtlShrinks, CheckPlain, LiveAt, Stored
  <1>4. ExecutionsHaveLiveGrant' BY DEF Sound, ExecutionsHaveLiveGrant, CtlShrinks, LiveGrant, LiveAt, Stored
  <1>5. \A m : LiveOn(m)' \subseteq LiveOn(m) BY DEF LiveOn, CtlShrinks
  <1> QED BY <1>1, <1>2, <1>3, <1>4, <1>5 DEF Sound

LEMMA LinkData ==
    ASSUME Typed, Sound, NEW c \in Controls, NEW m \in MRIDs, ctl[c].st # "none", LiveGrant(m),
           Link(c, m), UNCHANGED <<resp, mark, minted>>
    PROVE  /\ Sound' /\ ctl' \in [Controls -> ControlRecords \cup {NoControl}]
           /\ \A d \in Controls : ctl'[d].st = ctl[d].st
           /\ LiveOn(m)' \subseteq LiveOn(m) \cup {c}
           /\ \A k : k # m => LiveOn(k)' \subseteq LiveOn(k) \ {c}
  <1> USE LinkFacts
  <1>0. m <= minted /\ m # NoMRID BY LedgerAssumption DEF LiveGrant, Sound, Minted, MRIDs, NoMRID
  <1>1. Minted' BY <1>0 DEF Sound, Minted
  <1>2. Chained' BY DEF Sound, Chained, Stored
  <1>3. NeverDoubleBooked'
    <2>1. \A d \in Controls : (ctl'[d].st = "live" /\ ctl'[d].grant = NoMRID) => ctl[d].st = "live" /\ ctl[d].grant = NoMRID /\ ctl'[d].win = ctl[d].win
      BY <1>0
    <2> QED BY <2>1 DEF Sound, NeverDoubleBooked, CheckPlain, LiveAt, Stored
  <1>4. ExecutionsHaveLiveGrant'
    <2>1. \A k : LiveGrant(k) => LiveGrant(k)' BY DEF LiveGrant, LiveAt, Stored
    <2> QED BY <2>1 DEF Sound, ExecutionsHaveLiveGrant
  <1>5. LiveOn(m)' \subseteq LiveOn(m) \cup {c} BY DEF LiveOn
  <1>6. \A k : k # m => LiveOn(k)' \subseteq LiveOn(k) \ {c} BY DEF LiveOn
  <1> QED BY <1>1, <1>2, <1>3, <1>4, <1>5, <1>6 DEF Sound

LEMMA MarkData ==
    ASSUME Typed, Sound, NEW q \in Requests, NEW i \in Ids, Stored(q, i), LiveOn(resp[q][i].mrid) = {},
           MarkCancelled(q, {i}), UNCHANGED <<resp, ctl, minted>>
    PROVE  /\ Sound' /\ mark' \in [Requests -> SUBSET Ids] /\ \A m : LiveOn(m)' = LiveOn(m)
           /\ mark'[q] = mark[q] \cup {i} /\ \A r \in Requests \ {q} : mark'[r] = mark[r]
  <1>0. /\ mark' \in [Requests -> SUBSET Ids]
        /\ mark'[q] = mark[q] \cup {i} /\ \A r \in Requests \ {q} : mark'[r] = mark[r]
    BY DEF MarkCancelled, Typed, StoreTyped
  <1>1. Minted' BY DEF Sound, Minted
  <1>2. Chained' BY <1>0 DEF Sound, Chained, Stored
  <1>3. \A r \in Requests, j \in Ids : LiveAt(r, j)' => LiveAt(r, j) BY <1>0 DEF LiveAt, Stored
  <1>4. NeverDoubleBooked' BY <1>3 DEF Sound, NeverDoubleBooked, CheckPlain
  <1>5. ExecutionsHaveLiveGrant'
    <2> SUFFICES ASSUME NEW c \in Controls, ctl[c].st = "live", ctl[c].grant # NoMRID
                 PROVE  LiveGrant(ctl[c].grant)'
      BY DEF ExecutionsHaveLiveGrant
    <2>1. PICK r \in Requests, j \in Ids : LiveAt(r, j) /\ resp[r][j].mrid = ctl[c].grant
      BY DEF Sound, ExecutionsHaveLiveGrant, LiveGrant
    <2>2. r # q \/ j # i BY <2>1 DEF LiveOn
    <2>3. LiveAt(r, j)' BY <1>0, <2>1, <2>2 DEF LiveAt, Stored
    <2> QED BY <2>1, <2>3 DEF LiveGrant
  <1>6. \A m : LiveOn(m)' = LiveOn(m) BY DEF LiveOn
  <1> QED BY <1>0, <1>1, <1>2, <1>4, <1>5, <1>6 DEF Sound

(* A write of one response. *)
LEMMA RespWrite ==
    ASSUME Typed, NEW q \in Requests, NEW i \in Ids, NEW x \in Responses \cup {NoResponse},
           resp' = [resp EXCEPT ![q][i] = x]
    PROVE  /\ resp' \in [Requests -> [Ids -> Responses \cup {NoResponse}]]
           /\ resp'[q][i] = x
           /\ \A r \in Requests, j \in Ids : (r # q \/ j # i) => resp'[r][j] = resp[r][j]
  BY DEF Typed, StoreTyped

Creates(q, i, w) ==
    /\ ~Stored(q, i) /\ \A j \in Ids : j < i => Stored(q, j) /\ resp[q][j].win # Denial
    /\ minted < MaxMRIDs /\ minted' = minted + 1
    /\ \A r \in Requests \ {q}, j \in Ids : LiveAt(r, j) => ~Overlap(resp[r][j].win, w)
    /\ \A c \in LiveOn(NoMRID) : ~Overlap(ctl[c].win, w)
    /\ resp' = [resp EXCEPT ![q][i] = [mrid |-> minted + 1, win |-> w]]
    /\ mark' = mark /\ ctl' = ctl

LEMMA CreateData ==
    ASSUME Typed, Sound, NEW q \in Requests, NEW i \in Ids, NEW w \in Windows \cup {Denial}, Creates(q, i, w)
    PROVE  /\ Sound' /\ resp' \in [Requests -> [Ids -> Responses \cup {NoResponse}]]
           /\ minted' \in 0..MaxMRIDs
           /\ resp'[q][i] = [mrid |-> minted + 1, win |-> w]
           /\ \A c \in Controls : ctl'[c].grant # minted + 1
           /\ \A m : LiveOn(m)' = LiveOn(m)
           /\ \A r \in Requests, j \in Ids : (r # q \/ j # i) => resp'[r][j] = resp[r][j]
           /\ i \notin mark[q]
  <1> USE DEF Creates
  <1>x. PICK x : x = [mrid |-> minted + 1, win |-> w] BY ZenonT(60)
  <1>a. minted \in Nat /\ MaxMRIDs \in Nat /\ minted + 1 \in MRIDs /\ minted + 1 # NoMRID
    BY LedgerAssumption DEF Typed, StoreTyped, MRIDs, NoMRID
  <1>b. x \in Responses BY <1>a, <1>x DEF Responses
  <1>c. x.mrid = minted + 1 /\ x.win = w BY <1>x
  <1>d. resp' = [resp EXCEPT ![q][i] = x] BY <1>x
  <1>0. /\ resp' \in [Requests -> [Ids -> Responses \cup {NoResponse}]]
        /\ resp'[q][i] = x
        /\ \A r \in Requests, j \in Ids : (r # q \/ j # i) => resp'[r][j] = resp[r][j]
    <2> HIDE DEF Creates
    <2>1. x \in Responses \cup {NoResponse} BY <1>b
    <2> QED BY <1>d, <2>1, RespWrite, ZenonT(60)
  <1>1. x # NoResponse BY <1>a, <1>c DEF NoResponse, NoMRID
  <1>2. \A r \in Requests, j \in Ids : Stored(r, j)' <=> (Stored(r, j) \/ (r = q /\ j = i))
    BY <1>0, <1>1 DEF Stored
  <1>3. i \notin mark[q] BY DEF Sound, Chained
  <1>4. Minted'
    <2>1. \A r \in Requests, j \in Ids : resp[r][j].mrid \in Nat /\ resp[r][j].mrid <= minted
      BY RespFacts DEF Sound, Minted
    <2>2. \A r \in Requests, j \in Ids : resp'[r][j].mrid <= minted' BY <1>0, <1>a, <1>c, <2>1
    <2>3. \A c \in Controls : ctl'[c].grant <= minted' BY <1>a, CtlFacts DEF Sound, Minted
    <2>4. ASSUME NEW r1 \in Requests, NEW r2 \in Requests, NEW j1 \in Ids, NEW j2 \in Ids,
                 resp'[r1][j1].mrid = resp'[r2][j2].mrid, resp'[r1][j1].mrid # NoMRID
          PROVE  r1 = r2 /\ j1 = j2
      <3>1. CASE r1 = q /\ j1 = i BY <1>0, <1>a, <1>c, <2>1, <2>4, <3>1
      <3>2. CASE r2 = q /\ j2 = i BY <1>0, <1>a, <1>c, <2>1, <2>4, <3>2
      <3>3. CASE ~(r1 = q /\ j1 = i) /\ ~(r2 = q /\ j2 = i) BY <1>0, <2>4, <3>3 DEF Sound, Minted
      <3> QED BY <3>1, <3>2, <3>3
    <2> QED BY <2>2, <2>3, <2>4 DEF Minted
  <1>5. Chained'
    <2> SUFFICES ASSUME NEW r \in Requests, NEW j \in Ids
                 PROVE  /\ j \in mark[r] => Stored(r, j)'
                        /\ Stored(r, j)' => \A k \in Ids : k < j => Stored(r, k)' /\ resp'[r][k].win # Denial
      BY DEF Chained
    <2>1. j \in mark[r] => Stored(r, j)' BY <1>2 DEF Sound, Chained
    <2>2. ASSUME Stored(r, j)', NEW k \in Ids, k < j PROVE Stored(r, k)' /\ resp'[r][k].win # Denial
      <3>0. i \in Nat /\ j \in Nat /\ k \in Nat BY DEF Ids
      <3>1. CASE r = q /\ j = i BY <1>0, <1>2, <2>2, <3>0, <3>1
      <3>2. CASE r # q \/ j # i
        <4>1. Stored(r, j) BY <1>2, <2>2, <3>2
        <4>2. Stored(r, k) /\ resp[r][k].win # Denial BY <2>2, <4>1 DEF Sound, Chained
        <4>3. r # q \/ k # i BY <4>2
        <4> QED BY <1>0, <1>2, <4>2, <4>3
      <3> QED BY <3>1, <3>2
    <2> QED BY <2>1, <2>2
  <1>6. \A r \in Requests, j \in Ids : (r # q \/ j # i) => (LiveAt(r, j)' <=> LiveAt(r, j))
    BY <1>0, <1>2 DEF LiveAt
  <1>7. NeverDoubleBooked'
    <2>1. ASSUME NEW r1 \in Requests, NEW r2 \in Requests, NEW j1 \in Ids, NEW j2 \in Ids,
                 r1 # r2, LiveAt(r1, j1)', LiveAt(r2, j2)'
          PROVE  ~Overlap(resp'[r1][j1].win, resp'[r2][j2].win)
      <3>1. CASE r1 = q /\ j1 = i BY <1>0, <1>c, <1>6, <2>1, <3>1 DEF Overlap
      <3>2. CASE r2 = q /\ j2 = i BY <1>0, <1>c, <1>6, <2>1, <3>2 DEF Overlap
      <3>3. CASE ~(r1 = q /\ j1 = i) /\ ~(r2 = q /\ j2 = i)
        BY <1>0, <1>6, <2>1, <3>3 DEF Sound, NeverDoubleBooked
      <3> QED BY <3>1, <3>2, <3>3
    <2>2. ASSUME NEW c \in Controls, ctl[c].st = "live", ctl[c].grant = NoMRID,
                 NEW r \in Requests, NEW j \in Ids, LiveAt(r, j)'
          PROVE  ~Overlap(resp'[r][j].win, ctl[c].win)
      <3>1. CASE r = q /\ j = i BY <1>0, <1>c, <2>2, <3>1 DEF Overlap, LiveOn
      <3>2. CASE ~(r = q /\ j = i) BY <1>0, <1>6, <2>2, <3>2 DEF Sound, NeverDoubleBooked, CheckPlain
      <3> QED BY <3>1, <3>2
    <2> QED BY <2>1, <2>2 DEF NeverDoubleBooked, CheckPlain
  <1>8. ExecutionsHaveLiveGrant'
    <2> SUFFICES ASSUME NEW c \in Controls, ctl[c].st = "live", ctl[c].grant # NoMRID
                 PROVE  LiveGrant(ctl[c].grant)'
      BY DEF ExecutionsHaveLiveGrant
    <2>1. PICK r \in Requests, j \in Ids : LiveAt(r, j) /\ resp[r][j].mrid = ctl[c].grant
      BY DEF Sound, ExecutionsHaveLiveGrant, LiveGrant
    <2>2. r # q \/ j # i BY <2>1 DEF LiveAt
    <2> QED BY <1>0, <1>6, <2>1, <2>2 DEF LiveGrant
  <1>9. (\A c \in Controls : ctl'[c].grant # minted + 1) /\ \A m : LiveOn(m)' = LiveOn(m)
    <2>1. \A c \in Controls : ctl[c].grant # minted + 1 BY <1>a, CtlFacts DEF Sound, Minted
    <2>2. \A m : LiveOn(m)' = LiveOn(m) BY DEF LiveOn
    <2> QED BY <2>1, <2>2
  <1>10. minted' \in 0..MaxMRIDs BY <1>a
  <1>11. Sound' BY <1>4, <1>5, <1>7, <1>8 DEF Sound
  <1> QED BY <1>x, <1>0, <1>3, <1>9, <1>10, <1>11

LEMMA DeleteData ==
    ASSUME Typed, Sound, NEW q \in Requests, NEW i \in Ids, i \notin mark[q],
           \A j \in Ids : j > i => ~Stored(q, j), LiveOn(resp[q][i].mrid) = {},
           resp' = [resp EXCEPT ![q][i] = NoResponse], UNCHANGED <<mark, ctl, minted>>
    PROVE  /\ Sound' /\ resp' \in [Requests -> [Ids -> Responses \cup {NoResponse}]]
           /\ \A r \in Requests, j \in Ids : resp'[r][j] = NoResponse \/ resp'[r][j] = resp[r][j]
  <1>a. NoResponse \in Responses \cup {NoResponse} OBVIOUS
  <1>0. /\ resp' \in [Requests -> [Ids -> Responses \cup {NoResponse}]]
        /\ resp'[q][i] = NoResponse
        /\ \A r \in Requests, j \in Ids : (r # q \/ j # i) => resp'[r][j] = resp[r][j]
    BY ONLY ZenonT(60), <1>a, RespWrite, Typed, q \in Requests, i \in Ids, resp' = [resp EXCEPT ![q][i] = NoResponse]
  <1>1. \A r \in Requests, j \in Ids : Stored(r, j)' <=> (Stored(r, j) /\ (r # q \/ j # i))
    <2>1. ~Stored(q, i)' BY <1>0 DEF Stored
    <2>2. \A r \in Requests, j \in Ids : (r # q \/ j # i) => (Stored(r, j)' <=> Stored(r, j)) BY <1>0 DEF Stored
    <2> QED BY <2>1, <2>2
  <1>2. NoResponse.mrid = NoMRID /\ NoMRID = 0 BY DEF NoResponse, NoMRID
  <1>3. Minted'
    <2>1. minted \in Nat BY DEF Typed, StoreTyped
    <2>2. \A r \in Requests, j \in Ids : resp'[r][j].mrid <= minted BY <1>0, <1>2, <2>1 DEF Sound, Minted
    <2>3. ASSUME NEW r1 \in Requests, NEW r2 \in Requests, NEW j1 \in Ids, NEW j2 \in Ids,
                 resp'[r1][j1].mrid = resp'[r2][j2].mrid, resp'[r1][j1].mrid # NoMRID
          PROVE  r1 = r2 /\ j1 = j2
      BY <1>0, <1>2, <2>3 DEF Sound, Minted
    <2> QED BY <2>2, <2>3 DEF Sound, Minted
  <1>4. Chained'
    <2> SUFFICES ASSUME NEW r \in Requests, NEW j \in Ids
                 PROVE  /\ j \in mark[r] => Stored(r, j)'
                        /\ Stored(r, j)' => \A k \in Ids : k < j => Stored(r, k)' /\ resp'[r][k].win # Denial
      BY DEF Chained
    <2>1. j \in mark[r] => Stored(r, j)' BY <1>1 DEF Sound, Chained
    <2>2. ASSUME Stored(r, j)', NEW k \in Ids, k < j PROVE Stored(r, k)' /\ resp'[r][k].win # Denial
      <3>0. i \in Nat /\ j \in Nat /\ k \in Nat BY DEF Ids
      <3>1. Stored(r, j) /\ Stored(r, k) /\ resp[r][k].win # Denial BY <1>1, <2>2 DEF Sound, Chained
      <3>2. r # q \/ k # i BY <2>2, <3>0, <3>1
      <3> QED BY <1>0, <1>1, <3>1, <3>2
    <2> QED BY <2>1, <2>2
  <1>5. \A r \in Requests, j \in Ids : LiveAt(r, j)' => LiveAt(r, j) /\ resp'[r][j] = resp[r][j]
    BY <1>0, <1>1 DEF LiveAt
  <1>6. NeverDoubleBooked' BY <1>5 DEF Sound, NeverDoubleBooked, CheckPlain
  <1>7. ExecutionsHaveLiveGrant'
    <2> SUFFICES ASSUME NEW c \in Controls, ctl[c].st = "live", ctl[c].grant # NoMRID
                 PROVE  LiveGrant(ctl[c].grant)'
      BY DEF ExecutionsHaveLiveGrant
    <2>1. PICK r \in Requests, j \in Ids : LiveAt(r, j) /\ resp[r][j].mrid = ctl[c].grant
      BY DEF Sound, ExecutionsHaveLiveGrant, LiveGrant
    <2>2. r # q \/ j # i BY <2>1 DEF LiveOn
    <2>3. LiveAt(r, j)' /\ resp'[r][j] = resp[r][j] BY <1>0, <1>1, <2>1, <2>2 DEF LiveAt
    <2> QED BY <2>1, <2>3 DEF LiveGrant
  <1> QED BY <1>0, <1>3, <1>4, <1>6, <1>7 DEF Sound
----------------------------------------------------------------------------
(* What a step does to the threads that do not take it. *)
RespGrows ==
    /\ minted <= minted'
    /\ \A c \in Controls : ctl[c].st # "none" => ctl'[c].st # "none"
    /\ \A r \in Requests, j \in Ids :
         resp'[r][j] = resp[r][j] \/ resp'[r][j].mrid = NoMRID \/ resp'[r][j].mrid = minted + 1

LEMMA AnchoredStays ==
    ASSUME Typed, NEW v \in Threads, Anchored(v), Known(v), pc'[v] = pc[v], loc'[v] = loc[v], RespGrows, minted' \in Nat
    PROVE  Anchored(v)' /\ Known(v)'
  <1>a. Known(v)'
    <2>1. loc[v].todo \subseteq Controls /\ loc[v].touched \subseteq Controls BY DEF Typed, Locals
    <2> QED BY <2>1 DEF Known, RespGrows
  <1>b. (pc'[v] = "cancel" /\ v = "canceller") => loc'[v].n # 0 BY SMTT(60), Z3T(60) DEF Anchored
  <1> SUFFICES ASSUME pc[v] \in RevisionSteps
               PROVE  /\ v \in Revisers
                      /\ pc[v] = "revise" => ~loc[v].bad /\ loc[v].touched = {}
                      /\ loc[v].mrid \in MRIDs /\ loc[v].mrid <= minted'
                      /\ loc[v].pos \in Ids /\ loc[v].pos + 1 \in Ids
                      /\ \A r \in Requests, j \in Ids : resp'[r][j].mrid = loc[v].mrid => r = loc[v].q /\ j = loc[v].pos
    BY <1>a, <1>b DEF Anchored
  <1>1. minted \in Nat /\ loc[v].mrid \in Nat /\ loc[v].mrid # NoMRID /\ loc[v].mrid <= minted
    BY LedgerAssumption, SMTT(60), Z3T(60) DEF Anchored, MRIDs, NoMRID, Typed, StoreTyped
  <1> QED BY <1>1 DEF Anchored, RespGrows

LEMMA OutsideLock ==
    ASSUME NEW v \in Threads, pc'[v] \notin LockedSteps
    PROVE  Revising(v)' /\ Cancelling(v)'
  BY SMTT(60), Z3T(60) DEF Revising, Cancelling, LockedSteps

LEMMA NotRepairing == ASSUME pc'["recovery"] \notin RepairSteps PROVE Repairing'
  BY DEF Repairing, RepairSteps

(* A step of p while no other thread is inside the lock. *)
LEMMA LockedStep ==
    ASSUME LedgerInv, NEW p \in Threads, NEW s \in Steps, NEW l \in Locals, Goto(p, s, l),
           UNCHANGED phase, p = "recovery" <=> phase = "boot",
           \A r \in Threads \ {p} : pc[r] \notin LockedSteps,
           StoreTyped', fleet' \in Threads \cup {Nobody}, Sound', RespGrows,
           s \in LockedSteps => fleet' = p, p = "recovery" => s \notin RevisionSteps /\ Repairing',
           Anchored(p)', Revising(p)', Cancelling(p)', \A c \in l.todo \cup l.touched : ctl'[c].st # "none"
    PROVE  LedgerInv'
  <1>0. Typed BY DEF LedgerInv
  <1>1. /\ pc' \in [Threads -> Steps] /\ loc' \in [Threads -> Locals]
        /\ pc'[p] = s /\ loc'[p] = l
        /\ \A r \in Threads \ {p} : pc'[r] = pc[r] /\ loc'[r] = loc[r]
    BY <1>0, GotoFacts
  <1>2. Typed' BY <1>0, <1>1 DEF Typed
  <1>3. Excluded' BY <1>1, ThreadFacts, SMTT(60), Z3T(60) DEF LedgerInv, Excluded
  <1>4. minted' \in Nat BY SMTT(60), Z3T(60) DEF StoreTyped
  <1>5. ASSUME NEW r \in Threads \ {p} PROVE Anchored(r)' /\ Revising(r)' /\ Cancelling(r)' /\ Known(r)'
    <2>1. Anchored(r)' /\ Known(r)' BY <1>0, <1>1, <1>4, AnchoredStays DEF LedgerInv
    <2> QED BY <1>1, <2>1, OutsideLock
  <1>6. Repairing'
    <2>1. CASE p # "recovery"
      <3>1. pc'["recovery"] = "idle" BY <1>0, <1>1, <2>1, ThreadFacts, SMTT(60), Z3T(60) DEF LedgerInv, Excluded, Typed
      <3> QED BY <3>1, NotRepairing, SMTT(60), Z3T(60) DEF RepairSteps
    <2> QED BY <2>1
  <1>7. Known(p)' BY <1>1, SMTT(60), Z3T(60) DEF Known
  <1> QED BY <1>2, <1>3, <1>5, <1>6, <1>7 DEF LedgerInv

(* A step of p that writes no store and leaves the lock to its holder. *)
LEMMA QuietStep ==
    ASSUME LedgerInv, NEW p \in Threads, NEW s \in Steps, NEW l \in Locals, Goto(p, s, l),
           UNCHANGED <<phase, resp, mark, ctl, minted, fleet>>, p = "recovery" <=> phase = "boot",
           s \notin LockedSteps, p = "recovery" => s \notin RevisionSteps /\ Repairing',
           Anchored(p)', \A c \in l.todo \cup l.touched : ctl[c].st # "none"
    PROVE  LedgerInv'
  <1>0. Typed BY SMTT(60), Z3T(60) DEF LedgerInv
  <1>1. /\ pc' \in [Threads -> Steps] /\ loc' \in [Threads -> Locals]
        /\ pc'[p] = s /\ loc'[p] = l
        /\ \A r \in Threads \ {p} : pc'[r] = pc[r] /\ loc'[r] = loc[r]
    BY <1>0, GotoFacts, SMTT(60), Z3T(60)
  <1>2. Typed' BY <1>0, <1>1 DEF Typed, StoreTyped
  <1>3. Excluded' BY <1>1, ThreadFacts, SMTT(60), Z3T(60) DEF LedgerInv, Excluded
  <1>4. Sound' BY <1>0, SameCtlShrinks, ShrinkData, SMTT(60), Z3T(60) DEF LedgerInv
  <1>5. ASSUME NEW r \in Threads \ {p} PROVE Anchored(r)' /\ Revising(r)' /\ Cancelling(r)' /\ Known(r)'
    <2>1. pc'[r] = pc[r] /\ loc'[r] = loc[r] BY <1>1, SMTT(60), Z3T(60)
    <2>2. Anchored(r)' BY <2>1 DEF LedgerInv, Anchored
    <2>a. /\ \A m : LiveOn(m)' = LiveOn(m)
          /\ \A q, j : (LiveAt(q, j)' <=> LiveAt(q, j)) /\ (Stored(q, j)' <=> Stored(q, j))
      BY SMTT(60), Z3T(60) DEF LiveOn, LiveAt, Stored
    <2>3. Revising(r)' BY <2>1, <2>a, ZenonT(60) DEF LedgerInv, Revising
    <2>4. Cancelling(r)' BY <2>1, <2>a, ZenonT(60) DEF LedgerInv, Cancelling
    <2>5. Known(r)' BY <2>1, ZenonT(60) DEF LedgerInv, Known
    <2> QED BY <2>2, <2>3, <2>4, <2>5, SMTT(60), Z3T(60)
  <1>6. Repairing'
    <2>1. CASE p # "recovery"
      <3>1. pc'["recovery"] = "idle" BY <1>0, <1>1, <2>1, ThreadFacts, SMTT(60), Z3T(60) DEF LedgerInv, Excluded, Typed
      <3> QED BY <3>1, NotRepairing, SMTT(60), Z3T(60) DEF RepairSteps
    <2> QED BY <2>1
  <1>7. Revising(p)' /\ Cancelling(p)' /\ Known(p)' BY <1>1, OutsideLock DEF Known
  <1> QED BY <1>2, <1>3, <1>4, <1>5, <1>6, <1>7, SMTT(60), Z3T(60) DEF LedgerInv

(* Who is inside the lock. *)
LEMMA LockFree == ASSUME LedgerInv, fleet = Nobody PROVE \A r \in Threads : pc[r] \notin LockedSteps
  BY ThreadFacts DEF LedgerInv, Excluded

LEMMA HolderAlone ==
    ASSUME LedgerInv, NEW p \in Threads, pc[p] \in LockedSteps
    PROVE  fleet = p /\ \A r \in Threads \ {p} : pc[r] \notin LockedSteps
  BY DEF LedgerInv, Excluded

LEMMA RunsWhen ==
    ASSUME LedgerInv, NEW p \in Threads, pc[p] # "idle"
    PROVE  p = "recovery" <=> phase = "boot"
  BY ThreadFacts DEF LedgerInv, Excluded, Typed
----------------------------------------------------------------------------
(* One lemma per action. *)
LEMMA InitInv == ASSUME Init PROVE LedgerInv
  <1>1. StoreTyped
    <2>1. resp \in [Requests -> [Ids -> Responses \cup {NoResponse}]] BY DEF Init
    <2>2. mark \in [Requests -> SUBSET Ids] BY DEF Init
    <2>3. ctl \in [Controls -> ControlRecords \cup {NoControl}] BY DEF Init
    <2>4. minted \in 0..MaxMRIDs BY LedgerAssumption DEF Init
    <2> QED BY <2>1, <2>2, <2>3, <2>4 DEF StoreTyped
  <1>2. Typed
    <2>1. pc \in [Threads -> Steps] BY DEF Init, Steps, RevisionSteps, LockedSteps, RepairSteps
    <2>2. loc \in [Threads -> Locals] BY IdleTyped DEF Init
    <2> QED BY <1>1, <2>1, <2>2 DEF Init, Typed
  <1>3. \A q \in Requests, i \in Ids : ~Stored(q, i) /\ resp[q][i].mrid = 0 /\ mark[q] = {}
    BY DEF Init, Stored, NoResponse, NoMRID
  <1>4. \A c \in Controls : ctl[c].grant = 0 /\ ctl[c].st = "none" BY DEF Init, NoControl, NoMRID
  <1>5. Minted BY <1>3, <1>4 DEF Init, Minted, NoMRID
  <1>6. Chained BY <1>3 DEF Chained
  <1>7. NeverDoubleBooked BY <1>3, <1>4 DEF NeverDoubleBooked, LiveAt
  <1>8. ExecutionsHaveLiveGrant BY <1>4 DEF ExecutionsHaveLiveGrant
  <1>9. \A p \in Threads : pc[p] = "idle" BY DEF Init
  <1>10. Excluded BY <1>9, ThreadFacts, SMTT(60), Z3T(60) DEF Init, Excluded, LockedSteps, RevisionSteps
  <1>11. \A v \in Threads : Anchored(v) /\ Revising(v) /\ Cancelling(v)
    BY <1>9, ZenonT(60) DEF Anchored, Revising, Cancelling, RevisionSteps
  <1>a. \A v \in Threads : Known(v) BY SMTT(60), Z3T(60) DEF Init, Known, IdleLocals
  <1>12. Repairing BY <1>9, ThreadFacts DEF Repairing, RepairSteps
  <1> QED BY <1>2, <1>5, <1>6, <1>7, <1>8, <1>10, <1>11, <1>12, <1>a DEF LedgerInv, Sound

(* A write by a single-step operation, with nobody inside the lock. *)
LEMMA StoreStep ==
    ASSUME LedgerInv, phase = "serving", fleet = Nobody, UNCHANGED <<phase, fleet, pc, loc>>,
           StoreTyped', Sound', RespGrows
    PROVE  LedgerInv'
  <1>0. Typed BY DEF LedgerInv
  <1>1. Typed' BY <1>0 DEF Typed
  <1>2. Excluded' BY DEF LedgerInv, Excluded
  <1>3. minted' \in Nat BY DEF StoreTyped
  <1>4. ASSUME NEW r \in Threads PROVE Anchored(r)' /\ Revising(r)' /\ Cancelling(r)' /\ Known(r)'
    <2>1. Anchored(r)' /\ Known(r)' BY <1>0, <1>3, AnchoredStays DEF LedgerInv
    <2>2. pc'[r] \notin LockedSteps BY LockFree
    <2> QED BY <2>1, <2>2, OutsideLock
  <1>5. pc'["recovery"] = "idle" BY DEF LedgerInv, Excluded
  <1>6. Repairing' BY <1>5, NotRepairing DEF RepairSteps
  <1> QED BY <1>1, <1>2, <1>4, <1>6 DEF LedgerInv

LEMMA GrantStep == ASSUME LedgerInv, NEW q \in Requests, NEW w \in Windows, Grant(q, w) PROVE LedgerInv'
  <1> DEFINE i == 1
  <1>0. Typed /\ Sound BY DEF LedgerInv
  <1>1. i \in Ids BY LedgerAssumption, SMTT(60), Z3T(60) DEF Ids
  <1>2. \A r \in Requests, j \in Ids : LiveAt(r, j) => ~Overlap(resp[r][j].win, w)
    BY <1>0, RespFacts DEF Grant, CheckGrant, LiveAt
  <1>3. ~LiveGrant(NoMRID) BY <1>0, RespFacts DEF LiveGrant, LiveAt
  <1>4. \A c \in LiveOn(NoMRID) : ~Overlap(ctl[c].win, w) BY <1>3 DEF LiveOn, Plain, Grant, CheckGrant
  <1>5. \A j \in Ids : j < i => Stored(q, j) /\ resp[q][j].win # Denial BY DEF Ids
  <1>a. /\ minted < MaxMRIDs /\ minted' = minted + 1 /\ ~Stored(q, i) /\ UNCHANGED <<mark, ctl>>
        /\ resp' = [resp EXCEPT ![q][i] = [mrid |-> minted + 1, win |-> w]]
    BY SMTT(60), Z3T(60) DEF Grant
  <1> HIDE DEF i
  <1>6. /\ Sound' /\ resp' \in [Requests -> [Ids -> Responses \cup {NoResponse}]]
        /\ minted' \in 0..MaxMRIDs
        /\ resp'[q][i] = [mrid |-> minted + 1, win |-> w]
        /\ \A r \in Requests, j \in Ids : (r # q \/ j # i) => resp'[r][j] = resp[r][j]
    <2>1. Creates(q, i, w) BY <1>2, <1>4, <1>5, <1>a DEF Creates
    <2>2. w \in Windows \cup {Denial} OBVIOUS
    <2> QED BY <1>0, <1>1, <2>1, <2>2, CreateData, SMTT(60), Z3T(60)
  <1>7. StoreTyped' BY <1>0, <1>a, <1>6, SMTT(60), Z3T(60) DEF StoreTyped, Typed
  <1>8. RespGrows BY <1>0, <1>a, <1>6 DEF RespGrows, Typed, StoreTyped
  <1> QED BY <1>6, <1>7, <1>8, StoreStep DEF Grant

LEMMA IssueStep ==
    ASSUME LedgerInv, NEW c \in Controls, NEW w \in Windows, NEW m \in {NoMRID} \cup MRIDs, Issue(c, m, w)
    PROVE  LedgerInv'
  <1>0. Typed /\ Sound BY DEF LedgerInv
  <1> DEFINE x == [st |-> "live", win |-> w, grant |-> m]
  <1>1. x \in ControlRecords BY DEF ControlRecords
  <1>2. x.st = "live" /\ x.win = w /\ x.grant = m OBVIOUS
  <1>3. ctl' = [ctl EXCEPT ![c] = x] BY DEF Issue
  <1> HIDE DEF x
  <1>4. /\ ctl' \in [Controls -> ControlRecords \cup {NoControl}]
        /\ ctl'[c] = x /\ \A d \in Controls \ {c} : ctl'[d] = ctl[d]
    BY <1>0, <1>1, <1>3 DEF Typed, StoreTyped
  <1>5. UNCHANGED <<phase, resp, mark, minted, fleet, pc, loc>> /\ phase = "serving" /\ fleet = Nobody BY DEF Issue
  <1>6. minted \in Nat BY <1>0 DEF Typed, StoreTyped
  <1>7. m <= minted /\ (m # NoMRID => LiveGrant(m))
    <2>1. CASE m = NoMRID BY <1>6, <2>1, SMTT(60), Z3T(60) DEF NoMRID
    <2>2. CASE m # NoMRID BY <1>0, <2>2, SMTT(60), Z3T(60) DEF Issue, CheckExecution, LiveGrant, Sound, Minted
    <2> QED BY <2>1, <2>2
  <1>8. Minted' BY <1>0, <1>2, <1>4, <1>5, <1>7, SMTT(60), Z3T(60) DEF Sound, Minted
  <1>9. Chained' BY <1>0, <1>5 DEF Sound, Chained, Stored
  <1>10. \A q, j : LiveAt(q, j)' <=> LiveAt(q, j) BY <1>5, SMTT(60), Z3T(60) DEF LiveAt, Stored
  <1>11. NeverDoubleBooked'
    <2>1. m = NoMRID => CheckPlain(w) BY DEF Issue
    <2> QED BY <1>0, <1>2, <1>4, <1>5, <1>10, <2>1, SMTT(60), Z3T(60) DEF Sound, NeverDoubleBooked, CheckPlain
  <1>12. ExecutionsHaveLiveGrant'
    <2>1. \A k : LiveGrant(k) => LiveGrant(k)' BY <1>5, <1>10 DEF LiveGrant
    <2> QED BY <1>0, <1>2, <1>4, <1>7, <2>1 DEF Sound, ExecutionsHaveLiveGrant
  <1>13. StoreTyped' BY <1>0, <1>4, <1>5 DEF StoreTyped, Typed
  <1>14. RespGrows BY <1>2, <1>4, <1>5, <1>6 DEF RespGrows
  <1>15. Sound' BY <1>8, <1>9, <1>11, <1>12 DEF Sound
  <1> QED BY <1>5, <1>13, <1>14, <1>15, StoreStep

(* An operator's cancel or the end of an interval, beside any thread. *)
LEMMA EndStep ==
    ASSUME LedgerInv, NEW c \in Controls, CancelControl(c) \/ ControlEnds(c)
    PROVE  LedgerInv'
  <1>0. Typed /\ Sound BY DEF LedgerInv
  <1>1. UNCHANGED <<phase, resp, mark, minted, fleet, pc, loc>> BY DEF CancelControl, ControlEnds
  <1>2. CtlShrinks
    <2>1. ctl[c].st # "none" BY DEF CancelControl, ControlEnds
    <2>2. CASE CancelControl(c) BY <1>0, <2>1, <2>2, EndFacts, ZenonT(60) DEF CancelControl
    <2>3. CASE ControlEnds(c) BY <1>0, <2>1, <2>3, EndFacts, ZenonT(60) DEF ControlEnds
    <2> QED BY <2>2, <2>3
  <1>3. Sound' /\ \A m : LiveOn(m)' \subseteq LiveOn(m) BY <1>0, <1>1, <1>2, ShrinkData
  <1>4. Typed' BY <1>0, <1>1, <1>2 DEF Typed, StoreTyped, CtlShrinks
  <1>5. Excluded' BY <1>1, SMTT(60), Z3T(60) DEF LedgerInv, Excluded
  <1>6. \A q, j : (LiveAt(q, j)' <=> LiveAt(q, j)) /\ (Stored(q, j)' <=> Stored(q, j)) BY <1>1 DEF LiveAt, Stored
  <1>7. ASSUME NEW r \in Threads PROVE Anchored(r)' /\ Revising(r)' /\ Cancelling(r)' /\ Known(r)'
    <2>1. Anchored(r)' BY <1>1, ZenonT(60) DEF LedgerInv, Anchored
    <2>2. \A d \in Controls : ctl'[d].win = ctl[d].win BY <1>2 DEF CtlShrinks
    <2>3. \A d \in LiveOn(NoMRID)' : d \in LiveOn(NoMRID) /\ ctl'[d].win = ctl[d].win
      BY <1>3, <2>2 DEF LiveOn, NoMRID
    <2>4. Revising(r)' BY <1>1, <1>3, <1>6, <2>3, ZenonT(60) DEF LedgerInv, Revising
    <2>5. Cancelling(r)' BY <1>1, <1>3, ZenonT(60) DEF LedgerInv, Cancelling
    <2>6. Known(r)' BY <1>0, <1>1, <1>2, ZenonT(60) DEF LedgerInv, Known, CtlShrinks, Typed, Locals
    <2> QED BY <2>1, <2>4, <2>5, <2>6, SMTT(60), Z3T(60)
  <1>8. Repairing'
    <2>1. Olds(loc["recovery"])' = Olds(loc["recovery"]) BY <1>1, <1>6, SMTT(60), Z3T(60) DEF Olds, Unmarked
    <2> QED BY <1>1, <1>3, <1>6, <2>1, ZenonT(60) DEF LedgerInv, Repairing
  <1> QED BY <1>3, <1>4, <1>5, <1>7, <1>8 DEF LedgerInv

LEMMA StepNames ==
    /\ RevisionSteps \subseteq Steps /\ LockedSteps \subseteq Steps /\ RepairSteps \subseteq Steps
    /\ {"idle", "walk", "cancel", "rewalk", "next", "settle"} \subseteq Steps
    /\ {"idle", "walk", "cancel", "rewalk", "next", "settle"} \cap (RevisionSteps \cup LockedSteps \cup RepairSteps) = {}
    /\ RepairSteps \cap (RevisionSteps \cup LockedSteps) = {}
    /\ "revise" \in RevisionSteps \ LockedSteps
    /\ {"stopExecutions", "create", "relink", "mark", "undo"} \subseteq RevisionSteps \cap LockedSteps
    /\ {"stop", "markGrant"} \subseteq LockedSteps \ RevisionSteps
  BY DEF Steps, RevisionSteps, LockedSteps, RepairSteps

(* A thread that stops has nothing to keep. *)
LEMMA IdleStep ==
    ASSUME LedgerInv, NEW p \in Threads, p # "recovery", phase = "serving", Done(p), UNCHANGED phase,
           \/ UNCHANGED <<resp, mark, ctl, minted, fleet>>
           \/ /\ \A r \in Threads \ {p} : pc[r] \notin LockedSteps
              /\ StoreTyped' /\ Sound' /\ RespGrows /\ fleet' \in Threads \cup {Nobody}
    PROVE  LedgerInv'
  <1>0. Typed BY DEF LedgerInv
  <1>1. Goto(p, "idle", IdleLocals) /\ "idle" \in Steps /\ "idle" \notin LockedSteps /\ "idle" \notin RevisionSteps
    BY StepNames DEF Done
  <1>2. pc'[p] = "idle" BY <1>0, <1>1, IdleTyped, GotoFacts, SMTT(60), Z3T(60)
  <1>3. Anchored(p)' BY <1>1, <1>2 DEF Anchored
  <1>4. Revising(p)' /\ Cancelling(p)' BY <1>1, <1>2, OutsideLock, SMTT(60), Z3T(60)
  <1>a. IdleLocals.todo = {} /\ IdleLocals.touched = {} BY SMTT(60), Z3T(60) DEF IdleLocals
  <1>5. CASE UNCHANGED <<resp, mark, ctl, minted, fleet>> BY <1>1, <1>3, <1>5, <1>a, IdleTyped, QuietStep, SMTT(60), Z3T(60)
  <1>6. CASE /\ \A r \in Threads \ {p} : pc[r] \notin LockedSteps
             /\ StoreTyped' /\ Sound' /\ RespGrows /\ fleet' \in Threads \cup {Nobody}
    BY <1>1, <1>3, <1>4, <1>6, <1>a, IdleTyped, LockedStep, SMTT(60), Z3T(60)
  <1> QED BY <1>5, <1>6

(* The stores are as they were. *)
LEMMA SameStores ==
    ASSUME Typed, Sound, UNCHANGED <<resp, mark, ctl, minted>>
    PROVE  /\ StoreTyped' /\ Sound' /\ RespGrows
           /\ \A m : LiveOn(m)' = LiveOn(m)
           /\ \A q, j : (LiveAt(q, j)' <=> LiveAt(q, j)) /\ (Stored(q, j)' <=> Stored(q, j))
  <1>1. Sound' BY SameCtlShrinks, ShrinkData
  <1>2. StoreTyped' /\ RespGrows BY DEF Typed, StoreTyped, RespGrows
  <1>3. \A m : LiveOn(m)' = LiveOn(m) BY DEF LiveOn
  <1>4. \A q, j : (LiveAt(q, j)' <=> LiveAt(q, j)) /\ (Stored(q, j)' <=> Stored(q, j)) BY DEF LiveAt, Stored
  <1> QED BY <1>1, <1>2, <1>3, <1>4

LEMMA IdOfFacts ==
    ASSUME Typed, NEW q \in Requests, NEW m, IdOf(q, m) # 0
    PROVE  IdOf(q, m) \in Ids /\ resp[q][IdOf(q, m)].mrid = m
  BY DEF IdOf

(* Only controls were written, and none of them vanished. *)
LEMMA CtlWrite ==
    ASSUME Typed, UNCHANGED <<resp, mark, minted>>, ctl' \in [Controls -> ControlRecords \cup {NoControl}],
           \A d \in Controls : ctl[d].st # "none" => ctl'[d].st # "none"
    PROVE  StoreTyped' /\ RespGrows
  <1>1. StoreTyped' BY DEF Typed, StoreTyped
  <1>2. minted \in Nat BY DEF Typed, StoreTyped
  <1>3. minted <= minted' BY <1>2
  <1> QED BY <1>1, <1>3 DEF RespGrows

LEMMA ShrinkWrite ==
    ASSUME Typed, UNCHANGED <<resp, mark, minted>>, CtlShrinks
    PROVE  StoreTyped' /\ RespGrows
  <1>1. /\ ctl' \in [Controls -> ControlRecords \cup {NoControl}]
        /\ \A d \in Controls : ctl[d].st # "none" => ctl'[d].st # "none"
    BY DEF CtlShrinks
  <1> QED BY <1>1, CtlWrite, SMTT(60), Z3T(60)

(* Only marks were written. *)
LEMMA MarkWrite ==
    ASSUME Typed, UNCHANGED <<resp, ctl, minted>>, mark' \in [Requests -> SUBSET Ids]
    PROVE  StoreTyped' /\ RespGrows
  <1>1. StoreTyped' BY DEF Typed, StoreTyped
  <1>2. minted \in Nat BY DEF Typed, StoreTyped
  <1>3. minted <= minted' BY <1>2
  <1> QED BY <1>1, <1>3 DEF RespGrows

(* Only responses were deleted. *)
LEMMA DeleteWrite ==
    ASSUME Typed, UNCHANGED <<mark, ctl, minted>>, resp' \in [Requests -> [Ids -> Responses \cup {NoResponse}]],
           \A r \in Requests, j \in Ids : resp'[r][j] = NoResponse \/ resp'[r][j] = resp[r][j]
    PROVE  StoreTyped' /\ RespGrows
  <1>1. StoreTyped' BY DEF Typed, StoreTyped
  <1>2. minted \in Nat BY DEF Typed, StoreTyped
  <1>3. minted <= minted' BY <1>2, SMTT(60), Z3T(60)
  <1>4. NoResponse.mrid = NoMRID BY DEF NoResponse
  <1> QED BY <1>1, <1>3, <1>4 DEF RespGrows

(* Two stored responses never share an mRID. *)
LEMMA MRIDsDiffer ==
    ASSUME Sound, NEW q \in Requests, NEW i \in Ids, NEW j \in Ids, i # j, resp[q][j].mrid # NoMRID
    PROVE  resp[q][i].mrid # resp[q][j].mrid
  <1>1. Minted BY DEF Sound
  <1> QED BY <1>1 DEF Minted
=============================================================================
