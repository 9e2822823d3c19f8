----------------------- MODULE DERControlIssuerProofs -----------------------
(***************************************************************************)
(* Proofs about the issuer of DER controls: its scope locks never close a  *)
(* ring of waiting calls, a recorded cancellation is never lost, and a     *)
(* scope whose program was removed holds no live control.                  *)
(***************************************************************************)
EXTENDS DERControlIssuer, FiniteSetTheorems, SequenceTheorems, WellFoundedInduction, TLAPS

(* The prover of every leaf that names no other. *)
USE Zenon

(* A finite, nonempty set of integers has a least and a greatest element. *)
LEMMA MaxOf ==
    ASSUME NEW S \in SUBSET Int, IsFiniteSet(S), S # {}
    PROVE  Max(S) \in S /\ \A y \in S : Max(S) >= y
<1> DEFINE Above(x) == {t \in S : t > x}
           T == {Above(x) : x \in S}
<1>1. IsWellFoundedOn(StrictSubsetOrdering(S), SUBSET S)
    BY FS_StrictSubsetOrderingWellFounded, FS_FiniteSubsetsOfFinite
<1>2. PICK u \in T : \A v \in T : <<v, u>> \notin StrictSubsetOrdering(S)
    <2>1. T \subseteq SUBSET S /\ T # {} OBVIOUS
    <2> QED BY <1>1, <2>1, WFMin
<1>3. PICK x \in S : u = Above(x) OBVIOUS
<1>4. \A y \in S : x >= y
    <2> SUFFICES ASSUME NEW y \in S, y > x PROVE FALSE BY SMT
    <2>1. Above(y) \in T /\ u \subseteq S /\ y \in u BY <1>3
    <2>2. y \notin Above(y) /\ \A t \in S : t > y => t > x BY SMT
    <2>3. Above(y) \subseteq u BY <1>3, <2>2
    <2> QED BY <1>2, <2>1, <2>2, <2>3 DEF StrictSubsetOrdering
<1> QED BY <1>4 DEF Max

LEMMA MinOf ==
    ASSUME NEW S \in SUBSET Int, IsFiniteSet(S), S # {}
    PROVE  Min(S) \in S /\ \A y \in S : Min(S) <= y
<1> DEFINE Below(x) == {t \in S : t < x}
           T == {Below(x) : x \in S}
<1>1. IsWellFoundedOn(StrictSubsetOrdering(S), SUBSET S)
    BY FS_StrictSubsetOrderingWellFounded, FS_FiniteSubsetsOfFinite
<1>2. PICK u \in T : \A v \in T : <<v, u>> \notin StrictSubsetOrdering(S)
    <2>1. T \subseteq SUBSET S /\ T # {} OBVIOUS
    <2> QED BY <1>1, <2>1, WFMin
<1>3. PICK x \in S : u = Below(x) OBVIOUS
<1>4. \A y \in S : x <= y
    <2> SUFFICES ASSUME NEW y \in S, y < x PROVE FALSE BY SMT
    <2>1. Below(y) \in T /\ u \subseteq S /\ y \in u BY <1>3
    <2>2. y \notin Below(y) /\ \A t \in S : t < y => t < x BY SMT
    <2>3. Below(y) \subseteq u BY <1>3, <2>2
    <2> QED BY <1>2, <2>1, <2>2, <2>3 DEF StrictSubsetOrdering
<1> QED BY <1>4 DEF Min

(* A finite set can be listed. *)
LEMMA ListingsExist ==
    ASSUME NEW S, IsFiniteSet(S)
    PROVE  Listings(S) # {} /\ \A q \in Listings(S) : q \in Seq(S) /\ Len(q) = Cardinality(S)
<1>1. PICK n \in Nat : ExistsBijection(1..n, S) BY FS_NatBijection
<1>2. Cardinality(S) = n BY <1>1, FS_CountingElements
<1>3. PICK f : f \in Bijection(1..n, S) BY <1>1 DEF ExistsBijection
<1>4. f \in Listings(S)
    BY <1>2, <1>3 DEF Listings, Bijection, Injection, Surjection, IsInjective
<1>5. \A q \in Listings(S) : q \in [1..n -> S] BY <1>2 DEF Listings
<1> QED BY <1>2, <1>4, <1>5, SMT

LEMMA InOrderLists ==
    ASSUME NEW S, IsFiniteSet(S)
    PROVE  InOrder(S) \in Listings(S)
<1> DEFINE sorted == {q \in Listings(S) : \A i, j \in DOMAIN q : i < j => q[i] < q[j]}
<1>1. \E q \in Listings(S) : sorted # {} => q \in sorted BY ListingsExist
<1> HIDE DEF sorted
<1>2. (CHOOSE q \in Listings(S) : sorted # {} => q \in sorted) \in Listings(S) BY <1>1
<1> QED BY <1>2 DEF InOrder, sorted

LEMMA ByCreationLists ==
    ASSUME NEW S, IsFiniteSet(S)
    PROVE  ByCreation(S) \in Listings(S)
<1> DEFINE sorted == {q \in Listings(S) : \A i, j \in DOMAIN q : i < j => event[q[i]].created <= event[q[j]].created}
<1>1. \E q \in Listings(S) : sorted # {} => q \in sorted BY ListingsExist
<1> HIDE DEF sorted
<1>2. (CHOOSE q \in Listings(S) : sorted # {} => q \in sorted) \in Listings(S) BY <1>1
<1> QED BY <1>2 DEF ByCreation, sorted
----------------------------------------------------------------------------
(* The inductive invariant. *)

Lives == [cancelled : BOOLEAN, at : Int, by : Int, kept : BOOLEAN]
Open == {l \in Lives : ~l.cancelled}
Events == [created : Int, start : Int, end : Int, set : STRING \cup {"none"}, alone : BOOLEAN]

(* The copies a call may write or undo: in a scope of H, of a control of M,  *)
(* with lifecycle records that are not cancelled, where by L neither the     *)
(* control nor a candidate is cancelled.                                     *)
Copies(H, L, M) ==
    {cp \in [s : H, id : M, cands : SUBSET Ids, before : UNION {[D -> Open] : D \in SUBSET Ids},
             link : Open, ctl : BOOLEAN] :
        /\ cp.cands \subseteq DOMAIN cp.before
        /\ \A e \in cp.cands \cup {cp.id} : ~L[cp.s][e].cancelled}

Items(C, M) == [id : M, rec : BOOLEAN, copies : Seq(C) \ {<<>>}]
Units(C) == [own : BOOLEAN, copies : Seq(C), rec : Nat]

(* The undo of a failed copy comes first, and before that of its item. *)
OwnIsFirst(c) == \A i \in DOMAIN c.units : c.units[i].own => i = 1 /\ (c.op # "replicate" => Len(c.units) > 1)

Writing == {"life", "ctl", "mark"}

(* What a caller has in hand, C being the copies it may hold. *)
WorkOK(C, M, c) ==
    /\ c.todo \in Seq(C) /\ c.written \in Seq(C) /\ c.finished \in Seq(Items(C, M)) /\ c.units \in Seq(Units(C))
    /\ OwnIsFirst(c) /\ c.at \in Nat
    /\ c.op = "issue" => /\ c.batch \in Batches /\ \A i \in DOMAIN c.batch : c.batch[i].targets \subseteq c.scopes
                         /\ c.items \in Seq(Items(C, M))
    /\ c.op = "replicate" => c.items \in Seq(M)
    /\ c.step = "record" => c.op = "issue"
    /\ c.step \in Writing => c.op \in {"issue", "replicate"} /\ c.todo # <<>> /\ c.items # <<>>
    /\ c.marked \subseteq (IF c.step = "mark" THEN Head(c.todo).cands ELSE {})

(* The scopes a caller holds whose program is stored, or was taken back. *)
Fit(p) == {s \in Scopes : lock[s] = p /\ s \in prog \cup torn}
Good(p) == Copies(Fit(p), life, Minted)

(* A call holds the scopes it has locked, and they come before the rest. *)
LocksOK ==
    /\ DOMAIN call = Callers /\ lock \in [Scopes -> Callers \cup {Nobody}]
    /\ \A p \in Callers :
         LET c == call[p] IN
         /\ DOMAIN c = DOMAIN Idle
         /\ c.want \subseteq c.scopes /\ c.scopes \subseteq Scopes /\ (c.step # "lock" => c.want = {})
         /\ (c.op = "replicate" /\ c.step # "rollback" => c.scopes # {})
         /\ \A s \in Scopes : lock[s] = p <=> c.step \notin {"idle", "rollback"} /\ s \in c.scopes \ c.want
         /\ \A s \in c.scopes \ c.want, t \in c.want : s < t

EventsOK ==
    /\ now \in Nat /\ event \in [Ids -> Events] /\ \E n \in 0..MaxEvents : Minted = 1..n
    /\ rec \subseteq Minted /\ stored \in [Scopes -> SUBSET Minted]

LivesOK ==
    /\ life \in [Scopes -> [Ids -> Lives]]
    /\ \A s \in Scopes, e \in Ids : life[s][e].cancelled => e \in stored[s]

IssuerInv ==
    /\ LocksOK /\ EventsOK /\ LivesOK /\ RetiredHasNoLive
    /\ \A p \in Callers : WorkOK(Good(p), Minted, call[p])

(* Among the calls that wait, the holder of the greatest scope waited for    *)
(* waits for a greater one still.                                            *)
LEMMA LocksOKPass == ASSUME LocksOK PROVE LocksPass
<1> DEFINE Waits(p) == call[p].step = "lock" /\ call[p].want # {} /\ lock[Min(call[p].want)] # Nobody
           Busy == {p \in Callers : call[p].step # "idle"}
           B == {Min(call[p].want) : p \in Busy}
<1>1. SUFFICES ASSUME Busy # {}, \A p \in Busy : Waits(p) PROVE FALSE BY DEF LocksPass
<1>2. Scopes \subseteq Nat /\ IsFiniteSet(Scopes) /\ "nobody" \notin Callers BY IssuerAssumption
<1>3. ASSUME NEW p \in Busy PROVE Min(call[p].want) \in call[p].want /\ call[p].want \subseteq Scopes
    <2>1. call[p].want \subseteq Scopes /\ call[p].want # {} BY <1>1 DEF LocksOK
    <2> DEFINE W == call[p].want
    <2> HIDE DEF W
    <2>2. W \subseteq Scopes /\ W # {} BY <2>1 DEF W
    <2>3. W \in SUBSET Int BY <1>2, <2>2, SMT
    <2>4. IsFiniteSet(W) BY <1>2, <2>2, FS_Subset
    <2>5. Min(W) \in W BY <2>2, <2>3, <2>4, MinOf
    <2> QED BY <2>1, <2>5 DEF W
<1>4. B \subseteq Scopes /\ B # {} BY <1>1, <1>3
<1> HIDE DEF B
<1>5. B \in SUBSET Int BY <1>2, <1>4, SMT
<1>6. IsFiniteSet(B) BY <1>2, <1>4, FS_Subset
<1> DEFINE m == Max(B)
           q == lock[m]
<1>7. m \in B /\ \A y \in B : m >= y BY <1>4, <1>5, <1>6, MaxOf
<1> HIDE DEF m
<1>8. PICK p \in Busy : m = Min(call[p].want) BY <1>7 DEF B
<1>9. m \in Scopes /\ q # Nobody BY <1>1, <1>4, <1>7, <1>8
<1>10. q \in Callers BY <1>9, SMT DEF LocksOK
<1>11. q \in Busy /\ m \in call[q].scopes \ call[q].want BY <1>9, <1>10 DEF LocksOK
<1>12. \A t \in call[q].want : m < t BY <1>10, <1>11 DEF LocksOK
<1>13. Min(call[q].want) \in B BY <1>11 DEF B
<1>14. m < Min(call[q].want) BY <1>3, <1>11, <1>12
<1> HIDE DEF q
<1>15. m \in Int /\ Min(call[q].want) \in Int /\ m >= Min(call[q].want) BY <1>5, <1>7, <1>13
<1> QED BY <1>14, <1>15, SMT
----------------------------------------------------------------------------
(* What one caller may hold grows with its scopes and with the controls. *)
LEMMA CopiesGrow ==
    ASSUME NEW H, NEW H1, H \subseteq H1, NEW L, NEW L1, NEW M, NEW M1, M \subseteq M1, M \subseteq Ids,
           \A s \in H, e \in Ids : L1[s][e].cancelled => L[s][e].cancelled
    PROVE  Copies(H, L, M) \subseteq Copies(H1, L1, M1)
BY DEF Copies

LEMMA WorkGrows ==
    ASSUME NEW C, NEW C1, C \subseteq C1, NEW M, NEW M1, M \subseteq M1, NEW c, WorkOK(C, M, c)
    PROVE  WorkOK(C1, M1, c)
<1>1. \A x \in Seq(C) : x \in Seq(C1) BY SeqMonotonic
<1>2. \A x \in Seq(M) : x \in Seq(M1) BY SeqMonotonic
<1>3. Items(C, M) \subseteq Items(C1, M1) BY <1>1 DEF Items
<1>4. Units(C) \subseteq Units(C1) BY <1>1 DEF Units
<1>5. (\A x \in Seq(Items(C, M)) : x \in Seq(Items(C1, M1))) /\ (\A x \in Seq(Units(C)) : x \in Seq(Units(C1)))
    BY <1>3, <1>4, SeqMonotonic
<1> QED BY <1>1, <1>2, <1>5 DEF WorkOK
----------------------------------------------------------------------------
(* A step of a call that keeps its locks: d is what it has in hand next.     *)
(* Only the scopes it holds change, and no cancellation does.                *)
Off == {"idle", "rollback", "lock"}

Goes(p, d) ==
    /\ call' = [call EXCEPT ![p] = d] /\ DOMAIN d = DOMAIN Idle
    /\ d.scopes = call[p].scopes /\ d.want = call[p].want /\ d.op = call[p].op
    /\ call[p].step \notin Off /\ d.step \notin Off

Carries(p, d) ==
    /\ Goes(p, d) /\ UNCHANGED <<now, prog, torn, lock>>
    /\ WorkOK(Copies(Fit(p), life, Minted'), Minted', d)
    /\ EventsOK' /\ LivesOK' /\ \A e \in Minted : event'[e] = event[e]
    /\ \A s \in Scopes : s \notin Fit(p) => life'[s] = life[s] /\ stored'[s] = stored[s]
    /\ \A s \in Scopes, e \in Ids : life'[s][e].cancelled = life[s][e].cancelled

LEMMA MintedStay ==
    ASSUME \A e \in Minted : event'[e] = event[e]
    PROVE  Minted \subseteq Minted'
BY DEF Minted

(* What the others have in hand stays good. *)
LEMMA WorkStays ==
    ASSUME IssuerInv, NEW q \in Callers, call'[q] = call[q], Minted \subseteq Minted', Fit(q) \subseteq Fit(q)',
           \A s \in Fit(q), e \in Ids : life'[s][e].cancelled => life[s][e].cancelled
    PROVE  WorkOK(Good(q)', Minted', call'[q])
<1>1. Minted \subseteq Ids BY DEF Minted
<1>2. Copies(Fit(q), life, Minted) \subseteq Copies(Fit(q)', life', Minted') BY <1>1, CopiesGrow
<1>3. WorkOK(Good(q), Minted, call'[q]) BY DEF IssuerInv
<1> QED BY <1>2, <1>3, WorkGrows DEF Good

LEMMA RetiredStays ==
    ASSUME RetiredHasNoLive, EventsOK, LivesOK, LivesOK', prog \cup torn \subseteq prog' \cup torn', now' = now,
           \A e \in Minted : event'[e] = event[e],
           \A s \in Scopes \ (prog \cup torn) : life'[s] = life[s] /\ stored'[s] = stored[s]
    PROVE  RetiredHasNoLive'
<1> SUFFICES ASSUME NEW s \in Scopes \ (prog' \cup torn'), NEW e \in stored'[s] PROVE Retired(s, e, now)' BY DEF RetiredHasNoLive
<1>1. s \in Scopes \ (prog \cup torn) /\ e \in stored[s] /\ life'[s] = life[s] OBVIOUS
<1>2. e \in Minted BY <1>1 DEF EventsOK
<1>3. Retired(s, e, now) BY <1>1 DEF RetiredHasNoLive
<1> QED BY <1>1, <1>2, <1>3 DEF Retired

LEMMA CarriesKeeps == ASSUME IssuerInv, NEW p \in Callers, NEW d, Carries(p, d) PROVE IssuerInv'
<1>1. DOMAIN call = Callers /\ lock \in [Scopes -> Callers \cup {Nobody}] BY DEF IssuerInv, LocksOK
<1>2. call'[p] = d /\ DOMAIN call' = Callers /\ \A q \in Callers \ {p} : call'[q] = call[q]
    BY <1>1 DEF Carries, Goes
<1>3. lock' = lock /\ prog' = prog /\ torn' = torn /\ now' = now /\ Minted \subseteq Minted'
    BY MintedStay DEF Carries
<1>4. \A q \in Callers : Fit(q)' = Fit(q) BY <1>3 DEF Fit
<1>5. LocksOK'
    <2>1. ASSUME NEW q \in Callers
          PROVE  /\ DOMAIN call'[q] = DOMAIN Idle
                 /\ call'[q].want = call[q].want /\ call'[q].scopes = call[q].scopes
                 /\ (call'[q].op = "replicate" /\ call'[q].step # "rollback" => call'[q].scopes # {})
                 /\ call'[q].step = "lock" <=> call[q].step = "lock"
                 /\ call'[q].step \in {"idle", "rollback"} <=> call[q].step \in {"idle", "rollback"}
        <3>1. CASE q = p
            <4>1. /\ DOMAIN d = DOMAIN Idle /\ d.want = call[p].want /\ d.scopes = call[p].scopes /\ d.op = call[p].op
                  /\ call[p].step \notin Off /\ d.step \notin Off
                BY DEF Carries, Goes
            <4>2. call[p].op = "replicate" /\ call[p].step # "rollback" => call[p].scopes # {}
                BY DEF IssuerInv, LocksOK
            <4> QED BY <1>2, <3>1, <4>1, <4>2 DEF Off
        <3>2. CASE q # p BY <1>2, <3>2 DEF IssuerInv, LocksOK
        <3> QED BY <3>1, <3>2
    <2>2. LocksOK BY DEF IssuerInv
    <2> QED BY <1>2, <1>3, <2>1, <2>2 DEF LocksOK
<1>6. EventsOK' /\ LivesOK' BY DEF Carries
<1>7. RetiredHasNoLive'
    <2>1. \A s \in Scopes \ (prog \cup torn) : life'[s] = life[s] /\ stored'[s] = stored[s] BY DEF Carries, Fit
    <2>2. \A e \in Minted : event'[e] = event[e] BY DEF Carries
    <2> QED BY <1>3, <1>6, <2>1, <2>2, RetiredStays DEF IssuerInv
<1>8. ASSUME NEW q \in Callers PROVE WorkOK(Good(q)', Minted', call'[q])
    <2>1. \A s \in Fit(q), e \in Ids : life'[s][e].cancelled => life[s][e].cancelled BY DEF Carries, Fit
    <2>2. CASE q # p BY <1>2, <1>3, <1>4, <2>1, <2>2, WorkStays
    <2>3. CASE q = p
        <3>1. Copies(Fit(p), life, Minted') \subseteq Copies(Fit(p)', life', Minted')
            <4>1. Minted' \subseteq Ids BY DEF Minted
            <4> QED BY <1>3, <1>4, <2>1, <2>3, <4>1, CopiesGrow
        <3>2. WorkOK(Copies(Fit(p), life, Minted'), Minted', d) BY DEF Carries
        <3> QED BY <1>2, <2>3, <3>1, <3>2, WorkGrows DEF Good
    <2> QED BY <2>2, <2>3
<1> QED BY <1>5, <1>6, <1>7, <1>8 DEF IssuerInv
----------------------------------------------------------------------------
(* The undo that a failed write starts. *)
LEMMA NewestFirstIn ==
    ASSUME NEW S, NEW q \in Seq(S)
    PROVE  NewestFirst(q) \in Seq(S) /\ Len(NewestFirst(q)) = Len(q)
BY SMT DEF NewestFirst

LEMMA OneIn ==
    ASSUME NEW S, NEW u \in S
    PROVE  <<u>> \in Seq(S) /\ Len(<<u>>) = 1 /\ Head(<<u>>) = u /\ <<u>> # <<>>
BY SMT

LEMMA UnitFields ==
    ASSUME NEW own, NEW x, NEW r
    PROVE  /\ DOMAIN Unit(own, x, r) = {"own", "copies", "rec"}
           /\ Unit(own, x, r).own = own /\ Unit(own, x, r).copies = x /\ Unit(own, x, r).rec = r
BY DEF Unit

LEMMA ConcatIn ==
    ASSUME NEW S, NEW x \in Seq(S), NEW y \in Seq(S)
    PROVE  x \o y \in Seq(S) /\ Len(x \o y) = Len(x) + Len(y)
BY ConcatProperties

LEMMA ItemParts ==
    ASSUME NEW C, NEW M, NEW i \in Items(C, M)
    PROVE  DOMAIN i = {"id", "rec", "copies"} /\ i.id \in M /\ i.rec \in BOOLEAN /\ i.copies \in Seq(C) /\ i.copies # <<>>
BY DEF Items

NotOwn(C) == {u \in Units(C) : ~u.own}

LEMMA UnitIn ==
    ASSUME NEW C, NEW x \in Seq(C), NEW r \in Nat, NEW own \in BOOLEAN
    PROVE  Unit(own, x, r) \in Units(C)
BY DEF Unit, Units

(* What is undone when the call of c fails, own having been written by the  *)
(* copy that failed.                                                        *)
LEMMA UndoUnits ==
    ASSUME NEW C, NEW first, NEW rest, NEW x, rest \in Seq(NotOwn(C)),
           first = <<>> \/ (first = <<Unit(TRUE, x, NoId)>> /\ x \in Seq(C))
    PROVE  /\ first \o rest \in Seq(Units(C))
           /\ \A i \in DOMAIN (first \o rest) : (first \o rest)[i].own => i = 1 /\ first # <<>>
           /\ first # <<>> => Len(first \o rest) = 1 + Len(rest)
<1>2. NotOwn(C) \subseteq Units(C) BY DEF NotOwn
<1>3. rest \in Seq(Units(C)) BY <1>2, SeqMonotonic
<1>4. \A i \in 1..Len(rest) : ~rest[i].own
    <2> SUFFICES ASSUME NEW i \in 1..Len(rest) PROVE ~rest[i].own OBVIOUS
    <2>1. rest[i] \in NotOwn(C) BY ElementOfSeq
    <2> QED BY <2>1 DEF NotOwn
<1>5. CASE first = <<>>
    <2>1. first \o rest = rest BY <1>3, <1>5, ConcatEmptySeq
    <2>2. DOMAIN rest = 1..Len(rest) BY <1>3, LenProperties
    <2> QED BY <1>3, <1>4, <1>5, <2>1, <2>2
<1>6. CASE first = <<Unit(TRUE, x, NoId)>> /\ x \in Seq(C)
    <2> DEFINE u == Unit(TRUE, x, NoId)
    <2>0. NoId \in Nat /\ TRUE \in BOOLEAN BY DEF NoId
    <2>1. u \in Units(C) BY <1>6, <2>0, UnitIn
    <2> HIDE DEF u
    <2> DEFINE U == Units(C)
    <2> HIDE DEF U
    <2>2. first = <<u>> /\ u \in U /\ rest \in Seq(U) BY <1>3, <1>6, <2>1 DEF u, U
    <2>a. first \in Seq(U) /\ Len(first) = 1 BY <2>2, OneIn
    <2>b. first \o rest \in Seq(U) /\ Len(first \o rest) = Len(first) + Len(rest) BY <2>2, <2>a, ConcatIn
    <2>3. first \o rest \in Seq(U) /\ Len(first \o rest) = 1 + Len(rest) BY <2>a, <2>b
    <2>4. \A i \in 1..Len(first \o rest) : i # 1 => i - 1 \in 1..Len(rest) /\ (first \o rest)[i] = rest[i - 1] BY <2>2, SMT
    <2>5. DOMAIN (first \o rest) = 1..Len(first \o rest) BY <2>3, SMT
    <2>6. first # <<>> BY <2>2, SMT
    <2>7. \A i \in DOMAIN (first \o rest) : (first \o rest)[i].own => i = 1 BY <1>4, <2>4, <2>5
    <2> QED BY <2>3, <2>6, <2>7 DEF U
<1> QED BY <1>5, <1>6

CallFields == {"op", "step", "batch", "at", "want", "scopes", "ids", "items", "todo", "written", "marked",
               "finished", "units", "bad", "kept", "fresh"}

LEMMA IdleFields == DOMAIN Idle = CallFields BY DEF Idle, CallFields

(* d is c on its way to undo. *)
Undoes(c, d) ==
    /\ DOMAIN d = CallFields /\ d.scopes = c.scopes /\ d.want = c.want /\ d.op = c.op /\ d.step = "undo"

LEMMA UndoGood ==
    ASSUME NEW C, NEW M \in SUBSET Nat, NEW c, DOMAIN c = CallFields, WorkOK(C, M, c), c.op \in {"issue", "replicate"},
           NEW own \in Seq(C), own # <<>> => c.op = "replicate" \/ c.items # <<>>,
           NEW p, Undo(p, c, own)
    PROVE  \E d : call' = [call EXCEPT ![p] = d] /\ Undoes(c, d) /\ WorkOK(C, M, d)
<1> DEFINE RecordOf(i) == IF i.rec THEN i.id ELSE NoId
           cur == IF c.op = "replicate" THEN <<Unit(FALSE, NewestFirst(c.written), NoId)>>
                  ELSE IF c.items = <<>> THEN <<>>
                  ELSE <<Unit(FALSE, NewestFirst(c.written), RecordOf(Head(c.items)))>>
           done == [k \in DOMAIN c.finished |-> Unit(FALSE, NewestFirst(c.finished[k].copies), RecordOf(c.finished[k]))]
           first == IF own = <<>> THEN <<>> ELSE <<Unit(TRUE, own, NoId)>>
           N == NotOwn(C)
           d == [c EXCEPT !.step = "undo", !.todo = <<>>, !.marked = {}, !.units = first \o cur \o NewestFirst(done)]
<1>0. call' = [call EXCEPT ![p] = d] BY DEF Undo, Set
<1>a. c.written \in Seq(C) /\ c.finished \in Seq(Items(C, M)) /\ (c.op = "issue" => c.items \in Seq(Items(C, M)))
    BY DEF WorkOK
<1>b. ASSUME NEW x \in Seq(C), NEW r \in Nat PROVE Unit(FALSE, NewestFirst(x), r) \in N
    <2>1. NewestFirst(x) \in Seq(C) BY NewestFirstIn
    <2>2. Unit(FALSE, NewestFirst(x), r) \in Units(C) BY <2>1, UnitIn
    <2>3. ~Unit(FALSE, NewestFirst(x), r).own BY UnitFields
    <2> QED BY <2>2, <2>3 DEF NotOwn
<1>d. NoId \in Nat BY SMT DEF NoId
<1>c. \A i \in Items(C, M) : RecordOf(i) \in Nat /\ i.copies \in Seq(C) BY <1>d, ItemParts
<1> HIDE DEF N, RecordOf
<1>1. cur \in Seq(N) /\ (c.items # <<>> \/ c.op = "replicate" => Len(cur) = 1)
    <2>1. CASE c.op = "replicate" BY <1>a, <1>b, <1>d, <2>1, OneIn
    <2>2. CASE c.op # "replicate" /\ c.items = <<>> BY <2>2, EmptySeq
    <2>3. CASE c.op # "replicate" /\ c.items # <<>>
        <3>1. Head(c.items) \in Items(C, M) BY <1>a, <2>3, HeadTailProperties
        <3> QED BY <1>a, <1>b, <1>c, <2>3, <3>1, OneIn
    <2> QED BY <2>1, <2>2, <2>3
<1>2. done \in Seq(N)
    <2>1. DOMAIN c.finished = 1..Len(c.finished) /\ Len(c.finished) \in Nat BY <1>a, LenProperties
    <2>2. \A k \in 1..Len(c.finished) : c.finished[k] \in Items(C, M) BY <1>a, ElementOfSeq
    <2>3. \A k \in 1..Len(c.finished) : done[k] \in N BY <1>b, <1>c, <2>1, <2>2
    <2>4. DOMAIN done = 1..Len(c.finished) /\ done = [k \in DOMAIN done |-> done[k]] BY <2>1
    <2> HIDE DEF done
    <2>5. done \in [1..Len(c.finished) -> N] BY <2>3, <2>4
    <2> QED BY <2>1, <2>5, SeqDef
<1> HIDE DEF cur, done
<1> DEFINE rest == cur \o NewestFirst(done)
<1>3. rest \in Seq(N) /\ Len(rest) = Len(cur) + Len(done) /\ Len(done) \in Nat
    <2>1. NewestFirst(done) \in Seq(N) /\ Len(NewestFirst(done)) = Len(done) BY <1>2, NewestFirstIn
    <2>2. Len(done) \in Nat BY <1>2, LenProperties
    <2>3. cur \in Seq(N) BY <1>1
    <2> HIDE DEF rest
    <2> DEFINE R == NewestFirst(done)
    <2> HIDE DEF R
    <2>4. R \in Seq(N) /\ Len(R) = Len(done) BY <2>1 DEF R
    <2>5. cur \o R \in Seq(N) /\ Len(cur \o R) = Len(cur) + Len(R) BY <2>3, <2>4, ConcatIn
    <2>6. rest = cur \o R BY DEF rest, R
    <2> QED BY <2>2, <2>4, <2>5, <2>6
<1>4. first \o cur \o NewestFirst(done) = first \o rest
    <2>1. NewestFirst(done) \in Seq(Units(C)) /\ cur \in Seq(Units(C))
        <3>1. N \subseteq Units(C) BY DEF N, NotOwn
        <3>2. NewestFirst(done) \in Seq(N) BY <1>2, NewestFirstIn
        <3> QED BY <1>1, <3>1, <3>2, SeqMonotonic
    <2>2. first \in Seq(Units(C)) BY <1>d, UnitIn, OneIn, EmptySeq
    <2> HIDE DEF first
    <2> HIDE DEF rest
    <2> DEFINE R == NewestFirst(done)
               U == Units(C)
    <2>3. R \in Seq(U) /\ cur \in Seq(U) /\ first \in Seq(U) BY <2>1, <2>2
    <2>4. rest = cur \o R BY DEF rest
    <2> HIDE DEF R, U
    <2>5. (first \o cur) \o R = first \o (cur \o R)
        <3>1. ASSUME NEW x \in Seq(U), NEW y \in Seq(U), NEW z \in Seq(U) PROVE (x \o y) \o z = x \o (y \o z) BY SMT
        <3> QED BY <2>3, <3>1
    <2> QED BY <2>4, <2>5 DEF R
<1>5. first = <<>> \/ (first = <<Unit(TRUE, own, NoId)>> /\ own \in Seq(C)) OBVIOUS
<1>6. first # <<>> => own # <<>> OBVIOUS
<1> HIDE DEF first, rest
<1>7. /\ first \o rest \in Seq(Units(C))
      /\ \A i \in DOMAIN (first \o rest) : (first \o rest)[i].own => i = 1 /\ first # <<>>
      /\ first # <<>> => Len(first \o rest) = 1 + Len(rest)
    <2>1. rest \in Seq(NotOwn(C)) BY <1>3 DEF N
    <2> QED BY <1>5, <2>1, UndoUnits
<1>8. /\ DOMAIN d = CallFields /\ d.step = "undo" /\ d.todo = <<>> /\ d.marked = {} /\ d.units = first \o rest
      /\ d.op = c.op /\ d.batch = c.batch /\ d.at = c.at /\ d.want = c.want /\ d.scopes = c.scopes /\ d.items = c.items
      /\ d.written = c.written /\ d.finished = c.finished
    BY <1>4 DEF CallFields
<1> HIDE DEF d
<1>9. OwnIsFirst(d)
    <2> SUFFICES ASSUME NEW i \in DOMAIN d.units, d.units[i].own, c.op # "replicate" PROVE Len(d.units) > 1
        BY <1>7, <1>8 DEF OwnIsFirst
    <2>1. first # <<>> BY <1>7, <1>8
    <2>2. Len(cur) = 1 BY <1>1, <1>6, <2>1
    <2>3. Len(d.units) = 1 + (1 + Len(done)) BY <1>3, <1>7, <1>8, <2>1, <2>2
    <2> QED BY <1>3, <2>3, SMT
<1>10. WorkOK(C, M, d)
    <2>1. <<>> \in Seq(C) BY EmptySeq
    <2> QED BY <1>7, <1>8, <1>9, <2>1 DEF WorkOK, Writing
<1> QED BY <1>0, <1>8, <1>10 DEF Undoes
----------------------------------------------------------------------------
(* What a call under way knows. *)
LEMMA Holding ==
    ASSUME IssuerInv, NEW p \in Callers
    PROVE  /\ DOMAIN call[p] = CallFields /\ WorkOK(Good(p), Minted, call[p]) /\ Minted \subseteq Ids /\ Minted \in SUBSET Nat
           /\ DOMAIN call = Callers
           /\ call[p].step \notin Off => call[p].want = {} /\ \A s \in call[p].scopes : s \in Scopes /\ lock[s] = p
           /\ call[p].op = "replicate" /\ call[p].step # "rollback" => call[p].scopes # {}
<1>1. Minted \subseteq Ids /\ Ids \subseteq Nat BY IssuerAssumption, SMT DEF Minted, Ids
<1>2. DOMAIN call[p] = CallFields /\ DOMAIN call = Callers BY IdleFields DEF IssuerInv, LocksOK
<1>3. WorkOK(Good(p), Minted, call[p]) BY DEF IssuerInv
<1>4. call[p].step \notin Off => call[p].want = {} /\ \A s \in call[p].scopes : s \in Scopes /\ lock[s] = p
    BY DEF IssuerInv, LocksOK, Off
<1>5. call[p].op = "replicate" /\ call[p].step # "rollback" => call[p].scopes # {} BY DEF IssuerInv, LocksOK
<1> QED BY <1>1, <1>2, <1>3, <1>4, <1>5

LEMMA CopyParts ==
    ASSUME NEW H, NEW L, NEW M, NEW cp \in Copies(H, L, M)
    PROVE  /\ DOMAIN cp = {"s", "id", "cands", "before", "link", "ctl"}
           /\ cp.s \in H /\ cp.id \in M /\ cp.cands \subseteq Ids /\ cp.link \in Open /\ cp.ctl \in BOOLEAN
           /\ \A e \in cp.cands : cp.before[e] \in Open
           /\ ~L[cp.s][cp.id].cancelled /\ \A e \in cp.cands : ~L[cp.s][e].cancelled
<1>1. /\ cp.s \in H /\ cp.id \in M /\ cp.cands \subseteq Ids /\ cp.link \in Open /\ cp.ctl \in BOOLEAN
      /\ DOMAIN cp = {"s", "id", "cands", "before", "link", "ctl"}
      /\ cp.before \in UNION {[D -> Open] : D \in SUBSET Ids} /\ cp.cands \subseteq DOMAIN cp.before
      /\ \A e \in cp.cands \cup {cp.id} : ~L[cp.s][e].cancelled
    BY DEF Copies
<1>2. \A e \in cp.cands : cp.before[e] \in Open
    <2>1. PICK D \in SUBSET Ids : cp.before \in [D -> Open] BY <1>1
    <2>2. DOMAIN cp.before = D BY <2>1
    <2> QED BY <1>1, <2>1, <2>2
<1> QED BY <1>1, <1>2

LEMMA CopyLess ==
    ASSUME NEW H, NEW L, NEW M, NEW cp \in Copies(H, L, M), NEW D \in SUBSET cp.cands, NEW b \in BOOLEAN
    PROVE  /\ [cp EXCEPT !.cands = D] \in Copies(H, L, M) /\ [cp EXCEPT !.ctl = b] \in Copies(H, L, M)
           /\ [cp EXCEPT !.ctl = b, !.cands = D] \in Copies(H, L, M)
<1> DEFINE R == [s : H, id : M, cands : SUBSET Ids, before : UNION {[K -> Open] : K \in SUBSET Ids}, link : Open, ctl : BOOLEAN]
<1>1. cp \in R /\ cp.cands \subseteq DOMAIN cp.before /\ \A e \in cp.cands \cup {cp.id} : ~L[cp.s][e].cancelled
    BY DEF Copies
<1>2. D \in SUBSET Ids BY <1>1
<1>3. ASSUME NEW k, DOMAIN k = DOMAIN cp, k.s = cp.s, k.id = cp.id, k.before = cp.before, k.link = cp.link,
             k.ctl \in BOOLEAN, k.cands \in SUBSET cp.cands, k \in R
      PROVE  k \in Copies(H, L, M)
    BY <1>1, <1>3 DEF Copies
<1>4. PICK k1 : k1 = [cp EXCEPT !.cands = D] OBVIOUS
<1>5. PICK k2 : k2 = [cp EXCEPT !.ctl = b] OBVIOUS
<1>6. PICK k3 : k3 = [cp EXCEPT !.ctl = b, !.cands = D] OBVIOUS
<1>7. k1 \in R /\ k2 \in R /\ k3 \in R BY <1>1, <1>2, <1>4, <1>5, <1>6
<1>8. DOMAIN cp = {"s", "id", "cands", "before", "link", "ctl"} /\ cp.ctl \in BOOLEAN BY <1>1
<1>9. k1 \in Copies(H, L, M) BY <1>3, <1>4, <1>7, <1>8
<1>10. k2 \in Copies(H, L, M) BY <1>3, <1>5, <1>7, <1>8
<1>11. k3 \in Copies(H, L, M) BY <1>3, <1>6, <1>7, <1>8
<1> QED BY <1>4, <1>5, <1>6, <1>9, <1>10, <1>11

(* The steps that leave the controls as planned. *)
LEMMA StoreCarries ==
    ASSUME IssuerInv, NEW p \in Callers, NEW d, Goes(p, d), WorkOK(Good(p), Minted, d),
           UNCHANGED <<now, prog, event, torn, lock>>,
           rec' \subseteq Minted, stored' \in [Scopes -> SUBSET Minted], life' \in [Scopes -> [Ids -> Lives]],
           \A s \in Scopes : s \notin Fit(p) => life'[s] = life[s] /\ stored'[s] = stored[s],
           \A s \in Scopes, e \in Ids : life'[s][e].cancelled = life[s][e].cancelled,
           \A s \in Scopes, e \in Ids : life[s][e].cancelled => e \in stored'[s]
    PROVE  Carries(p, d)
<1>1. Minted' = Minted BY DEF Minted
<1>2. EventsOK' BY <1>1 DEF EventsOK, IssuerInv
<1>3. LivesOK' BY DEF LivesOK
<1> QED BY <1>1, <1>2, <1>3 DEF Carries, Good

LEMMA CallCarries ==
    ASSUME IssuerInv, NEW p \in Callers, NEW d, Goes(p, d), WorkOK(Good(p), Minted, d),
           UNCHANGED <<now, prog, event, stored, life, torn, lock>>, rec' \subseteq Minted
    PROVE  Carries(p, d)
<1>1. /\ stored' \in [Scopes -> SUBSET Minted] /\ life' \in [Scopes -> [Ids -> Lives]]
      /\ \A s \in Scopes, e \in Ids : life[s][e].cancelled => e \in stored'[s]
    BY DEF IssuerInv, EventsOK, LivesOK
<1> QED BY <1>1, StoreCarries

LEMMA LifeCarries ==
    ASSUME IssuerInv, NEW p \in Callers, NEW d, Goes(p, d), WorkOK(Good(p), Minted, d),
           UNCHANGED <<now, prog, event, stored, rec, torn, lock>>,
           NEW t \in Fit(p), NEW f \in Ids, ~life[t][f].cancelled, NEW l \in Open, life' = [life EXCEPT ![t][f] = l]
    PROVE  Carries(p, d)
<1>1. life \in [Scopes -> [Ids -> Lives]] /\ stored' \in [Scopes -> SUBSET Minted] /\ rec' \subseteq Minted
    BY DEF IssuerInv, EventsOK, LivesOK
<1>2. t \in Scopes /\ l \in Lives /\ ~l.cancelled BY DEF Fit, Open
<1>3. /\ life' \in [Scopes -> [Ids -> Lives]]
      /\ \A s \in Scopes : s # t => life'[s] = life[s]
      /\ life'[t] = [life[t] EXCEPT ![f] = l]
    BY <1>1, <1>2, SMT
<1>4. \A s \in Scopes, e \in Ids : life'[s][e] = life[s][e] \/ (s = t /\ e = f /\ life'[s][e] = l)
    BY <1>1, <1>2, <1>3, SMT
<1>5. l.cancelled = FALSE /\ life[t][f].cancelled = FALSE
    BY <1>1, <1>2, SMT DEF Lives
<1>6. \A s \in Scopes, e \in Ids : life'[s][e].cancelled = life[s][e].cancelled BY <1>4, <1>5
<1>7. \A s \in Scopes, e \in Ids : life[s][e].cancelled => e \in stored'[s] BY DEF IssuerInv, LivesOK
<1>8. \A s \in Scopes : s \notin Fit(p) => life'[s] = life[s] /\ stored'[s] = stored[s] BY <1>3
<1>9. life' \in [Scopes -> [Ids -> Lives]] BY <1>3
<1>10. now' = now /\ prog' = prog /\ event' = event /\ torn' = torn /\ lock' = lock OBVIOUS
<1> QED BY <1>1, <1>6, <1>7, <1>8, <1>9, <1>10, StoreCarries

LEMMA StoredCarries ==
    ASSUME IssuerInv, NEW p \in Callers, NEW d, Goes(p, d), WorkOK(Good(p), Minted, d),
           UNCHANGED <<now, prog, event, life, rec, torn, lock>>,
           NEW t \in Fit(p), NEW X \in SUBSET Minted, stored' = [stored EXCEPT ![t] = X],
           \A e \in stored[t] \ X : ~life[t][e].cancelled
    PROVE  Carries(p, d)
<1>1. /\ stored \in [Scopes -> SUBSET Minted] /\ life' \in [Scopes -> [Ids -> Lives]] /\ rec' \subseteq Minted
      /\ \A s \in Scopes, e \in Ids : life[s][e].cancelled => e \in stored[s]
    BY DEF IssuerInv, EventsOK, LivesOK
<1>2. t \in Scopes BY DEF Fit
<1>3. stored' \in [Scopes -> SUBSET Minted] /\ stored'[t] = X /\ \A s \in Scopes : s # t => stored'[s] = stored[s]
    BY <1>1, <1>2, SMT
<1>4. \A s \in Scopes, e \in Ids : life[s][e].cancelled => e \in stored'[s] BY <1>1, <1>3
<1> QED BY <1>1, <1>3, <1>4, StoreCarries
----------------------------------------------------------------------------
(* The writes of a call. *)

LEMMA UndoCarries ==
    ASSUME IssuerInv, NEW p \in Callers, call[p].step \notin Off,
           NEW c, DOMAIN c = CallFields, WorkOK(Good(p), Minted, c), c.op \in {"issue", "replicate"},
           c.scopes = call[p].scopes, c.want = call[p].want, c.op = call[p].op,
           NEW own \in Seq(Good(p)), own # <<>> => c.op = "replicate" \/ c.items # <<>>,
           Undo(p, c, own), UNCHANGED <<now, prog, event, stored, life, rec, torn, lock>>
    PROVE  \E d : Carries(p, d)
<1>1. Minted \in SUBSET Nat BY Holding
<1>2. PICK d : call' = [call EXCEPT ![p] = d] /\ Undoes(c, d) /\ WorkOK(Good(p), Minted, d)
    BY <1>1, UndoGood
<1>3. Goes(p, d) BY <1>2, IdleFields DEF Goes, Undoes, Off
<1>4. rec' \subseteq Minted BY DEF IssuerInv, EventsOK
<1> QED BY <1>2, <1>3, <1>4, CallCarries

LEMMA WritingFacts ==
    ASSUME IssuerInv, NEW p \in Callers, call[p].step \in Writing
    PROVE  /\ call[p].step \notin Off /\ call[p].op \in {"issue", "replicate"}
           /\ call[p].items # <<>> /\ call[p].todo # <<>>
           /\ Head(call[p].todo) \in Good(p) /\ Tail(call[p].todo) \in Seq(Good(p))
<1>1. WorkOK(Good(p), Minted, call[p]) BY DEF IssuerInv
<1>2. /\ call[p].op \in {"issue", "replicate"} /\ call[p].items # <<>> /\ call[p].todo # <<>>
      /\ call[p].todo \in Seq(Good(p))
    BY <1>1 DEF WorkOK
<1>3. call[p].step \notin Off BY DEF Off, Writing
<1> QED BY <1>2, <1>3, HeadTailProperties

LEMMA WriteLifeCarries == ASSUME IssuerInv, NEW p \in Callers, WriteLife(p) PROVE \E d : Carries(p, d)
<1> DEFINE c == call[p]
           cp == Head(c.todo)
<1>1. c.step = "life" BY DEF WriteLife
<1>2. c.step \in Writing BY <1>1 DEF Writing
<1>3. /\ c.step \notin Off /\ c.op \in {"issue", "replicate"} /\ c.items # <<>> /\ c.todo # <<>> /\ cp \in Good(p)
    BY <1>2, WritingFacts
<1>4. DOMAIN c = CallFields /\ WorkOK(Good(p), Minted, c) /\ Minted \subseteq Ids BY Holding
<1>5. UNCHANGED <<now, prog, event, stored, rec, lock, torn>> BY DEF WriteLife
<1>6. CASE life' = [life EXCEPT ![cp.s][cp.id] = cp.link] /\ Set(p, [c EXCEPT !.step = "ctl"])
    <2>1. PICK d : d = [c EXCEPT !.step = "ctl"] OBVIOUS
    <2>2. /\ DOMAIN d = CallFields /\ d.step = "ctl" /\ d.todo = c.todo /\ d.marked = c.marked /\ d.units = c.units
          /\ d.op = c.op /\ d.batch = c.batch /\ d.at = c.at /\ d.want = c.want /\ d.scopes = c.scopes
          /\ d.items = c.items /\ d.written = c.written /\ d.finished = c.finished
        BY <1>4, <2>1 DEF CallFields
    <2>3. WorkOK(Good(p), Minted, d) BY <1>1, <1>2, <1>4, <2>2 DEF WorkOK, Writing, OwnIsFirst
    <2>4. Goes(p, d) BY <1>3, <1>6, <2>1, <2>2, IdleFields DEF Goes, Set, Off
    <2>a. cp \in Copies(Fit(p), life, Minted) BY <1>3 DEF Good
    <2>5. cp.s \in Fit(p) /\ cp.id \in Minted /\ ~life[cp.s][cp.id].cancelled /\ cp.link \in Open
        BY <2>a, CopyParts
    <2>6. cp.id \in Ids BY <1>4, <2>5
    <2> QED BY <1>5, <1>6, <2>3, <2>4, <2>5, <2>6, LifeCarries
<1>7. CASE Undo(p, c, <<>>) /\ life' = life
    <2>1. <<>> \in Seq(Good(p)) BY EmptySeq
    <2> QED BY <1>3, <1>4, <1>5, <1>7, <2>1, UndoCarries
<1> QED BY <1>6, <1>7 DEF WriteLife

LEMMA WriteControlCarries == ASSUME IssuerInv, NEW p \in Callers, WriteControl(p) PROVE \E d : Carries(p, d)
<1> DEFINE c == call[p]
           cp == Head(c.todo)
<1>1. c.step = "ctl" BY DEF WriteControl
<1>2. c.step \in Writing BY <1>1 DEF Writing
<1>3. /\ c.step \notin Off /\ c.op \in {"issue", "replicate"} /\ c.items # <<>> /\ c.todo # <<>> /\ cp \in Good(p)
    BY <1>2, WritingFacts
<1>4. DOMAIN c = CallFields /\ WorkOK(Good(p), Minted, c) /\ Minted \subseteq Ids BY Holding
<1>5. UNCHANGED <<now, prog, event, life, rec, lock, torn>> BY DEF WriteControl
<1>6. CASE stored' = [stored EXCEPT ![cp.s] = @ \cup {cp.id}] /\ Set(p, [c EXCEPT !.step = "mark"])
    <2>1. PICK d : d = [c EXCEPT !.step = "mark"] OBVIOUS
    <2>2. /\ DOMAIN d = CallFields /\ d.step = "mark" /\ d.todo = c.todo /\ d.marked = c.marked /\ d.units = c.units
          /\ d.op = c.op /\ d.batch = c.batch /\ d.at = c.at /\ d.want = c.want /\ d.scopes = c.scopes
          /\ d.items = c.items /\ d.written = c.written /\ d.finished = c.finished
        BY <1>4, <2>1 DEF CallFields
    <2>3. WorkOK(Good(p), Minted, d) BY <1>1, <1>2, <1>4, <2>2 DEF WorkOK, Writing, OwnIsFirst
    <2>4. Goes(p, d) BY <1>3, <1>6, <2>1, <2>2, IdleFields DEF Goes, Set, Off
    <2>5. cp.s \in Fit(p) /\ cp.id \in Minted BY <1>3, CopyParts DEF Good
    <2>6. stored \in [Scopes -> SUBSET Minted] /\ cp.s \in Scopes BY <2>5 DEF IssuerInv, EventsOK, Fit
    <2> DEFINE X == stored[cp.s] \cup {cp.id}
    <2>7. X \in SUBSET Minted /\ stored' = [stored EXCEPT ![cp.s] = X] BY <1>6, <2>5, <2>6
    <2>8. \A e \in stored[cp.s] \ X : ~life[cp.s][e].cancelled OBVIOUS
    <2> QED BY <1>5, <2>3, <2>4, <2>5, <2>7, <2>8, StoredCarries
<1>7. CASE Undo(p, c, <<[cp EXCEPT !.ctl = FALSE, !.cands = {}]>>) /\ stored' = stored
    <2>1. [cp EXCEPT !.ctl = FALSE, !.cands = {}] \in Good(p)
        <3>1. cp \in Copies(Fit(p), life, Minted) BY <1>3 DEF Good
        <3>2. {} \in SUBSET cp.cands /\ FALSE \in BOOLEAN OBVIOUS
        <3> QED BY <3>1, <3>2, CopyLess DEF Good
    <2> DEFINE own == <<[cp EXCEPT !.ctl = FALSE, !.cands = {}]>>
    <2>2. own \in Seq(Good(p)) BY <2>1, OneIn
    <2> HIDE DEF own
    <2> QED BY <1>3, <1>4, <1>5, <1>7, <2>2, UndoCarries DEF own
<1> QED BY <1>6, <1>7 DEF WriteControl

LEMMA MarkOpen ==
    ASSUME NEW b \in Open, NEW n \in Events, NEW id \in Int
    PROVE  Mark(b, n, id) \in Open
<1>1. n.start \in Int BY DEF Events
<1>2. b \in Lives /\ ~b.cancelled BY DEF Open
<1>3. PICK r : r = [b EXCEPT !.at = n.start, !.by = id] OBVIOUS
<1>4. r \in Lives /\ r.cancelled = b.cancelled BY <1>1, <1>2, <1>3 DEF Lives
<1> QED BY <1>2, <1>3, <1>4 DEF Mark, Open

LEMMA WriteMarkCarries == ASSUME IssuerInv, NEW p \in Callers, WriteMark(p) PROVE \E d : Carries(p, d)
<1> DEFINE c == call[p]
           cp == Head(c.todo)
<1>1. c.step = "mark" BY DEF WriteMark
<1>2. c.step \in Writing BY <1>1 DEF Writing
<1>3. /\ c.step \notin Off /\ c.op \in {"issue", "replicate"} /\ c.items # <<>> /\ c.todo # <<>> /\ cp \in Good(p)
    BY <1>2, WritingFacts
<1>4. DOMAIN c = CallFields /\ WorkOK(Good(p), Minted, c) /\ Minted \subseteq Ids /\ Minted \in SUBSET Nat BY Holding
<1>5. UNCHANGED <<now, prog, event, stored, rec, lock, torn>> BY DEF WriteMark
<1>a. cp \in Copies(Fit(p), life, Minted) BY <1>3 DEF Good
<1>b. c.marked \in SUBSET cp.cands BY <1>1, <1>4 DEF WorkOK
<1>c. PICK e \in cp.cands \ c.marked :
         \/ /\ life' = [life EXCEPT ![cp.s][e] = Mark(cp.before[e], event[cp.id], cp.id)]
            /\ Set(p, [c EXCEPT !.marked = @ \cup {e}])
         \/ Undo(p, c, <<[cp EXCEPT !.cands = c.marked]>>) /\ life' = life
    BY DEF WriteMark
<1>6. CASE /\ life' = [life EXCEPT ![cp.s][e] = Mark(cp.before[e], event[cp.id], cp.id)]
           /\ Set(p, [c EXCEPT !.marked = @ \cup {e}])
    <2>1. PICK d : d = [c EXCEPT !.marked = @ \cup {e}] OBVIOUS
    <2>2. /\ DOMAIN d = CallFields /\ d.step = c.step /\ d.todo = c.todo /\ d.marked = c.marked \cup {e} /\ d.units = c.units
          /\ d.op = c.op /\ d.batch = c.batch /\ d.at = c.at /\ d.want = c.want /\ d.scopes = c.scopes
          /\ d.items = c.items /\ d.written = c.written /\ d.finished = c.finished
        BY <1>4, <2>1 DEF CallFields
    <2>3. WorkOK(Good(p), Minted, d) BY <1>1, <1>b, <1>4, <2>2 DEF WorkOK, OwnIsFirst
    <2>4. Goes(p, d) BY <1>3, <1>6, <2>1, <2>2, IdleFields DEF Goes, Set
    <2>5. cp.s \in Fit(p) /\ cp.id \in Minted /\ cp.cands \subseteq Ids /\ cp.before[e] \in Open /\ ~life[cp.s][e].cancelled
        BY <1>a, CopyParts
    <2>6. event[cp.id] \in Events /\ cp.id \in Int BY <1>4, <2>5, SMT DEF IssuerInv, EventsOK
    <2>7. Mark(cp.before[e], event[cp.id], cp.id) \in Open BY <2>5, <2>6, MarkOpen
    <2>8. e \in Ids BY <2>5
    <2> QED BY <1>5, <1>6, <2>3, <2>4, <2>5, <2>7, <2>8, LifeCarries
<1>7. CASE Undo(p, c, <<[cp EXCEPT !.cands = c.marked]>>) /\ life' = life
    <2> DEFINE own == <<[cp EXCEPT !.cands = c.marked]>>
    <2>1. [cp EXCEPT !.cands = c.marked] \in Good(p)
        <3>1. TRUE \in BOOLEAN OBVIOUS
        <3> QED BY <1>a, <1>b, <3>1, CopyLess DEF Good
    <2>2. own \in Seq(Good(p)) BY <2>1, OneIn
    <2> HIDE DEF own
    <2> QED BY <1>3, <1>4, <1>5, <1>7, <2>2, UndoCarries DEF own
<1> QED BY <1>c, <1>6, <1>7

LEMMA AppendIn ==
    ASSUME NEW S, NEW q \in Seq(S), NEW x \in S
    PROVE  Append(q, x) \in Seq(S) /\ Append(q, x) # <<>>
BY AppendProperties

LEMMA MoreThanOne == ASSUME NEW n \in Nat, n > 1 PROVE n # 0 /\ n - 1 # 0
BY SMT

LEMMA TailMore == ASSUME NEW S, NEW q \in Seq(S), Len(q) > 1 PROVE Tail(q) # <<>>
<1>1. Len(<<>>) = 0 /\ Len(q) \in Nat BY LenProperties, EmptySeq
<1>3. Len(q) # 0 /\ Len(q) - 1 # 0 BY <1>1, MoreThanOne
<1>4. q # <<>> BY <1>1, <1>3
<1>5. Len(Tail(q)) = Len(q) - 1 BY <1>4, HeadTailProperties
<1> QED BY <1>1, <1>3, <1>5

LEMMA WrittenCarries == ASSUME IssuerInv, NEW p \in Callers, Written(p) PROVE \E d : Carries(p, d)
<1> DEFINE c == call[p]
           w == Append(c.written, Head(c.todo))
           G == Good(p)
<1>1. c.step = "mark" BY DEF Written
<1>2. c.step \in Writing BY <1>1 DEF Writing
<1>3. /\ c.step \notin Off /\ c.op \in {"issue", "replicate"} /\ c.items # <<>> /\ c.todo # <<>> /\ Head(c.todo) \in G
      /\ Tail(c.todo) \in Seq(G)
    BY <1>2, WritingFacts
<1>4. DOMAIN c = CallFields /\ WorkOK(G, Minted, c) /\ Minted \subseteq Ids BY Holding
<1>5. UNCHANGED <<now, prog, event, stored, life, rec, lock, torn>> BY DEF Written
<1>6. rec' \subseteq Minted BY <1>5 DEF IssuerInv, EventsOK
<1>7. c.written \in Seq(G) /\ c.todo \in Seq(G) BY <1>4 DEF WorkOK
<1>8. w \in Seq(G) /\ w # <<>> BY <1>3, <1>7, AppendIn
<1>9. <<>> \in Seq(G) BY EmptySeq
<1> HIDE DEF w, G
<1>10. CASE Len(c.todo) > 1
    <2>1. PICK d : d = [c EXCEPT !.step = "life", !.todo = Tail(@), !.written = w, !.marked = {}] OBVIOUS
    <2>2. /\ DOMAIN d = CallFields /\ d.step = "life" /\ d.todo = Tail(c.todo) /\ d.marked = {} /\ d.units = c.units
          /\ d.op = c.op /\ d.batch = c.batch /\ d.at = c.at /\ d.want = c.want /\ d.scopes = c.scopes
          /\ d.items = c.items /\ d.written = w /\ d.finished = c.finished
        BY <1>4, <2>1 DEF CallFields
    <2>3. Tail(c.todo) # <<>> BY <1>7, <1>10, TailMore
    <2>4. WorkOK(G, Minted, d) BY <1>3, <1>4, <1>8, <2>2, <2>3 DEF WorkOK, OwnIsFirst
    <2>5. call' = [call EXCEPT ![p] = d] BY <1>10, <2>1 DEF Written, Set, w
    <2>6. Goes(p, d) BY <1>3, <2>2, <2>5, IdleFields DEF Goes, Off
    <2> QED BY <1>5, <1>6, <2>4, <2>6, CallCarries DEF G
<1>11. CASE ~(Len(c.todo) > 1) /\ c.op = "replicate"
    <2>1. PICK d : d = [c EXCEPT !.step = "plan", !.items = Tail(@), !.todo = <<>>, !.written = w, !.marked = {}] OBVIOUS
    <2>2. /\ DOMAIN d = CallFields /\ d.step = "plan" /\ d.todo = <<>> /\ d.marked = {} /\ d.units = c.units
          /\ d.op = c.op /\ d.batch = c.batch /\ d.at = c.at /\ d.want = c.want /\ d.scopes = c.scopes
          /\ d.items = Tail(c.items) /\ d.written = w /\ d.finished = c.finished
        BY <1>4, <2>1 DEF CallFields
    <2>3. c.items \in Seq(Minted) BY <1>4, <1>11 DEF WorkOK
    <2>4. Tail(c.items) \in Seq(Minted) BY <1>3, <2>3, HeadTailProperties
    <2>5. WorkOK(G, Minted, d) BY <1>4, <1>8, <1>9, <1>11, <2>2, <2>4 DEF WorkOK, OwnIsFirst, Writing
    <2>6. call' = [call EXCEPT ![p] = d] BY <1>11, <2>1 DEF Written, Set, w
    <2>7. Goes(p, d) BY <1>3, <2>2, <2>6, IdleFields DEF Goes, Off
    <2> QED BY <1>5, <1>6, <2>5, <2>7, CallCarries DEF G
<1>12. CASE ~(Len(c.todo) > 1) /\ c.op = "issue"
    <2> DEFINE item == [Head(c.items) EXCEPT !.copies = w]
               I == Items(G, Minted)
    <2>1. PICK d : d = [c EXCEPT !.step = "record", !.items = Tail(@), !.todo = <<>>, !.written = <<>>, !.marked = {},
                                 !.finished = Append(@, item)] OBVIOUS
    <2>2. c.items \in Seq(I) /\ c.finished \in Seq(I) BY <1>4, <1>12 DEF WorkOK
    <2>3. Head(c.items) \in I /\ Tail(c.items) \in Seq(I) BY <1>3, <2>2, HeadTailProperties
    <2>4. item \in I BY <1>8, <2>3 DEF Items
    <2>5. Append(c.finished, item) \in Seq(I) BY <2>2, <2>4, AppendIn
    <2>6. /\ DOMAIN d = CallFields /\ d.step = "record" /\ d.todo = <<>> /\ d.marked = {} /\ d.units = c.units
          /\ d.op = c.op /\ d.batch = c.batch /\ d.at = c.at /\ d.want = c.want /\ d.scopes = c.scopes
          /\ d.items = Tail(c.items) /\ d.written = <<>> /\ d.finished = Append(c.finished, item)
        BY <1>4, <2>1 DEF CallFields
    <2>7. WorkOK(G, Minted, d) BY <1>4, <1>9, <1>12, <2>3, <2>5, <2>6 DEF WorkOK, OwnIsFirst, Writing
    <2>8. c.op # "replicate" BY <1>12
    <2>9. call' = [call EXCEPT ![p] = d] BY <1>12, <2>1, <2>8 DEF Written, Set, w
    <2>10. Goes(p, d) BY <1>3, <2>6, <2>9, IdleFields DEF Goes, Off
    <2> QED BY <1>5, <1>6, <2>7, <2>10, CallCarries DEF G
<1> QED BY <1>3, <1>10, <1>11, <1>12

LEMMA WriteRecordCarries ==
    ASSUME IssuerInv, NEW p \in Callers, WriteRecord(p)
    PROVE  (\E d : Carries(p, d)) \/ (Return(p) /\ UNCHANGED <<now, prog, event, stored, life, rec, torn>>)
<1> DEFINE c == call[p]
           G == Good(p)
           I == Items(G, Minted)
<1>1. c.step = "record" BY DEF WriteRecord
<1>2. c.step \notin Off BY <1>1 DEF Off
<1>3. DOMAIN c = CallFields /\ WorkOK(G, Minted, c) BY Holding
<1>4. c.op = "issue" /\ c.items \in Seq(I) BY <1>1, <1>3 DEF WorkOK
<1>5. UNCHANGED <<now, prog, event, stored, life, torn>> BY DEF WriteRecord
<1>6. rec \subseteq Minted BY DEF IssuerInv, EventsOK
<1> HIDE DEF G
<1>7. CASE c.items = <<>> /\ Return(p) /\ rec' = rec BY <1>5, <1>7
<1>8. CASE /\ c.items # <<>> /\ rec' = (IF Head(c.items).rec THEN rec \cup {Head(c.items).id} ELSE rec)
           /\ Set(p, [c EXCEPT !.step = "life", !.todo = Head(c.items).copies, !.written = <<>>]) /\ lock' = lock
    <2>1. PICK d : d = [c EXCEPT !.step = "life", !.todo = Head(c.items).copies, !.written = <<>>] OBVIOUS
    <2>2. /\ DOMAIN d = CallFields /\ d.step = "life" /\ d.todo = Head(c.items).copies /\ d.marked = c.marked
          /\ d.units = c.units /\ d.op = c.op /\ d.batch = c.batch /\ d.at = c.at /\ d.want = c.want /\ d.scopes = c.scopes
          /\ d.items = c.items /\ d.written = <<>> /\ d.finished = c.finished
        BY <1>3, <2>1 DEF CallFields
    <2>3. Head(c.items) \in I BY <1>4, <1>8, HeadTailProperties
    <2>4. Head(c.items).id \in Minted /\ Head(c.items).copies \in Seq(G) /\ Head(c.items).copies # <<>>
        BY <2>3, ItemParts
    <2>5. <<>> \in Seq(G) BY EmptySeq
    <2>6. WorkOK(G, Minted, d) BY <1>1, <1>3, <1>4, <1>8, <2>2, <2>4, <2>5 DEF WorkOK, OwnIsFirst
    <2>7. Goes(p, d) BY <1>2, <1>8, <2>1, <2>2, IdleFields DEF Goes, Set, Off
    <2>8. rec' \subseteq Minted BY <1>6, <1>8, <2>4
    <2> QED BY <1>5, <1>8, <2>6, <2>7, <2>8, CallCarries DEF G
<1>9. CASE Undo(p, [c EXCEPT !.items = <<>>], <<>>) /\ rec' = rec /\ lock' = lock
    <2>1. PICK b : b = [c EXCEPT !.items = <<>>] OBVIOUS
    <2>2. /\ DOMAIN b = CallFields /\ b.step = c.step /\ b.todo = c.todo /\ b.marked = c.marked
          /\ b.units = c.units /\ b.op = c.op /\ b.batch = c.batch /\ b.at = c.at /\ b.want = c.want /\ b.scopes = c.scopes
          /\ b.items = <<>> /\ b.written = c.written /\ b.finished = c.finished
        BY <1>3, <2>1 DEF CallFields
    <2>3. <<>> \in Seq(G) /\ <<>> \in Seq(I) BY EmptySeq
    <2>4. WorkOK(G, Minted, b) BY <1>1, <1>3, <1>4, <2>2, <2>3 DEF WorkOK, OwnIsFirst, Writing
    <2>5. Undo(p, b, <<>>) BY <1>9, <2>1
    <2>6. b.op \in {"issue", "replicate"} BY <1>4, <2>2
    <2> QED BY <1>2, <1>5, <1>9, <2>2, <2>3, <2>4, <2>5, <2>6, UndoCarries DEF G
<1> QED BY <1>7, <1>8, <1>9 DEF WriteRecord
----------------------------------------------------------------------------
(* The undo. *)

LEMMA UnitParts ==
    ASSUME NEW C, NEW u \in Units(C)
    PROVE  DOMAIN u = {"own", "copies", "rec"} /\ u.own \in BOOLEAN /\ u.copies \in Seq(C) /\ u.rec \in Nat
BY DEF Units

(* The rest of the units, once the first is done with. *)
LEMMA TailUnits ==
    ASSUME NEW C, NEW U, U \in Seq(Units(C)), U # <<>>, \A i \in DOMAIN U : U[i].own => i = 1
    PROVE  Head(U) \in Units(C) /\ Tail(U) \in Seq(Units(C)) /\ \A i \in DOMAIN Tail(U) : ~Tail(U)[i].own
<1> DEFINE S == Units(C)
<1>1. Head(U) \in S /\ Tail(U) \in Seq(S) /\ Len(Tail(U)) = Len(U) - 1 /\ Len(U) \in Nat
    BY HeadTailProperties, LenProperties
<1>2. \A i \in 1..Len(Tail(U)) : Tail(U)[i] = U[i + 1] BY HeadTailProperties
<1>3. DOMAIN U = 1..Len(U) /\ DOMAIN Tail(U) = 1..Len(Tail(U)) BY <1>1, LenProperties
<1> HIDE DEF S
<1>4. \A i \in DOMAIN Tail(U) : i + 1 \in DOMAIN U /\ i + 1 # 1 BY <1>1, <1>3, SMT
<1> QED BY <1>1, <1>2, <1>3, <1>4 DEF S

(* A unit given up: the next ones are still good. *)
LEMMA AbandonGood ==
    ASSUME NEW C, NEW M, NEW c, DOMAIN c = CallFields, WorkOK(C, M, c), c.step = "undo", c.units # <<>>
    PROVE  /\ DOMAIN Abandon(c) = CallFields /\ Abandon(c).scopes = c.scopes /\ Abandon(c).want = c.want
           /\ Abandon(c).op = c.op /\ Abandon(c).step = "undo" /\ WorkOK(C, M, Abandon(c))
<1> DEFINE rest == Tail(c.units)
           U == IF ~Head(c.units).own THEN rest
                ELSE IF c.op = "replicate" THEN <<>>
                ELSE <<[Head(rest) EXCEPT !.rec = NoId]>> \o Tail(rest)
           S == Units(C)
<1>1. c.units \in Seq(S) /\ \A i \in DOMAIN c.units : c.units[i].own => i = 1 /\ (c.op # "replicate" => Len(c.units) > 1)
    BY DEF WorkOK, OwnIsFirst
<1>2. rest \in Seq(S) /\ \A i \in DOMAIN rest : ~rest[i].own BY <1>1, TailUnits
<1>3. U \in Seq(S) /\ \A i \in DOMAIN U : ~U[i].own
    <2>1. CASE ~Head(c.units).own BY <1>2, <2>1
    <2>2. CASE Head(c.units).own /\ c.op = "replicate"
        <3>1. U = <<>> BY <2>2
        <3>2. <<>> \in Seq(S) /\ DOMAIN <<>> = {} BY SMT
        <3> QED BY <3>1, <3>2
    <2>3. CASE Head(c.units).own /\ c.op # "replicate"
        <3>1. Len(c.units) > 1
            <4>1. 1 \in DOMAIN c.units /\ Head(c.units) = c.units[1] BY <1>1, SMT
            <4> QED BY <1>1, <2>3, <4>1
        <3>2. rest # <<>> BY <1>1, <3>1, TailMore
        <3> DEFINE u == [Head(rest) EXCEPT !.rec = NoId]
        <3>3. Head(rest) \in S /\ Tail(rest) \in Seq(S) /\ (\A i \in DOMAIN Tail(rest) : ~Tail(rest)[i].own)
            BY <1>2, <3>2, TailUnits
        <3>4. Head(rest) = rest[1] /\ 1 \in DOMAIN rest BY <1>2, <3>2, SMT
        <3>5. u \in S /\ ~u.own
            <4>1. NoId \in Nat BY SMT DEF NoId
            <4>2. DOMAIN Head(rest) = {"own", "copies", "rec"} /\ ~Head(rest).own BY <1>2, <3>3, <3>4, UnitParts
            <4> QED BY <3>3, <4>1, <4>2 DEF Units
        <3> DEFINE t == Tail(rest)
        <3>6. t \in Seq(S) /\ U = <<u>> \o t /\ (\A i \in DOMAIN t : ~t[i].own) BY <2>3, <3>3
        <3> HIDE DEF u, t, rest, S, U
        <3>7. <<u>> \o t \in Seq(S) BY <3>5, <3>6, OneIn, ConcatIn
        <3>8. \A i \in DOMAIN (<<u>> \o t) : (<<u>> \o t)[i] = u \/ \E j \in DOMAIN t : (<<u>> \o t)[i] = t[j]
            <4>1. ASSUME NEW i \in DOMAIN (<<u>> \o t), i # 1 PROVE i - 1 \in DOMAIN t /\ (<<u>> \o t)[i] = t[i - 1]
                BY <3>5, <3>6, <4>1, SMT
            <4>2. (<<u>> \o t)[1] = u BY <3>5, <3>6, SMT
            <4> QED BY <4>1, <4>2
        <3> QED BY <3>5, <3>6, <3>7, <3>8
    <2> QED BY <2>1, <2>2, <2>3
<1> HIDE DEF U
<1>4. PICK d : d = [c EXCEPT !.kept = TRUE, !.bad = FALSE, !.units = U] OBVIOUS
<1>5. /\ DOMAIN d = CallFields /\ d.step = c.step /\ d.todo = c.todo /\ d.marked = c.marked
      /\ d.units = U /\ d.op = c.op /\ d.batch = c.batch /\ d.at = c.at /\ d.want = c.want /\ d.scopes = c.scopes
      /\ d.items = c.items /\ d.written = c.written /\ d.finished = c.finished
    BY <1>4 DEF CallFields
<1>6. WorkOK(C, M, d) BY <1>3, <1>5 DEF WorkOK, OwnIsFirst
<1>7. Abandon(c) = d BY <1>4 DEF Abandon, U
<1> QED BY <1>5, <1>6, <1>7

(* d is c with x left to undo in its first unit. *)
Leaves(c, d, x) ==
    /\ DOMAIN d = CallFields /\ d.step = c.step /\ d.todo = c.todo /\ d.marked = c.marked
    /\ d.units = [c.units EXCEPT ![1].copies = x] /\ d.op = c.op /\ d.batch = c.batch /\ d.at = c.at
    /\ d.want = c.want /\ d.scopes = c.scopes /\ d.items = c.items /\ d.written = c.written /\ d.finished = c.finished

LEMMA ExceptIn ==
    ASSUME NEW S, NEW q \in Seq(S), q # <<>>, NEW x \in S
    PROVE  [q EXCEPT ![1] = x] \in Seq(S) /\ Head(q) = q[1] /\ Head(q) \in S /\ Tail(q) \in Seq(S)
<1>1. 1 \in 1..Len(q) /\ Head(q) = q[1]
    <2>1. Len(q) \in Nat \ {0} BY EmptySeq
    <2> DEFINE n == Len(q)
    <2> HIDE DEF n
    <2>2. 1 \in 1..n BY <2>1, SMT DEF n
    <2> QED BY <2>2, SMT DEF n
<1> QED BY <1>1, ExceptSeq, HeadTailProperties

LEMMA LeavesBy ==
    ASSUME NEW c, DOMAIN c = CallFields, NEW x, NEW V, V = [c.units EXCEPT ![1].copies = x],
           NEW d, d = [c EXCEPT !.units = V] \/ d = [c EXCEPT !.units = V, !.bad = TRUE]
    PROVE  Leaves(c, d, x)
<1>1. CASE d = [c EXCEPT !.units = V] BY <1>1 DEF Leaves, CallFields
<1>2. CASE d = [c EXCEPT !.units = V, !.bad = TRUE] BY <1>2 DEF Leaves, CallFields
<1> QED BY <1>1, <1>2

LEMMA LeavesGood ==
    ASSUME NEW C, NEW M, NEW c, WorkOK(C, M, c), c.step = "undo", c.units # <<>>,
           NEW x \in Seq(C), NEW d, Leaves(c, d, x)
    PROVE  WorkOK(C, M, d)
<1> DEFINE U == c.units
           u == [U[1] EXCEPT !.copies = x]
           V == [U EXCEPT ![1] = u]
           S == Units(C)
<1>1. U \in Seq(S) BY DEF WorkOK
<1>2. U[1] \in S /\ 1 \in 1..Len(U) /\ Len(U) \in Nat /\ DOMAIN U = 1..Len(U)
    <2> HIDE DEF U, S
    <2>1. U # <<>> BY DEF U
    <2> QED BY <1>1, <2>1, SMT
<1>3. u \in S /\ u.own = U[1].own
    <2>1. DOMAIN U[1] = {"own", "copies", "rec"} BY <1>2, UnitParts
    <2> QED BY <1>2, <2>1 DEF Units
<1>4. d.units = V BY DEF Leaves
<1> HIDE DEF u, S
<1>5. V \in Seq(S)
    <2> HIDE DEF U
    <2>1. U # <<>> BY DEF U
    <2> QED BY <1>1, <1>3, <2>1, ExceptIn
<1>6. DOMAIN V = DOMAIN U /\ \A i \in DOMAIN U : V[i] = U[i] \/ (i = 1 /\ V[i] = u)
    <2> HIDE DEF U
    <2> QED OBVIOUS
<1> HIDE DEF V
<1>7. /\ \A i \in DOMAIN V : i \in DOMAIN U /\ (V[i].own => U[i].own)
      /\ Len(V) = Len(U)
    <2> HIDE DEF U, S
    <2>1. Len(V) = Len(U) BY <1>1, <1>5, <1>6, SMT
    <2> QED BY <1>3, <1>6, <2>1
<1>8. \A i \in DOMAIN U : U[i].own => i = 1 /\ (c.op # "replicate" => Len(U) > 1) BY DEF WorkOK, OwnIsFirst
<1> HIDE DEF U
<1>9. OwnIsFirst(d)
    <2>1. d.op = c.op BY DEF Leaves
    <2> QED BY <1>4, <1>7, <1>8, <2>1 DEF OwnIsFirst
<1>10. d.units \in Seq(Units(C)) BY <1>4, <1>5 DEF S
<1> QED BY <1>9, <1>10 DEF WorkOK, Leaves

(* What a call that undoes a copy knows. *)
LEMMA UndoingFacts ==
    ASSUME IssuerInv, NEW p \in Callers, UndoingCopy(p)
    PROVE  /\ call[p].step = "undo" /\ call[p].step \notin Off /\ call[p].units # <<>>
           /\ Head(call[p].units) = call[p].units[1]
           /\ call[p].units[1].copies \in Seq(Good(p)) /\ call[p].units[1].copies # <<>>
           /\ Top(call[p]) = call[p].units[1].copies[1] /\ Top(call[p]) \in Copies(Fit(p), life, Minted)
<1> DEFINE c == call[p]
           S == Units(Good(p))
<1>1. c.step = "undo" /\ c.units # <<>> /\ Head(c.units).copies # <<>> BY DEF UndoingCopy, Undoing
<1>2. c.units \in Seq(S) BY Holding DEF WorkOK
<1>3. Head(c.units) \in S BY <1>1, <1>2, HeadTailProperties
<1>4. Head(c.units) = c.units[1] BY <1>1, <1>2, <1>3, ExceptIn
<1>5. Head(c.units).copies \in Seq(Good(p)) BY <1>3, UnitParts
<1>6. Top(c) \in Good(p) BY <1>1, <1>5, HeadTailProperties DEF Top
<1>7. Head(Head(c.units).copies) = Head(c.units).copies[1] BY <1>1, <1>5, <1>6, ExceptIn
<1>8. c.step \notin Off BY <1>1 DEF Off
<1> QED BY <1>1, <1>4, <1>5, <1>6, <1>7, <1>8 DEF Top, Good

LEMMA RevertMarkCarries == ASSUME IssuerInv, NEW p \in Callers, RevertMark(p) PROVE \E d : Carries(p, d)
<1> DEFINE c == call[p]
           cp == Top(c)
           Left(e) == [c EXCEPT !.units[1].copies[1].cands = @ \ {e}]
<1>1. UndoingCopy(p) BY DEF RevertMark
<1>2. /\ c.step = "undo" /\ c.step \notin Off /\ c.units # <<>> /\ c.units[1].copies \in Seq(Good(p))
      /\ c.units[1].copies # <<>> /\ cp = c.units[1].copies[1] /\ cp \in Copies(Fit(p), life, Minted)
    BY <1>1, UndoingFacts
<1>3. DOMAIN c = CallFields /\ WorkOK(Good(p), Minted, c) BY Holding
<1>4. UNCHANGED <<now, prog, event, stored, rec, lock, torn>> BY DEF RevertMark
<1>5. PICK e \in cp.cands : \/ life' = [life EXCEPT ![cp.s][e] = cp.before[e]] /\ Set(p, Left(e))
                            \/ Set(p, [Left(e) EXCEPT !.bad = TRUE]) /\ life' = life
    BY DEF RevertMark
<1> DEFINE k == [cp EXCEPT !.cands = @ \ {e}]
           x == [c.units[1].copies EXCEPT ![1] = k]
<1>6. k \in Good(p)
    <2>1. cp.cands \ {e} \in SUBSET cp.cands /\ TRUE \in BOOLEAN OBVIOUS
    <2> QED BY <1>2, <2>1, CopyLess DEF Good
<1>7. x \in Seq(Good(p)) BY <1>2, <1>6, ExceptIn
<1> DEFINE V == [c.units EXCEPT ![1].copies = x]
<1>8. Left(e) = [c EXCEPT !.units = V] /\ [Left(e) EXCEPT !.bad = TRUE] = [c EXCEPT !.units = V, !.bad = TRUE]
    BY <1>2
<1>9. ASSUME NEW d, d = Left(e) \/ d = [Left(e) EXCEPT !.bad = TRUE], Set(p, d)
      PROVE  Goes(p, d) /\ WorkOK(Good(p), Minted, d)
    <2>a. d = [c EXCEPT !.units = V] \/ d = [c EXCEPT !.units = V, !.bad = TRUE] BY <1>8, <1>9
    <2>b. V = [c.units EXCEPT ![1].copies = x] OBVIOUS
    <2> HIDE DEF V, x
    <2>1. Leaves(c, d, x) BY <1>3, <2>a, <2>b, LeavesBy
    <2>2. WorkOK(Good(p), Minted, d) BY <1>2, <1>3, <1>7, <2>1, LeavesGood
    <2>3. Goes(p, d) BY <1>2, <1>9, <2>1, IdleFields DEF Goes, Set, Leaves
    <2> QED BY <2>2, <2>3
<1>10. CASE life' = [life EXCEPT ![cp.s][e] = cp.before[e]] /\ Set(p, Left(e))
    <2>1. Goes(p, Left(e)) /\ WorkOK(Good(p), Minted, Left(e)) BY <1>9, <1>10
    <2>2. cp.s \in Fit(p) /\ e \in Ids /\ ~life[cp.s][e].cancelled /\ cp.before[e] \in Open BY <1>2, CopyParts
    <2> QED BY <1>4, <1>10, <2>1, <2>2, LifeCarries
<1>11. CASE Set(p, [Left(e) EXCEPT !.bad = TRUE]) /\ life' = life
    <2> DEFINE d == [Left(e) EXCEPT !.bad = TRUE]
    <2>1. Goes(p, d) /\ WorkOK(Good(p), Minted, d) BY <1>9, <1>11
    <2>2. rec' \subseteq Minted BY <1>4 DEF IssuerInv, EventsOK
    <2> HIDE DEF d
    <2> QED BY <1>4, <1>11, <2>1, <2>2, CallCarries
<1> QED BY <1>5, <1>10, <1>11

(* A step of the undo that only moves the call on. *)
LEMMA AbandonCarries ==
    ASSUME IssuerInv, NEW p \in Callers, call[p].step = "undo", call[p].units # <<>>, Set(p, Abandon(call[p])),
           UNCHANGED <<now, prog, event, stored, life, rec, torn, lock>>
    PROVE  \E d : Carries(p, d)
<1> DEFINE c == call[p]
           d == Abandon(c)
<1>1. DOMAIN c = CallFields /\ WorkOK(Good(p), Minted, c) /\ c.step = "undo" /\ c.units # <<>> BY Holding
<1> HIDE DEF c, d
<1>2. /\ DOMAIN d = CallFields /\ d.scopes = c.scopes /\ d.want = c.want /\ d.op = c.op /\ d.step = "undo"
      /\ WorkOK(Good(p), Minted, d)
    BY <1>1, AbandonGood DEF d
<1>3. Goes(p, d) BY <1>2, IdleFields DEF Goes, Set, Off, c, d
<1>4. rec' \subseteq Minted BY DEF IssuerInv, EventsOK
<1> QED BY <1>2, <1>3, <1>4, CallCarries

LEMMA LeavesGoes ==
    ASSUME IssuerInv, NEW p \in Callers, UndoingCopy(p), NEW x \in Seq(Good(p)),
           Set(p, [call[p] EXCEPT !.units[1].copies = x])
    PROVE  \E d : Goes(p, d) /\ WorkOK(Good(p), Minted, d)
<1> DEFINE c == call[p]
           V == [c.units EXCEPT ![1].copies = x]
<1>1. c.step = "undo" /\ c.step \notin Off /\ c.units # <<>> BY UndoingFacts
<1>2. DOMAIN c = CallFields /\ WorkOK(Good(p), Minted, c) BY Holding
<1>3. PICK d : d = [c EXCEPT !.units = V] OBVIOUS
<1>4. Set(p, d) BY <1>3
<1>5. V = [c.units EXCEPT ![1].copies = x] OBVIOUS
<1> HIDE DEF V
<1>6. Leaves(c, d, x) BY <1>2, <1>3, <1>5, LeavesBy
<1>7. WorkOK(Good(p), Minted, d) BY <1>1, <1>2, <1>6, LeavesGood
<1>8. Goes(p, d) BY <1>1, <1>4, <1>6, IdleFields DEF Goes, Set, Leaves
<1> QED BY <1>7, <1>8

LEMMA DeleteControlCarries == ASSUME IssuerInv, NEW p \in Callers, DeleteControl(p) PROVE \E d : Carries(p, d)
<1> DEFINE c == call[p]
           cp == Top(c)
<1>1. UndoingCopy(p) BY DEF DeleteControl
<1>2. /\ c.step = "undo" /\ c.step \notin Off /\ c.units # <<>> /\ c.units[1].copies \in Seq(Good(p))
      /\ c.units[1].copies # <<>> /\ cp = c.units[1].copies[1] /\ cp \in Copies(Fit(p), life, Minted)
    BY <1>1, UndoingFacts
<1>3. UNCHANGED <<now, prog, event, life, rec, lock, torn>> BY DEF DeleteControl
<1>4. CASE Set(p, Abandon(c)) /\ stored' = stored BY <1>2, <1>3, <1>4, AbandonCarries
<1>5. CASE stored' = [stored EXCEPT ![cp.s] = @ \ {cp.id}] /\ Set(p, [c EXCEPT !.units[1].copies[1].ctl = FALSE])
    <2> DEFINE k == [cp EXCEPT !.ctl = FALSE]
               x == [c.units[1].copies EXCEPT ![1] = k]
    <2>1. k \in Good(p)
        <3>1. {} \in SUBSET cp.cands /\ FALSE \in BOOLEAN OBVIOUS
        <3> QED BY <1>2, <3>1, CopyLess DEF Good
    <2>2. x \in Seq(Good(p)) BY <1>2, <2>1, ExceptIn
    <2>3. [c EXCEPT !.units[1].copies[1].ctl = FALSE] = [c EXCEPT !.units[1].copies = x] BY <1>2
    <2>4. Set(p, [c EXCEPT !.units[1].copies = x]) BY <1>5, <2>3
    <2> HIDE DEF x
    <2>5. PICK d : Goes(p, d) /\ WorkOK(Good(p), Minted, d) BY <1>1, <2>2, <2>4, LeavesGoes
    <2>6. cp.s \in Fit(p) /\ ~life[cp.s][cp.id].cancelled BY <1>2, CopyParts
    <2>7. stored \in [Scopes -> SUBSET Minted] /\ cp.s \in Scopes BY <2>6 DEF IssuerInv, EventsOK, Fit
    <2> DEFINE X == stored[cp.s] \ {cp.id}
    <2>8. X \in SUBSET Minted /\ stored' = [stored EXCEPT ![cp.s] = X] BY <1>5, <2>7
    <2>9. \A e \in stored[cp.s] \ X : ~life[cp.s][e].cancelled BY <2>6
    <2> QED BY <1>3, <2>5, <2>6, <2>8, <2>9, StoredCarries
<1> QED BY <1>4, <1>5 DEF DeleteControl

LEMMA DeleteLifeCarries == ASSUME IssuerInv, NEW p \in Callers, DeleteLife(p) PROVE \E d : Carries(p, d)
<1> DEFINE c == call[p]
           cp == Top(c)
<1>1. UndoingCopy(p) BY DEF DeleteLife
<1>2. /\ c.step = "undo" /\ c.step \notin Off /\ c.units # <<>> /\ c.units[1].copies \in Seq(Good(p))
      /\ c.units[1].copies # <<>> /\ cp \in Copies(Fit(p), life, Minted)
    BY <1>1, UndoingFacts
<1>3. UNCHANGED <<now, prog, event, stored, rec, lock, torn>> BY DEF DeleteLife
<1>4. CASE Set(p, Abandon(c)) /\ life' = life BY <1>2, <1>3, <1>4, AbandonCarries
<1>5. CASE life' = [life EXCEPT ![cp.s][cp.id] = NoLife] /\ Set(p, [c EXCEPT !.units[1].copies = Tail(@)])
    <2> DEFINE x == Tail(c.units[1].copies)
    <2>1. x \in Seq(Good(p)) BY <1>2, HeadTailProperties
    <2>2. Set(p, [c EXCEPT !.units[1].copies = x]) BY <1>5
    <2> HIDE DEF x
    <2>3. PICK d : Goes(p, d) /\ WorkOK(Good(p), Minted, d) BY <1>1, <2>1, <2>2, LeavesGoes
    <2>4. cp.s \in Fit(p) /\ ~life[cp.s][cp.id].cancelled /\ cp.id \in Minted BY <1>2, CopyParts
    <2>5. cp.id \in Ids BY <2>4, Holding
    <2>6. NoLife \in Open BY IssuerAssumption, SMT DEF NoLife, Open, Lives, Never, NoId
    <2> QED BY <1>3, <1>5, <2>3, <2>4, <2>5, <2>6, LifeCarries
<1> QED BY <1>4, <1>5 DEF DeleteLife

LEMMA DeleteRecordCarries == ASSUME IssuerInv, NEW p \in Callers, DeleteRecord(p) PROVE \E d : Carries(p, d)
<1> DEFINE c == call[p]
<1>1. c.step = "undo" /\ c.units # <<>> BY DEF DeleteRecord, Undoing
<1>2. UNCHANGED <<now, prog, event, stored, life, lock, torn>> BY DEF DeleteRecord
<1>3. CASE Set(p, Abandon(c)) /\ rec' = rec BY <1>1, <1>2, <1>3, AbandonCarries
<1>4. CASE rec' = rec \ {Head(c.units).rec} /\ Set(p, [c EXCEPT !.units = Tail(@)])
    <2>1. DOMAIN c = CallFields /\ WorkOK(Good(p), Minted, c) BY Holding
    <2>2. PICK d : d = [c EXCEPT !.units = Tail(@)] OBVIOUS
    <2>3. /\ DOMAIN d = CallFields /\ d.step = c.step /\ d.todo = c.todo /\ d.marked = c.marked
          /\ d.units = Tail(c.units) /\ d.op = c.op /\ d.batch = c.batch /\ d.at = c.at /\ d.want = c.want
          /\ d.scopes = c.scopes /\ d.items = c.items /\ d.written = c.written /\ d.finished = c.finished
        BY <2>1, <2>2 DEF CallFields
    <2>4. c.units \in Seq(Units(Good(p))) /\ \A i \in DOMAIN c.units : c.units[i].own => i = 1
        BY <2>1 DEF WorkOK, OwnIsFirst
    <2>5. Tail(c.units) \in Seq(Units(Good(p))) /\ \A i \in DOMAIN Tail(c.units) : ~Tail(c.units)[i].own
        BY <1>1, <2>4, TailUnits
    <2>6. WorkOK(Good(p), Minted, d) BY <2>1, <2>3, <2>5 DEF WorkOK, OwnIsFirst
    <2>7. Goes(p, d) BY <1>1, <1>4, <2>2, <2>3, IdleFields DEF Goes, Set, Off
    <2>8. rec' \subseteq Minted BY <1>4 DEF IssuerInv, EventsOK
    <2> QED BY <1>2, <2>6, <2>7, <2>8, CallCarries
<1> QED BY <1>3, <1>4 DEF DeleteRecord
----------------------------------------------------------------------------
(* The plans. *)

LEMMA CopyOfGood ==
    ASSUME IssuerInv, NEW p \in Callers, NEW s \in Fit(p), NEW M, NEW id \in M, ~life[s][id].cancelled,
           NEW existing \in SUBSET Ids, NEW link \in Open, NEW n
    PROVE  CopyOf(s, id, n, existing, link) \in Copies(Fit(p), life, M)
<1> DEFINE cands == Supersedes(s, n, existing)
           before == [e \in cands |-> life[s][e]]
<1>1. cands \in SUBSET Ids /\ \A e \in cands : ~life[s][e].cancelled BY DEF Supersedes, Eligible
<1>2. life \in [Scopes -> [Ids -> Lives]] /\ s \in Scopes BY DEF IssuerInv, LivesOK, Fit
<1>3. \A e \in cands : life[s][e] \in Open BY <1>1, <1>2 DEF Open
<1> HIDE DEF cands
<1>4. before \in [cands -> Open] BY <1>3
<1>5. DOMAIN before = cands OBVIOUS
<1> DEFINE cp == [s |-> s, id |-> id, cands |-> cands, before |-> before, link |-> link, ctl |-> TRUE]
<1>6. CopyOf(s, id, n, existing, link) = cp BY DEF CopyOf, cands
<1> HIDE DEF before
<1>7. before \in UNION {[D -> Open] : D \in SUBSET Ids} BY <1>1, <1>4
<1>8. cp \in [s : Fit(p), id : M, cands : SUBSET Ids, before : UNION {[D -> Open] : D \in SUBSET Ids}, link : Open, ctl : BOOLEAN]
    BY <1>1, <1>7
<1>9. cp.cands = cands /\ cp.before = before /\ cp.id = id /\ cp.s = s OBVIOUS
<1> HIDE DEF cp
<1>10. cp \in Copies(Fit(p), life, M) BY <1>1, <1>5, <1>8, <1>9 DEF Copies
<1> QED BY <1>6, <1>10

LEMMA FiniteImage ==
    ASSUME NEW S, IsFiniteSet(S), NEW f
    PROVE  IsFiniteSet({f[x] : x \in S})
<1> DEFINE T == {f[x] : x \in S}
           g == [x \in S |-> f[x]]
<1>1. g \in Surjection(S, T) BY DEF Surjection
<1> HIDE DEF g, T
<1>2. IsFiniteSet(T) BY <1>1, FS_Surjection
<1> QED BY <1>2 DEF T

LEMMA IdsFinite == ASSUME NEW E \in SUBSET Ids PROVE IsFiniteSet(E)
<1>1. IsFiniteSet(Ids)
    <2>1. 1 \in Int /\ MaxEvents \in Int BY IssuerAssumption, SMT
    <2> QED BY <2>1, FS_Interval DEF Ids
<1> QED BY <1>1, FS_Subset

LEMMA NewLifeOpen == NoLife \in Open /\ NewLife \in Open
<1>1. Never \in Int /\ NoId \in Int BY IssuerAssumption, SMT DEF Never, NoId
<1>2. NoLife \in Lives /\ ~NoLife.cancelled BY <1>1 DEF NoLife, Lives
<1>3. NewLife \in Lives /\ NewLife.cancelled = NoLife.cancelled BY <1>2 DEF NewLife, Lives
<1> QED BY <1>2, <1>3 DEF Open

(* The mark a replica is written with. *)
LEMMA SupersededOpen ==
    ASSUME IssuerInv, NEW s \in Scopes, NEW n
    PROVE  SupersededByNewer(s, n) \in Open
<1> DEFINE newer == {e \in stored[s] : /\ event[e].created > n.created /\ ReplacedBy(event[e], n)
                                       /\ life[s][e].kept /\ ~life[s][e].cancelled}
           starts == {event[e].start : e \in newer}
           first == Min(starts)
           by == CHOOSE e \in newer : event[e].start = first
<1>1. newer \in SUBSET Minted /\ Minted \in SUBSET Ids /\ Ids \in SUBSET Int
    <2>1. stored \in [Scopes -> SUBSET Minted] BY DEF IssuerInv, EventsOK
    <2>2. Ids \in SUBSET Int BY IssuerAssumption, SMT DEF Ids
    <2> QED BY <2>1, <2>2 DEF Minted
<1>2. event \in [Ids -> Events] BY DEF IssuerInv, EventsOK
<1>3. SupersededByNewer(s, n) = IF newer = {} THEN NewLife ELSE [NewLife EXCEPT !.at = first, !.by = by]
    BY DEF SupersededByNewer
<1> HIDE DEF newer
<1>4. CASE newer # {}
    <2>1. starts \in SUBSET Int /\ starts # {}
        <3>1. \A e \in newer : event[e].start \in Int BY <1>1, <1>2 DEF Events
        <3> QED BY <1>4, <3>1
    <2>2. IsFiniteSet(starts)
        <3> DEFINE f == [e \in Ids |-> event[e].start]
        <3>1. \A e \in newer : f[e] = event[e].start BY <1>1
        <3> HIDE DEF f
        <3>2. IsFiniteSet(newer) BY <1>1, IdsFinite
        <3>3. starts = {f[e] : e \in newer} BY <3>1
        <3> QED BY <3>2, <3>3, FiniteImage
    <2> HIDE DEF starts
    <2>3. first \in starts BY <2>1, <2>2, MinOf
    <2> HIDE DEF first
    <2>4. by \in newer BY <2>3 DEF starts
    <2> HIDE DEF by
    <2>5. first \in Int /\ by \in Int BY <1>1, <2>1, <2>3, <2>4
    <2>6. PICK r : r = [NewLife EXCEPT !.at = first, !.by = by] OBVIOUS
    <2>7. NewLife \in Lives /\ ~NewLife.cancelled BY NewLifeOpen DEF Open
    <2>8. r \in Lives /\ r.cancelled = NewLife.cancelled BY <2>5, <2>6, <2>7 DEF Lives
    <2> QED BY <1>3, <1>4, <2>6, <2>7, <2>8 DEF Open
<1>5. CASE newer = {} BY <1>3, <1>5, NewLifeOpen
<1> QED BY <1>4, <1>5

LEMMA PlanReplicaCarries ==
    ASSUME IssuerInv, NEW p \in Callers, PlanReplica(p)
    PROVE  (\E d : Carries(p, d)) \/ (Return(p) /\ UNCHANGED <<now, prog, event, stored, life, rec, torn>>)
<1> DEFINE c == call[p]
           G == Good(p)
           s == CHOOSE x \in c.scopes : TRUE
           r == Head(c.items)
           older == {e \in stored[s] : event[e].created < event[r].created}
           cp == CopyOf(s, r, event[r], older, SupersededByNewer(s, event[r]))
<1>1. c.step = "plan" /\ c.op = "replicate" BY DEF PlanReplica
<1>2. c.step \notin Off BY <1>1 DEF Off
<1>3. DOMAIN c = CallFields /\ WorkOK(G, Minted, c) /\ Minted \subseteq Ids /\ \A x \in c.scopes : x \in Scopes /\ lock[x] = p
    BY <1>2, Holding
<1>4. c.items \in Seq(Minted) /\ c.marked = {} /\ c.todo \in Seq(G) BY <1>1, <1>3 DEF WorkOK
<1>5. s \in c.scopes
    <2>1. c.op = "replicate" /\ c.step # "rollback" BY <1>1
    <2>2. c.scopes # {} BY <2>1, Holding
    <2> QED BY <2>2
<1>6. UNCHANGED <<now, prog, event, stored, life, rec, torn>> BY DEF PlanReplica
<1>7. rec' \subseteq Minted BY <1>6 DEF IssuerInv, EventsOK
<1>8. \/ c.items = <<>> /\ Return(p)
      \/ /\ c.items # <<>> /\ Set(p, [c EXCEPT !.items = Tail(@)]) /\ lock' = lock
      \/ /\ c.items # <<>> /\ s \in prog /\ r \notin stored[s] /\ lock' = lock
         /\ Set(p, [c EXCEPT !.step = "life", !.todo = <<cp>>])
      \/ c.items # <<>> /\ Undo(p, c, <<>>) /\ lock' = lock
    BY DEF PlanReplica
<1> HIDE DEF G, s, cp
<1>9. CASE c.items = <<>> /\ Return(p) BY <1>6, <1>9
<1>10. CASE c.items # <<>> /\ Set(p, [c EXCEPT !.items = Tail(@)]) /\ lock' = lock
    <2>1. PICK d : d = [c EXCEPT !.items = Tail(@)] OBVIOUS
    <2>2. /\ DOMAIN d = CallFields /\ d.step = c.step /\ d.todo = c.todo /\ d.marked = c.marked /\ d.units = c.units
          /\ d.op = c.op /\ d.batch = c.batch /\ d.at = c.at /\ d.want = c.want /\ d.scopes = c.scopes
          /\ d.items = Tail(c.items) /\ d.written = c.written /\ d.finished = c.finished
        BY <1>3, <2>1 DEF CallFields
    <2>3. Tail(c.items) \in Seq(Minted) BY <1>4, <1>10, HeadTailProperties
    <2>4. WorkOK(G, Minted, d) BY <1>1, <1>3, <2>2, <2>3 DEF WorkOK, OwnIsFirst, Writing
    <2>5. Goes(p, d) BY <1>2, <1>10, <2>1, <2>2, IdleFields DEF Goes, Set
    <2> QED BY <1>6, <1>7, <1>10, <2>4, <2>5, CallCarries DEF G
<1>11. CASE /\ c.items # <<>> /\ s \in prog /\ r \notin stored[s] /\ lock' = lock
            /\ Set(p, [c EXCEPT !.step = "life", !.todo = <<cp>>])
    <2>1. r \in Minted BY <1>4, <1>11, HeadTailProperties
    <2>2. s \in Fit(p) /\ s \in Scopes BY <1>3, <1>5, <1>11 DEF Fit
    <2>3. ~life[s][r].cancelled BY <1>3, <1>11, <2>1, <2>2 DEF IssuerInv, LivesOK
    <2>4. older \in SUBSET Ids BY <1>3, <2>2 DEF IssuerInv, EventsOK
    <2> HIDE DEF older, r
    <2>5. SupersededByNewer(s, event[r]) \in Open BY <2>2, SupersededOpen
    <2>6. cp \in G BY <2>1, <2>2, <2>3, <2>4, <2>5, CopyOfGood DEF G, Good, cp
    <2>7. <<cp>> \in Seq(G) /\ <<cp>> # <<>> BY <2>6, OneIn
    <2>8. PICK d : d = [c EXCEPT !.step = "life", !.todo = <<cp>>] OBVIOUS
    <2>9. /\ DOMAIN d = CallFields /\ d.step = "life" /\ d.todo = <<cp>> /\ d.marked = c.marked /\ d.units = c.units
          /\ d.op = c.op /\ d.batch = c.batch /\ d.at = c.at /\ d.want = c.want /\ d.scopes = c.scopes
          /\ d.items = c.items /\ d.written = c.written /\ d.finished = c.finished
        BY <1>3, <2>8 DEF CallFields
    <2>10. WorkOK(G, Minted, d) BY <1>1, <1>3, <1>4, <1>11, <2>7, <2>9 DEF WorkOK, OwnIsFirst
    <2>11. Goes(p, d) BY <1>2, <1>11, <2>8, <2>9, IdleFields DEF Goes, Set, Off
    <2> QED BY <1>6, <1>7, <1>11, <2>10, <2>11, CallCarries DEF G
<1>12. CASE c.items # <<>> /\ Undo(p, c, <<>>) /\ lock' = lock
    <2>1. <<>> \in Seq(G) BY EmptySeq
    <2>2. c.op \in {"issue", "replicate"} BY <1>1
    <2> QED BY <1>2, <1>3, <1>6, <1>12, <2>1, <2>2, UndoCarries DEF G
<1> QED BY <1>8, <1>9, <1>10, <1>11, <1>12

(* The creation times and windows an issue gives its items. *)
LEMMA NextCreationInt ==
    ASSUME IssuerInv, NEW t \in Int, NEW scopes \in SUBSET Scopes
    PROVE  NextCreation(t, scopes) \in Int
<1> DEFINE E == UNION {stored[s] : s \in scopes}
           f == [e \in Ids |-> event[e].created + 1]
           T == {event[e].created + 1 : e \in E}
           U == {t} \cup T
<1>1. stored \in [Scopes -> SUBSET Minted] /\ event \in [Ids -> Events] BY DEF IssuerInv, EventsOK
<1>2. E \in SUBSET Ids BY <1>1 DEF Minted
<1> HIDE DEF E
<1>3. \A e \in E : f[e] = event[e].created + 1 BY <1>2
<1>4. \A e \in E : event[e].created + 1 \in Int
    <2>1. \A e \in E : event[e].created \in Int BY <1>1, <1>2 DEF Events
    <2> QED BY <2>1, SMT
<1> HIDE DEF f
<1>5. T = {f[e] : e \in E} BY <1>3
<1>6. IsFiniteSet(E) BY <1>2, IdsFinite
<1>7. IsFiniteSet(T) BY <1>5, <1>6, FiniteImage
<1>8. T \subseteq Int BY <1>4
<1> HIDE DEF T
<1>9. IsFiniteSet(U) BY <1>7, FS_Singleton, FS_Union
<1>10. U \in SUBSET Int /\ U # {} BY <1>8
<1> HIDE DEF U
<1>11. Max(U) \in Int BY <1>9, <1>10, MaxOf
<1> QED BY <1>11 DEF NextCreation, U, T, E

LEMMA SumsInt == ASSUME NEW a \in Int, NEW b \in Int PROVE a + b \in Int /\ a + b - 1 \in Int
BY SMT

LEMMA IndexIn ==
    ASSUME NEW S, NEW q \in Seq(S)
    PROVE  /\ Len(q) \in Nat /\ DOMAIN q = 1..Len(q)
           /\ \A i \in DOMAIN q : i \in Int /\ q[i] \in S
BY SMT

LEMMA NonEmptyPart == ASSUME NEW S, NEW t \in (SUBSET S) \ {{}} PROVE t \in SUBSET S /\ t # {}
OBVIOUS

LEMMA BatchParts ==
    ASSUME NEW b \in Batches
    PROVE  /\ Len(b) \in Nat /\ DOMAIN b = 1..Len(b)
           /\ \A i \in DOMAIN b : /\ i \in Int /\ b[i].targets \in SUBSET Scopes /\ b[i].targets # {}
                                  /\ b[i].lead \in Nat \cup {-1} /\ b[i].offset \in Nat /\ b[i].dur \in Nat
                                  /\ b[i].set \in STRING /\ b[i].set # "none" /\ b[i].rec \in BOOLEAN
<1> DEFINE R == [targets : (SUBSET Scopes) \ {{}}, lead : Nat \cup {-1}, offset : Nat, dur : Nat \ {0}, set : STRING, rec : BOOLEAN]
<1>1. b \in Seq(R) /\ \A i \in DOMAIN b : b[i].set # "none" BY IssuerAssumption
<1>2. \A x \in R : /\ x.targets \in SUBSET Scopes /\ x.targets # {} /\ x.lead \in Nat \cup {-1} /\ x.offset \in Nat
                    /\ x.dur \in Nat /\ x.set \in STRING /\ x.rec \in BOOLEAN
    <2> SUFFICES ASSUME NEW x \in R
                 PROVE  /\ x.targets \in SUBSET Scopes /\ x.targets # {} /\ x.lead \in Nat \cup {-1} /\ x.offset \in Nat
                        /\ x.dur \in Nat /\ x.set \in STRING /\ x.rec \in BOOLEAN
        OBVIOUS
    <2>1. x.targets \in (SUBSET Scopes) \ {{}} OBVIOUS
    <2>2. x.lead \in Nat \cup {-1} /\ x.offset \in Nat OBVIOUS
    <2>3. x.dur \in Nat OBVIOUS
    <2>4. x.set \in STRING /\ x.rec \in BOOLEAN OBVIOUS
    <2>5. x.targets \in SUBSET Scopes /\ x.targets # {} BY <2>1, NonEmptyPart
    <2> QED BY <2>2, <2>3, <2>4, <2>5
<1> HIDE DEF R
<1>3. Len(b) \in Nat /\ DOMAIN b = 1..Len(b) /\ \A i \in DOMAIN b : i \in Int /\ b[i] \in R BY <1>1, IndexIn
<1> QED BY <1>1, <1>2, <1>3

LEMMA ResolveEvent ==
    ASSUME IssuerInv, NEW c, c.batch \in Batches, c.at \in Nat, c.scopes \subseteq Scopes, NEW i \in DOMAIN c.batch
    PROVE  Resolve(c, i) \in Events /\ Resolve(c, i) # None
<1> DEFINE b == c.batch[i]
           first == NextCreation(c.at, c.scopes)
           start == IF b.lead = NoStart THEN first + b.offset ELSE c.at + b.lead
<1>3. /\ i \in Int /\ b.lead \in Nat \cup {-1} /\ b.offset \in Nat /\ b.dur \in Nat
      /\ b.set \in STRING /\ b.set # "none"
    BY BatchParts
<1>4. b.lead \in Int /\ b.offset \in Int /\ b.dur \in Int /\ c.at \in Int BY <1>3, SMT
<1>5. first \in Int BY <1>4, NextCreationInt
<1> HIDE DEF b, first
<1>6. start \in Int BY <1>4, <1>5, SumsInt
<1>7. Resolve(c, i) = [created |-> first + i - 1, start |-> start, end |-> start + b.dur, set |-> b.set, alone |-> Len(c.batch) = 1]
    BY DEF Resolve, b, first
<1> HIDE DEF start
<1>8. first + i - 1 \in Int /\ start + b.dur \in Int BY <1>3, <1>4, <1>5, <1>6, SumsInt
<1> DEFINE cr == first + i - 1
           en == start + b.dur
           al == Len(c.batch) = 1
           ev == [created |-> cr, start |-> start, end |-> en, set |-> b.set, alone |-> al]
<1>9. cr \in Int /\ en \in Int /\ al \in BOOLEAN /\ Resolve(c, i) = ev BY <1>7, <1>8
<1> HIDE DEF cr, en, al
<1>10. ev \in Events BY <1>3, <1>6, <1>9 DEF Events
<1>11. ev # None
    <2>1. ev.set = b.set /\ None.set = "none" BY DEF None
    <2> QED BY <1>3, <2>1
<1> QED BY <1>9, <1>10, <1>11

(* The items of a batch take the ids after those given out. *)
LEMMA FreshIds ==
    ASSUME NEW n \in Nat, NEW m \in Nat, NEW k \in Nat, n + m <= k
    PROVE  /\ n + m \in 0..k
           /\ \A i \in 1..m : n + i \in 1..k /\ (n + i) - n = i /\ n + i \notin 1..n
           /\ \A e \in 1..n : e - n \notin 1..m
           /\ \A e \in 1..k : (e - n \in 1..m \/ e \in 1..n) <=> e \in 1..(n + m)
           /\ 1..(n + m) \subseteq 1..k
BY SMT

LEMMA MintedCount ==
    ASSUME IssuerInv
    PROVE  Minted = 1..Cardinality(Minted) /\ Cardinality(Minted) \in Nat
<1>1. PICK n \in 0..MaxEvents : Minted = 1..n BY DEF IssuerInv, EventsOK
<1>2. MaxEvents \in Nat BY IssuerAssumption
<1>3. n \in Nat /\ n \in Int /\ 1 \in Int /\ (IF 1 > n THEN 0 ELSE n - 1 + 1) = n BY <1>2, SMT
<1>4. Cardinality(1..n) = n BY <1>3, FS_Interval
<1> QED BY <1>1, <1>3, <1>4

LEMMA ListedIn ==
    ASSUME NEW S, NEW m \in Nat, NEW f \in [1..m -> S]
    PROVE  f \in Seq(S) /\ Len(f) = m
BY SMT

(* A scope the plan of an issue reads is held and has its program. *)
LEMMA PlannedItem ==
    ASSUME IssuerInv, NEW p \in Callers, NEW H \in SUBSET Fit(p), H # {}, NEW M, NEW id \in M,
           \A s \in H : ~life[s][id].cancelled, NEW n, NEW r \in BOOLEAN
    PROVE  [id |-> id, rec |-> r, copies |-> [k \in 1..Cardinality(H) |->
               LET s == InOrder(H)[k] IN CopyOf(s, id, n, stored[s], NewLife)]]
           \in Items(Copies(Fit(p), life, M), M)
<1> DEFINE C == Copies(Fit(p), life, M)
           m == Cardinality(H)
           q == InOrder(H)
           copies == [k \in 1..m |-> LET s == q[k] IN CopyOf(s, id, n, stored[s], NewLife)]
<1>1. H \subseteq Scopes /\ IsFiniteSet(H)
    <2>1. H \subseteq Scopes BY DEF Fit
    <2> QED BY <2>1, IssuerAssumption, FS_Subset
<1>2. m \in Nat /\ m # 0 BY <1>1, FS_CardinalityType, FS_EmptySet
<1>3. q \in [1..m -> H] BY <1>1, InOrderLists DEF Listings
<1>4. \A s \in H : stored[s] \in SUBSET Ids BY <1>1 DEF IssuerInv, EventsOK, Minted
<1>5. NewLife \in Open BY NewLifeOpen
<1> HIDE DEF m, q, C
<1>6. ASSUME NEW s \in H PROVE CopyOf(s, id, n, stored[s], NewLife) \in C
    <2>1. s \in Fit(p) /\ stored[s] \in SUBSET Ids /\ ~life[s][id].cancelled BY <1>4
    <2> QED BY <1>5, <2>1, CopyOfGood DEF C
<1>7. copies \in [1..m -> C] BY <1>3, <1>6
<1> HIDE DEF copies
<1>8. copies \in Seq(C) /\ Len(copies) = m BY <1>2, <1>7, ListedIn
<1>9. Len(<<>>) = 0 BY EmptySeq
<1>10. copies # <<>> BY <1>2, <1>8, <1>9
<1>11. [id |-> id, rec |-> r, copies |-> copies] \in Items(C, M) BY <1>8, <1>10 DEF Items
<1> QED BY <1>11 DEF C, copies, q, m

LEMMA PlanCarries ==
    ASSUME IssuerInv, NEW p \in Callers, Plan(p)
    PROVE  (\E d : Carries(p, d)) \/ (Return(p) /\ UNCHANGED <<now, prog, event, stored, life, rec, torn>>)
<1> DEFINE c == call[p]
           last == Cardinality(Minted)
           b == c.batch
           m == Len(b)
           Item(i) == [id |-> last + i, rec |-> b[i].rec,
                       copies |-> [k \in 1..Cardinality(b[i].targets) |->
                           LET s == InOrder(b[i].targets)[k] IN
                           CopyOf(s, last + i, Resolve(c, i), stored[s], NewLife)]]
           items == [i \in DOMAIN b |-> Item(i)]
           ids == {last + i : i \in DOMAIN b}
<1>1. c.step = "plan" /\ c.op = "issue" BY DEF Plan
<1>2. c.step \notin Off BY <1>1 DEF Off
<1>3. DOMAIN c = CallFields /\ WorkOK(Good(p), Minted, c) /\ Minted \subseteq Ids /\ \A x \in c.scopes : x \in Scopes /\ lock[x] = p
    BY <1>2, Holding
<1>4. c.at \in Nat /\ b \in Batches /\ c.marked = {} /\ \A i \in DOMAIN b : b[i].targets \subseteq c.scopes
    BY <1>1, <1>3 DEF WorkOK
<1>5. UNCHANGED <<now, prog, stored, life, rec, torn>> BY DEF Plan
<1>6. CASE Return(p) /\ event' = event BY <1>5, <1>6
<1>7. CASE /\ Sound(c) /\ last + m <= MaxEvents
           /\ event' = [e \in Ids |-> IF e - last \in DOMAIN b THEN Resolve(c, e - last) ELSE event[e]]
           /\ Set(p, [c EXCEPT !.step = "record", !.ids = ids, !.items = items]) /\ lock' = lock
    <2> DEFINE C == Copies(Fit(p), life, Minted')
    <2>2. m \in Nat /\ DOMAIN b = 1..m BY <1>4, BatchParts
    <2>3. \A i \in DOMAIN b : b[i].targets # {} /\ b[i].rec \in BOOLEAN BY <1>4, BatchParts
    <2>4. last \in Nat /\ Minted = 1..last BY MintedCount
    <2>5. Ids = 1..MaxEvents /\ MaxEvents \in Nat BY IssuerAssumption DEF Ids
    <2> HIDE DEF last, m
    <2>6. /\ last + m \in 0..MaxEvents
          /\ \A i \in DOMAIN b : last + i \in Ids /\ (last + i) - last = i /\ last + i \notin Minted
          /\ \A e \in Minted : e - last \notin DOMAIN b
          /\ \A e \in Ids : (e - last \in DOMAIN b \/ e \in Minted) <=> e \in 1..(last + m)
          /\ 1..(last + m) \subseteq Ids
        <3>1. last + m <= MaxEvents BY <1>7
        <3>2. /\ last + m \in 0..MaxEvents
              /\ \A i \in 1..m : last + i \in 1..MaxEvents /\ (last + i) - last = i /\ last + i \notin 1..last
              /\ \A e \in 1..last : e - last \notin 1..m
              /\ \A e \in 1..MaxEvents : (e - last \in 1..m \/ e \in 1..last) <=> e \in 1..(last + m)
              /\ 1..(last + m) \subseteq 1..MaxEvents
            BY <2>2, <2>4, <2>5, <3>1, FreshIds
        <3>3. DOMAIN b = 1..m BY <2>2
        <3> HIDE DEF b
        <3> QED BY <2>4, <2>5, <3>2, <3>3
    <2>7. c.scopes \subseteq Scopes BY <1>3
    <2>8. \A i \in DOMAIN b : Resolve(c, i) \in Events /\ Resolve(c, i) # None BY <1>4, <2>7, ResolveEvent
    <2>9. event \in [Ids -> Events] /\ rec \subseteq Minted /\ stored \in [Scopes -> SUBSET Minted] /\ now \in Nat
        BY DEF IssuerInv, EventsOK
    <2>10. event' \in [Ids -> Events] BY <1>7, <2>8, <2>9
    <2>11. \A e \in Minted : event'[e] = event[e] BY <1>3, <1>7, <2>6
    <2>12. \A e \in Ids : event'[e] # None <=> (e - last \in DOMAIN b \/ e \in Minted) BY <1>7, <2>8 DEF Minted
    <2>13. Minted' = 1..(last + m) /\ Minted \subseteq Minted' /\ \A i \in DOMAIN b : last + i \in Minted'
        <3>1. Minted' = {e \in Ids : event'[e] # None} BY DEF Minted
        <3>2. Minted' = 1..(last + m) BY <2>6, <2>12, <3>1
        <3>3. Minted \subseteq Minted' BY <1>3, <2>12, <3>1
        <3>4. ASSUME NEW i \in DOMAIN b PROVE last + i \in Minted'
            <4>1. last + i \in Ids /\ (last + i) - last \in DOMAIN b BY <2>6
            <4> QED BY <2>12, <3>1, <4>1
        <3> QED BY <3>2, <3>3, <3>4
    <2>14. EventsOK' BY <1>5, <2>6, <2>9, <2>10, <2>13 DEF EventsOK
    <2>15. LivesOK' BY <1>5 DEF LivesOK, IssuerInv
    <2>16. c.scopes \subseteq Fit(p) BY <1>3, <1>7 DEF Sound, Fit
    <2>17. ASSUME NEW i \in DOMAIN b PROVE Item(i) \in Items(C, Minted')
        <3>1. b[i].targets \in SUBSET Fit(p) /\ b[i].targets # {} /\ b[i].rec \in BOOLEAN /\ last + i \in Minted'
            BY <1>4, <2>3, <2>13, <2>16
        <3>2. \A s \in b[i].targets : ~life[s][last + i].cancelled
            <4>1. \A s \in b[i].targets : s \in Scopes BY <3>1 DEF Fit
            <4>2. \A s \in b[i].targets : last + i \notin stored[s] BY <2>6, <2>9, <4>1
            <4> QED BY <2>6, <4>1, <4>2 DEF IssuerInv, LivesOK
        <3> QED BY <3>1, <3>2, PlannedItem
    <2> HIDE DEF Item
    <2>18. items \in [1..m -> Items(C, Minted')] BY <2>2, <2>17
    <2> HIDE DEF items
    <2> HIDE DEF C
    <2>19. items \in Seq(Items(C, Minted'))
        <3>1. m \in Nat BY <2>2
        <3> QED BY <2>18, <3>1, ListedIn
    <2>20. WorkOK(C, Minted', c)
        <3>1. Minted \subseteq Ids /\ Minted \subseteq Minted' /\ Fit(p) \subseteq Fit(p)
              /\ \A s \in Fit(p), e \in Ids : life[s][e].cancelled => life[s][e].cancelled
            BY <1>3, <2>13
        <3>2. Copies(Fit(p), life, Minted) \subseteq C BY <3>1, CopiesGrow DEF C
        <3>3. WorkOK(Copies(Fit(p), life, Minted), Minted, c) BY <1>3 DEF Good
        <3> QED BY <3>1, <3>2, <3>3, WorkGrows
    <2>21. PICK d : d = [c EXCEPT !.step = "record", !.ids = ids, !.items = items] OBVIOUS
    <2> HIDE DEF ids
    <2>22. /\ DOMAIN d = CallFields /\ d.step = "record" /\ d.todo = c.todo /\ d.marked = c.marked /\ d.units = c.units
           /\ d.op = c.op /\ d.batch = c.batch /\ d.at = c.at /\ d.want = c.want /\ d.scopes = c.scopes
           /\ d.items = items /\ d.written = c.written /\ d.finished = c.finished
        BY <1>3, <2>21 DEF CallFields
    <2>23. WorkOK(C, Minted', d) BY <1>1, <1>4, <2>19, <2>20, <2>22 DEF WorkOK, OwnIsFirst, Writing
    <2>24. Goes(p, d) BY <1>2, <1>7, <2>21, <2>22, IdleFields DEF Goes, Set, Off
    <2>25. Carries(p, d) BY <1>5, <1>7, <2>11, <2>14, <2>15, <2>23, <2>24 DEF Carries, C
    <2> QED BY <2>25
<1> QED BY <1>6, <1>7 DEF Plan
----------------------------------------------------------------------------
(* Calls that begin or end.  A call that holds no copy is in order. *)
Blank(d) ==
    /\ DOMAIN d = DOMAIN Idle
    /\ d.todo = <<>> /\ d.written = <<>> /\ d.finished = <<>> /\ d.units = <<>> /\ d.marked = {} /\ d.at \in Nat
    /\ d.step \in {"idle", "rollback", "lock"}
    /\ d.op = "issue" => /\ d.batch \in Batches /\ \A i \in DOMAIN d.batch : d.batch[i].targets \subseteq d.scopes
                         /\ d.items = <<>>

LEMMA BlankWork ==
    ASSUME NEW C, NEW M, NEW d, Blank(d), d.op = "replicate" => d.items \in Seq(M)
    PROVE  WorkOK(C, M, d)
<1>1. <<>> \in Seq(C) /\ <<>> \in Seq(Items(C, M)) /\ <<>> \in Seq(Units(C)) BY EmptySeq
<1>2. DOMAIN <<>> = {} BY SMT
<1>3. OwnIsFirst(d) BY <1>2 DEF OwnIsFirst, Blank
<1>4. d.step # "record" /\ d.step \notin Writing BY DEF Blank, Writing
<1> QED BY <1>1, <1>3, <1>4 DEF WorkOK, Blank

LEMMA IdleBlank ==
    /\ Blank(Idle) /\ Idle.op = "none" /\ Idle.step = "idle" /\ Idle.want = {} /\ Idle.scopes = {}
    /\ Idle.items = <<>> /\ Idle.batch = <<>>
<1>1. /\ Idle.todo = <<>> /\ Idle.written = <<>> /\ Idle.finished = <<>> /\ Idle.units = <<>> /\ Idle.marked = {}
      /\ Idle.at = 0 /\ Idle.op = "none" /\ Idle.step = "idle" /\ Idle.want = {} /\ Idle.scopes = {}
      /\ Idle.items = <<>> /\ Idle.batch = <<>>
    BY DEF Idle
<1>2. Idle.at \in Nat BY <1>1, SMT
<1> QED BY <1>1, <1>2 DEF Blank

(* A step of one caller that leaves the stores alone.  Programs may go only  *)
(* where nothing can act, from the caller's own scopes or as torn.           *)
Moves(p, d) ==
    /\ call' = [call EXCEPT ![p] = d] /\ UNCHANGED <<now, event, stored, life, rec>>
    /\ \A q \in Callers \ {p} : Fit(q) \subseteq Fit(q)'
    /\ \A s \in (prog \cup torn) \ (prog' \cup torn') : s \in Scopes => \A e \in stored[s] : Retired(s, e, now)
    /\ Blank(d) /\ (d.op = "replicate" => d.items \in Seq(Minted))

LEMMA StoresStay ==
    ASSUME IssuerInv, UNCHANGED <<now, event, stored, life>>, rec' \subseteq rec
    PROVE  Minted' = Minted /\ EventsOK' /\ LivesOK'
<1>1. Minted' = Minted BY DEF Minted
<1>2. rec' \subseteq Minted BY DEF IssuerInv, EventsOK
<1>3. EventsOK' BY <1>1, <1>2 DEF IssuerInv, EventsOK
<1>4. LivesOK' BY DEF IssuerInv, LivesOK
<1> QED BY <1>1, <1>3, <1>4

LEMMA MovesKeeps ==
    ASSUME IssuerInv, NEW p \in Callers, NEW d, Moves(p, d), LocksOK'
    PROVE  IssuerInv'
<1>1. DOMAIN call = Callers BY DEF IssuerInv, LocksOK
<1>2. call'[p] = d /\ \A q \in Callers \ {p} : call'[q] = call[q] BY <1>1 DEF Moves
<1>3. /\ UNCHANGED <<now, event, stored, life>> /\ rec' \subseteq rec BY DEF Moves
<1>4. Minted' = Minted /\ EventsOK' /\ LivesOK' BY <1>3, StoresStay
<1>5. RetiredHasNoLive'
    <2> SUFFICES ASSUME NEW s \in Scopes \ (prog' \cup torn'), NEW e \in stored'[s] PROVE Retired(s, e, now)'
        BY DEF RetiredHasNoLive
    <2>1. e \in stored[s] BY <1>3
    <2>2. CASE s \in prog \cup torn BY <2>1, <2>2 DEF Moves, Retired
    <2>3. CASE s \notin prog \cup torn
        <3>1. Retired(s, e, now) BY <2>1, <2>3 DEF RetiredHasNoLive, IssuerInv
        <3> QED BY <1>3, <3>1 DEF Retired
    <2> QED BY <2>2, <2>3
<1>6. ASSUME NEW q \in Callers PROVE WorkOK(Good(q)', Minted', call'[q])
    <2>1. CASE q = p BY <1>2, <1>4, <2>1, BlankWork DEF Moves
    <2>2. CASE q # p
        <3>1. Fit(q) \subseteq Fit(q)' BY <2>2 DEF Moves
        <3>2. \A s \in Fit(q), e \in Ids : life'[s][e].cancelled => life[s][e].cancelled BY <1>3
        <3>3. call'[q] = call[q] /\ Minted \subseteq Minted' BY <1>2, <1>4, <2>2
        <3> QED BY <3>1, <3>2, <3>3, WorkStays
    <2> QED BY <2>1, <2>2
<1> QED BY <1>4, <1>5, <1>6 DEF IssuerInv

(* What LocksOK asks of one caller. *)
Fair(c, k, q) ==
    /\ DOMAIN c = DOMAIN Idle
    /\ c.want \subseteq c.scopes /\ c.scopes \subseteq Scopes /\ (c.step # "lock" => c.want = {})
    /\ (c.op = "replicate" /\ c.step # "rollback" => c.scopes # {})
    /\ \A s \in Scopes : k[s] = q <=> c.step \notin {"idle", "rollback"} /\ s \in c.scopes \ c.want
    /\ \A s \in c.scopes \ c.want, t \in c.want : s < t

LEMMA FairLocks ==
    LocksOK <=> /\ DOMAIN call = Callers /\ lock \in [Scopes -> Callers \cup {Nobody}]
                /\ \A q \in Callers : Fair(call[q], lock, q)
BY DEF LocksOK, Fair

LEMMA FairLocksNext ==
    ASSUME DOMAIN call' = Callers, lock' \in [Scopes -> Callers \cup {Nobody}],
           \A q \in Callers : Fair(call'[q], lock', q)
    PROVE  LocksOK'
BY DEF LocksOK, Fair

LEMMA FairStays ==
    ASSUME NEW c, NEW k, NEW k1, NEW q, Fair(c, k, q), \A s \in Scopes : k1[s] = q <=> k[s] = q
    PROVE  Fair(c, k1, q)
BY DEF Fair

(* A call that ends lets its scopes go. *)
LEMMA ReleaseLocks ==
    ASSUME IssuerInv, NEW p \in Callers, NEW d, call' = [call EXCEPT ![p] = d],
           lock' = [s \in Scopes |-> IF lock[s] = p THEN Nobody ELSE lock[s]],
           DOMAIN d = DOMAIN Idle, d.step \in {"idle", "rollback"}, d.want = {}, d.scopes \subseteq Scopes,
           d.op = "replicate" => d.step = "rollback"
    PROVE  LocksOK' /\ \A q \in Callers \ {p}, s \in Scopes : lock[s] = q => lock'[s] = q
<1>1. DOMAIN call = Callers /\ lock \in [Scopes -> Callers \cup {Nobody}] /\ LocksOK BY DEF IssuerInv, LocksOK
<1>2. call'[p] = d /\ DOMAIN call' = Callers /\ \A q \in Callers \ {p} : call'[q] = call[q] BY <1>1
<1>3. Nobody \notin Callers BY IssuerAssumption DEF Nobody
<1>4. \A s \in Scopes : lock'[s] = (IF lock[s] = p THEN Nobody ELSE lock[s]) OBVIOUS
<1>5. lock' \in [Scopes -> Callers \cup {Nobody}] BY <1>1
<1>6. \A q \in Callers \ {p}, s \in Scopes : lock'[s] = q <=> lock[s] = q BY <1>3, <1>4, SMT
<1>7. \A s \in Scopes : lock'[s] # p BY <1>3, <1>4
<1>8. ASSUME NEW q \in Callers PROVE Fair(call'[q], lock', q)
    <2>1. CASE q = p
        <3>1. \A s \in Scopes : lock'[s] = p <=> d.step \notin {"idle", "rollback"} /\ s \in d.scopes \ d.want BY <1>7
        <3>2. Fair(d, lock', p) BY <3>1 DEF Fair
        <3> QED BY <1>2, <2>1, <3>2
    <2>2. CASE q # p
        <3>1. Fair(call[q], lock, q) BY <1>1, FairLocks
        <3>2. \A s \in Scopes : lock'[s] = q <=> lock[s] = q BY <1>6, <2>2
        <3> QED BY <1>2, <2>2, <3>1, <3>2, FairStays
    <2> QED BY <2>1, <2>2
<1>9. LocksOK' BY <1>2, <1>5, <1>8, FairLocksNext
<1> QED BY <1>6, <1>9

LEMMA EndsKeeps ==
    ASSUME IssuerInv, NEW p \in Callers, NEW d, call' = [call EXCEPT ![p] = d],
           lock' = [s \in Scopes |-> IF lock[s] = p THEN Nobody ELSE lock[s]],
           Blank(d), d.step \in {"idle", "rollback"}, d.want = {}, d.scopes \subseteq Scopes,
           d.op = "replicate" => d.step = "rollback" /\ d.items \in Seq(Minted),
           UNCHANGED <<now, event, stored, life, rec>>,
           \A s \in (prog \cup torn) \ (prog' \cup torn') : lock[s] = p /\ \A e \in stored[s] : Retired(s, e, now)
    PROVE  IssuerInv'
<1>1. DOMAIN d = DOMAIN Idle BY DEF Blank
<1>2. d.op = "replicate" => d.step = "rollback" OBVIOUS
<1>3. LocksOK' /\ \A q \in Callers \ {p}, s \in Scopes : lock[s] = q => lock'[s] = q BY <1>1, <1>2, ReleaseLocks
<1>4. \A q \in Callers \ {p} : Fit(q) \subseteq Fit(q)'
    <2> SUFFICES ASSUME NEW q \in Callers \ {p}, NEW s \in Fit(q) PROVE s \in Fit(q)' OBVIOUS
    <2>1. s \in Scopes /\ lock[s] = q /\ s \in prog \cup torn BY DEF Fit
    <2>2. lock'[s] = q /\ lock[s] # p BY <1>3, <2>1
    <2>3. s \in prog' \cup torn' BY <2>1, <2>2
    <2> QED BY <2>1, <2>2, <2>3 DEF Fit
<1>5. Moves(p, d) BY <1>4 DEF Moves
<1> QED BY <1>3, <1>5, MovesKeeps

LEMMA ReturnKeeps ==
    ASSUME IssuerInv, NEW p \in Callers, Return(p), UNCHANGED <<now, event, stored, life, rec>>,
           \A s \in (prog \cup torn) \ (prog' \cup torn') : lock[s] = p /\ \A e \in stored[s] : Retired(s, e, now)
    PROVE  IssuerInv'
<1>1. /\ Blank(Idle) /\ Idle.step \in {"idle", "rollback"} /\ Idle.want = {} /\ Idle.scopes \subseteq Scopes
      /\ Idle.op # "replicate"
    BY IdleBlank
<1>2. /\ call' = [call EXCEPT ![p] = Idle] /\ lock' = [s \in Scopes |-> IF lock[s] = p THEN Nobody ELSE lock[s]]
    BY DEF Return, Set
<1> QED BY <1>1, <1>2, EndsKeeps

LEMMA RetireKeeps == ASSUME IssuerInv, NEW p \in Callers, RetireScopes(p) PROVE IssuerInv'
<1>1. call[p].step \notin Off BY DEF RetireScopes, Off
<1>2. \A s \in call[p].scopes : lock[s] = p BY <1>1, Holding
<1>3. PICK gone \in SUBSET call[p].scopes :
        /\ gone # {} => \A s \in call[p].scopes : \A e \in stored[s] : Retired(s, e, now)
        /\ prog' = prog \ gone
    BY DEF RetireScopes
<1>4. Return(p) /\ UNCHANGED <<now, event, stored, life, rec, torn>> BY DEF RetireScopes
<1>5. ASSUME NEW s \in (prog \cup torn) \ (prog' \cup torn') PROVE lock[s] = p /\ \A e \in stored[s] : Retired(s, e, now)
    <2>1. s \in gone BY <1>3, <1>4
    <2> QED BY <1>2, <1>3, <2>1
<1> QED BY <1>4, <1>5, ReturnKeeps

LEMMA UndoneKeeps == ASSUME IssuerInv, NEW p \in Callers, Undone(p) PROVE IssuerInv'
<1> DEFINE c == call[p]
           back == [Idle EXCEPT !.op = "replicate", !.step = "rollback", !.scopes = c.scopes]
<1>1. /\ torn' = (IF c.kept THEN torn \cup c.scopes ELSE torn)
      /\ lock' = [s \in Scopes |-> IF lock[s] = p THEN Nobody ELSE lock[s]]
      /\ UNCHANGED <<now, event, stored, life, rec>> /\ prog' = prog
    BY DEF Undone
<1>2. torn \subseteq torn' BY <1>1
<1>3. \A s \in (prog \cup torn) \ (prog' \cup torn') : lock[s] = p /\ \A e \in stored[s] : Retired(s, e, now)
    BY <1>1, <1>2
<1>4. CASE call' = [call EXCEPT ![p] = Idle]
    <2>1. Return(p) BY <1>1, <1>4 DEF Return, Set
    <2> QED BY <1>1, <1>3, <2>1, ReturnKeeps
<1>5. CASE call' = [call EXCEPT ![p] = back]
    <2>1. c.scopes \subseteq Scopes BY DEF IssuerInv, LocksOK
    <2>2. PICK d : d = back OBVIOUS
    <2>3. /\ DOMAIN d = DOMAIN Idle /\ d.todo = Idle.todo /\ d.written = Idle.written /\ d.finished = Idle.finished
          /\ d.units = Idle.units /\ d.marked = Idle.marked /\ d.at = Idle.at /\ d.step = "rollback" /\ d.op = "replicate"
          /\ d.items = Idle.items /\ d.want = Idle.want /\ d.scopes = c.scopes
        BY <2>2, IdleFields DEF CallFields
    <2>4. Blank(d) BY <2>3, IdleBlank DEF Blank
    <2>5. d.items \in Seq(Minted) /\ d.want = {} BY <2>3, IdleBlank, EmptySeq
    <2>6. d.step \in {"idle", "rollback"} BY <2>3
    <2>7. d.scopes \subseteq Scopes BY <2>1, <2>3
    <2>8. call' = [call EXCEPT ![p] = d] BY <1>5, <2>2
    <2> QED BY <1>1, <1>3, <2>3, <2>4, <2>5, <2>6, <2>7, <2>8, EndsKeeps
<1> QED BY <1>4, <1>5 DEF Undone, Set

(* A call that begins, or the end of one that holds no lock. *)
LEMMA BeginsKeeps ==
    ASSUME IssuerInv, NEW p \in Callers, call[p].step \in {"idle", "rollback"}, NEW d, call' = [call EXCEPT ![p] = d],
           lock' = lock, Blank(d), d.want = d.scopes, d.scopes \subseteq Scopes, d.step # "lock" => d.scopes = {},
           d.op = "replicate" => d.scopes # {} /\ d.items \in Seq(Minted),
           UNCHANGED <<now, event, stored, life, rec>>, prog \cup torn \subseteq prog' \cup torn'
    PROVE  IssuerInv'
<1>1. DOMAIN call = Callers /\ lock \in [Scopes -> Callers \cup {Nobody}] /\ LocksOK BY DEF IssuerInv, LocksOK
<1>2. call'[p] = d /\ DOMAIN call' = Callers /\ \A q \in Callers \ {p} : call'[q] = call[q] BY <1>1
<1>3. \A s \in Scopes : lock[s] # p BY <1>1 DEF LocksOK
<1>4. Fair(d, lock', p)
    <2>1. DOMAIN d = DOMAIN Idle BY DEF Blank
    <2>2. d.scopes \ d.want = {} OBVIOUS
    <2> QED BY <1>3, <2>1, <2>2 DEF Fair
<1>5. \A q \in Callers : Fair(call'[q], lock', q)
    <2>1. \A q \in Callers : Fair(call[q], lock, q) BY <1>1, FairLocks
    <2> QED BY <1>2, <1>4, <2>1
<1>6. LocksOK' BY <1>1, <1>2, <1>5, FairLocksNext
<1>7. \A q \in Callers \ {p} : Fit(q) \subseteq Fit(q)' BY DEF Fit
<1>8. Moves(p, d) BY <1>7 DEF Moves
<1> QED BY <1>6, <1>8, MovesKeeps

LEMMA RollbackKeeps == ASSUME IssuerInv, NEW p \in Callers, Rollback(p) PROVE IssuerInv'
<1>1. /\ call[p].step \in {"idle", "rollback"} /\ call' = [call EXCEPT ![p] = Idle]
      /\ UNCHANGED <<now, event, stored, life, rec, lock>>
    BY DEF Rollback, Set
<1>2. prog \cup torn \subseteq prog' \cup torn' BY DEF Rollback
<1>3. /\ Blank(Idle) /\ Idle.want = Idle.scopes /\ Idle.scopes \subseteq Scopes /\ Idle.scopes = {} /\ Idle.op # "replicate"
    BY IdleBlank
<1> QED BY <1>1, <1>2, <1>3, BeginsKeeps

LEMMA StartKeeps == ASSUME IssuerInv, NEW p \in Callers, NEW b \in Batches, Start(p, b) PROVE IssuerInv'
<1> DEFINE scopes == UNION {b[i].targets : i \in DOMAIN b}
<1>1. scopes \subseteq Scopes /\ \A i \in DOMAIN b : b[i].targets \subseteq scopes BY BatchParts
<1>2. /\ call[p].step \in {"idle", "rollback"} /\ UNCHANGED <<now, prog, event, stored, life, rec, lock, torn>>
      /\ Set(p, [Idle EXCEPT !.op = "issue", !.step = "lock", !.batch = b, !.at = now, !.want = scopes, !.scopes = scopes])
    BY DEF Start
<1> HIDE DEF scopes
<1>3. PICK d : d = [Idle EXCEPT !.op = "issue", !.step = "lock", !.batch = b, !.at = now, !.want = scopes, !.scopes = scopes]
    OBVIOUS
<1>4. /\ DOMAIN d = DOMAIN Idle /\ d.todo = Idle.todo /\ d.written = Idle.written /\ d.finished = Idle.finished
      /\ d.units = Idle.units /\ d.marked = Idle.marked /\ d.at = now /\ d.step = "lock" /\ d.op = "issue"
      /\ d.items = Idle.items /\ d.want = scopes /\ d.scopes = scopes /\ d.batch = b
    BY <1>3, IdleFields DEF CallFields
<1>5. now \in Nat BY DEF IssuerInv, EventsOK
<1>6. Blank(d) BY <1>1, <1>4, <1>5, IdleBlank DEF Blank
<1>7. call' = [call EXCEPT ![p] = d] BY <1>2, <1>3 DEF Set
<1>8. prog \cup torn \subseteq prog' \cup torn' BY <1>2
<1>9. d.op # "replicate" /\ d.step = "lock" /\ d.want = d.scopes /\ d.scopes \subseteq Scopes BY <1>1, <1>4
<1> QED BY <1>2, <1>6, <1>7, <1>8, <1>9, BeginsKeeps

LEMMA StartReplicateKeeps ==
    ASSUME IssuerInv, NEW p \in Callers, NEW s \in Scopes, NEW R \in SUBSET rec, StartReplicate(p, s, R)
    PROVE  IssuerInv'
<1> DEFINE items == ByCreation(R)
           fresh == s \notin prog
<1>1. /\ call[p].step \in {"idle", "rollback"} /\ UNCHANGED <<now, event, stored, life, rec, lock, torn>>
      /\ prog' = prog \cup {s}
      /\ Set(p, [Idle EXCEPT !.op = "replicate", !.step = "lock", !.want = {s}, !.scopes = {s}, !.items = items, !.fresh = fresh])
    BY DEF StartReplicate
<1>2. items \in Seq(Minted)
    <2>1. R \subseteq Minted /\ Minted \subseteq Ids BY DEF IssuerInv, EventsOK, Minted
    <2>2. IsFiniteSet(R) BY <2>1, IdsFinite
    <2>3. items \in Seq(R) BY <2>2, ByCreationLists, ListingsExist
    <2> HIDE DEF items
    <2> QED BY <2>1, <2>3, SeqMonotonic
<1> HIDE DEF items, fresh
<1>3. PICK d : d = [Idle EXCEPT !.op = "replicate", !.step = "lock", !.want = {s}, !.scopes = {s}, !.items = items, !.fresh = fresh]
    OBVIOUS
<1>4. /\ DOMAIN d = DOMAIN Idle /\ d.todo = Idle.todo /\ d.written = Idle.written /\ d.finished = Idle.finished
      /\ d.units = Idle.units /\ d.marked = Idle.marked /\ d.at = Idle.at /\ d.step = "lock" /\ d.op = "replicate"
      /\ d.items = items /\ d.want = {s} /\ d.scopes = {s}
    BY <1>3, IdleFields DEF CallFields
<1>5. Blank(d) BY <1>4, IdleBlank DEF Blank
<1>6. call' = [call EXCEPT ![p] = d] BY <1>1, <1>3 DEF Set
<1>7. prog \cup torn \subseteq prog' \cup torn' BY <1>1
<1>8. d.step = "lock" /\ d.want = d.scopes /\ d.scopes \subseteq Scopes /\ d.scopes # {} /\ d.items \in Seq(Minted)
    BY <1>2, <1>4
<1> QED BY <1>1, <1>5, <1>6, <1>7, <1>8, BeginsKeeps

LEMMA StartRetireKeeps ==
    ASSUME IssuerInv, NEW p \in Callers, NEW scopes \in SUBSET Scopes, StartRetire(p, scopes)
    PROVE  IssuerInv'
<1>1. /\ call[p].step \in {"idle", "rollback"} /\ UNCHANGED <<now, prog, event, stored, life, rec, lock, torn>>
      /\ Set(p, [Idle EXCEPT !.op = "retire", !.step = "lock", !.want = scopes, !.scopes = scopes])
    BY DEF StartRetire
<1>2. PICK d : d = [Idle EXCEPT !.op = "retire", !.step = "lock", !.want = scopes, !.scopes = scopes] OBVIOUS
<1>3. /\ DOMAIN d = DOMAIN Idle /\ d.todo = Idle.todo /\ d.written = Idle.written /\ d.finished = Idle.finished
      /\ d.units = Idle.units /\ d.marked = Idle.marked /\ d.at = Idle.at /\ d.step = "lock" /\ d.op = "retire"
      /\ d.want = scopes /\ d.scopes = scopes
    BY <1>2, IdleFields DEF CallFields
<1>4. Blank(d) BY <1>3, IdleBlank DEF Blank
<1>5. call' = [call EXCEPT ![p] = d] BY <1>1, <1>2 DEF Set
<1>6. prog \cup torn \subseteq prog' \cup torn' BY <1>1
<1>7. d.step = "lock" /\ d.want = d.scopes /\ d.scopes \subseteq Scopes /\ d.op # "replicate" BY <1>3
<1> QED BY <1>1, <1>4, <1>5, <1>6, <1>7, BeginsKeeps
----------------------------------------------------------------------------
(* Scopes are locked in the order of their keys. *)
LEMMA LockFair ==
    ASSUME LocksOK, NEW p \in Callers, Lock(p)
    PROVE  /\ LocksOK' /\ \A q \in Callers, s \in Scopes : lock[s] = q => lock'[s] = q
           /\ \E d : /\ call' = [call EXCEPT ![p] = d] /\ DOMAIN d = CallFields /\ d.step \in {"lock", "plan"}
                     /\ \A x \in CallFields \ {"step", "want"} : d[x] = call[p][x]
<1> DEFINE c == call[p]
<1>1. DOMAIN call = Callers /\ lock \in [Scopes -> Callers \cup {Nobody}] BY DEF LocksOK
<1>2. \A q \in Callers : Fair(call[q], lock, q) BY FairLocks
<1>3. DOMAIN c = CallFields /\ c.step = "lock" BY <1>2, IdleFields DEF Fair, Lock
<1>4. Nobody \notin Callers BY IssuerAssumption DEF Nobody
<1>5. CASE c.want = {} /\ Set(p, [c EXCEPT !.step = "plan"]) /\ lock' = lock
    <2>1. PICK d : d = [c EXCEPT !.step = "plan"] OBVIOUS
    <2>2. DOMAIN d = CallFields /\ d.step = "plan" /\ \A x \in CallFields \ {"step", "want"} : d[x] = c[x]
        BY <1>3, <2>1 DEF CallFields
    <2>3. d.want = c.want /\ d.scopes = c.scopes /\ d.op = c.op /\ d.step = "plan" /\ DOMAIN d = DOMAIN c
        BY <1>3, <2>1 DEF CallFields
    <2>4. call' = [call EXCEPT ![p] = d] BY <1>5, <2>1 DEF Set
    <2>5. call'[p] = d /\ DOMAIN call' = Callers /\ \A q \in Callers \ {p} : call'[q] = call[q] BY <1>1, <2>4
    <2>6. Fair(c, lock, p) BY <1>2
    <2>7. Fair(d, lock, p) BY <1>3, <1>5, <2>3, <2>6 DEF Fair
    <2>8. \A q \in Callers : Fair(call'[q], lock', q) BY <1>2, <1>5, <2>5, <2>7
    <2>9. LocksOK' BY <1>1, <1>5, <2>5, <2>8, FairLocksNext
    <2>10. \E x : /\ call' = [call EXCEPT ![p] = x] /\ DOMAIN x = CallFields /\ x.step \in {"lock", "plan"}
                  /\ \A y \in CallFields \ {"step", "want"} : x[y] = c[y]
        BY <2>2, <2>4
    <2> QED BY <1>5, <2>9, <2>10
<1>6. CASE /\ c.want # {} /\ lock[Min(c.want)] = Nobody /\ lock' = [lock EXCEPT ![Min(c.want)] = p]
           /\ Set(p, [c EXCEPT !.want = @ \ {Min(c.want)}])
    <2> DEFINE W == c.want
               m == Min(W)
               V == W \ {m}
    <2>1. Fair(c, lock, p) BY <1>2
    <2>2. W \subseteq Scopes /\ W \subseteq c.scopes /\ c.scopes \subseteq Scopes BY <2>1 DEF Fair
    <2>3. Scopes \subseteq Nat /\ IsFiniteSet(Scopes) BY IssuerAssumption
    <2>4. /\ lock[m] = Nobody /\ lock' = [lock EXCEPT ![m] = p] /\ W # {} BY <1>6
    <2>5. PICK d : d = [c EXCEPT !.want = V] OBVIOUS
    <2>6. call' = [call EXCEPT ![p] = d] BY <1>6, <2>5 DEF Set
    <2>7. W = c.want /\ V = W \ {m} OBVIOUS
    <2> HIDE DEF W
    <2>8. W \in SUBSET Int BY <2>2, <2>3, SMT
    <2>9. IsFiniteSet(W) BY <2>2, <2>3, FS_Subset
    <2>10. m \in W /\ \A y \in W : m <= y BY <2>4, <2>8, <2>9, MinOf
    <2> HIDE DEF m, V
    <2>11. DOMAIN d = CallFields /\ d.step = "lock" /\ d.want = V /\ \A x \in CallFields \ {"step", "want"} : d[x] = c[x]
        BY <1>3, <2>5 DEF CallFields
    <2>12. d.scopes = c.scopes /\ d.op = c.op BY <2>11 DEF CallFields
    <2>13. call'[p] = d /\ DOMAIN call' = Callers /\ \A q \in Callers \ {p} : call'[q] = call[q] BY <1>1, <2>6
    <2>14. m \in Scopes /\ m \in c.scopes BY <2>2, <2>10
    <2>15. lock' \in [Scopes -> Callers \cup {Nobody}] /\ lock'[m] = p /\ \A s \in Scopes : s # m => lock'[s] = lock[s]
        BY <1>1, <2>4, <2>14, SMT
    <2>16. c.scopes \ V = (c.scopes \ W) \cup {m} BY <2>7, <2>10, <2>14
    <2>17. \A s \in c.scopes \ W, t \in W : s < t BY <2>1, <2>7 DEF Fair
    <2>18. \A s \in c.scopes \ V, t \in V : s < t
        <3>1. \A t \in V : t \in W /\ t # m BY <2>7
        <3>2. \A t \in V : m < t
            <4> SUFFICES ASSUME NEW t \in V PROVE m < t OBVIOUS
            <4>1. m \in Int /\ t \in Int /\ m <= t /\ t # m BY <2>8, <2>10, <3>1
            <4> QED BY <4>1, SMT
        <3> QED BY <2>16, <2>17, <3>1, <3>2
    <2>19. ASSUME NEW s \in Scopes PROVE lock'[s] = p <=> s \in c.scopes \ V
        <3>1. lock[s] = p <=> s \in c.scopes \ W BY <1>3, <2>1, <2>7 DEF Fair
        <3>2. s \in c.scopes \ V <=> s = m \/ s \in c.scopes \ W BY <2>16
        <3>3. CASE s = m BY <2>15, <3>2, <3>3
        <3>4. CASE s # m BY <2>15, <3>1, <3>2, <3>4
        <3> QED BY <3>3, <3>4
    <2>20. Fair(d, lock', p)
        <3>1. V \subseteq c.scopes BY <2>2, <2>7
        <3>2. d.step \notin {"idle", "rollback"} /\ d.step = "lock" BY <2>11
        <3>3. c.op = "replicate" => c.scopes # {} BY <2>14
        <3>4. DOMAIN d = DOMAIN Idle BY <2>11, IdleFields
        <3> QED BY <2>2, <2>11, <2>12, <2>18, <2>19, <3>1, <3>2, <3>3, <3>4 DEF Fair
    <2>21. ASSUME NEW q \in Callers \ {p}, NEW s \in Scopes PROVE lock'[s] = q <=> lock[s] = q
        <3>1. q # Nobody /\ q # p BY <1>4
        <3>2. CASE s = m BY <2>4, <2>15, <3>1, <3>2
        <3>3. CASE s # m BY <2>15, <3>3
        <3> QED BY <3>2, <3>3
    <2>22. ASSUME NEW q \in Callers PROVE Fair(call'[q], lock', q)
        <3>1. CASE q = p BY <2>13, <2>20, <3>1
        <3>2. CASE q # p
            <4>1. Fair(call[q], lock, q) /\ \A s \in Scopes : lock'[s] = q <=> lock[s] = q BY <1>2, <2>21, <3>2
            <4>2. Fair(call[q], lock', q) BY <4>1, FairStays
            <4> QED BY <2>13, <3>2, <4>2
        <3> QED BY <3>1, <3>2
    <2>23. LocksOK' BY <2>13, <2>15, <2>22, FairLocksNext
    <2>24. \A q \in Callers, s \in Scopes : lock[s] = q => lock'[s] = q
        <3>1. \A q \in Callers : q # Nobody BY <1>4
        <3> QED BY <2>4, <2>15, <3>1
    <2>25. \E x : /\ call' = [call EXCEPT ![p] = x] /\ DOMAIN x = CallFields /\ x.step \in {"lock", "plan"}
                  /\ \A y \in CallFields \ {"step", "want"} : x[y] = c[y]
        BY <2>6, <2>11
    <2> QED BY <2>23, <2>24, <2>25
<1> QED BY <1>5, <1>6 DEF Lock

LEMMA LockKeeps == ASSUME IssuerInv, NEW p \in Callers, Lock(p) PROVE IssuerInv'
<1> DEFINE c == call[p]
<1>1. LocksOK BY DEF IssuerInv
<1>2. /\ LocksOK' /\ \A q \in Callers, s \in Scopes : lock[s] = q => lock'[s] = q
      /\ \E d : /\ call' = [call EXCEPT ![p] = d] /\ DOMAIN d = CallFields /\ d.step \in {"lock", "plan"}
                /\ \A x \in CallFields \ {"step", "want"} : d[x] = call[p][x]
    BY <1>1, LockFair
<1>3. PICK d : /\ call' = [call EXCEPT ![p] = d] /\ DOMAIN d = CallFields /\ d.step \in {"lock", "plan"}
               /\ \A x \in CallFields \ {"step", "want"} : d[x] = c[x]
    BY <1>2
<1>4. /\ d.op = c.op /\ d.batch = c.batch /\ d.at = c.at /\ d.scopes = c.scopes /\ d.items = c.items /\ d.todo = c.todo
      /\ d.written = c.written /\ d.marked = c.marked /\ d.finished = c.finished /\ d.units = c.units
    BY <1>3 DEF CallFields
<1>5. UNCHANGED <<now, prog, event, stored, life, rec, torn>> /\ rec' \subseteq rec BY DEF Lock
<1>6. c.step = "lock" BY DEF Lock
<1>7. Minted' = Minted /\ EventsOK' /\ LivesOK' BY <1>5, StoresStay
<1>8. DOMAIN call = Callers /\ WorkOK(Good(p), Minted, c) BY Holding
<1>9. call'[p] = d /\ \A q \in Callers \ {p} : call'[q] = call[q] BY <1>3, <1>8
<1>10. RetiredHasNoLive' BY <1>5 DEF IssuerInv, RetiredHasNoLive, Retired
<1>11. \A q \in Callers : Fit(q) \subseteq Fit(q)' BY <1>2, <1>5 DEF Fit
<1>12. \A s \in Scopes, e \in Ids : life'[s][e].cancelled => life[s][e].cancelled BY <1>5
<1>13. WorkOK(Good(p), Minted, d)
    <2>1. d.step # "record" /\ d.step \notin Writing /\ d.step # "mark" /\ c.step # "mark" BY <1>3, <1>6 DEF Writing
    <2> QED BY <1>4, <1>8, <2>1 DEF WorkOK, OwnIsFirst
<1>14. ASSUME NEW q \in Callers PROVE WorkOK(Good(q)', Minted', call'[q])
    <2>1. \A s \in Fit(q), e \in Ids : life'[s][e].cancelled => life[s][e].cancelled BY <1>12 DEF Fit
    <2>2. Minted \subseteq Minted' /\ Minted \subseteq Ids /\ Fit(q) \subseteq Fit(q)' BY <1>7, <1>11, Holding
    <2>3. CASE q = p
        <3>1. Copies(Fit(q), life, Minted) \subseteq Copies(Fit(q)', life', Minted') BY <2>1, <2>2, CopiesGrow
        <3> QED BY <1>9, <1>13, <2>2, <2>3, <3>1, WorkGrows DEF Good
    <2>4. CASE q # p
        <3>1. call'[q] = call[q] BY <1>9, <2>4
        <3> QED BY <2>1, <2>2, <3>1, WorkStays
    <2> QED BY <2>3, <2>4
<1> QED BY <1>2, <1>7, <1>10, <1>14 DEF IssuerInv
----------------------------------------------------------------------------
(* Steps that are no caller's. *)
LEMMA QuietKeeps ==
    ASSUME IssuerInv, call' = call, lock' = lock, EventsOK', LivesOK', RetiredHasNoLive', Minted' = Minted,
           prog \cup torn \subseteq prog' \cup torn',
           \A s \in Scopes, e \in Ids : lock[s] # Nobody => (life'[s][e].cancelled => life[s][e].cancelled)
    PROVE  IssuerInv'
<1>1. LocksOK'
    <2>1. LocksOK BY DEF IssuerInv
    <2>2. /\ DOMAIN call = Callers /\ lock \in [Scopes -> Callers \cup {Nobody}]
          /\ \A q \in Callers : Fair(call[q], lock, q)
        BY <2>1, FairLocks
    <2>3. DOMAIN call' = Callers /\ lock' \in [Scopes -> Callers \cup {Nobody}] /\ \A q \in Callers : Fair(call'[q], lock', q)
        BY <2>2
    <2> QED BY <2>3, FairLocksNext
<1>2. Nobody \notin Callers BY IssuerAssumption DEF Nobody
<1>3. ASSUME NEW q \in Callers PROVE WorkOK(Good(q)', Minted', call'[q])
    <2>1. call'[q] = call[q] /\ Minted \subseteq Minted' OBVIOUS
    <2>2. Fit(q) \subseteq Fit(q)' BY DEF Fit
    <2>3. \A s \in Fit(q), e \in Ids : life'[s][e].cancelled => life[s][e].cancelled BY <1>2 DEF Fit
    <2> QED BY <2>1, <2>2, <2>3, WorkStays
<1> QED BY <1>1, <1>3 DEF IssuerInv

LEMMA AssignKeeps == ASSUME IssuerInv, NEW s \in Scopes, Assign(s) PROVE IssuerInv'
<1>1. /\ UNCHANGED <<now, event, stored, life, rec, lock, call, torn>> /\ prog' = prog \cup {s} /\ rec' \subseteq rec
    BY DEF Assign
<1>2. Minted' = Minted /\ EventsOK' /\ LivesOK' BY <1>1, StoresStay
<1>3. prog \cup torn \subseteq prog' \cup torn' BY <1>1
<1>4. RetiredHasNoLive'
    <2>1. /\ \A e \in Minted : event'[e] = event[e]
          /\ \A x \in Scopes \ (prog \cup torn) : life'[x] = life[x] /\ stored'[x] = stored[x]
        BY <1>1
    <2> QED BY <1>1, <1>2, <1>3, <2>1, RetiredStays DEF IssuerInv
<1> QED BY <1>1, <1>2, <1>3, <1>4, QuietKeeps

LEMMA CancelRecordKeeps == ASSUME IssuerInv, NEW e \in Ids, CancelRecord(e) PROVE IssuerInv'
<1>1. /\ UNCHANGED <<now, prog, event, stored, life, lock, call, torn>> /\ rec' \subseteq rec
    BY DEF CancelRecord
<1>2. Minted' = Minted /\ EventsOK' /\ LivesOK' BY <1>1, StoresStay
<1>3. prog \cup torn \subseteq prog' \cup torn' BY <1>1
<1>4. RetiredHasNoLive' BY <1>1 DEF IssuerInv, RetiredHasNoLive, Retired
<1> QED BY <1>1, <1>2, <1>3, <1>4, QuietKeeps

LEMMA CancelledLife ==
    ASSUME NEW x \in Lives
    PROVE  [x EXCEPT !.cancelled = TRUE] \in Lives /\ [x EXCEPT !.cancelled = TRUE].cancelled
BY DEF Lives

(* A cancel takes the scope's lock, so no call has its copies in hand. *)
LEMMA CancelKeeps == ASSUME IssuerInv, NEW s \in Scopes, NEW e \in Ids, Cancel(s, e) PROVE IssuerInv'
<1> DEFINE l == [life[s][e] EXCEPT !.cancelled = TRUE]
<1>1. /\ UNCHANGED <<now, prog, event, stored, rec, lock, call, torn>> /\ lock[s] = Nobody /\ e \in stored[s]
      /\ life' = [life EXCEPT ![s][e].cancelled = TRUE]
    BY DEF Cancel
<1>2. life \in [Scopes -> [Ids -> Lives]] /\ \A x \in Scopes, f \in Ids : life[x][f].cancelled => f \in stored[x]
    BY DEF IssuerInv, LivesOK
<1>3. l \in Lives /\ l.cancelled
    <2>1. life[s][e] \in Lives BY <1>2
    <2> QED BY <2>1, CancelledLife
<1>4. life' = [life EXCEPT ![s] = [life[s] EXCEPT ![e] = l]] BY <1>1, <1>2
<1> HIDE DEF l
<1>5. /\ life' \in [Scopes -> [Ids -> Lives]] /\ \A x \in Scopes : x # s => life'[x] = life[x]
      /\ life'[s] = [life[s] EXCEPT ![e] = l]
    BY <1>2, <1>3, <1>4, SMT
<1>6. life'[s][e] = l /\ \A f \in Ids : f # e => life'[s][f] = life[s][f] BY <1>2, <1>5, SMT
<1>7. Minted' = Minted /\ EventsOK' BY <1>1 DEF IssuerInv, EventsOK, Minted
<1>8. LivesOK'
    <2>1. ASSUME NEW x \in Scopes, NEW f \in Ids, life'[x][f].cancelled PROVE f \in stored'[x]
        <3>1. CASE x # s BY <1>1, <1>2, <1>5, <2>1, <3>1
        <3>2. CASE x = s /\ f # e BY <1>1, <1>2, <1>6, <2>1, <3>2
        <3>3. CASE x = s /\ f = e BY <1>1, <3>3
        <3> QED BY <3>1, <3>2, <3>3
    <2> QED BY <1>5, <2>1 DEF LivesOK
<1>9. RetiredHasNoLive'
    <2> SUFFICES ASSUME NEW x \in Scopes \ (prog' \cup torn'), NEW f \in stored'[x] PROVE Retired(x, f, now)'
        BY DEF RetiredHasNoLive
    <2>1. Retired(x, f, now) /\ f \in Ids BY <1>1 DEF IssuerInv, RetiredHasNoLive, EventsOK, Minted
    <2>2. CASE x # s BY <1>1, <1>5, <2>1, <2>2 DEF Retired
    <2>3. CASE x = s /\ f # e BY <1>1, <1>6, <2>1, <2>3 DEF Retired
    <2>4. CASE x = s /\ f = e BY <1>3, <1>6, <2>4 DEF Retired
    <2> QED BY <2>2, <2>3, <2>4
<1>10. \A x \in Scopes, f \in Ids : lock[x] # Nobody => (life'[x][f].cancelled => life[x][f].cancelled)
    BY <1>1, <1>5
<1>11. prog \cup torn \subseteq prog' \cup torn' BY <1>1
<1> QED BY <1>1, <1>7, <1>8, <1>9, <1>10, <1>11, QuietKeeps

LEMMA RetiredLater ==
    ASSUME NEW t \in Int, NEW a \in Int, NEW b \in Int
    PROVE  (t >= a => t + 1 >= a) /\ (t >= b => t + 1 >= b)
BY SMT

LEMMA TickKeeps == ASSUME IssuerInv, Tick PROVE IssuerInv'
<1>1. UNCHANGED <<prog, event, stored, life, rec, lock, call, torn>> /\ now' = now + 1 BY DEF Tick
<1>2. /\ now \in Nat /\ event \in [Ids -> Events] /\ stored \in [Scopes -> SUBSET Minted]
      /\ life \in [Scopes -> [Ids -> Lives]]
    BY DEF IssuerInv, EventsOK, LivesOK
<1>3. now \in Int /\ now + 1 \in Nat BY <1>2, SMT
<1>4. Minted' = Minted /\ EventsOK' BY <1>1, <1>3 DEF IssuerInv, EventsOK, Minted
<1>5. LivesOK' BY <1>1 DEF IssuerInv, LivesOK
<1>6. RetiredHasNoLive'
    <2> SUFFICES ASSUME NEW s \in Scopes \ (prog' \cup torn'), NEW e \in stored'[s] PROVE Retired(s, e, now)'
        BY DEF RetiredHasNoLive
    <2>1. Retired(s, e, now) /\ e \in Ids BY <1>1, <1>2 DEF IssuerInv, RetiredHasNoLive, Minted
    <2>2. event[e].end \in Int /\ life[s][e].at \in Int BY <1>2, <2>1 DEF Events, Lives
    <2>3. (now >= event[e].end => now' >= event[e].end) /\ (now >= life[s][e].at => now' >= life[s][e].at)
        BY <1>1, <1>3, <2>2, RetiredLater
    <2> QED BY <1>1, <2>1, <2>3 DEF Retired
<1>7. /\ prog \cup torn \subseteq prog' \cup torn'
      /\ \A s \in Scopes, e \in Ids : lock[s] # Nobody => (life'[s][e].cancelled => life[s][e].cancelled)
    BY <1>1
<1> QED BY <1>1, <1>4, <1>5, <1>6, <1>7, QuietKeeps

(* After a crash nobody holds a scope or a copy. *)
LEMMA CrashKeeps == ASSUME IssuerInv, Crash PROVE IssuerInv'
<1>1. /\ UNCHANGED <<now, prog, event, stored, life, rec>> /\ rec' \subseteq rec /\ torn \subseteq torn'
      /\ call' = [p \in Callers |-> Idle] /\ lock' = [s \in Scopes |-> Nobody]
    BY DEF Crash
<1>2. Minted' = Minted /\ EventsOK' /\ LivesOK' BY <1>1, StoresStay
<1>3. prog \cup torn \subseteq prog' \cup torn' BY <1>1
<1>4. RetiredHasNoLive'
    <2>1. /\ \A e \in Minted : event'[e] = event[e]
          /\ \A x \in Scopes \ (prog \cup torn) : life'[x] = life[x] /\ stored'[x] = stored[x]
        BY <1>1
    <2> QED BY <1>1, <1>2, <1>3, <2>1, RetiredStays DEF IssuerInv
<1>5. ASSUME NEW k, k = [s \in Scopes |-> Nobody], NEW q \in Callers PROVE Fair(Idle, k, q)
    <2>1. Nobody \notin Callers BY IssuerAssumption DEF Nobody
    <2>2. \A s \in Scopes : k[s] # q BY <1>5, <2>1
    <2> QED BY <2>2, IdleBlank DEF Fair
<1>6. LocksOK'
    <2>1. \A q \in Callers : Fair(call'[q], lock', q) BY <1>1, <1>5
    <2>2. DOMAIN call' = Callers /\ lock' \in [Scopes -> Callers \cup {Nobody}] BY <1>1
    <2> QED BY <2>1, <2>2, FairLocksNext
<1>7. ASSUME NEW q \in Callers PROVE WorkOK(Good(q)', Minted', call'[q])
    <2>1. call'[q] = Idle BY <1>1
    <2>2. Blank(Idle) /\ Idle.op # "replicate" BY IdleBlank
    <2> QED BY <2>1, <2>2, BlankWork
<1> QED BY <1>2, <1>4, <1>6, <1>7 DEF IssuerInv
----------------------------------------------------------------------------
(* The invariant holds at first. *)
LEMMA NoneEvent == None \in Events
<1>1. 0 \in Int BY SMT
<1> QED BY <1>1 DEF None, Events

LEMMA InitInv == ASSUME InitIssuer PROVE IssuerInv
<1>1. /\ now = 0 /\ prog = Scopes /\ rec = {} /\ event = [e \in Ids |-> None] /\ stored = [s \in Scopes |-> {}]
      /\ life = [s \in Scopes |-> [e \in Ids |-> NoLife]] /\ lock = [s \in Scopes |-> Nobody]
      /\ call = [p \in Callers |-> Idle]
    BY DEF InitIssuer
<1>2. Minted = {} BY <1>1 DEF Minted
<1>3. EventsOK
    <2>1. MaxEvents \in Nat BY IssuerAssumption
    <2>2. 0 \in Nat /\ 0 \in Int /\ 0 \in 0..MaxEvents /\ 1..0 = {} BY <2>1, SMT
    <2>3. None \in Events BY NoneEvent
    <2>4. event \in [Ids -> Events] BY <1>1, <2>3
    <2>5. stored \in [Scopes -> SUBSET Minted] BY <1>1
    <2>6. \E n \in 0..MaxEvents : Minted = 1..n BY <1>2, <2>2
    <2>7. now \in Nat /\ rec \subseteq Minted BY <1>1, <2>2
    <2> QED BY <2>4, <2>5, <2>6, <2>7 DEF EventsOK
<1>4. LivesOK
    <2>1. NoLife \in Lives /\ ~NoLife.cancelled BY NewLifeOpen DEF Open
    <2>2. life \in [Scopes -> [Ids -> Lives]] BY <1>1, <2>1
    <2>3. \A s \in Scopes, e \in Ids : ~life[s][e].cancelled BY <1>1, <2>1
    <2> QED BY <2>2, <2>3 DEF LivesOK
<1>5. RetiredHasNoLive BY <1>1 DEF RetiredHasNoLive
<1>6. LocksOK
    <2>1. Nobody \notin Callers BY IssuerAssumption DEF Nobody
    <2>2. ASSUME NEW q \in Callers PROVE Fair(call[q], lock, q)
        <3>1. call[q] = Idle /\ \A s \in Scopes : lock[s] # q BY <1>1, <2>1
        <3>2. Fair(Idle, lock, q) BY <3>1, IdleBlank DEF Fair
        <3> QED BY <3>1, <3>2
    <2>3. DOMAIN call = Callers /\ lock \in [Scopes -> Callers \cup {Nobody}] BY <1>1
    <2> QED BY <2>2, <2>3, FairLocks
<1>7. ASSUME NEW q \in Callers PROVE WorkOK(Good(q), Minted, call[q])
    <2>1. call[q] = Idle BY <1>1
    <2>2. Blank(Idle) /\ Idle.op # "replicate" BY IdleBlank
    <2> QED BY <2>1, <2>2, BlankWork
<1> QED BY <1>3, <1>4, <1>5, <1>6, <1>7 DEF IssuerInv

(* Every step of the issuer keeps it. *)
LEMMA WorkKeeps == ASSUME IssuerInv, NEW p \in Callers, Work(p) PROVE IssuerInv'
<1> DEFINE Back == Return(p) /\ UNCHANGED <<now, prog, event, stored, life, rec, torn>>
<1>1. ASSUME Back PROVE IssuerInv'
    <2>1. Return(p) /\ UNCHANGED <<now, event, stored, life, rec>> BY <1>1
    <2>2. \A s \in (prog \cup torn) \ (prog' \cup torn') : lock[s] = p /\ \A e \in stored[s] : Retired(s, e, now)
        BY <1>1
    <2> QED BY <2>1, <2>2, ReturnKeeps
<1>2. ASSUME \E d : Carries(p, d) PROVE IssuerInv' BY <1>2, CarriesKeeps
<1> HIDE DEF Back
<1>3. CASE Plan(p) BY <1>1, <1>2, <1>3, PlanCarries DEF Back
<1>4. CASE PlanReplica(p) BY <1>1, <1>2, <1>4, PlanReplicaCarries DEF Back
<1>5. CASE RetireScopes(p) BY <1>5, RetireKeeps
<1>6. CASE WriteRecord(p) BY <1>1, <1>2, <1>6, WriteRecordCarries DEF Back
<1>7. CASE WriteLife(p) BY <1>2, <1>7, WriteLifeCarries
<1>8. CASE WriteControl(p) BY <1>2, <1>8, WriteControlCarries
<1>9. CASE WriteMark(p) BY <1>2, <1>9, WriteMarkCarries
<1>10. CASE Written(p) BY <1>2, <1>10, WrittenCarries
<1>11. CASE RevertMark(p) BY <1>2, <1>11, RevertMarkCarries
<1>12. CASE DeleteControl(p) BY <1>2, <1>12, DeleteControlCarries
<1>13. CASE DeleteLife(p) BY <1>2, <1>13, DeleteLifeCarries
<1>14. CASE DeleteRecord(p) BY <1>2, <1>14, DeleteRecordCarries
<1>15. CASE Undone(p) BY <1>15, UndoneKeeps
<1>16. CASE Rollback(p) BY <1>16, RollbackKeeps
<1> QED
    BY <1>3, <1>4, <1>5, <1>6, <1>7, <1>8, <1>9, <1>10, <1>11, <1>12, <1>13, <1>14, <1>15, <1>16 DEF Work

LEMMA NextKeeps == ASSUME IssuerInv, [IssuerNext]_issuerVars PROVE IssuerInv'
<1>1. CASE UNCHANGED issuerVars
    <2>1. UNCHANGED <<now, prog, event, stored, life, rec, lock, call, torn>> BY <1>1 DEF issuerVars
    <2>2. rec' \subseteq rec /\ prog \cup torn \subseteq prog' \cup torn' BY <2>1
    <2>3. Minted' = Minted /\ EventsOK' /\ LivesOK' BY <2>1, <2>2, StoresStay
    <2>4. RetiredHasNoLive' BY <2>1 DEF IssuerInv, RetiredHasNoLive, Retired
    <2> QED BY <2>1, <2>2, <2>3, <2>4, QuietKeeps
<1>2. ASSUME NEW p \in Callers, NEW b \in Batches, Start(p, b) PROVE IssuerInv' BY <1>2, StartKeeps
<1>3. ASSUME NEW p \in Callers, NEW s \in Scopes, NEW R \in SUBSET rec, StartReplicate(p, s, R) PROVE IssuerInv'
    BY <1>3, StartReplicateKeeps
<1>4. ASSUME NEW p \in Callers, NEW scopes \in SUBSET Scopes, StartRetire(p, scopes) PROVE IssuerInv'
    BY <1>4, StartRetireKeeps
<1>5. ASSUME NEW p \in Callers, Lock(p) PROVE IssuerInv' BY <1>5, LockKeeps
<1>6. ASSUME NEW p \in Callers, Work(p) PROVE IssuerInv' BY <1>6, WorkKeeps
<1>7. ASSUME NEW s \in Scopes, Assign(s) PROVE IssuerInv' BY <1>7, AssignKeeps
<1>8. ASSUME NEW s \in Scopes, NEW e \in Ids, Cancel(s, e) PROVE IssuerInv' BY <1>8, CancelKeeps
<1>9. ASSUME NEW e \in Ids, CancelRecord(e) PROVE IssuerInv' BY <1>9, CancelRecordKeeps
<1>10. CASE Tick BY <1>10, TickKeeps
<1>11. CASE Crash BY <1>11, CrashKeeps
<1> QED BY <1>1, <1>2, <1>3, <1>4, <1>5, <1>6, <1>7, <1>8, <1>9, <1>10, <1>11 DEF IssuerNext

(* No step takes a cancellation back. *)
CancelsStay == \A s \in Scopes : \A e \in Ids : life[s][e].cancelled => life'[s][e].cancelled

LEMMA WorkStaysCancelled == ASSUME IssuerInv, NEW p \in Callers, Work(p) PROVE CancelsStay
<1>1. ASSUME life' = life PROVE CancelsStay BY <1>1 DEF CancelsStay
<1>2. ASSUME \E d : Carries(p, d) PROVE CancelsStay BY <1>2 DEF Carries, CancelsStay
<1> HIDE DEF CancelsStay
<1>3. CASE Plan(p) BY <1>1, <1>3 DEF Plan
<1>4. CASE PlanReplica(p) BY <1>1, <1>4 DEF PlanReplica
<1>5. CASE RetireScopes(p) BY <1>1, <1>5 DEF RetireScopes
<1>6. CASE WriteRecord(p) BY <1>1, <1>6 DEF WriteRecord
<1>7. CASE WriteLife(p) BY <1>2, <1>7, WriteLifeCarries
<1>8. CASE WriteControl(p) BY <1>1, <1>8 DEF WriteControl
<1>9. CASE WriteMark(p) BY <1>2, <1>9, WriteMarkCarries
<1>10. CASE Written(p) BY <1>1, <1>10 DEF Written
<1>11. CASE RevertMark(p) BY <1>2, <1>11, RevertMarkCarries
<1>12. CASE DeleteControl(p) BY <1>1, <1>12 DEF DeleteControl
<1>13. CASE DeleteLife(p) BY <1>2, <1>13, DeleteLifeCarries
<1>14. CASE DeleteRecord(p) BY <1>1, <1>14 DEF DeleteRecord
<1>15. CASE Undone(p) BY <1>1, <1>15 DEF Undone
<1>16. CASE Rollback(p) BY <1>1, <1>16 DEF Rollback
<1> QED
    BY <1>3, <1>4, <1>5, <1>6, <1>7, <1>8, <1>9, <1>10, <1>11, <1>12, <1>13, <1>14, <1>15, <1>16 DEF Work

LEMMA NextStaysCancelled == ASSUME IssuerInv, [IssuerNext]_issuerVars PROVE CancelsStay
<1>1. ASSUME life' = life PROVE CancelsStay BY <1>1 DEF CancelsStay
<1>2. CASE UNCHANGED issuerVars BY <1>1, <1>2 DEF issuerVars
<1>3. ASSUME NEW p \in Callers, NEW b \in Batches, Start(p, b) PROVE CancelsStay BY <1>1, <1>3 DEF Start
<1>4. ASSUME NEW p \in Callers, NEW s \in Scopes, NEW R \in SUBSET rec, StartReplicate(p, s, R) PROVE CancelsStay
    BY <1>1, <1>4 DEF StartReplicate
<1>5. ASSUME NEW p \in Callers, NEW scopes \in SUBSET Scopes, StartRetire(p, scopes) PROVE CancelsStay
    BY <1>1, <1>5 DEF StartRetire
<1>6. ASSUME NEW p \in Callers, Lock(p) PROVE CancelsStay BY <1>1, <1>6 DEF Lock
<1>7. ASSUME NEW p \in Callers, Work(p) PROVE CancelsStay BY <1>7, WorkStaysCancelled
<1>8. ASSUME NEW s \in Scopes, Assign(s) PROVE CancelsStay BY <1>1, <1>8 DEF Assign
<1>9. ASSUME NEW s \in Scopes, NEW e \in Ids, Cancel(s, e) PROVE CancelsStay
    <2>1. life' = [life EXCEPT ![s][e].cancelled = TRUE] BY <1>9 DEF Cancel
    <2>2. life \in [Scopes -> [Ids -> Lives]] BY DEF IssuerInv, LivesOK
    <2> SUFFICES ASSUME NEW x \in Scopes, NEW f \in Ids, life[x][f].cancelled PROVE life'[x][f].cancelled
        BY DEF CancelsStay
    <2> DEFINE l == [life[s][e] EXCEPT !.cancelled = TRUE]
    <2>5. life' = [life EXCEPT ![s] = [life[s] EXCEPT ![e] = l]] BY <2>1, <2>2
    <2>6. l.cancelled
        <3>1. life[s][e] \in Lives BY <2>2
        <3> QED BY <3>1, CancelledLife
    <2> HIDE DEF l
    <2>7. life'[x][f] = life[x][f] \/ life'[x][f] = l BY <2>2, <2>5, SMT
    <2> QED BY <2>6, <2>7
<1>10. ASSUME NEW e \in Ids, CancelRecord(e) PROVE CancelsStay BY <1>1, <1>10 DEF CancelRecord
<1>11. CASE Tick BY <1>1, <1>11 DEF Tick
<1>12. CASE Crash BY <1>1, <1>12 DEF Crash
<1> QED BY <1>2, <1>3, <1>4, <1>5, <1>6, <1>7, <1>8, <1>9, <1>10, <1>11, <1>12 DEF IssuerNext
----------------------------------------------------------------------------
(* What each caller of the issuer has in hand, its locks and the stores fit  *)
(* together after every step, failed write, undo and crash: a copy it may    *)
(* still write, mark or undo lies in a scope it holds, names a control that  *)
(* was issued, and holds no lifecycle record that was cancelled since it was *)
(* read (planAcross under lockScope, writeCopies, undoAcross).               *)
THEOREM Inductive == IssuerSpec => []IssuerInv
<1>1. InitIssuer => IssuerInv BY InitInv
<1>2. IssuerInv /\ [IssuerNext]_issuerVars => IssuerInv' BY NextKeeps
<1> QED BY <1>1, <1>2, PTL DEF IssuerSpec

(* While a call is under way some call may take its next step: scopes are    *)
(* locked in the order of their keys, so no callers of IssueAcross, Issue,   *)
(* ReplicateTo and Retire wait for each other in a ring (lockScope).         *)
THEOREM NoLockRing == IssuerSpec => []LocksPass
<1>1. IssuerInv => LocksPass BY LocksOKPass DEF IssuerInv
<1> QED BY <1>1, Inductive, PTL

(* A scope whose program was removed holds no control that may still act,    *)
(* whatever was issued, replicated or cancelled around the removal (Retire), *)
(* unless a failed assignment took the program back, or an undo failed or a  *)
(* crash cut a call there.                                                   *)
THEOREM RetiredScopesRest == IssuerSpec => []RetiredHasNoLive
<1>1. IssuerInv => RetiredHasNoLive BY DEF IssuerInv
<1> QED BY <1>1, Inductive, PTL

(* A recorded cancellation is never taken back: a mark, an undo or a new     *)
(* copy writes only lifecycle records read under the scope's lock, which a   *)
(* cancel takes too (Cancel, applySupersedes, revertMarks, removeCopy).      *)
THEOREM CancelNeverLost == IssuerSpec => CancelStays
<1>1. IssuerInv /\ [IssuerNext]_issuerVars =>
        [\A s \in Scopes : \A e \in Ids : life[s][e].cancelled => life'[s][e].cancelled]_issuerVars
    BY NextStaysCancelled DEF CancelsStay
<1> QED BY <1>1, Inductive, PTL DEF IssuerSpec, CancelStays
============================================================================
