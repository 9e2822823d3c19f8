-------------------------- MODULE DERControlIssuer --------------------------
(***************************************************************************)
(* The issuer of DER controls (internal/dercontrol: issuer.go, across.go,  *)
(* lifecycle.go, state.go, status.go, retire.go).                          *)
(*                                                                         *)
(* A control is stored as one copy per scope (a device's copy of a         *)
(* program), each with a lifecycle record; a newer control that overlaps   *)
(* an older one of the same function set marks it superseded.  A call      *)
(* locks its scopes in key order, plans every copy, and then writes them   *)
(* one store operation at a time; when one fails it undoes what it wrote,  *)
(* and an undo may fail too.  The stores roll a failed write back          *)
(* themselves (RollsBackOnFailure), so a failed write changes nothing.     *)
(* The commitment check is the ledger's: here it may refuse any plan.      *)
(***************************************************************************)
EXTENDS Integers, FiniteSets, Sequences, FiniteSetsExt

CONSTANTS
    Scopes,      \* scope keys, as numbers in their sort order
    Callers,     \* threads that call the issuer
    Batches,     \* the requests: sequences of [targets, lead, offset, dur, set, rec]
    StartLead,   \* Config.StartLead
    MaxTime,     \* bound on the clock
    MaxEvents,   \* bound on the controls ever issued
    MaxFaults,   \* bound on failing writes
    MaxCrashes   \* bound on crashes

ASSUME IssuerAssumption ==
    /\ Scopes \subseteq Nat /\ IsFiniteSet(Scopes)
    /\ StartLead \in Nat /\ MaxTime \in Nat /\ MaxEvents \in Nat
    /\ MaxFaults \in Nat /\ MaxCrashes \in Nat
    /\ "nobody" \notin Callers
    /\ \A b \in Batches :
         /\ b \in Seq([targets : (SUBSET Scopes) \ {{}}, lead : Nat \cup {-1}, offset : Nat, dur : Nat \ {0},
                       set : STRING, rec : BOOLEAN])
         /\ \A i \in DOMAIN b : b[i].set # "none"

VARIABLES
    now,      \* the clock
    prog,     \* scopes whose program is stored
    event,    \* what each control minted so far says, the same in every copy
    stored,   \* the controls stored in each scope
    life,     \* the lifecycle record of each control in each scope
    rec,      \* the FSA's records not cancelled, one per control sent to its devices
    lock,     \* who holds each scope's lock
    call,     \* each caller's progress
    torn,     \* scopes where an undo failed, the process died part way or a program was taken back
    failed,   \* controls whose call returned a plain error
    faults, crashes

issuerVars == <<now, prog, event, stored, life, rec, lock, call, torn, failed, faults, crashes>>

Nobody == "nobody"
Ids == 1..MaxEvents
NoId == 0
NoStart == -1   \* the request names no start
None == [created |-> 0, start |-> 0, end |-> 0, set |-> "none", alone |-> FALSE]
Never == MaxTime + StartLead + MaxEvents + 1
NoLife == [cancelled |-> FALSE, at |-> Never, by |-> NoId, kept |-> FALSE]
NewLife == [NoLife EXCEPT !.kept = TRUE]
Minted == {e \in Ids : event[e] # None}

(* A caller's progress: the batch, the clock it read, the scopes still to   *)
(* lock and those it names, the items left, the copies of the item at hand  *)
(* left and written, the candidates of the copy at hand that are marked,    *)
(* the items finished, the undo still to run, whether a mark of the copy    *)
(* being undone stayed (bad) and whether anything did (kept), and whether   *)
(* an assignment wrote the program it replicates to (fresh).                *)
Idle == [op |-> "none", step |-> "idle", batch |-> <<>>, at |-> 0, want |-> {}, scopes |-> {}, ids |-> {},
         items |-> <<>>, todo |-> <<>>, written |-> <<>>, marked |-> {}, finished |-> <<>>,
         units |-> <<>>, bad |-> FALSE, kept |-> FALSE, fresh |-> FALSE]

Set(p, c) == call' = [call EXCEPT ![p] = c]
Fault == faults < MaxFaults /\ faults' = faults + 1
NoFault == UNCHANGED faults

(* A call that is over lets its scopes go. *)
Return(p) ==
    /\ Set(p, Idle)
    /\ lock' = [s \in Scopes |-> IF lock[s] = p THEN Nobody ELSE lock[s]]
----------------------------------------------------------------------------
(* What a scope says of a control. *)

Overlaps(x, y) == x.start < y.end /\ y.start < x.end

(* ControlState, from DeriveStatus: the control will never act again. *)
Retired(s, e, t) == t >= event[e].end \/ life[s][e].cancelled \/ t >= life[s][e].at

(* replacedBy: only an equal function set supersedes.  Mutant: only one that *)
(* starts no later is replaced.                                              *)
ReplacedByLater(older, newer) == older.set = newer.set /\ Overlaps(older, newer) /\ older.start <= newer.start

ReplacedBy(older, newer) == older.set = newer.set /\ Overlaps(older, newer)

(* supersedeEligible: a mark only moves to an earlier start. *)
Eligible(s, e, start) == ~life[s][e].cancelled /\ start < life[s][e].at

(* computeSupersedes among the controls existing in the scope *)
Supersedes(s, n, existing) ==
    {e \in existing : life[s][e].kept /\ Eligible(s, e, n.start) /\ ReplacedBy(event[e], n)}

(* supersededByNewer: the mark a newer event would have written. *)
SupersededByNewer(s, n) ==
    LET newer == {e \in stored[s] : /\ event[e].created > n.created /\ ReplacedBy(event[e], n)
                                    /\ life[s][e].kept /\ ~life[s][e].cancelled}
        first == Min({event[e].start : e \in newer})
    IN IF newer = {} THEN NewLife
       ELSE [NewLife EXCEPT !.at = first, !.by = CHOOSE e \in newer : event[e].start = first]

(* nextCreationTime over every scope the call names *)
NextCreation(t, scopes) ==
    Max({t} \cup {event[e].created + 1 : e \in UNION {stored[s] : s \in scopes}})

(* The elements of S, each once, in the order of their creation and of the  *)
(* scope keys.  Every set the code sorts has such an order.                  *)
Listings(S) == {q \in [1..Cardinality(S) -> S] : \A i, j \in DOMAIN q : q[i] = q[j] => i = j}

ByCreation(S) ==
    LET sorted == {q \in Listings(S) : \A i, j \in DOMAIN q : i < j => event[q[i]].created <= event[q[j]].created}
    IN CHOOSE q \in Listings(S) : sorted # {} => q \in sorted

InOrder(S) ==
    LET sorted == {q \in Listings(S) : \A i, j \in DOMAIN q : i < j => q[i] < q[j]}
    IN CHOOSE q \in Listings(S) : sorted # {} => q \in sorted
----------------------------------------------------------------------------
(* Calls.  A call that writes records, and one that reads them, hold the     *)
(* handlers' programMu from before the read to after the return.             *)

UsesRecords(c) == c.op = "replicate" \/ \E i \in DOMAIN c.batch : c.batch[i].rec
ProgramMuFree == \A p \in Callers : ~UsesRecords(call[p])

Start(p, b) ==
    /\ call[p].step = "idle"
    /\ Cardinality(Minted) + Len(b) <= MaxEvents
    /\ (\E i \in DOMAIN b : b[i].rec) => ProgramMuFree
    /\ LET scopes == UNION {b[i].targets : i \in DOMAIN b} IN
       Set(p, [Idle EXCEPT !.op = "issue", !.step = "lock", !.batch = b, !.at = now,
                           !.want = scopes, !.scopes = scopes])
    /\ UNCHANGED <<now, prog, event, stored, life, rec, lock, torn, failed, faults, crashes>>

(* assignLocked with nothing to replicate *)
Assign(s) ==
    /\ s \notin prog /\ ProgramMuFree
    /\ prog' = prog \cup {s}
    /\ UNCHANGED <<now, event, stored, life, rec, lock, call, torn, failed, faults, crashes>>

(* ReplicateTo: records of an FSA still live, oldest first, to one device:   *)
(* an assignment writes the program first, the boot rebuild finds it there.  *)
StartReplicate(p, s, R) ==
    /\ call[p].step = "idle" /\ ProgramMuFree
    /\ R # {} /\ R \subseteq {e \in rec : now < event[e].end}
    /\ prog' = prog \cup {s}
    /\ Set(p, [Idle EXCEPT !.op = "replicate", !.step = "lock", !.want = {s}, !.scopes = {s},
                           !.items = ByCreation(R), !.fresh = s \notin prog])
    /\ UNCHANGED <<now, event, stored, life, rec, lock, torn, failed, faults, crashes>>

StartRetire(p, scopes) ==
    /\ call[p].step = "idle" /\ scopes # {}
    /\ Set(p, [Idle EXCEPT !.op = "retire", !.step = "lock", !.want = scopes, !.scopes = scopes])
    /\ UNCHANGED <<now, prog, event, stored, life, rec, lock, torn, failed, faults, crashes>>

(* Locks are taken in key order.  Mutant: in any order. *)
LockUnordered(p) ==
    /\ call[p].step = "lock"
    /\ LET c == call[p] IN
       IF c.want = {} THEN Set(p, [c EXCEPT !.step = "plan"]) /\ UNCHANGED lock
       ELSE \E s \in c.want :
              /\ lock[s] = Nobody /\ lock' = [lock EXCEPT ![s] = p]
              /\ Set(p, [c EXCEPT !.want = @ \ {s}])
    /\ UNCHANGED <<now, prog, event, stored, life, rec, torn, failed, faults, crashes>>

Lock(p) ==
    /\ call[p].step = "lock"
    /\ LET c == call[p] IN
       IF c.want = {} THEN Set(p, [c EXCEPT !.step = "plan"]) /\ UNCHANGED lock
       ELSE LET s == Min(c.want) IN
            /\ lock[s] = Nobody /\ lock' = [lock EXCEPT ![s] = p]
            /\ Set(p, [c EXCEPT !.want = @ \ {s}])
    /\ UNCHANGED <<now, prog, event, stored, life, rec, torn, failed, faults, crashes>>
----------------------------------------------------------------------------
(* Plans are made under every lock, before the first write. *)

CopyOf(s, id, n, existing, link) ==
    LET cands == Supersedes(s, n, existing) IN
    [s |-> s, id |-> id, cands |-> cands, before |-> [e \in cands |-> life[s][e]],
     link |-> link, ctl |-> TRUE]

(* resolveAcross: the items get consecutive creation times.  alone tells the *)
(* controls of a call that issued no other.                                  *)
Resolve(c, i) ==
    LET b == c.batch[i]
        first == NextCreation(c.at, c.scopes)
        start == IF b.lead = NoStart THEN first + b.offset ELSE c.at + b.lead
    IN [created |-> first + i - 1, start |-> start, end |-> start + b.dur, set |-> b.set, alone |-> Len(c.batch) = 1]

(* What refuses a call: a scope whose program is gone, a start too far       *)
(* ahead, two items that overlap in a scope both name.  Mutant: the program  *)
(* is not read again under the lock.                                         *)
SoundUnread(c) ==
    /\ \A i \in DOMAIN c.batch : (c.batch[i].rec \/ c.batch[i].lead # NoStart) => Resolve(c, i).start <= c.at + StartLead
    /\ \A i, j \in DOMAIN c.batch :
         (i < j /\ c.batch[i].targets \cap c.batch[j].targets # {}) => ~Overlaps(Resolve(c, i), Resolve(c, j))

Sound(c) ==
    /\ c.scopes \subseteq prog
    /\ \A i \in DOMAIN c.batch : (c.batch[i].rec \/ c.batch[i].lead # NoStart) => Resolve(c, i).start <= c.at + StartLead
    /\ \A i, j \in DOMAIN c.batch :
         (i < j /\ c.batch[i].targets \cap c.batch[j].targets # {}) => ~Overlaps(Resolve(c, i), Resolve(c, j))

(* Every item against the scopes as read; a commitment or a failed read may  *)
(* refuse any plan.                                                          *)
Plan(p) ==
    /\ call[p].step = "plan" /\ call[p].op = "issue"
    /\ LET c == call[p]
           last == Cardinality(Minted)
           Item(i) == [id |-> last + i, rec |-> c.batch[i].rec,
                       copies |-> [k \in 1..Cardinality(c.batch[i].targets) |->
                           LET s == InOrder(c.batch[i].targets)[k] IN
                           CopyOf(s, last + i, Resolve(c, i), stored[s], NewLife)]]
       IN \/ /\ Sound(c) /\ last + Len(c.batch) <= MaxEvents
             /\ event' = [e \in Ids |-> IF e - last \in DOMAIN c.batch THEN Resolve(c, e - last) ELSE event[e]]
             /\ Set(p, [c EXCEPT !.step = "record", !.ids = {last + i : i \in DOMAIN c.batch},
                                 !.items = [i \in DOMAIN c.batch |-> Item(i)]])
             /\ UNCHANGED lock
          \/ Return(p) /\ UNCHANGED event
    /\ UNCHANGED <<now, prog, stored, life, rec, torn, failed, faults, crashes>>

(* Retire: a live control in any scope refuses it; remove may stop part way. *)
(* Mutant: only a control in force refuses it.                               *)
RetireScopesInForce(p) ==
    /\ call[p].step = "plan" /\ call[p].op = "retire"
    /\ Return(p)
    /\ \E gone \in SUBSET call[p].scopes :
         /\ gone # {} => \A s \in call[p].scopes : \A e \in stored[s] : Retired(s, e, now) \/ now < event[e].start
         /\ prog' = prog \ gone
    /\ UNCHANGED <<now, event, stored, life, rec, torn, failed, faults, crashes>>

RetireScopes(p) ==
    /\ call[p].step = "plan" /\ call[p].op = "retire"
    /\ Return(p)
    /\ \E gone \in SUBSET call[p].scopes :
         /\ gone # {} => \A s \in call[p].scopes : \A e \in stored[s] : Retired(s, e, now)
         /\ prog' = prog \ gone
    /\ UNCHANGED <<now, event, stored, life, rec, torn, failed, faults, crashes>>
----------------------------------------------------------------------------
(* The undo of a call is a sequence of units, each abandoned at its first    *)
(* failure: what the failed copy wrote (own), then the copies written before *)
(* it, newest first, and the record, an item at a time.                      *)

NewestFirst(s) == [k \in 1 .. Len(s) |-> s[Len(s) + 1 - k]]

Unit(own, copies, r) == [own |-> own, copies |-> copies, rec |-> r]

Undo(p, c, own) ==
    LET RecordOf(i) == IF i.rec THEN i.id ELSE NoId
        cur == IF c.op = "replicate" THEN <<Unit(FALSE, NewestFirst(c.written), NoId)>>
               ELSE IF c.items = <<>> THEN <<>>
               ELSE <<Unit(FALSE, NewestFirst(c.written), RecordOf(Head(c.items)))>>
        done == [k \in DOMAIN c.finished |-> Unit(FALSE, NewestFirst(c.finished[k].copies), RecordOf(c.finished[k]))]
    IN Set(p, [c EXCEPT !.step = "undo", !.todo = <<>>, !.marked = {}, !.units =
                 (IF own = <<>> THEN <<>> ELSE <<Unit(TRUE, own, NoId)>>) \o cur \o NewestFirst(done)])

(* planReplica, one replica at a time: a scope that holds it is skipped, a   *)
(* refusal undoes the replicas written before.                               *)
PlanReplica(p) ==
    /\ call[p].step = "plan" /\ call[p].op = "replicate"
    /\ LET c == call[p]
           s == CHOOSE x \in c.scopes : TRUE
           r == Head(c.items)
           older == {e \in stored[s] : event[e].created < event[r].created}
       IN \/ /\ c.items = <<>> /\ Return(p)
          \/ /\ c.items # <<>> /\ s \in prog /\ r \in stored[s]
             /\ Set(p, [c EXCEPT !.items = Tail(@)]) /\ UNCHANGED lock
          \/ /\ c.items # <<>> /\ s \in prog /\ r \notin stored[s]
             /\ Set(p, [c EXCEPT !.step = "life",
                                 !.todo = <<CopyOf(s, r, event[r], older, SupersededByNewer(s, event[r]))>>])
             /\ UNCHANGED lock
          \/ c.items # <<>> /\ Undo(p, c, <<>>) /\ UNCHANGED lock
    /\ UNCHANGED <<now, prog, event, stored, life, rec, torn, failed, faults, crashes>>

(* writeAcross: the item's record, then its copies. *)
WriteRecord(p) ==
    /\ call[p].step = "record"
    /\ LET c == call[p] IN
       \/ /\ c.items = <<>> /\ Return(p) /\ UNCHANGED rec /\ NoFault
       \/ /\ c.items # <<>> /\ NoFault
          /\ rec' = IF Head(c.items).rec THEN rec \cup {Head(c.items).id} ELSE rec
          /\ Set(p, [c EXCEPT !.step = "life", !.todo = Head(c.items).copies, !.written = <<>>])
          /\ UNCHANGED lock
       \/ /\ c.items # <<>> /\ Head(c.items).rec /\ Fault
          /\ Undo(p, [c EXCEPT !.items = <<>>], <<>>) /\ UNCHANGED <<rec, lock>>
    /\ UNCHANGED <<now, prog, event, stored, life, torn, failed, crashes>>

(* writeCopies, one store write a step: lifecycle record, control, marks. *)
WriteLife(p) ==
    /\ call[p].step = "life"
    /\ LET c == call[p] cp == Head(c.todo) IN
       \/ /\ life' = [life EXCEPT ![cp.s][cp.id] = cp.link]
          /\ Set(p, [c EXCEPT !.step = "ctl"]) /\ NoFault
       \/ Fault /\ Undo(p, c, <<>>) /\ UNCHANGED life
    /\ UNCHANGED <<now, prog, event, stored, rec, lock, torn, failed, crashes>>

WriteControl(p) ==
    /\ call[p].step = "ctl"
    /\ LET c == call[p] cp == Head(c.todo) IN
       \/ /\ stored' = [stored EXCEPT ![cp.s] = @ \cup {cp.id}]
          /\ Set(p, [c EXCEPT !.step = "mark"]) /\ NoFault
       \/ Fault /\ Undo(p, c, <<[cp EXCEPT !.ctl = FALSE, !.cands = {}]>>) /\ UNCHANGED stored
    /\ UNCHANGED <<now, prog, event, life, rec, lock, torn, failed, crashes>>

(* applySupersedes: each candidate as planned, marked.  Mutant: the mark     *)
(* names the control after.                                                  *)
MarkNextId(before, n, id) == [before EXCEPT !.at = n.start, !.by = id + 1]

Mark(before, n, id) == [before EXCEPT !.at = n.start, !.by = id]

WriteMark(p) ==
    /\ call[p].step = "mark"
    /\ LET c == call[p] cp == Head(c.todo) IN
       \E e \in cp.cands \ c.marked :
         \/ /\ life' = [life EXCEPT ![cp.s][e] = Mark(cp.before[e], event[cp.id], cp.id)]
            /\ Set(p, [c EXCEPT !.marked = @ \cup {e}]) /\ NoFault
         \/ Fault /\ Undo(p, c, <<[cp EXCEPT !.cands = c.marked]>>) /\ UNCHANGED life
    /\ UNCHANGED <<now, prog, event, stored, rec, lock, torn, failed, crashes>>

(* A copy is written: the next copy, item or replica. *)
Written(p) ==
    /\ call[p].step = "mark" /\ Head(call[p].todo).cands = call[p].marked
    /\ LET c == call[p]
           w == Append(c.written, Head(c.todo))
       IN Set(p, IF Len(c.todo) > 1
                 THEN [c EXCEPT !.step = "life", !.todo = Tail(@), !.written = w, !.marked = {}]
                 ELSE IF c.op = "replicate"
                 THEN [c EXCEPT !.step = "plan", !.items = Tail(@), !.todo = <<>>, !.written = w, !.marked = {}]
                 ELSE [c EXCEPT !.step = "record", !.items = Tail(@), !.todo = <<>>, !.written = <<>>, !.marked = {},
                                !.finished = Append(@, [Head(c.items) EXCEPT !.copies = w])])
    /\ UNCHANGED <<now, prog, event, stored, life, rec, lock, torn, failed, faults, crashes>>
----------------------------------------------------------------------------
(* The undo, one store write a step. *)

Top(c) == Head(Head(c.units).copies)
Undoing(p) == call[p].step = "undo" /\ call[p].units # <<>>
UndoingCopy(p) == Undoing(p) /\ Head(call[p].units).copies # <<>>

(* The rest of a unit stays.  After a failed copy that could not undo        *)
(* itself, an item keeps its record (undoItems) and a replication keeps      *)
(* everything (undoAcross).                                                  *)
Abandon(c) ==
    LET rest == Tail(c.units) IN
    [c EXCEPT !.kept = TRUE, !.bad = FALSE, !.units =
        IF ~Head(c.units).own THEN rest
        ELSE IF c.op = "replicate" THEN <<>>
        ELSE <<[Head(rest) EXCEPT !.rec = NoId]>> \o Tail(rest)]

(* revertMarks tries every candidate. *)
RevertMark(p) ==
    /\ UndoingCopy(p)
    /\ LET c == call[p] cp == Top(c) IN
       \E e \in cp.cands :
         LET left == [c EXCEPT !.units[1].copies[1].cands = @ \ {e}] IN
         \/ /\ life' = [life EXCEPT ![cp.s][e] = cp.before[e]]
            /\ Set(p, left) /\ NoFault
         \/ Fault /\ Set(p, [left EXCEPT !.bad = TRUE]) /\ UNCHANGED life
    /\ UNCHANGED <<now, prog, event, stored, rec, lock, torn, failed, crashes>>

(* A mark that stayed keeps the control it names.  Mutant: it does not. *)
DeleteControlAnyway(p) ==
    /\ UndoingCopy(p) /\ Top(call[p]).cands = {} /\ Top(call[p]).ctl
    /\ LET c == call[p] cp == Top(c) IN
       /\ stored' = [stored EXCEPT ![cp.s] = @ \ {cp.id}]
       /\ Set(p, [c EXCEPT !.units[1].copies[1].ctl = FALSE, !.bad = FALSE]) /\ NoFault
    /\ UNCHANGED <<now, prog, event, life, rec, lock, torn, failed, crashes>>

DeleteControl(p) ==
    /\ UndoingCopy(p) /\ Top(call[p]).cands = {} /\ Top(call[p]).ctl
    /\ LET c == call[p] cp == Top(c) IN
       \/ /\ c.bad /\ Set(p, Abandon(c)) /\ UNCHANGED stored /\ NoFault
       \/ /\ ~c.bad /\ stored' = [stored EXCEPT ![cp.s] = @ \ {cp.id}]
          /\ Set(p, [c EXCEPT !.units[1].copies[1].ctl = FALSE]) /\ NoFault
       \/ ~c.bad /\ Fault /\ Set(p, Abandon(c)) /\ UNCHANGED stored
    /\ UNCHANGED <<now, prog, event, life, rec, lock, torn, failed, crashes>>

(* The lifecycle record last.  Mutant: as soon as the marks are back. *)
DeleteLifeFirst(p) ==
    /\ UndoingCopy(p) /\ Top(call[p]).cands = {} /\ ~call[p].bad
    /\ LET c == call[p] cp == Top(c) IN
       \/ /\ life' = [life EXCEPT ![cp.s][cp.id] = NoLife]
          /\ Set(p, [c EXCEPT !.units[1].copies = Tail(@)]) /\ NoFault
       \/ Fault /\ Set(p, Abandon(c)) /\ UNCHANGED life
    /\ UNCHANGED <<now, prog, event, stored, rec, lock, torn, failed, crashes>>

DeleteLife(p) ==
    /\ UndoingCopy(p) /\ Top(call[p]).cands = {} /\ ~Top(call[p]).ctl
    /\ LET c == call[p] cp == Top(c) IN
       \/ /\ life' = [life EXCEPT ![cp.s][cp.id] = NoLife]
          /\ Set(p, [c EXCEPT !.units[1].copies = Tail(@)]) /\ NoFault
       \/ Fault /\ Set(p, Abandon(c)) /\ UNCHANGED life
    /\ UNCHANGED <<now, prog, event, stored, rec, lock, torn, failed, crashes>>

(* The record after the copies.  Mutant: it stays. *)
DeleteRecordNever(p) ==
    /\ Undoing(p) /\ Head(call[p].units).copies = <<>> /\ NoFault
    /\ Set(p, [call[p] EXCEPT !.units = Tail(@)])
    /\ UNCHANGED <<now, prog, event, stored, life, rec, lock, torn, failed, crashes>>

DeleteRecord(p) ==
    /\ Undoing(p) /\ Head(call[p].units).copies = <<>>
    /\ LET c == call[p] IN
       \/ /\ rec' = rec \ {Head(c.units).rec}
          /\ Set(p, [c EXCEPT !.units = Tail(@)]) /\ NoFault
       \/ /\ Head(c.units).rec # NoId /\ Fault
          /\ Set(p, Abandon(c)) /\ UNCHANGED rec
    /\ UNCHANGED <<now, prog, event, stored, life, lock, torn, failed, crashes>>

(* The call returns its error: plain when all was undone.  An assignment     *)
(* then takes its program back.                                              *)
Undone(p) ==
    /\ call[p].step = "undo" /\ call[p].units = <<>>
    /\ LET c == call[p] IN
       /\ torn' = IF c.kept THEN torn \cup c.scopes ELSE torn
       /\ failed' = IF c.kept THEN failed ELSE failed \cup c.ids
       /\ lock' = [s \in Scopes |-> IF lock[s] = p THEN Nobody ELSE lock[s]]
       /\ Set(p, IF c.fresh /\ ~c.kept THEN [Idle EXCEPT !.op = "replicate", !.step = "rollback", !.scopes = c.scopes]
                 ELSE Idle)
    /\ UNCHANGED <<now, prog, event, stored, life, rec, faults, crashes>>

(* replicateControls and rolledBack: without the scope's lock *)
Rollback(p) ==
    /\ call[p].step = "rollback"
    /\ \/ prog' = prog \ call[p].scopes /\ torn' = torn \cup call[p].scopes /\ NoFault
       \/ Fault /\ UNCHANGED <<prog, torn>>
    /\ Set(p, Idle)
    /\ UNCHANGED <<now, event, stored, life, rec, lock, failed, crashes>>
----------------------------------------------------------------------------
(* Cancel: one write under the scope's lock; a failed one changes nothing.   *)
(* Mutant: without the lock.                                                 *)
CancelUnlocked(s, e) ==
    /\ e \in stored[s] /\ life[s][e].kept
    /\ ~life[s][e].cancelled /\ now < life[s][e].at /\ now < event[e].end
    /\ life' = [life EXCEPT ![s][e].cancelled = TRUE]
    /\ UNCHANGED <<now, prog, event, stored, rec, lock, call, torn, failed, faults, crashes>>

Cancel(s, e) ==
    /\ lock[s] = Nobody /\ e \in stored[s] /\ life[s][e].kept /\ (e \in rec => ProgramMuFree)
    /\ ~life[s][e].cancelled /\ now < life[s][e].at /\ now < event[e].end
    /\ life' = [life EXCEPT ![s][e].cancelled = TRUE]
    /\ UNCHANGED <<now, prog, event, stored, rec, lock, call, torn, failed, faults, crashes>>

(* cancelControl: the record once no copy may act.  A cancel that stops      *)
(* before leaves it live.                                                    *)
CancelRecord(e) ==
    /\ e \in rec /\ ProgramMuFree /\ now < event[e].end
    /\ \A s \in Scopes : e \in stored[s] => Retired(s, e, now)
    /\ rec' = rec \ {e}
    /\ UNCHANGED <<now, prog, event, stored, life, lock, call, torn, failed, faults, crashes>>

Tick ==
    /\ now < MaxTime /\ now' = now + 1
    /\ UNCHANGED <<prog, event, stored, life, rec, lock, call, torn, failed, faults, crashes>>

(* The process dies; the stores are kept. *)
Crash ==
    /\ crashes < MaxCrashes /\ crashes' = crashes + 1
    /\ torn' = torn \cup UNION {call[p].scopes : p \in {q \in Callers : call[q].step \notin {"idle", "lock", "plan"}
                                                                   \/ call[q].written # <<>>}}
    /\ call' = [p \in Callers |-> Idle] /\ lock' = [s \in Scopes |-> Nobody]
    /\ UNCHANGED <<now, prog, event, stored, life, rec, failed, faults>>
----------------------------------------------------------------------------
InitIssuer ==
    /\ now = 0 /\ prog = Scopes /\ rec = {}
    /\ event = [e \in Ids |-> None]
    /\ stored = [s \in Scopes |-> {}]
    /\ life = [s \in Scopes |-> [e \in Ids |-> NoLife]]
    /\ lock = [s \in Scopes |-> Nobody]
    /\ call = [p \in Callers |-> Idle]
    /\ torn = {} /\ failed = {} /\ faults = 0 /\ crashes = 0

(* What a caller does once it has started. *)
Work(p) ==
    \/ Plan(p) \/ PlanReplica(p) \/ RetireScopes(p)
    \/ WriteRecord(p) \/ WriteLife(p) \/ WriteControl(p) \/ WriteMark(p) \/ Written(p)
    \/ RevertMark(p) \/ DeleteControl(p) \/ DeleteLife(p) \/ DeleteRecord(p)
    \/ Undone(p) \/ Rollback(p)

IssuerNext ==
    \/ \E p \in Callers :
         \/ \E b \in Batches : Start(p, b)
         \/ \E s \in Scopes, R \in SUBSET rec : StartReplicate(p, s, R)
         \/ \E scopes \in SUBSET Scopes : StartRetire(p, scopes)
         \/ Lock(p) \/ Work(p)
    \/ \E s \in Scopes : Assign(s) \/ \E e \in Ids : Cancel(s, e)
    \/ \E e \in Ids : CancelRecord(e)
    \/ Tick \/ Crash

IssuerSpec == InitIssuer /\ [][IssuerNext]_issuerVars
----------------------------------------------------------------------------
(* Every control, lifecycle record and lock is one the code could store. *)
IssuerTypeOK ==
    /\ now \in 0..MaxTime /\ prog \subseteq Scopes /\ rec \subseteq Minted /\ failed \subseteq Minted
    /\ torn \subseteq Scopes /\ faults \in 0..MaxFaults /\ crashes \in 0..MaxCrashes
    /\ stored \in [Scopes -> SUBSET Minted]
    /\ life \in [Scopes -> [Ids -> [cancelled : BOOLEAN, at : 0..Never, by : Ids \cup {NoId}, kept : BOOLEAN]]]
    /\ lock \in [Scopes -> Callers \cup {Nobody}]
    /\ \A e \in Minted : event[e].start < event[e].end

(* Once a control is stored it has its lifecycle record, at every step of a  *)
(* write or an undo and after a crash (writeCopies).                         *)
StoredHasLife == \A s \in Scopes : \A e \in stored[s] : life[s][e].kept

(* A mark on a stored control names a control of the same scope and that     *)
(* control's start, whatever failed in the write or in the undo              *)
(* (undoMarkFailure, removeCopy).                                            *)
NoDanglingMark ==
    \A s \in Scopes : \A e \in stored[s] :
        life[s][e].at # Never => life[s][e].by \in stored[s] /\ life[s][e].at = event[life[s][e].by].start

Settled == {s \in Scopes \ torn : lock[s] = Nobody}

(* A control is superseded no later than the earliest start of a newer one   *)
(* that overlaps it, in whatever order the two reached the scope             *)
(* (supersedeEligible, supersededByNewer).                                   *)
MarkedAtEarliest ==
    \A s \in Settled : \A c, d \in stored[s] :
        (/\ event[c].created < event[d].created /\ ReplacedBy(event[c], event[d])
         /\ ~life[s][c].cancelled /\ ~life[s][d].cancelled)
        => life[s][c].at <= event[d].start

InForce(s, e) == now >= event[e].start /\ now >= event[e].created /\ ~Retired(s, e, now)

(* No device is ever told to follow two controls of one function set at the  *)
(* same time (ControlState over what Issue, Cancel and Retire leave), unless *)
(* the newer was one of several in its call: their marks are planned apart,  *)
(* and one may move an older control's end to a later start.                 *)
OneInForce ==
    \A s \in Settled : \A c, d \in stored[s] :
        (/\ event[c].created < event[d].created /\ event[d].alone
         /\ event[c].set = event[d].set) => ~(InForce(s, c) /\ InForce(s, d))

(* A call that returns a plain error left nothing: no record, no copy, no    *)
(* lifecycle record and no mark (Issue's and IssueAcross's contract).        *)
ErrorLeavesNothing ==
    \A e \in failed :
        /\ e \notin rec
        /\ \A s \in Scopes : /\ e \notin stored[s] /\ ~life[s][e].kept
                             /\ \A d \in Ids : life[s][d].by # e

(* A scope whose program was removed holds no control that may still act     *)
(* (Retire, and the program read again under the lock).  An assignment that  *)
(* takes its own program back does not retire it first.                      *)
RetiredHasNoLive == \A s \in Scopes \ (prog \cup torn) : \A e \in stored[s] : Retired(s, e, now)

(* Callers never wait for each other in a ring: while a call is under way,   *)
(* some call may take its next step (IssueAcross and Retire call lockScope for*)
(* several scopes in key order).                                             *)
LocksPass ==
    (\E p \in Callers : call[p].step # "idle") =>
        \E p \in Callers : /\ call[p].step # "idle"
                           /\ call[p].step = "lock" => call[p].want = {} \/ lock[Min(call[p].want)] = Nobody

(* A recorded cancellation is never lost to a mark, or to an undo, that      *)
(* writes back the lifecycle record it read (applySupersedes, revertMarks).  *)
CancelStays ==
    [][\A s \in Scopes : \A e \in Ids : life[s][e].cancelled => life'[s][e].cancelled]_issuerVars

(* What Issue and IssueAcross write, and what their undo leaves, is whole:   *)
(* StoredHasLife, NoDanglingMark and ErrorLeavesNothing.                     *)
UndoIsWhole == StoredHasLife /\ NoDanglingMark /\ ErrorLeavesNothing

(* Issuing, cancelling and retiring stay in order under the scope locks:     *)
(* OneInForce, RetiredHasNoLive and LocksPass.                               *)
IssuerIsOrderly == OneInForce /\ RetiredHasNoLive /\ LocksPass
-----------------------------------------------------------------------------
(* A long control, and a call of two controls that follow each other.        *)
SequenceBatches ==
    LET Control(offset, dur) == [targets |-> {1}, lead |-> IF dur > 1 THEN 0 ELSE NoStart, offset |-> offset,
                                 dur |-> dur, set |-> "w", rec |-> TRUE]
    IN {<<Control(0, 3)>>, <<Control(0, 1), Control(1, 1)>>}
=============================================================================
