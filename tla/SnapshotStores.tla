--------------------------- MODULE SnapshotStores ---------------------------
(***************************************************************************)
(* The collections that reload from a snapshot file: a parent-scoped       *)
(* collection in memory, the key index a snapshot is walked by, the mRID   *)
(* index of the DERControls, and the file every write replaces.            *)
(*                                                                         *)
(* Four stores share the design and differ where it matters:              *)
(*   "scoped"   PersistentScopedStore: one lock over a whole write, undone *)
(*              when the file cannot be written; reads wait for the lock;  *)
(*   "lifecycle" LifecycleStore: the same lock and undo, but reads do not  *)
(*              take the lock;                                             *)
(*   "control"  DERControlStore: as the last, and found by mRID as well;   *)
(*   "program"  DERProgramStore and RegistrationStore: only the file is    *)
(*              locked, and a failed write stays in memory.                *)
(* A write changes the collection, then the indexes, then walks the key    *)
(* index parent by parent, then replaces the file; anything may happen     *)
(* between those steps that the locks do not exclude.                      *)
(*                                                                         *)
(* A record is its mRID, which stands for its content.                     *)
(***************************************************************************)
EXTENDS Integers, FiniteSets

CONSTANTS
    SnapParents,   \* parents, as numbers: a snapshot walks them in order
    SnapIds,       \* record ids under a parent
    SnapMRIDs,     \* mRIDs a record may carry
    SnapWriters,   \* goroutines that write
    SnapBudgets,   \* bound: writes, failing files and restarts of a scenario
    NoRec          \* no record

ASSUME SnapConstants ==
    /\ SnapParents \subseteq Nat /\ IsFiniteSet(SnapParents)
    /\ NoRec \notin SnapMRIDs
    /\ \A b \in SnapBudgets : DOMAIN b = {"write", "fault", "crash", "read"}

StoreKinds == {"scoped", "lifecycle", "control", "program"}

VARIABLES
    snapKind,   \* which of the stores this is
    inner,      \* parent -> id -> record, the collection in memory
    hasParent,  \* the parents the collection knows, with records or without
    keys,       \* the key index: pairs of parent and id
    mrids,      \* the mRID index: triples of mRID, parent and id
    snapDisk,   \* the snapshot file: parent -> id -> record
    writer,     \* goroutine -> its write in progress
    taken,      \* what TakeParent removed and an undo would put back
    looked,     \* a ByMRID call between its two reads, or <<>>
    acked,      \* what the last answered write of a key said it holds
    raced,      \* keys two goroutines wrote at the same time
    fooled,     \* a reader was shown a write whose caller was then refused
    snapLeft    \* what the scenario has left

snapVars == <<snapKind, inner, hasParent, keys, mrids, snapDisk, writer, taken,
              looked, acked, raced, fooled, snapLeft>>

Pairs == SnapParents \X SnapIds
NoRecords == [p \in SnapParents |-> [i \in SnapIds |-> NoRec]]
Unsure == "unsure"
IdleWriter == [at |-> "idle"]
NothingTaken == [p \in {} |-> NoRec]

SpendSnap(what) == snapLeft[what] > 0 /\ snapLeft' = [snapLeft EXCEPT ![what] = @ - 1]

Busy(w) == writer[w].at # "idle"
Locks(k) == k # "program"

InitSnapshots ==
    /\ snapKind \in StoreKinds
    /\ inner = NoRecords /\ hasParent = {} /\ keys = {} /\ mrids = {}
    /\ snapDisk = NoRecords
    /\ writer = [w \in SnapWriters |-> IdleWriter]
    /\ taken = NothingTaken /\ looked = <<>>
    /\ acked = NoRecords /\ raced = {}
    /\ fooled = FALSE
    /\ snapLeft \in SnapBudgets

-----------------------------------------------------------------------------
\* The collection.

\* Store.Create, Update and Delete, and ScopedStore.DeleteParent: put f's
\* records in place under p.
Replace(store, p, f) ==
    [store EXCEPT ![p] = [i \in SnapIds |-> IF i \in DOMAIN f THEN f[i] ELSE @[i]]]

\* mridConflict: the mRID is indexed under another key, unless that record is
\* a copy of this one: the same id under another parent.
mridConflict(m, p, i) ==
    \E k \in mrids : k[1] = m /\ <<k[2], k[3]>> # <<p, i>> /\ (k[3] # i \/ k[2] = p)

\* addKey, dropKey, addMRID, dropMRID: the indexes of p follow the records of
\* f, the ones that were there before being those of g.
Reindex(p, g, f) ==
    /\ keys' = (keys \ {<<p, i>> : i \in DOMAIN f})
                   \cup {<<p, i>> : i \in {j \in DOMAIN f : f[j] # NoRec}}
    /\ mrids' = IF snapKind # "control" THEN mrids
                ELSE (mrids \ {<<g[i], p, i>> : i \in DOMAIN g})
                       \cup {<<f[i], p, i>> : i \in {j \in DOMAIN f : f[j] # NoRec}}

-----------------------------------------------------------------------------
\* Writes.

Lock == \A v \in SnapWriters : ~ Busy(v)

\* A write up to and including the change of the collection: the records of f
\* take the place of p's.
Mutate(w, p, f, kind) ==
    /\ ~ Busy(w) /\ SpendSnap("write")
    /\ inner' = Replace(inner, p, f)
    /\ hasParent' = IF kind = "one" THEN hasParent \cup {p} ELSE hasParent \ {p}
    /\ writer' = [writer EXCEPT ![w] =
                    [at |-> "index", p |-> p, new |-> f,
                     old |-> [i \in DOMAIN f |-> inner[p][i]],
                     had |-> p \in hasParent, kind |-> kind,
                     image |-> NoRecords, walked |-> {}, seen |-> FALSE]]
    /\ acked' = [acked EXCEPT ![p] = [i \in SnapIds |-> IF i \in DOMAIN f THEN Unsure ELSE @[i]]]
    /\ raced' = raced \cup {<<p, i>> : i \in {j \in DOMAIN f :
                   \E v \in SnapWriters : Busy(v) /\ writer[v].p = p /\ j \in DOMAIN writer[v].new}}
    /\ UNCHANGED <<snapKind, keys, mrids, snapDisk, taken, looked, fooled>>

One(i, r) == [j \in {i} |-> r]
CreateIn(w, p, i, r) == inner[p][i] = NoRec /\ Mutate(w, p, One(i, r), "one")
UpdateIn(w, p, i, r) == inner[p][i] \notin {NoRec, r} /\ Mutate(w, p, One(i, r), "one")
DeleteIn(w, p, i) == inner[p][i] # NoRec /\ Mutate(w, p, One(i, NoRec), "one")

\* PersistentScopedStore, and LifecycleStore whose writes are the same.
Rolls == snapKind \in {"scoped", "lifecycle"} /\ Lock
Create(w, p, i, r) == Rolls /\ CreateIn(w, p, i, r)
Update(w, p, i, r) == Rolls /\ UpdateIn(w, p, i, r)
Delete(w, p, i) == Rolls /\ DeleteIn(w, p, i)

\* deleteParentLocked takes every record the key index names.
deleteParentLocked(w, p, kind) ==
    Rolls /\ p \in hasParent /\ Mutate(w, p, [i \in {j \in SnapIds : <<p, j>> \in keys} |-> NoRec], kind)
DeleteParent(w, p) == deleteParentLocked(w, p, "drop")
TakeParent(w, p) == taken = NothingTaken /\ deleteParentLocked(w, p, "take")

\* DERControlStore: an mRID must not be another control's.
CreateControl(w, p, i, m) ==
    snapKind = "control" /\ Lock /\ ~ mridConflict(m, p, i) /\ CreateIn(w, p, i, m)
UpdateControl(w, p, i, m) ==
    snapKind = "control" /\ Lock /\ ~ mridConflict(m, p, i) /\ UpdateIn(w, p, i, m)
DeleteControl(w, p, i) == snapKind = "control" /\ Lock /\ DeleteIn(w, p, i)

\* DERProgramStore and RegistrationStore.
CreateUnlocked(w, p, i, r) == snapKind = "program" /\ CreateIn(w, p, i, r)
UpdateUnlocked(w, p, i, r) == snapKind = "program" /\ UpdateIn(w, p, i, r)
DeleteUnlocked(w, p, i) == snapKind = "program" /\ DeleteIn(w, p, i)

\* The key and mRID indexes follow.
Index(w) ==
    /\ writer[w].at = "index"
    /\ Reindex(writer[w].p, writer[w].old, writer[w].new)
    /\ writer' = [writer EXCEPT ![w].at = "walk"]
    /\ UNCHANGED <<snapKind, inner, hasParent, snapDisk, taken, looked, acked, raced, fooled, snapLeft>>

\* Only one snapshot is walked and written at a time: writeMu, or persistMu in
\* the stores that lock the file only.
Persisting(w) == writer[w].at = "file" \/ (writer[w].at = "walk" /\ writer[w].walked # {})

MayPersistAny(w) == TRUE

MayPersist(w) == \A v \in SnapWriters \ {w} : ~ Persisting(v)

\* snapshotRecords: the records the key index names, one parent after another.
\* A key whose record is gone is skipped.
snapshotRecords(w) ==
    /\ writer[w].at = "walk" /\ MayPersist(w)
    /\ LET left == SnapParents \ writer[w].walked
           p == CHOOSE q \in left : \A r \in left : q <= r
           found == [i \in SnapIds |-> IF <<p, i>> \in keys THEN inner[p][i] ELSE NoRec]
       IN writer' = [writer EXCEPT ![w].image[p] = found,
                                   ![w].walked = @ \cup {p},
                                   ![w].at = IF left = {p} THEN "file" ELSE "walk"]
    /\ UNCHANGED <<snapKind, inner, hasParent, keys, mrids, snapDisk, taken, looked, acked, raced, fooled, snapLeft>>

\* What the answer of w's write tells its caller of the keys it wrote: what
\* they hold, unless another goroutine is still writing them.
Answered(w, says) ==
    acked' = [acked EXCEPT ![writer[w].p] =
        [i \in SnapIds |->
            IF i \notin DOMAIN writer[w].new THEN @[i]
            ELSE IF \E v \in SnapWriters \ {w} :
                       Busy(v) /\ writer[v].p = writer[w].p /\ i \in DOMAIN writer[v].new
                 THEN Unsure ELSE says[i]]]

\* writeSnapshotEnvelope succeeds: the file is replaced whole, and the caller
\* is told so.  TakeParent keeps what it removed.
writeSnapshotEnvelope(w) ==
    /\ writer[w].at = "file"
    /\ snapDisk' = writer[w].image
    /\ Answered(w, inner[writer[w].p])
    /\ taken' = IF writer[w].kind = "take"
                THEN [p \in {writer[w].p} |-> writer[w].old] ELSE taken
    /\ writer' = [writer EXCEPT ![w] = IdleWriter]
    /\ UNCHANGED <<snapKind, inner, hasParent, keys, mrids, looked, raced, fooled, snapLeft>>

\* The file cannot be written: the collection is put back; a parent the write
\* made goes again only in PersistentScopedStore.
PersistFails(w) ==
    /\ Locks(snapKind) /\ writer[w].at = "file" /\ SpendSnap("fault")
    /\ inner' = Replace(inner, writer[w].p, writer[w].old)
    /\ hasParent' = IF snapKind # "scoped" \/ writer[w].had THEN hasParent \cup {writer[w].p}
                    ELSE hasParent \ {writer[w].p}
    /\ writer' = [writer EXCEPT ![w].at = "undo"]
    /\ UNCHANGED <<snapKind, keys, mrids, snapDisk, taken, looked, acked, raced, fooled>>

\* DERProgramStore and RegistrationStore leave the write where it is and
\* return the error.
PersistFailsUnlocked(w) ==
    /\ ~ Locks(snapKind) /\ writer[w].at = "file" /\ SpendSnap("fault")
    /\ Answered(w, [i \in SnapIds |-> Unsure])
    /\ writer' = [writer EXCEPT ![w] = IdleWriter]
    /\ UNCHANGED <<snapKind, inner, hasParent, keys, mrids, snapDisk, taken, looked, raced, fooled>>

RollbackForgetsIndex(w) ==
    /\ writer[w].at = "undo"
    /\ keys' = IF writer[w].kind = "one" THEN keys ELSE keys \cup {<<writer[w].p, i>> : i \in DOMAIN writer[w].old}
    /\ Answered(w, [i \in SnapIds |-> IF i \in DOMAIN writer[w].old THEN writer[w].old[i] ELSE NoRec])
    /\ fooled' = (fooled \/ writer[w].seen)
    /\ writer' = [writer EXCEPT ![w] = IdleWriter]
    /\ UNCHANGED <<snapKind, inner, hasParent, mrids, snapDisk, taken, looked, snapLeft, raced>>

\* The indexes are put back, and the caller is refused.
Rollback(w) ==
    /\ writer[w].at = "undo"
    /\ Reindex(writer[w].p, writer[w].new, writer[w].old)
    /\ Answered(w, [i \in SnapIds |-> IF i \in DOMAIN writer[w].old THEN writer[w].old[i] ELSE NoRec])
    /\ fooled' = (fooled \/ writer[w].seen)
    /\ writer' = [writer EXCEPT ![w] = IdleWriter]
    /\ UNCHANGED <<snapKind, inner, hasParent, snapDisk, taken, looked, snapLeft, raced>>

\* TakeParent's undo: each record is created again, one write at a time.  A
\* record somebody created meanwhile is an error that is logged.
UndoTake(w) ==
    \E p \in DOMAIN taken :
        IF DOMAIN taken[p] = {}
        THEN /\ taken' = NothingTaken
             /\ UNCHANGED <<snapKind, inner, hasParent, keys, mrids, snapDisk, writer, looked,
                            acked, raced, fooled, snapLeft>>
        ELSE /\ \A v \in SnapWriters : ~ Busy(v)
             /\ LET i == CHOOSE j \in DOMAIN taken[p] : TRUE
                    rest == [j \in DOMAIN taken[p] \ {i} |-> taken[p][j]]
                    f == [j \in {i} |-> taken[p][i]]
                IN /\ taken' = [q \in {p} |-> rest]
                   /\ IF inner[p][i] # NoRec \/ (snapKind = "control" /\ mridConflict(f[i], p, i))
                      THEN UNCHANGED <<inner, hasParent, writer, acked>>
                      ELSE /\ inner' = Replace(inner, p, f)
                           /\ hasParent' = hasParent \cup {p}
                           /\ writer' = [writer EXCEPT ![w] =
                                 [at |-> "index", p |-> p, new |-> f, old |-> [j \in {i} |-> NoRec],
                                  had |-> p \in hasParent, kind |-> "one",
                                  image |-> NoRecords, walked |-> {}, seen |-> FALSE]]
                           /\ acked' = [acked EXCEPT ![p][i] = Unsure]
             /\ UNCHANGED <<snapKind, keys, mrids, snapDisk, looked, raced, fooled, snapLeft>>

-----------------------------------------------------------------------------
\* Reads.

\* A reader was shown a record some write put there and has not decided yet.
Shown(p, i) ==
    [w \in SnapWriters |->
        IF Busy(w) /\ writer[w].p = p /\ i \in DOMAIN writer[w].new /\ inner[p][i] = writer[w].new[i]
           /\ inner[p][i] # NoRec /\ writer[w].at # "undo"
        THEN [writer[w] EXCEPT !.seen = TRUE] ELSE writer[w]]

\* The stores whose reads take the write lock's read side.
ReadsLocked == {"scoped"}

\* Get and List of one record.
Get(p, i) ==
    /\ SpendSnap("read")
    /\ snapKind \in ReadsLocked => \A v \in SnapWriters : ~ Busy(v)
    /\ writer' = Shown(p, i)
    /\ UNCHANGED <<snapKind, inner, hasParent, keys, mrids, snapDisk, taken, looked, acked, raced, fooled>>

\* ByMRID reads the index, and then the record of the one key it found.
LookUp(m) ==
    /\ snapKind = "control" /\ looked = <<>> /\ SpendSnap("read")
    /\ LET found == {k \in mrids : k[1] = m}
       IN Cardinality(found) = 1 /\ looked' = CHOOSE k \in found : TRUE
    /\ UNCHANGED <<snapKind, inner, hasParent, keys, mrids, snapDisk, writer, taken, acked, raced, fooled>>

ByMRID ==
    /\ looked # <<>> /\ looked' = <<>>
    /\ writer' = Shown(looked[2], looked[3])
    /\ UNCHANGED <<snapKind, inner, hasParent, keys, mrids, snapDisk, taken, acked, raced, fooled, snapLeft>>

-----------------------------------------------------------------------------
\* A restart: loadFromFile creates every record of the file again, in order.

\* Creating the records of the file refuses none of them.
Reloads(disk) ==
    snapKind = "control" =>
        \A k, l \in Pairs :
            (k # l /\ disk[k[1]][k[2]] # NoRec /\ disk[k[1]][k[2]] = disk[l[1]][l[2]])
                => (k[2] = l[2] /\ k[1] # l[1])

loadFromFile ==
    /\ SpendSnap("crash")
    /\ Reloads(snapDisk)
    /\ inner' = snapDisk
    /\ hasParent' = {p \in SnapParents : \E i \in SnapIds : snapDisk[p][i] # NoRec}
    /\ keys' = {k \in Pairs : snapDisk[k[1]][k[2]] # NoRec}
    /\ mrids' = IF snapKind # "control" THEN {}
                ELSE {<<snapDisk[k[1]][k[2]], k[1], k[2]>> : k \in keys'}
    /\ writer' = [w \in SnapWriters |-> IdleWriter]
    /\ taken' = NothingTaken /\ looked' = <<>>
    /\ acked' = snapDisk
    /\ fooled' = (fooled \/ \E w \in SnapWriters : Busy(w) /\ writer[w].at = "undo" /\ writer[w].seen)
    /\ UNCHANGED <<snapKind, snapDisk, raced>>

SnapshotNext ==
    \/ \E w \in SnapWriters :
         \/ \E p \in SnapParents, i \in SnapIds, r \in SnapMRIDs :
              \/ Create(w, p, i, r) \/ CreateControl(w, p, i, r) \/ CreateUnlocked(w, p, i, r)
              \/ Update(w, p, i, r) \/ UpdateControl(w, p, i, r) \/ UpdateUnlocked(w, p, i, r)
         \/ \E p \in SnapParents, i \in SnapIds :
              Delete(w, p, i) \/ DeleteControl(w, p, i) \/ DeleteUnlocked(w, p, i)
         \/ \E p \in SnapParents : DeleteParent(w, p) \/ TakeParent(w, p)
         \/ Index(w) \/ snapshotRecords(w) \/ writeSnapshotEnvelope(w)
         \/ PersistFails(w) \/ PersistFailsUnlocked(w)
         \/ Rollback(w) \/ UndoTake(w)
    \/ \E p \in SnapParents, i \in SnapIds : Get(p, i)
    \/ \E m \in SnapMRIDs : LookUp(m)
    \/ ByMRID
    \/ loadFromFile

-----------------------------------------------------------------------------
\* Every key but those of X holds in the file what the last answer about it
\* said.
DurableBut(X) ==
    \A k \in Pairs \ X : acked[k[1]][k[2]] # Unsure => snapDisk[k[1]][k[2]] = acked[k[1]][k[2]]

\* A write that was answered survives the process: what the file holds of a
\* key is what the last answer about it said, in every store, whichever other
\* writes were walking, failing or being undone meanwhile.  Excepted are the
\* keys of a store without a write lock that two goroutines wrote at once.
AckedSurvives ==
    DurableBut(raced)

\* Between writes a store that rolls back holds in memory exactly what is in
\* its file, finds every record by its key and every control by its mRID, and
\* its file can be loaded again.
StoreIsWhole ==
    /\ Reloads(snapDisk)
    /\ (Locks(snapKind) /\ \A w \in SnapWriters : ~ Busy(w)) =>
         /\ inner = snapDisk
         /\ keys = {k \in Pairs : inner[k[1]][k[2]] # NoRec}
         /\ snapKind = "control" => mrids = {<<inner[k[1]][k[2]], k[1], k[2]>> : k \in keys}

\* No reader of a PersistentScopedStore is shown a record whose caller is then
\* told it was not stored.
ReadsAreDecided ==
    snapKind = "scoped" => ~ fooled

\* What the snapshot stores promise: the answered is on disk, memory and file
\* agree between writes, and nobody reads what is then taken back.
SnapshotKeeps ==
    AckedSurvives /\ StoreIsWhole /\ ReadsAreDecided
=============================================================================
