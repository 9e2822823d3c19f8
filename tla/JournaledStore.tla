--------------------------- MODULE JournaledStore ---------------------------
(***************************************************************************)
(* The journaled store of mirror meter readings                            *)
(* (pkg/store/memory/journaled_scoped.go over internal/jsonl and           *)
(* internal/atomicfile).                                                   *)
(*                                                                         *)
(* A write changes memory and appends a line to a journal; a failed append *)
(* is undone in memory and leaves the journal dirty, to be rewritten by    *)
(* the next write.  Appends are durable at the next Sync.  Compact writes  *)
(* a shorter journal while writers go on, and carries over what they       *)
(* append.  Opening the store replays the journal.                         *)
(*                                                                         *)
(* A record is the last second its reading covers; 0 is no record.  A line *)
(* is durable up to its place in the file: a power loss takes a suffix of  *)
(* the lines not synced and may tear the first it takes.                   *)
(***************************************************************************)
EXTENDS Integers, FiniteSets, SequencesExt

CONSTANTS
    Keys,        \* readings: pairs of a mirror and an id
    MaxTime,     \* bound on the clock
    MaxLines,    \* bound on the journal
    MaxFaults,   \* bound on failing file operations
    MaxCrashes   \* bound on crashes and power losses

ASSUME JournalAssumption ==
    /\ MaxTime \in Nat \ {0} /\ MaxLines \in Nat /\ MaxFaults \in Nat /\ MaxCrashes \in Nat
    /\ IsFiniteSet(Keys)

VARIABLES
    up,         \* the process runs
    now,        \* the clock, in seconds
    mem,        \* the records in memory; while down, those the callers were told of
    file,       \* the journal's lines
    synced,     \* how many of them a power loss cannot take
    dirty,      \* the journal may be short or torn
    memFloor,   \* CompleteFrom
    fileFloor,  \* the floor the journal carries
    compact,    \* the compaction under way
    owed,       \* records a restart has to bring back: stored and not compacted away
    known,      \* what was last stored of each record not deleted, in memory or not
    past,       \* the states a power loss may return to
    refused,    \* keys of writes that returned an error and may be in the journal
    unanswered, \* keys of a write the process died in
    faults, crashes

journalVars == <<up, now, mem, file, synced, dirty, memFloor, fileFloor, compact, owed, known, past,
                 refused, unanswered, faults, crashes>>
ghosts == <<owed, known, past, refused, unanswered>>
disk == <<file, synced, dirty, fileFloor>>

Parents == {k[1] : k \in Keys}
Of(p) == {k \in Keys : k[1] = p}
Times == 1..MaxTime
Absent == 0
Held(m) == {k \in Keys : m[k] # Absent}

(* A journal line: a floor, a create of one or more records, an update, a    *)
(* delete of a record or of a parent's records, or bytes that do not decode. *)
Line(op, keys, at) == [op |-> op, keys |-> keys, at |-> at]
Torn == Line("torn", {}, 0)

NoCompaction == [step |-> "none", snap |-> [k \in Keys |-> Absent], keep |-> {}, floor |-> 0, since |-> <<>>]

Fault == up /\ faults < MaxFaults /\ faults' = faults + 1
NoFault == UNCHANGED faults
Crashes == crashes < MaxCrashes /\ crashes' = crashes + 1
----------------------------------------------------------------------------
(* The journal. *)

(* replay of one line: what it does to the records, and whether it is valid. *)
Store(m, keys, at) == [k \in Keys |-> IF k \in keys THEN at ELSE m[k]]

Valid(m, l) ==
    CASE l.op = "f" -> TRUE
      [] l.op = "c" -> l.keys \cap Held(m) = {}
      [] l.op = "u" -> l.keys \subseteq Held(m)
      [] l.op = "d" -> TRUE
      [] l.op = "torn" -> FALSE

Apply(m, l) ==
    CASE l.op \in {"c", "u"} -> Store(m, l.keys, l.at)
      [] l.op = "d" -> Store(m, l.keys, Absent)
      [] OTHER -> m

(* The replay of a journal: a line that is not valid is dropped. *)
Replay(lines) ==
    FoldLeft(LAMBDA r, l :
                IF ~Valid(r.m, l) THEN [r EXCEPT !.dropped = @ + 1]
                ELSE IF l.op = "f" THEN [r EXCEPT !.floor = l.at]
                ELSE [r EXCEPT !.m = Apply(@, l), !.valid = @ + 1],
             [m |-> [k \in Keys |-> Absent], floor |-> 0, valid |-> 0, dropped |-> 0], lines)

(* journalOf: the floor and a create per record. *)
Journal(m, keys, floor) ==
    <<Line("f", {}, floor)>> \o SetToSeq({Line("c", {k}, m[k]) : k \in keys})

(* What an append that stops part way leaves: some of the lines and perhaps  *)
(* a piece of the next.                                                      *)
Pieces(lines) ==
    {SubSeq(lines, 1, n) : n \in 0..Len(lines)} \cup {Append(SubSeq(lines, 1, n), Torn) : n \in 0..(Len(lines) - 1)}

State(m, o) == [m |-> m, owed |-> o]
----------------------------------------------------------------------------
(* write: a dirty journal is rewritten, then memory is changed and the lines *)
(* are appended.                                                             *)

Base == IF dirty THEN Journal(mem, Held(mem), fileFloor) ELSE file
Fits(lines) == Len(Base) + Len(lines) <= MaxLines

(* What the lines do one after another; a power loss may fall between two. *)
Between(lines) ==
    {State(FoldLeft(Apply, mem, SubSeq(lines, 1, n)), owed \ UNION {lines[i].keys : i \in 1..n}) : n \in 1..(Len(lines) - 1)}

(* A dirty journal that was rewritten is synced and holds no refused write. *)
StillRefused == IF dirty THEN {} ELSE refused
Rewritten(states) ==
    /\ synced' = IF dirty THEN Len(Base) ELSE synced
    /\ past' = (IF dirty THEN {State(mem, owed)} ELSE past) \cup states

(* A compaction under way carries the lines over.  Mutant: it does not. *)
CarryNothing(lines) == compact

Carry(lines) == IF compact.step = "none" THEN compact ELSE [compact EXCEPT !.since = @ \o lines]

Stored(lines, m, o, kn) ==
    /\ file' = Base \o lines /\ dirty' = FALSE /\ mem' = m
    /\ Rewritten(Between(lines) \cup {State(m, o)}) /\ refused' = StillRefused
    /\ compact' = Carry(lines)
    /\ owed' = o /\ known' = kn
    /\ NoFault /\ UNCHANGED <<up, unanswered, crashes>>

(* The append failed: memory is as before.  Mutant: the journal is taken to  *)
(* be whole.                                                                 *)

NotStored(lines) ==
    /\ Fault /\ \E piece \in Pieces(lines) : file' = Base \o piece
    /\ dirty' = TRUE /\ Rewritten({})
    /\ refused' = StillRefused \cup UNION {lines[i].keys : i \in DOMAIN lines}
    /\ UNCHANGED <<up, mem, compact, owed, known, unanswered, crashes>>

(* The process died in the append. *)
DiedWriting(lines) ==
    /\ Crashes /\ up' = FALSE
    /\ \E piece \in Pieces(lines) : file' = Base \o piece
    /\ Rewritten({}) /\ refused' = StillRefused
    /\ unanswered' = UNION {lines[i].keys : i \in DOMAIN lines}
    /\ compact' = NoCompaction
    /\ NoFault /\ UNCHANGED <<mem, dirty, owed, known>>

(* The rewrite of a dirty journal failed, so nothing was changed. *)
NotRewritten ==
    /\ dirty /\ Fault
    /\ UNCHANGED <<up, mem, file, synced, dirty, compact, owed, known, past, refused, unanswered, crashes>>

Write(lines, m, o, kn) ==
    /\ up /\ Fits(lines)
    /\ \/ Stored(lines, m, o, kn)
       \/ NotStored(lines)
       \/ DiedWriting(lines)
       \/ NotRewritten
    /\ UNCHANGED <<now, memFloor, fileFloor>>

(* CreateAll: one line, so all the records are stored or none is.  Mutant: a *)
(* line for each.                                                            *)
CreateAllApart(batch) ==
    /\ batch # {} /\ batch \cap Held(mem) = {}
    /\ Write(SetToSeq({Line("c", {k}, now) : k \in batch}), Store(mem, batch, now), owed \cup batch, Store(known, batch, now))

CreateAll(batch) ==
    /\ batch # {} /\ batch \cap Held(mem) = {}
    /\ Write(<<Line("c", batch, now)>>, Store(mem, batch, now), owed \cup batch, Store(known, batch, now))

(* Update: of a record the journal has not, or is about to lose, it is gone  *)
(* at a restart.  No caller of the store updates a reading.                  *)
UpdateReading(k) ==
    /\ k \in Held(mem)
    /\ Write(<<Line("u", {k}, now)>>, Store(mem, {k}, now), owed, IF k \in owed THEN Store(known, {k}, now) ELSE known)

DeleteReading(k) ==
    /\ k \in Held(mem)
    /\ Write(<<Line("d", {k}, 0)>>, Store(mem, {k}, Absent), owed \ {k}, Store(known, {k}, Absent))

(* deleteParents: a line for each parent, in one append. *)
DeleteParents(ps) ==
    LET gone == {p \in ps : Of(p) \cap Held(mem) # {}}
        keys == UNION {Of(p) : p \in gone}
    IN /\ gone # {}
       /\ Write(SetToSeq({Line("d", Of(p), 0) : p \in gone}), Store(mem, keys, Absent), owed \ keys,
                Store(known, keys, Absent))
----------------------------------------------------------------------------
(* Sync runs without the write lock.  A failed one leaves the journal dirty. *)
Sync ==
    /\ up
    /\ \/ /\ synced' = Len(file) /\ past' = {State(mem, owed)} /\ NoFault /\ UNCHANGED dirty
       \/ /\ Fault /\ dirty' = TRUE /\ UNCHANGED <<synced, past>>
    /\ UNCHANGED <<up, now, mem, file, memFloor, fileFloor, compact, owed, known, refused, unanswered, crashes>>

(* Compact: the snapshot under the write lock, the new journal written       *)
(* outside it, the carry over and the rename under it again, where an error  *)
(* of either is met.  keep answers for each record of the snapshot, and      *)
(* keeps what covers a second from keepFrom.                                 *)
CompactBegin(keepFrom, keep) ==
    /\ up /\ compact.step = "none"
    /\ {k \in Held(mem) : mem[k] >= keepFrom} \subseteq keep /\ keep \subseteq Held(mem)
    /\ compact' = [step |-> "staging", snap |-> mem, keep |-> keep, since |-> <<>>,
                   floor |-> IF keepFrom > memFloor THEN keepFrom ELSE memFloor]
    /\ UNCHANGED <<up, now, mem, disk, memFloor, ghosts, faults, crashes>>

(* Mutant: the journal keeps the floor it had. *)
NewFloorOld == fileFloor

NewFloor == compact.floor

CompactCommit ==
    /\ up /\ compact.step = "staging" /\ compact' = NoCompaction
    /\ LET lines == Journal(compact.snap, compact.keep, NewFloor) \o compact.since
           again == UNION {l.keys : l \in {x \in Range(compact.since) : x.op = "c"}}
           left == owed \cap (compact.keep \cup again)
       IN \/ /\ Len(lines) <= MaxLines
             /\ file' = lines /\ synced' = Len(lines) /\ dirty' = FALSE /\ fileFloor' = NewFloor
             /\ owed' = left /\ past' = {State(mem, left)} /\ refused' = {}
             /\ known' = [k \in Keys |-> IF k \in owed \ left THEN compact.snap[k] ELSE known[k]]
             /\ NoFault
          \/ Fault /\ UNCHANGED <<disk, owed, past, refused, known>>
    /\ UNCHANGED <<up, now, mem, memFloor, unanswered, crashes>>
----------------------------------------------------------------------------
(* The end of a process, and the next one. *)

Crash ==
    /\ up /\ Crashes /\ up' = FALSE /\ compact' = NoCompaction
    /\ UNCHANGED <<now, mem, disk, memFloor, ghosts, faults>>

(* What the file holds is now all there is. *)
PowerLoss ==
    /\ Crashes /\ up' = FALSE /\ compact' = NoCompaction
    /\ \E n \in synced..Len(file) :
         \E left \in {SubSeq(file, 1, n)} \cup {Append(SubSeq(file, 1, n), Torn) : x \in n..(Len(file) - 1)} :
            LET m == Replay(left).m IN
            file' = left /\ mem' = m /\ owed' = Held(m) /\ known' = m /\ past' = {State(m, Held(m))}
    /\ synced' = Len(file') /\ refused' = {} /\ unanswered' = {}
    /\ UNCHANGED <<now, dirty, memFloor, fileFloor, faults>>

(* NewJournaledScopedStore.  A journal with nothing valid in it is moved     *)
(* aside; one with a line dropped or no floor is rewritten; when that fails  *)
(* the server does not start.                                                *)
FloorOf(r) == IF r.floor = 0 \/ (r.dropped > 0 /\ r.valid = 0) THEN now ELSE r.floor

Open ==
    /\ ~up
    /\ LET r == Replay(file)
           floor == FloorOf(r)
           doubt == refused \cup unanswered
           back == (owed \ doubt) \cup (Held(r.m) \cap doubt)
       IN /\ mem' = r.m /\ memFloor' = floor /\ fileFloor' = floor /\ dirty' = FALSE
          /\ owed' = back
          /\ known' = [k \in Keys |-> IF k \in doubt THEN r.m[k] ELSE known[k]]
          /\ \/ /\ r.dropped > 0 \/ r.floor = 0
                /\ file' = Journal(r.m, Held(r.m), floor) /\ synced' = Len(file')
                /\ past' = {State(r.m, back)}
             \/ /\ r.dropped = 0 /\ r.floor # 0
                /\ past' = past \cup {State(r.m, back)} /\ UNCHANGED <<file, synced>>
    /\ up' = TRUE /\ refused' = {} /\ unanswered' = {}
    /\ UNCHANGED <<now, compact, faults, crashes>>

Tick ==
    /\ now < MaxTime /\ now' = now + 1
    /\ UNCHANGED <<up, mem, disk, memFloor, compact, ghosts, faults, crashes>>
----------------------------------------------------------------------------
InitJournal ==
    /\ up = FALSE /\ now \in Times /\ mem = [k \in Keys |-> Absent] /\ file = <<>> /\ synced = 0
    /\ dirty = FALSE /\ memFloor = 1 /\ fileFloor = 1 /\ compact = NoCompaction
    /\ owed = {} /\ known = mem /\ past = {State(mem, {})} /\ refused = {} /\ unanswered = {}
    /\ faults = 0 /\ crashes = 0

(* The callers create the readings given, and update some of them. *)
JournalNext(readings, updated) ==
    \/ \E p \in Parents : \E batch \in SUBSET (Of(p) \cap readings) : CreateAll(batch)
    \/ (\E k \in updated : UpdateReading(k)) \/ (\E k \in Keys : DeleteReading(k))
    \/ \E ps \in SUBSET {k[1] : k \in Held(mem)} : DeleteParents(ps)
    \/ Sync
    \/ \E keepFrom \in 1..now, keep \in SUBSET Keys : CompactBegin(keepFrom, keep)
    \/ CompactCommit
    \/ Crash \/ PowerLoss \/ Open \/ Tick

----------------------------------------------------------------------------
(* m agrees with the state st on the keys given. *)
Same(m, st, keys) ==
    \A k \in keys : /\ k \in st.owed => m[k] = st.m[k]
                    /\ m[k] # Absent => m[k] = st.m[k]

(* Opening the store after a process crash brings back every record the      *)
(* callers were told of, but those a compaction dropped, and nothing they    *)
(* saw deleted or replaced, whatever failed, was compacted or was carried    *)
(* over before (write, Compact, replay).                                     *)
RestartKeeps ==
    [][(~up /\ up') => Same(mem', State(mem, owed), Keys \ (refused \cup unanswered))]_journalVars

(* Whatever a power loss leaves of the journal, it replays to a state the    *)
(* store had at or after the last Sync: a batch is whole, and no record is   *)
(* older than one that was lost (CreateAll, Sync, rewriteLocked).            *)
PowerLossIsPrefix ==
    up => \A n \in synced..Len(file) :
            \E st \in past : Same(Replay(SubSeq(file, 1, n)).m, st, Keys \ refused)

(* CompleteFrom is honest: a record that is stored, not deleted, and not in  *)
(* memory covers nothing from the floor on (Compact, NewJournaledScopedStore). *)
FloorIsHonest ==
    up => \A k \in Keys : (known[k] # Absent /\ mem[k] = Absent) => known[k] < memFloor

(* What the journal promises its callers: over a process crash, over a power *)
(* loss, and of what it no longer holds.                                     *)
JournalKeeps == [](PowerLossIsPrefix /\ FloorIsHonest) /\ RestartKeeps
=============================================================================
