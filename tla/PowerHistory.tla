----------------------------- MODULE PowerHistory -----------------------------
(***************************************************************************)
(* The recorder of the power history (internal/handler/power_history.go):  *)
(* every few seconds the buckets that became final are written to a file   *)
(* per scope (all devices, one aggregator's fleet, the devices no one      *)
(* manages); writes fail, the process dies in one, the file is pruned, and *)
(* the journal of readings is cut to what a restart needs.                 *)
(*                                                                         *)
(* Time is counted in buckets.  A reading received at `at` covers one      *)
(* bucket no further than Hold from it.  A bucket's energy is the set of   *)
(* devices that cover it.                                                  *)
(***************************************************************************)
EXTENDS Integers, Sequences, FiniteSets, SequencesExt, FiniteSetsExt

CONSTANTS
    PowerDevices,   \* devices with mirrors
    Hold,           \* maxHoldSeconds, in buckets
    Lead,           \* latestReportedSeconds, in buckets
    Retained,       \* the retention, in buckets
    ChunkBuckets,   \* powerHistoryChunk, in buckets
    PowerBudgets    \* bound: how often each thing happens in one behaviour

AllScope == "all"
FleetScope == "fleet"
DirectScope == "direct"
ScopeOrder == <<AllScope, FleetScope, DirectScope>>   \* Record's jobs
Scopes == Range(ScopeOrder)

VARIABLES
    pnow,       \* the clock
    held,       \* the readings in memory
    onDisk,     \* the readings the journal holds
    posted,     \* the readings posted and not deleted
    fleet,      \* the devices the aggregator manages
    hist,       \* scope -> records, dirty, next
    pfile,      \* scope -> the lines of its file
    pass,       \* the pass under way
    passed,     \* where the last whole pass ended
    pleft       \* what is left of the budget

powerVars == <<pnow, held, onDisk, posted, fleet, hist, pfile, pass, passed, pleft>>
readingVars == <<held, onDisk, posted, fleet>>

TornLine == [at |-> -1]
NoPass == [pc |-> "idle", final |-> 0, start |-> 0, from |-> [s \in Scopes |-> 0], todo |-> <<>>,
           snap |-> {}, members |-> {}]
NoHistory == [recs |-> <<>>, dirty |-> FALSE, next |-> 0]

PowerInit ==
    /\ pnow = 0 /\ held = {} /\ onDisk = {} /\ posted = {} /\ fleet = {}
    /\ hist = [s \in Scopes |-> NoHistory] /\ pfile = [s \in Scopes |-> <<>>]
    /\ pass = NoPass /\ passed = 0
    /\ pleft \in PowerBudgets

PowerSpend(what) == pleft[what] > 0 /\ pleft' = [pleft EXCEPT ![what] = @ - 1]

-----------------------------------------------------------------------------
(* Buckets *)

finalEnd(now) == now - Hold
cutoff(now) == now - Retained

\* A device that lost its aggregator is in no group.
InScopeManaged(s, members) ==
    CASE s = AllScope -> PowerDevices
      [] s = FleetScope -> members
      [] OTHER -> {}

\* energyGroup.has: a fleet's members, or those no one manages.
InScope(s, members) ==
    CASE s = AllScope -> PowerDevices
      [] s = FleetScope -> members
      [] OTHER -> PowerDevices \ members

Covers(rs, d, b) == \E r \in rs : r.dev = d /\ r.bucket = b

\* fineTotals: a device reports in a bucket that it covers, or when it
\* covered one within the lead before it.
Reporting(rs, devices, b) == {d \in devices : \E c \in (b - Lead + 1)..b : Covers(rs, d, c)}

\* partOf over totalBucket: covered when all that report cover it.
partOf(rs, devices, b) ==
    LET reporting == Reporting(rs, devices, b)
        covering == {d \in reporting : Covers(rs, d, b)}
    IN [reporting |-> Cardinality(reporting), covered |-> covering = reporting,
        energy |-> IF covering = reporting THEN covering ELSE {}]

\* appendScope's records: none for a bucket in which no one reports.  `by` is
\* a ghost, the pass that wrote it.
Added(rs, devices, from, end, by) ==
    LET parts == [k \in 1..Max({0, end - from}) |-> partOf(rs, devices, from + k - 1)]
    IN SelectSeq([k \in DOMAIN parts |-> [at |-> from + k - 1, part |-> parts[k], by |-> by]],
                 LAMBDA r : r.part.reporting > 0)

-----------------------------------------------------------------------------
(* Record: one pass *)

\* Where each scope starts: after its last record, where its cursor is, or
\* at the retention.
Record ==
    LET final == finalEnd(pnow)
        From(s) == Max({0, final - Retained, hist[s].next}
                       \cup (IF hist[s].recs = <<>> THEN {} ELSE {Last(hist[s].recs).at + 1}))
        from == [s \in Scopes |-> From(s)]
        earliest == Min({final} \cup {from[s] : s \in Scopes})
    IN /\ PowerSpend("pass") /\ pass.pc = "idle"
       /\ pass' = [NoPass EXCEPT !.pc = IF earliest >= final THEN "after" ELSE "chunk",
                     !.final = final, !.start = earliest, !.from = from, !.todo = ScopeOrder,
                     !.snap = held, !.members = fleet]
       /\ UNCHANGED <<pnow, readingVars, hist, pfile, passed>>

ChunkEnd == Min({pass.final, pass.start + ChunkBuckets})

\* Off by one: the first bucket of a chunk is passed over.
ScopeFromLate(s) == Max({pass.from[s], pass.start + 1})

ScopeFrom(s) == Max({pass.from[s], pass.start})

ScopeAdds(s) == Added(pass.snap, InScope(s, pass.members), ScopeFrom(s), ChunkEnd, pleft["pass"])

\* What an append that stops part way leaves on the file.
PartOf(added) ==
    {SubSeq(added, 1, n) : n \in 0..Len(added)}
    \cup {Append(SubSeq(added, 1, n), TornLine) : n \in 0..(Len(added) - 1)}

\* The scope is done with the chunk; after the last, the next chunk.
ScopeDone(s) ==
    LET rest == Tail(pass.todo)
    IN pass' = IF rest # <<>> THEN [pass EXCEPT !.todo = rest, !.from[s] = Max({@, ChunkEnd})]
               ELSE [pass EXCEPT !.todo = ScopeOrder, !.from[s] = Max({@, ChunkEnd}), !.start = ChunkEnd,
                       !.pc = IF ChunkEnd = pass.final THEN "after" ELSE "chunk"]

\* Memory first, then the file.
appendMemoryFirst(s) ==
    LET added == ScopeAdds(s)
    IN /\ pass.pc = "chunk" /\ s = Head(pass.todo)
       /\ hist' = [hist EXCEPT ![s].recs = @ \o added, ![s].next = Max({@, ChunkEnd})]
       /\ \/ pfile' = [pfile EXCEPT ![s] = @ \o added] /\ ScopeDone(s) /\ UNCHANGED pleft
          \/ PowerSpend("fault") /\ pass' = NoPass /\ UNCHANGED pfile
       /\ UNCHANGED <<pnow, readingVars, passed>>

\* A dirty file is rewritten, the records are appended and synced, and only
\* then memory changes.  A failed write ends the pass.
appendScope(s) ==
    LET added == ScopeAdds(s)
        base == IF hist[s].dirty THEN hist[s].recs ELSE pfile[s]
    IN /\ pass.pc = "chunk" /\ s = Head(pass.todo)
       /\ \/ /\ pass.from[s] >= ChunkEnd
             /\ ScopeDone(s) /\ UNCHANGED <<hist, pfile, pleft>>
          \/ /\ pass.from[s] < ChunkEnd /\ added = <<>>
             /\ hist' = [hist EXCEPT ![s].next = ChunkEnd]
             /\ ScopeDone(s) /\ UNCHANGED <<pfile, pleft>>
          \/ /\ pass.from[s] < ChunkEnd /\ added # <<>>
             /\ hist' = [hist EXCEPT ![s].recs = @ \o added, ![s].next = ChunkEnd, ![s].dirty = FALSE]
             /\ pfile' = [pfile EXCEPT ![s] = base \o added]
             /\ ScopeDone(s) /\ UNCHANGED pleft
          \/ /\ pass.from[s] < ChunkEnd /\ added # <<>> /\ hist[s].dirty
             /\ PowerSpend("fault") /\ pass' = NoPass /\ UNCHANGED <<hist, pfile>>
          \/ /\ pass.from[s] < ChunkEnd /\ added # <<>>
             /\ PowerSpend("fault") /\ pass' = NoPass
             /\ \E piece \in PartOf(added) : pfile' = [pfile EXCEPT ![s] = base \o piece]
             /\ hist' = [hist EXCEPT ![s].dirty = TRUE]
       /\ UNCHANGED <<pnow, readingVars, passed>>

\* What the compaction keeps: a reading that reaches past keepFrom.
KeepFinal(final) == {r \in held : r.at + Hold > final}

\* The lead before the end of the pass is kept as well (reportedLead).
KeepReadings(final) == {r \in held : r.at + Hold > final - Lead}

\* The end of a pass: prune and compact, each when due.  A failed rewrite
\* leaves the file as it is.
afterPass ==
    LET Pruned(s) == SelectSeq(hist[s].recs, LAMBDA r : r.at >= cutoff(pnow))
    IN /\ pass.pc = "after"
       /\ passed' = Max({passed, pass.final}) /\ pass' = NoPass
       /\ \/ UNCHANGED <<hist, pfile, onDisk, pleft>>
          \/ /\ PowerSpend("prune") /\ UNCHANGED onDisk
             /\ hist' = [s \in Scopes |-> [hist[s] EXCEPT !.recs = Pruned(s),
                            !.dirty = IF Pruned(s) = hist[s].recs THEN @ ELSE FALSE]]
             /\ pfile' = [s \in Scopes |-> IF Pruned(s) = hist[s].recs THEN pfile[s] ELSE Pruned(s)]
          \/ /\ PowerSpend("fault") /\ pleft["prune"] > 0 /\ UNCHANGED <<onDisk, pfile>>
             /\ hist' = [s \in Scopes |-> [hist[s] EXCEPT !.recs = Pruned(s)]]
          \/ /\ PowerSpend("compact") /\ UNCHANGED <<hist, pfile>>
             /\ onDisk' = KeepReadings(pass.final)
       /\ UNCHANGED <<pnow, held, posted, fleet>>

-----------------------------------------------------------------------------
(* OpenPowerHistory *)

\* readHistoryFile: lines that do not decode or are out of order are dropped.
readHistoryFile(lines) ==
    FoldLeft(LAMBDA recs, l :
               IF l = TornLine \/ (recs # <<>> /\ l.at <= Last(recs).at) THEN recs ELSE Append(recs, l),
             <<>>, lines)

\* The process dies, in an append or not, and starts: the file is read, cut
\* at the retention, and rewritten when that changed it.
OpenPowerHistory(lines) ==
    LET Kept(s) == SelectSeq(readHistoryFile(lines[s]), LAMBDA r : r.at >= cutoff(pnow))
    IN /\ PowerSpend("crash")
       /\ hist' = [s \in Scopes |-> [NoHistory EXCEPT !.recs = Kept(s)]]
       /\ pfile' = [s \in Scopes |-> Kept(s)]
       /\ held' = onDisk /\ pass' = NoPass
       /\ UNCHANGED <<pnow, onDisk, posted, fleet, passed>>

PowerCrash ==
    \/ OpenPowerHistory(pfile)
    \/ /\ pass.pc = "chunk"
       /\ LET s == Head(pass.todo) IN
            /\ pass.from[s] < ChunkEnd
            /\ \E piece \in PartOf(ScopeAdds(s)) :
                 OpenPowerHistory([pfile EXCEPT ![s] =
                     (IF hist[s].dirty THEN hist[s].recs ELSE @) \o piece])

-----------------------------------------------------------------------------
\* A reading comes in; a device loses its mirror; the fleet changes; time.
PostReading(d, b) ==
    LET r == [dev |-> d, at |-> pnow, bucket |-> b]
    IN /\ PowerSpend("post") /\ b >= 0
       /\ held' = held \cup {r} /\ onDisk' = onDisk \cup {r} /\ posted' = posted \cup {r}
       /\ UNCHANGED <<pnow, fleet, hist, pfile, pass, passed>>

DeleteMirror(d) ==
    LET Others(rs) == {r \in rs : r.dev # d}
    IN /\ PowerSpend("delete")
       /\ held' = Others(held) /\ onDisk' = Others(onDisk) /\ posted' = Others(posted)
       /\ UNCHANGED <<pnow, fleet, hist, pfile, pass, passed>>

ChangeFleet(d) ==
    /\ PowerSpend("join")
    /\ fleet' = IF d \in fleet THEN fleet \ {d} ELSE fleet \cup {d}
    /\ UNCHANGED <<pnow, held, onDisk, posted, hist, pfile, pass, passed>>

PowerTick ==
    /\ PowerSpend("tick") /\ pnow' = pnow + 1
    /\ UNCHANGED <<readingVars, hist, pfile, pass, passed>>

PowerNext ==
    \/ Record \/ (\E s \in Scopes : appendScope(s)) \/ afterPass
    \/ PowerCrash
    \/ \E d \in PowerDevices :
         \/ \E b \in (pnow - Hold)..pnow : PostReading(d, b)
         \/ DeleteMirror(d) \/ ChangeFleet(d)
    \/ PowerTick

PowerSpec == PowerInit /\ [][PowerNext]_powerVars

-----------------------------------------------------------------------------
Recorded(s, b) == {r.part : r \in {hist[s].recs[i] : i \in {j \in DOMAIN hist[s].recs : hist[s].recs[j].at = b}}}

\* A bucket that is recorded is recorded for good, with the same figures,
\* until the retention ends: also after a failed append, a crash in one, and
\* a restart.  The charts answer a final bucket from the record alone
\* (appendScope, OpenPowerHistory).
RecordedStays ==
    [][\A s \in Scopes : \A b \in Max({0, cutoff(pnow')})..pnow :
          Recorded(s, b) # {} => Recorded(s, b)' = Recorded(s, b)]_powerVars

\* A whole pass leaves out no bucket in which a device reports: not one
\* whose append failed before, not one a crash cut off, not one between two
\* chunks (Record).
NothingSkipped ==
    \A b \in Max({0, cutoff(pnow)})..(passed - 1) :
        partOf(posted, PowerDevices, b).reporting > 0 => Recorded(AllScope, b) # {}

\* maskParts: what a group's record adds to a bucket that the total covers.
maskParts(all, group) == IF all.covered /\ group.covered THEN group.energy ELSE {}

RecordAt(s, b) == {hist[s].recs[i] : i \in {j \in DOMAIN hist[s].recs : hist[s].recs[j].at = b}}

\* The groups of a bucket add up to its total, no device twice and none left
\* out, when one pass recorded them all (aggregatorEnergyOf, maskParts).
GroupsAddUp ==
    \A b \in 0..pnow : \A all \in RecordAt(AllScope, b) :
        LET groups == RecordAt(FleetScope, b) \cup RecordAt(DirectScope, b)
            Energy(s) == UNION {maskParts(all.part, g.part) : g \in RecordAt(s, b)}
        IN all.part.covered /\ (\A g \in groups : g.by = all.by)
             /\ (\A s \in Scopes : hist[s].next > b)
           => /\ Energy(FleetScope) \cup Energy(DirectScope) = all.part.energy
              /\ Energy(FleetScope) \cap Energy(DirectScope) = {}

\* The readings a restart brings back give every bucket still to be recorded
\* the figures that all posted readings give it (afterPass compacts the
\* journal at the lead of the pass).
CompactionSufficient ==
    \A b \in passed..pnow : partOf(onDisk, PowerDevices, b) = partOf(posted, PowerDevices, b)
=============================================================================
