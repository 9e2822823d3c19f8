------------------------------ MODULE Mirrors -------------------------------
(***************************************************************************)
(* Mirror usage points and their readings: POST, PUT and DELETE of a       *)
(* mirror, POST of readings, the retention sweep, the compaction of the    *)
(* reading journal, and the start of the server                            *)
(* (pkg/sep2srv/handlers/metering/mirror.go, internal/mirrorretention,     *)
(* internal/handler/reading_journal.go).                                   *)
(*                                                                         *)
(* Each request and the sweep is a process whose steps are its calls to a  *)
(* store.  The reading store is what JournaledStore promises: `readings`   *)
(* in memory, `journaled` what a restart brings back.  A reading carries   *)
(* the mRID of its series and has a type of its own or none; types and     *)
(* units are one.                                                          *)
(***************************************************************************)
EXTENDS Integers, Sequences, FiniteSets, SequencesExt, FiniteSetsExt

CONSTANTS
    MirrorDevices,    \* LFDIs
    MirrorMRIDs,      \* mRIDs a client gives its mirrors
    ReadingMRIDs,     \* mRIDs of reading series
    MirrorRequests,   \* request goroutines
    MaxPerSeries,     \* the cap of the sweep
    MaxAge,           \* its retention
    HoldReach,        \* how long after its receipt a reading covers seconds
    MirrorBudgets,    \* bound: how often each thing happens in one behaviour
    NoMirror

VARIABLES
    mups,         \* key -> the mirror, or NoMirror
    mirrors,      \* key -> mirrors made there so far
    readings,     \* key -> its out-of-band readings, in store order
    journaled,    \* key -> the ids of those the journal holds
    pair,         \* device -> the device that manages it, or itself
    recorded,     \* the devices with an EndDevice record
    mproc,        \* what each goroutine does
    compacting,   \* the compaction in progress
    mclock,       \* the clock, and the id last minted
    mleft         \* what is left of the budget

mirrorVars == <<mups, mirrors, readings, journaled, pair, recorded, mproc, compacting, mclock, mleft>>
mirrorStores == <<mups, mirrors, readings, journaled>>
mirrorWorld == <<pair, recorded, compacting, mclock>>

MirrorKeys == [dev : MirrorDevices, mrid : MirrorMRIDs]
Sweeper == "sweeper"
MirrorProcs == MirrorRequests \cup {Sweeper}

MirrorIdle == [op |-> "idle", pc |-> "idle", key |-> NoMirror, inline |-> {}, gen |-> 0,
               body |-> <<>>, todo |-> {}, drop |-> {}, cutoff |-> 0]

\* items: the snapshot a compaction is made from; kept: what keep picked.
NoCompaction == [pc |-> "idle", from |-> 0, items |-> [k \in MirrorKeys |-> <<>>],
                 kept |-> [k \in MirrorKeys |-> {}]]

MirrorInit ==
    /\ mups = [k \in MirrorKeys |-> NoMirror] /\ mirrors = [k \in MirrorKeys |-> 0]
    /\ readings = [k \in MirrorKeys |-> <<>>] /\ journaled = [k \in MirrorKeys |-> {}]
    /\ pair = [d \in MirrorDevices |-> d] /\ recorded = MirrorDevices
    /\ mproc = [p \in MirrorProcs |-> MirrorIdle] /\ compacting = NoCompaction
    /\ mclock = [now |-> 0, minted |-> 0]
    /\ mleft \in MirrorBudgets

MirrorAt(p, op, pc) == mproc[p].op = op /\ mproc[p].pc = pc
MirrorGoto(p, pc) == mproc' = [mproc EXCEPT ![p].pc = pc]
MirrorEnd(p) == mproc' = [mproc EXCEPT ![p] = MirrorIdle]
MirrorSpend(what) == mleft[what] > 0 /\ mleft' = [mleft EXCEPT ![what] = @ - 1]

-----------------------------------------------------------------------------
(* Readings and their types *)

\* The readings of a sequence, as a set, with what the mirror has inline.
Elements(items, inline) == inline \cup {[mrid |-> items[i].mrid, typed |-> items[i].typed] : i \in DOMAIN items}

\* inheritReadingTypeByMRID: a reading with no type has that of its mRID.
InheritsType(mrid, all) == \E r \in all : r.mrid = mrid /\ r.typed

\* ReadingLegs: a typed reading is on its leg, any other on none.
ReadingLeg(r, all) == IF InheritsType(r.mrid, all) THEN "leg" ELSE "none"

\* KeepSeriesType: when a series survives and none of its typed readings
\* does, the oldest typed one is kept.  drop is a set of places in items.
KeepSeriesType(items, drop, inline) ==
    LET Mine(m) == {i \in DOMAIN items : items[i].mrid = m}
        Survivor(m) == Mine(m) \ drop # {} \/ \E r \in inline : r.mrid = m
        TypedSurvivor(m) == InheritsType(m, inline) \/ \E i \in Mine(m) \ drop : items[i].typed
        TypedDropped(m) == {i \in Mine(m) \cap drop : items[i].typed}
    IN drop \ {Min(TypedDropped(m)) : m \in {n \in ReadingMRIDs :
                  Survivor(n) /\ ~TypedSurvivor(n) /\ TypedDropped(n) # {}}}

\* A compaction that keeps no reading for its type.
keepsByTime(items, inline, keepFrom) ==
    LET all == Elements(items, inline)
        Typed == {i \in DOMAIN items : InheritsType(items[i].mrid, all)}
    IN {i \in DOMAIN items : \/ items[i].at + HoldReach > keepFrom
                             \/ i \in Typed /\ \A j \in Typed : items[j].at <= items[i].at}

\* keepReadings: what covers a second from keepFrom on, the newest typed,
\* and the type of what is kept.
keepReadings(items, inline, keepFrom) ==
    LET all == Elements(items, inline)
        Typed == {i \in DOMAIN items : InheritsType(items[i].mrid, all)}
        newest == {i \in Typed : \A j \in Typed : items[j].at <= items[i].at}
        drop == {i \in DOMAIN items : items[i].at + HoldReach <= keepFrom} \ newest
    IN DOMAIN items \ KeepSeriesType(items, drop, inline)

\* A sweep that leaves the types to chance.
dropsTypes(items, inline, cutoff) ==
    LET all == Elements(items, inline)
        aged == {i \in DOMAIN items : items[i].at < cutoff}
    IN aged \cup {i \in DOMAIN items \ aged :
                    Cardinality({j \in DOMAIN items \ aged :
                        j > i /\ ReadingLeg(items[j], all) = ReadingLeg(items[i], all)}) >= MaxPerSeries}

\* What sweepMirror drops: what is too old, and the oldest of a leg beyond
\* its cap; types are kept.
sweepDrops(items, inline, cutoff) ==
    LET all == Elements(items, inline)
        aged == {i \in DOMAIN items : items[i].at < cutoff}
        overCap == {i \in DOMAIN items \ aged :
                      Cardinality({j \in DOMAIN items \ aged :
                          j > i /\ ReadingLeg(items[j], all) = ReadingLeg(items[i], all)}) >= MaxPerSeries}
    IN KeepSeriesType(items, aged \cup overCap, inline)

-----------------------------------------------------------------------------
(* Who may act for a device: newMirrorActor with RequireDeviceRecords *)

actFor(caller, d) == caller = d \/ (pair[d] = caller /\ d \in recorded)

\* authorizeMirrorOwner: the mirror is there and the caller may act for it.
authorizeMirrorOwner(caller, k) == mups[k] # NoMirror /\ actFor(caller, k.dev)

\* A request comes in and passes its checks; the others change nothing.
MirrorArrive(p, what, k, inline, body) ==
    /\ MirrorSpend(what) /\ MirrorAt(p, "idle", "idle")
    /\ mproc' = [mproc EXCEPT ![p] =
                   [MirrorIdle EXCEPT !.op = what, !.pc = "start", !.key = k, !.inline = inline,
                                      !.gen = mirrors[k], !.body = body]]
    /\ UNCHANGED <<mirrorStores, mirrorWorld>>

-----------------------------------------------------------------------------
(* Ghosts.  A reading remembers the mirror it was posted to (gen), whether  *)
(* its type was known and no sweep was removing it (known), and what the    *)
(* code does not promise it: its mirror went while it was in flight (late), *)
(* the sweep or a compaction was at work on its mirror when it was written, *)
(* or the two at once (raced), or the journal did not hold the type         *)
(* (unheld).                                                                *)

Sweeping(k) == mproc[Sweeper].key = k
Compacting == compacting.pc # "idle"
AtWork(k) == Sweeping(k) \/ Compacting

\* The journal of one mirror.
Journal(k) == SelectSeq(readings[k], LAMBDA r : r.id \in journaled[k])

\* After the mirror itself is written: what its inline readings no longer
\* type is no longer known.
Reknown(k, inline) ==
    [i \in DOMAIN readings[k] |->
       [readings[k][i] EXCEPT
          !.known = @ /\ InheritsType(readings[k][i].mrid, Elements(readings[k], inline)),
          !.unheld = @ \/ ~InheritsType(readings[k][i].mrid, Elements(Journal(k), inline)),
          !.raced = @ \/ AtWork(k)]]

writeMirror(k, inline, gen) ==
    /\ mups' = [mups EXCEPT ![k] = [inline |-> inline, gen |-> gen]]
    /\ readings' = [readings EXCEPT ![k] = Reknown(k, inline)]

-----------------------------------------------------------------------------
(* POST /mup: made, or the one that is there is overwritten *)

HandleCreateMirrorUsagePoint(p, caller, k, inline) ==
    /\ actFor(caller, k.dev)
    /\ MirrorArrive(p, "create", k, inline, <<>>)

createMirror(p) ==
    LET k == mproc[p].key
    IN /\ MirrorAt(p, "create", "start")
       /\ IF mups[k] = NoMirror
          THEN /\ mirrors' = [mirrors EXCEPT ![k] = @ + 1]
               /\ writeMirror(k, mproc[p].inline, mirrors[k] + 1) /\ MirrorEnd(p)
          ELSE MirrorGoto(p, "reread") /\ UNCHANGED <<mups, mirrors, readings>>
       /\ UNCHANGED <<journaled, mirrorWorld, mleft>>

rereadMirror(p) ==
    /\ MirrorAt(p, "create", "reread")
    /\ IF mups[mproc[p].key] = NoMirror THEN MirrorEnd(p) ELSE MirrorGoto(p, "update")
    /\ UNCHANGED <<mirrorStores, mirrorWorld, mleft>>

HandlePutMirrorUsagePoint(p, caller, k, inline) ==
    /\ authorizeMirrorOwner(caller, k)
    /\ MirrorArrive(p, "put", k, inline, <<>>)

\* The update of either: refused when the mirror is gone.
updateMirror(p) ==
    LET k == mproc[p].key
    IN /\ MirrorAt(p, "put", "start") \/ MirrorAt(p, "create", "update")
       /\ IF mups[k] = NoMirror THEN UNCHANGED <<mups, readings>>
          ELSE writeMirror(k, mproc[p].inline, mups[k].gen)
       /\ MirrorEnd(p)
       /\ UNCHANGED <<mirrors, journaled, mirrorWorld, mleft>>

-----------------------------------------------------------------------------
(* DELETE /mup/{id}: the readings first, then the mirror *)

HandleDeleteMirrorUsagePoint(p, caller, k) ==
    /\ authorizeMirrorOwner(caller, k)
    /\ MirrorArrive(p, "delete", k, {}, <<>>)

\* A delete that leaves the readings.
skipCascade(p) ==
    /\ MirrorAt(p, "delete", "start")
    /\ mproc' = [mproc EXCEPT ![p].pc = "delete", ![p].cutoff = mclock.minted]
    /\ UNCHANGED <<mirrorStores, mirrorWorld, mleft>>

DeleteParent(p) ==
    LET k == mproc[p].key
    IN /\ MirrorAt(p, "delete", "start")
       /\ \/ /\ readings' = [readings EXCEPT ![k] = <<>>]
             /\ journaled' = [journaled EXCEPT ![k] = {}]
             /\ mproc' = [mproc EXCEPT ![p].pc = "delete", ![p].cutoff = mclock.minted] /\ UNCHANGED mleft
          \/ MirrorSpend("fault") /\ MirrorEnd(p) /\ UNCHANGED <<readings, journaled>>
       /\ UNCHANGED <<mups, mirrors, mirrorWorld>>

\* A reading stored since the cascade is late.
deleteMirror(p) ==
    LET k == mproc[p].key
    IN /\ MirrorAt(p, "delete", "delete")
       /\ mups' = [mups EXCEPT ![k] = NoMirror]
       /\ readings' = [readings EXCEPT ![k] =
                         [i \in DOMAIN @ |-> [@[i] EXCEPT !.late = @ \/ readings[k][i].id > mproc[p].cutoff]]]
       /\ MirrorEnd(p)
       /\ UNCHANGED <<mirrors, journaled, mirrorWorld, mleft>>

-----------------------------------------------------------------------------
(* POST /mup/{id} and /mup/{id}/mr: one reading or a list, all or none *)

HandlePostMirrorMeterReading(p, caller, k, body) ==
    /\ authorizeMirrorOwner(caller, k)
    /\ MirrorArrive(p, "post", k, {}, body)

stampMirrorMeterReading(p, n) ==
    LET q == mproc[p]
        k == q.key
        inline == IF mups[k] = NoMirror THEN {} ELSE mups[k].inline
        r == q.body[n]
        new == Elements(q.body, {})
    IN [id |-> mclock.minted + n, mrid |-> r.mrid, typed |-> r.typed, at |-> mclock.now, gen |-> q.gen,
        known |-> InheritsType(r.mrid, new \cup Elements(readings[k], inline)),
        unheld |-> ~InheritsType(r.mrid, new \cup Elements(Journal(k), inline)),
        late |-> mups[k] = NoMirror \/ mirrors[k] # q.gen, raced |-> AtWork(k)]

storeReadings(p) ==
    LET q == mproc[p]
        new == [n \in DOMAIN q.body |-> stampMirrorMeterReading(p, n)]
    IN /\ MirrorAt(p, "post", "start")
       /\ \/ /\ readings' = [readings EXCEPT ![q.key] = @ \o new]
             /\ journaled' = [journaled EXCEPT ![q.key] = @ \cup {new[n].id : n \in DOMAIN new}]
             /\ mclock' = [mclock EXCEPT !.minted = @ + Len(new)] /\ UNCHANGED mleft
          \/ MirrorSpend("fault") /\ UNCHANGED <<readings, journaled, mclock>>
       /\ MirrorEnd(p)
       /\ UNCHANGED <<mups, mirrors, pair, recorded, compacting>>

-----------------------------------------------------------------------------
(* The retention sweep *)

Sweep ==
    /\ MirrorSpend("sweep") /\ MirrorAt(Sweeper, "idle", "idle")
    /\ mproc' = [mproc EXCEPT ![Sweeper] =
                   [MirrorIdle EXCEPT !.op = "sweep", !.pc = "next", !.cutoff = mclock.now - MaxAge,
                                      !.todo = {k \in MirrorKeys : readings[k] # <<>>}]]
    /\ UNCHANGED <<mirrorStores, mirrorWorld>>

\* The next mirror, and its inline readings.
sweepMirror ==
    /\ MirrorAt(Sweeper, "sweep", "next")
    /\ \/ mproc[Sweeper].todo = {} /\ MirrorEnd(Sweeper)
       \/ \E k \in mproc[Sweeper].todo :
            mproc' = [mproc EXCEPT ![Sweeper].todo = @ \ {k}, ![Sweeper].pc = "list", ![Sweeper].key = k,
                        ![Sweeper].inline = IF mups[k] = NoMirror THEN {} ELSE mups[k].inline]
    /\ UNCHANGED <<mirrorStores, mirrorWorld, mleft>>

\* The list of its readings, and what is to go.  A sweep does not know which
\* of them an earlier compaction left in memory only.
sweepList ==
    LET q == mproc[Sweeper]
        items == readings[q.key]
        drop == sweepDrops(items, q.inline, q.cutoff)
        memoryOnly == Journal(q.key) # items
    IN /\ MirrorAt(Sweeper, "sweep", "list")
       /\ mproc' = [mproc EXCEPT ![Sweeper].pc = "drop", ![Sweeper].drop = {items[i].id : i \in drop}]
       /\ readings' = [readings EXCEPT ![q.key] =
                         [i \in DOMAIN items |-> [items[i] EXCEPT !.known = @ /\ i \notin drop,
                                !.unheld = @ \/ memoryOnly, !.raced = @ \/ Compacting]]]
       /\ UNCHANGED <<mups, mirrors, journaled, mirrorWorld, mleft>>

\* One goes; one that is gone already, or cannot be removed, is passed over.
sweepDelete ==
    LET q == mproc[Sweeper]
        k == q.key
    IN /\ MirrorAt(Sweeper, "sweep", "drop") /\ q.drop # {}
       /\ mproc' = [mproc EXCEPT ![Sweeper].drop = @ \ {Min(q.drop)}]
       /\ \/ /\ readings' = [readings EXCEPT ![k] = SelectSeq(@, LAMBDA r : r.id # Min(q.drop))]
             /\ journaled' = [journaled EXCEPT ![k] = @ \ {Min(q.drop)}] /\ UNCHANGED mleft
          \/ MirrorSpend("fault") /\ UNCHANGED <<readings, journaled>>
       /\ UNCHANGED <<mups, mirrors, mirrorWorld>>

sweepNext ==
    /\ MirrorAt(Sweeper, "sweep", "drop") /\ mproc[Sweeper].drop = {}
    /\ mproc' = [mproc EXCEPT ![Sweeper].pc = "next", ![Sweeper].key = NoMirror]
    /\ UNCHANGED <<mirrorStores, mirrorWorld, mleft>>

-----------------------------------------------------------------------------
(* ReadingJournal.Compact: the journal is cut to what a restart needs *)

\* The snapshot, under the store's lock.
Compact(keepFrom) ==
    /\ MirrorSpend("compact") /\ ~Compacting
    /\ compacting' = [NoCompaction EXCEPT !.pc = "keep", !.from = keepFrom, !.items = readings]
    /\ readings' = [k \in MirrorKeys |-> [i \in DOMAIN readings[k] |->
                       [readings[k][i] EXCEPT !.raced = @ \/ Sweeping(k)]]]
    /\ UNCHANGED <<mups, mirrors, journaled, pair, recorded, mproc, mclock>>

\* keep and the staged file, without the lock: the inline readings are those
\* of now, the others those of the snapshot.
stage ==
    /\ compacting.pc = "keep"
    /\ \/ /\ compacting' = [compacting EXCEPT !.pc = "commit", !.kept = [k \in MirrorKeys |->
                LET inline == IF mups[k] = NoMirror THEN {} ELSE mups[k].inline
                    items == compacting.items[k]
                IN {items[i].id : i \in keepReadings(items, inline, compacting.from)}]]
          /\ UNCHANGED mleft
       \/ MirrorSpend("fault") /\ compacting' = NoCompaction
    /\ UNCHANGED <<mirrorStores, pair, recorded, mproc, mclock>>

\* Under the lock again: what was written since the snapshot follows, so a
\* reading stored meanwhile is in and one removed meanwhile is out.
Commit ==
    LET Ids(items) == {items[i].id : i \in DOMAIN items}
    IN /\ compacting.pc = "commit" /\ compacting' = NoCompaction
       /\ \/ /\ journaled' = [k \in MirrorKeys |->
                     Ids(readings[k]) \ (Ids(compacting.items[k]) \ compacting.kept[k])]
             /\ UNCHANGED mleft
          \/ MirrorSpend("fault") /\ UNCHANGED journaled
       /\ UNCHANGED <<mups, mirrors, readings, pair, recorded, mproc, mclock>>

\* The server dies and starts: the mirrors and the journal are read, and
\* readings of mirrors that are gone are dropped.
DropOrphans ==
    LET kept == {k \in MirrorKeys : mups[k] # NoMirror}
    IN /\ MirrorSpend("restart")
       /\ readings' = [k \in MirrorKeys |-> IF k \in kept THEN Journal(k) ELSE <<>>]
       /\ journaled' = [k \in MirrorKeys |-> IF k \in kept THEN journaled[k] ELSE {}]
       /\ mproc' = [p \in MirrorProcs |-> MirrorIdle] /\ compacting' = NoCompaction
       /\ UNCHANGED <<mups, mirrors, pair, recorded, mclock>>

\* The pairs and the device records change.
ToggleRecord(d) ==
    /\ MirrorSpend("pair")
    /\ recorded' = IF d \in recorded THEN recorded \ {d} ELSE recorded \cup {d}
    /\ UNCHANGED <<mirrorStores, pair, mproc, compacting, mclock>>

Repair(d, m) ==
    /\ MirrorSpend("pair") /\ m # pair[d]
    /\ pair' = [pair EXCEPT ![d] = m]
    /\ UNCHANGED <<mirrorStores, recorded, mproc, compacting, mclock>>

MirrorTick ==
    /\ MirrorSpend("tick")
    /\ mclock' = [mclock EXCEPT !.now = @ + 1]
    /\ UNCHANGED <<mirrorStores, pair, recorded, mproc, compacting>>

Bodies == [1..1 -> [mrid : ReadingMRIDs, typed : BOOLEAN]]
          \cup {<<[mrid |-> m, typed |-> TRUE], [mrid |-> m, typed |-> FALSE]>> : m \in ReadingMRIDs}
Inlines == {{}} \cup {{[mrid |-> m, typed |-> TRUE]} : m \in ReadingMRIDs}

MirrorNext ==
    \/ \E p \in MirrorRequests :
         \/ \E c \in MirrorDevices, k \in MirrorKeys :
              \/ \E inline \in Inlines :
                   HandleCreateMirrorUsagePoint(p, c, k, inline) \/ HandlePutMirrorUsagePoint(p, c, k, inline)
              \/ HandleDeleteMirrorUsagePoint(p, c, k)
              \/ \E body \in Bodies : HandlePostMirrorMeterReading(p, c, k, body)
         \/ createMirror(p) \/ rereadMirror(p) \/ updateMirror(p)
         \/ DeleteParent(p) \/ deleteMirror(p) \/ storeReadings(p)
    \/ Sweep \/ sweepMirror \/ sweepList \/ sweepDelete \/ sweepNext
    \/ Compact(mclock.now) \/ stage \/ Commit \/ DropOrphans
    \/ \E d \in MirrorDevices : ToggleRecord(d) \/ \E m \in MirrorDevices : Repair(d, m)
    \/ MirrorTick

MirrorSpec == MirrorInit /\ [][MirrorNext]_mirrorVars

-----------------------------------------------------------------------------
StillTyped(k, i) ==
    InheritsType(readings[k][i].mrid, Elements(readings[k], IF mups[k] = NoMirror THEN {} ELSE mups[k].inline))

\* A reading whose type was known when it was stored, and that no sweep is
\* removing, is never left without one: not by the sweep, not by a compaction
\* and a restart (KeepSeriesType).  The code promises this when nothing was
\* written to the mirror while the sweep or a compaction was at it, these two
\* did not overlap, the journal held its type when it was stored, and no sweep
\* chose between a journaled type and one only memory held.
SeriesKeepsType ==
    \A k \in MirrorKeys : mups[k] # NoMirror =>
        \A i \in DOMAIN readings[k] :
            LET r == readings[k][i] IN r.known /\ ~r.raced /\ ~r.unheld => StillTyped(k, i)

\* A mirror has no readings of an earlier one with its key, except those
\* whose POST was in flight when that one was deleted
\* (HandleDeleteMirrorUsagePoint's cascade, DropOrphans).
NoInheritedReadings ==
    \A k \in MirrorKeys : mups[k] # NoMirror =>
        \A i \in DOMAIN readings[k] : readings[k][i].late \/ readings[k][i].gen = mups[k].gen
-----------------------------------------------------------------------------
(***************************************************************************)
(* The log of refused requests, of the ownership gate                      *)
(* (pkg/sep2srv/assembly/ownership.go) and of the mirror handlers          *)
(* (pkg/sep2srv/handlers/metering/mirror.go), which are one design: so     *)
(* many lines a window and a caller, the rest counted and told in a        *)
(* summary, by the next denial after the window or by a timer.             *)
(*                                                                         *)
(* A timer that is stopped may have fired: its flush then waits for the    *)
(* lock and runs later.  The clock and the timers need not agree.          *)
(***************************************************************************)

CONSTANTS
    DenialCallers,   \* who is refused
    PerCaller,       \* lines of one caller in a window
    LineLimit,       \* lines in a window
    DenialWindow,    \* its length
    MaxDenials,      \* bound
    MaxDenialTime    \* bound on the clock

VARIABLES
    dclock,      \* the clock
    windowEnds,  \* the end of the open window, 0 for none
    generation,  \* windows so far
    lines,       \* caller -> lines written in this window
    suppressed,  \* denials counted in it
    timer,       \* the generation the armed timer is for, 0 for none
    flushes,     \* generations whose timer fired, not yet run
    denied,      \* denials so far
    told         \* those a line or a summary told of

denialVars == <<dclock, windowEnds, generation, lines, suppressed, timer, flushes, denied, told>>

NoLines == [c \in DenialCallers |-> 0]
Written == LET Sum[S \in SUBSET DenialCallers] ==
                 IF S = {} THEN 0 ELSE LET c == CHOOSE x \in S : TRUE IN lines[c] + Sum[S \ {c}]
           IN Sum[DenialCallers]

DenialInit ==
    /\ dclock = 1 /\ windowEnds = 0 /\ generation = 0 /\ lines = NoLines /\ suppressed = 0
    /\ timer = 0 /\ flushes = {} /\ denied = 0 /\ told = 0

Expired == windowEnds # 0 /\ dclock >= windowEnds

admit(c) ==
    LET fresh == windowEnds = 0 \/ Expired
        count == IF fresh THEN 0 ELSE lines[c]
        all == IF fresh THEN 0 ELSE Written
        pending == IF fresh THEN 0 ELSE suppressed
        armed == IF fresh THEN 0 ELSE timer
        gen == IF fresh THEN generation + 1 ELSE generation
    IN /\ denied < MaxDenials /\ denied' = denied + 1
       /\ windowEnds' = IF fresh THEN dclock + DenialWindow ELSE windowEnds
       /\ generation' = gen
       /\ IF all < LineLimit /\ count < PerCaller
          THEN /\ lines' = [(IF fresh THEN NoLines ELSE lines) EXCEPT ![c] = @ + 1]
               /\ suppressed' = pending /\ timer' = armed
               /\ told' = told + 1 + (IF Expired THEN suppressed ELSE 0)
          ELSE /\ lines' = IF fresh THEN NoLines ELSE lines
               /\ suppressed' = pending + 1
               /\ timer' = IF armed = 0 THEN gen ELSE armed
               /\ told' = told + (IF Expired THEN suppressed ELSE 0)
       /\ UNCHANGED <<dclock, flushes>>

\* The timer fires.
Fire ==
    /\ timer # 0 /\ timer \notin flushes
    /\ flushes' = flushes \cup {timer}
    /\ UNCHANGED <<dclock, windowEnds, generation, lines, suppressed, timer, denied, told>>

\* A flush that closes the window whatever its generation.
flushAny(gen) ==
    /\ gen \in flushes /\ flushes' = flushes \ {gen}
    /\ windowEnds' = 0 /\ lines' = NoLines /\ suppressed' = 0 /\ timer' = 0
    /\ UNCHANGED <<dclock, generation, denied, told>>

\* flush: of an older window, nothing; too early, the timer is armed again.
flush(gen) ==
    /\ gen \in flushes /\ flushes' = flushes \ {gen}
    /\ IF gen # generation \/ windowEnds = 0
       THEN UNCHANGED <<windowEnds, lines, suppressed, timer, told>>
       ELSE IF ~Expired
       THEN timer' = generation /\ UNCHANGED <<windowEnds, lines, suppressed, told>>
       ELSE /\ windowEnds' = 0 /\ lines' = NoLines /\ suppressed' = 0 /\ timer' = 0
            /\ told' = told + suppressed
    /\ UNCHANGED <<dclock, generation, denied>>

DenialTick ==
    /\ dclock < MaxDenialTime /\ dclock' = dclock + 1
    /\ UNCHANGED <<windowEnds, generation, lines, suppressed, timer, flushes, denied, told>>

DenialNext ==
    \/ \E c \in DenialCallers : admit(c)
    \/ Fire
    \/ \E gen \in flushes : flush(gen)
    \/ DenialTick

-----------------------------------------------------------------------------
\* Every denial is told of, by a line or in a count, exactly once, and while
\* one is only counted a timer of its window is armed or its flush is on the
\* way: the summary comes though no one is denied again (admit, flush).
DenialsAreTold ==
    /\ denied = told + suppressed
    /\ suppressed > 0 => generation \in flushes \cup {timer}
=============================================================================
