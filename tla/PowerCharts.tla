---------------------------- MODULE PowerCharts -----------------------------
(***************************************************************************)
(* From a device's readings to watts and watt-seconds                      *)
(* (internal/handler/admin_dercontrol_delivery.go): what seconds a reading *)
(* covers, which of overlapping readings holds, which of total, average    *)
(* and phase legs values a second, and the sums per bucket.                *)
(*                                                                         *)
(* A sample is a reading that has a leg; `watts` is export positive, or    *)
(* Unmapped where the direction is not known.                              *)
(***************************************************************************)
EXTENDS Integers, Sequences, FiniteSets, SequencesExt, FiniteSetsExt, Functions

CONSTANTS
    Legs,         \* [average, phase, dir] records in use
    Samples,      \* readings that may be posted: leg, at, watts, period
    HoldFor,      \* holdSeconds
    ChartBounds,  \* the buckets' bounds, ascending
    MaxSamples,   \* bound
    Unmapped

VARIABLE samples   \* the device's readings, mirror by mirror

ChartInit == samples = <<>>

\* A reading is posted; only an average has a period of its own, which ends
\* at its receipt at the latest.
PostSample(s) ==
    /\ Len(samples) < MaxSamples /\ (s.period > 0 => s.leg.average)
    /\ samples' = Append(samples, s)

ChartNext == \E s \in Samples : PostSample(s)

-----------------------------------------------------------------------------
(* Spans *)

\* The readings of one leg, by receipt, in store order within a second.
Candidates(l) ==
    SetToSortSeq({i \in DOMAIN samples : samples[i].leg = l},
                 LAMBDA i, j : samples[i].at < samples[j].at \/ (samples[i].at = samples[j].at /\ i < j))

\* readingCoverage: an instantaneous reading holds until the next one, an
\* average reaches back to the one before, or over its own period.
readingCoverage(cs, n) ==
    LET s == samples[cs[n]]
        later == {samples[cs[m]].at : m \in {k \in DOMAIN cs : samples[cs[k]].at > s.at}}
        earlier == {samples[cs[m]].at : m \in {k \in DOMAIN cs : samples[cs[k]].at < s.at}}
    IN IF ~s.leg.average THEN [start |-> s.at, end |-> Min({s.at + HoldFor} \cup later)]
       ELSE IF s.period > 0 THEN [start |-> s.at - 1 - s.period, end |-> s.at - 1]
       ELSE [start |-> Max({s.at - HoldFor} \cup earlier), end |-> s.at]

\* powerLegs: the spans of a leg within the window, those of no direction
\* left out, and the legs that cover anything.
legSpans(l) ==
    LET cs == Candidates(l)
        ws == Head(ChartBounds)
        we == Last(ChartBounds)
        span == [n \in DOMAIN cs |->
                   LET c == readingCoverage(cs, n)
                   IN [start |-> Max({c.start, ws}), end |-> Min({c.end, we}),
                       watts |-> samples[cs[n]].watts, received |-> samples[cs[n]].at, order |-> n]]
    IN {span[n] : n \in {m \in DOMAIN cs : span[m].start < span[m].end}}

powerLegs == [spans |-> [l \in Legs |-> {s \in legSpans(l) : s.watts # Unmapped}],
              seen |-> {l \in Legs : legSpans(l) # {}}]

\* spanHeap.Less: the one received last holds.
Beats(s, t) == s.received > t.received \/ (s.received = t.received /\ s.order > t.order)
TopSpan(S) == CHOOSE s \in S : \A t \in S \ {s} : Beats(s, t)

\* resolveSeries: from bound to bound, what starts is pushed, what is at the
\* top and over is popped, and the top holds.
resolveSeries(spans) ==
    LET bounds == SetToSortSeq(UNION {{s.start, s.end} : s \in spans}, <)
        Popped(S, x) == LET live == {s \in S : s.end > x}
                        IN IF live = {} THEN {} ELSE {s \in S : s = TopSpan(live) \/ Beats(TopSpan(live), s)}
        Step(acc, i) ==
            LET x == bounds[i]
                active == Popped(acc.active \cup {s \in spans : s.start = x}, x)
            IN [active |-> active,
                pieces |-> acc.pieces \cup (IF active = {} THEN {}
                                            ELSE {[start |-> x, end |-> bounds[i + 1], span |-> TopSpan(active)]})]
    IN FoldLeft(Step, [active |-> {}, pieces |-> {}], [i \in 1..(Len(bounds) - 1) |-> i]).pieces

-----------------------------------------------------------------------------
(* Paths *)

\* legValue: the leg itself, or its two directions when both are there or
\* only one of them reports in this window.
legValue(active, seen, average, phase) ==
    LET Leg(d) == [average |-> average, phase |-> phase, dir |-> d]
        Has(d) == Leg(d) \in DOMAIN active
    IN IF Has("main") THEN {Leg("main")}
       ELSE IF {Leg("forward"), Leg("reverse")} \subseteq seen /\ ~(Has("forward") /\ Has("reverse")) THEN {}
       ELSE {Leg(d) : d \in {e \in {"forward", "reverse"} : Has(e)}}

\* pickPath: the average total, the instantaneous one, or all phases.
pickPath(active, seen) ==
    LET average == legValue(active, seen, TRUE, "total")
        instant == legValue(active, seen, FALSE, "total")
        OfPhase(p) == LET a == legValue(active, seen, TRUE, p)
                      IN IF a # {} THEN a ELSE legValue(active, seen, FALSE, p)
        phases == {l.phase : l \in seen} \ {"total"}
    IN IF average # {} THEN average ELSE IF instant # {} THEN instant
       ELSE IF \A p \in phases : OfPhase(p) # {} THEN UNION {OfPhase(p) : p \in phases} ELSE {}

NetWatts(active, path) == MapThenSumSet(LAMBDA l : active[l].watts, path)

NoSum == [covered |-> 0, ws |-> 0, exportWs |-> 0, importWs |-> 0]
Credit(sum, net, seconds) ==
    [covered |-> sum.covered + seconds, ws |-> sum.ws + net * seconds,
     exportWs |-> sum.exportWs + (IF net > 0 THEN net * seconds ELSE 0),
     importWs |-> sum.importWs + (IF net < 0 THEN net * seconds ELSE 0)]

\* The opens of a moment applied before its closes.
edgesOpenFirst(active, pieces, x) ==
    LET closes(l) == {p \in pieces[l] : p.end = x}
        opens(l) == {p \in pieces[l] : p.start = x}
        Now(l) == LET held == IF opens(l) # {} THEN {p.span : p \in opens(l)}
                              ELSE IF l \in DOMAIN active THEN {active[l]} ELSE {}
                  IN {s \in held : \A p \in closes(l) : p.span # s}
    IN [l \in {k \in Legs : Now(k) # {}} |-> CHOOSE s \in Now(l) : TRUE]

\* The edges of one moment: what closes goes unless another span has taken
\* its leg, then what opens is put in.
edges(active, pieces, x) ==
    LET closes(l) == {p \in pieces[l] : p.end = x}
        opens(l) == {p \in pieces[l] : p.start = x}
        kept == {l \in DOMAIN active : \A p \in closes(l) : p.span # active[l]}
    IN [l \in kept \cup {k \in Legs : opens(k) # {}} |->
          IF opens(l) # {} THEN (CHOOSE p \in opens(l) : TRUE).span ELSE active[l]]

\* integrateSigned: from edge to edge, credited to the buckets between.
integrateSigned(lr, bounds) ==
    LET pieces == [l \in Legs |-> resolveSeries(lr.spans[l])]
        moments == SetToSortSeq(UNION {UNION {{p.start, p.end} : p \in pieces[l]} : l \in Legs}, <)
        Step(acc, i) ==
            LET x == moments[i]
                active == edges(acc.active, pieces, x)
                path == pickPath(active, lr.seen)
                Seconds(k) == Min({moments[i + 1], bounds[k + 1]}) - Max({x, bounds[k]})
            IN [active |-> active,
                sums |-> [k \in DOMAIN acc.sums |->
                    IF path # {} /\ Seconds(k) > 0
                    THEN Credit(acc.sums[k], NetWatts(active, path), Seconds(k)) ELSE acc.sums[k]]]
    IN FoldLeft(Step, [active |-> <<>>, sums |-> [k \in 1..(Len(bounds) - 1) |-> NoSum]],
                [i \in 1..(Len(moments) - 1) |-> i]).sums

-----------------------------------------------------------------------------
\* The same by the second: each is valued once, by the span received last of
\* those that cover it on each leg.
SecondSums(lr, bounds) ==
    LET At(l, t) == {s \in lr.spans[l] : s.start <= t /\ t < s.end}
        Active(t) == [l \in {k \in Legs : At(k, t) # {}} |-> TopSpan(At(l, t))]
        Second(sum, t) == LET path == pickPath(Active(t), lr.seen)
                          IN IF path = {} THEN sum ELSE Credit(sum, NetWatts(Active(t), path), 1)
    IN [k \in 1..(Len(bounds) - 1) |->
          FoldLeft(Second, NoSum, [n \in 1..(bounds[k + 1] - bounds[k]) |-> bounds[k] + n - 1])]

\* Every covered second is counted once, in the bucket that holds it, with
\* the value of one path, whatever the readings' order, overlaps and legs; a
\* second with a phase missing is not covered; and the export and import of
\* a bucket are its net (integrate, integrateSigned).
EverySecondOnce ==
    LET lr == powerLegs
        sums == integrateSigned(lr, ChartBounds)
    IN /\ sums = SecondSums(lr, ChartBounds)
       /\ \A k \in DOMAIN sums :
            /\ sums[k].exportWs + sums[k].importWs = sums[k].ws
            /\ sums[k].covered <= ChartBounds[k + 1] - ChartBounds[k]
-----------------------------------------------------------------------------
(***************************************************************************)
(* The cache of the power charts (powerCache of                            *)
(* internal/handler/admin_power.go): one computation at a time for a key,  *)
(* others wait for it, an answer is served for a few seconds and a failure *)
(* never.  A request that computes evicts what is no longer usable.        *)
(***************************************************************************)

CONSTANTS
    CacheKeys,       \* scope and window
    Viewers,         \* requests
    CacheTTL,        \* powerCacheTTL
    MaxCacheTime,    \* bound on the clock
    NoEntry

VARIABLES
    cclock,    \* the clock
    entries,   \* key -> the entry in the map, or NoEntry
    entry,     \* an entry -> its key, state, when computed, when told
    viewer     \* what each request does

cacheVars == <<cclock, entries, entry, viewer>>

ViewerIdle == [pc |-> "idle", key |-> NoEntry, on |-> 0, since |-> 0, outcome |-> NoEntry]

\* Entries that neither the map nor a request refers to are free.
EntryIds == 1..(Cardinality(CacheKeys) + Cardinality(Viewers))
FreeEntry == [key |-> NoEntry, state |-> "free", at |-> 0, closed |-> 0]
Collect(made, map, vs) ==
    [e \in EntryIds |->
       IF (\E k \in CacheKeys : map[k] = e) \/ (\E v \in Viewers : vs[v].on = e) THEN made[e] ELSE FreeEntry]

CacheInit ==
    /\ cclock = 0 /\ entries = [k \in CacheKeys |-> NoEntry] /\ entry = [e \in EntryIds |-> FreeEntry]
    /\ viewer = [v \in Viewers |-> ViewerIdle]

\* An answer that does not age.
usableForever(e) == entry[e].state # "failed"

\* usableLocked: in progress, or answered within the time to live.
usableLocked(e) ==
    entry[e].state = "computing" \/ (entry[e].state = "answered" /\ cclock - entry[e].at < CacheTTL)

\* get, the part under the lock: wait on a usable entry, or drop what is not
\* usable and compute.
get(v, k) ==
    /\ viewer[v].pc = "idle"
    /\ IF entries[k] # NoEntry /\ usableLocked(entries[k])
       THEN /\ viewer' = [viewer EXCEPT ![v] = [ViewerIdle EXCEPT !.pc = "wait", !.key = k, !.on = entries[k], !.since = cclock]]
            /\ UNCHANGED <<entries, entry>>
       ELSE LET e == Min({i \in EntryIds : entry[i] = FreeEntry})
            IN /\ entries' = [j \in CacheKeys |->
                     IF j = k THEN e
                     ELSE IF entries[j] # NoEntry /\ ~usableLocked(entries[j]) THEN NoEntry ELSE entries[j]]
               /\ viewer' = [viewer EXCEPT ![v] = [ViewerIdle EXCEPT !.pc = "compute", !.key = k, !.on = e, !.since = cclock]]
               /\ entry' = Collect([entry EXCEPT ![e] = [FreeEntry EXCEPT !.key = k, !.state = "computing"]],
                                   entries', viewer')
    /\ UNCHANGED cclock

\* The computation answers, or fails or panics.
compute(v) ==
    /\ viewer[v].pc = "compute"
    /\ \E outcome \in {"answered", "failed"} :
         viewer' = [viewer EXCEPT ![v].pc = "done", ![v].outcome = outcome]
    /\ entry' = [entry EXCEPT ![viewer[v].on].at = cclock]
    /\ UNCHANGED <<cclock, entries>>

\* Its deferred end: a failed entry leaves the map, if it is still the one
\* there, and then those that wait are told.
finish(v) ==
    LET e == viewer[v].on
        k == viewer[v].key
        failed == viewer[v].outcome = "failed"
    IN /\ viewer[v].pc = "done"
       /\ entry' = [entry EXCEPT ![e].state = viewer[v].outcome, ![e].closed = cclock]
       /\ entries' = IF failed /\ entries[k] = e THEN [entries EXCEPT ![k] = NoEntry] ELSE entries
       /\ viewer' = [viewer EXCEPT ![v].pc = viewer[v].outcome]
       /\ UNCHANGED cclock

\* A waiter has the entry's outcome, or its client has gone.
await(v) ==
    /\ viewer[v].pc = "wait"
    /\ \/ /\ entry[viewer[v].on].state # "computing"
          /\ viewer' = [viewer EXCEPT ![v].pc = entry[viewer[v].on].state]
       \/ viewer' = [viewer EXCEPT ![v].pc = "gone"]
    /\ UNCHANGED <<cclock, entries, entry>>

View(v) ==
    /\ viewer[v].pc \in {"answered", "failed", "gone"}
    /\ viewer' = [viewer EXCEPT ![v] = ViewerIdle]
    /\ entry' = Collect(entry, entries, viewer')
    /\ UNCHANGED <<cclock, entries>>

CacheTick ==
    /\ cclock < MaxCacheTime /\ cclock' = cclock + 1
    /\ UNCHANGED <<entries, entry, viewer>>

CacheNext ==
    \/ \E v \in Viewers : (\E k \in CacheKeys : get(v, k)) \/ compute(v) \/ finish(v) \/ await(v) \/ View(v)
    \/ CacheTick

-----------------------------------------------------------------------------
\* A request has the answer to its own question, one that was not yet out when
\* it came or was computed no longer than the time to live before; a failure is told only to those that came
\* before it was done with; and a key is computed once at a time
\* (powerCache.get).
AnswersAreFresh ==
    /\ \A v \in Viewers :
         viewer[v].on # 0 =>
         LET e == entry[viewer[v].on]
         IN /\ viewer[v].pc = "answered" => /\ e.key = viewer[v].key
                                            /\ viewer[v].since <= e.closed \/ viewer[v].since - e.at < CacheTTL
            /\ viewer[v].pc = "failed" => e.closed >= viewer[v].since
    /\ \A v, w \in Viewers : v # w /\ viewer[v].pc = "compute" /\ viewer[w].pc = "compute"
                             => viewer[v].key # viewer[w].key
=============================================================================
