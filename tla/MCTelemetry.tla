----------------------------- MODULE MCTelemetry -----------------------------
(***************************************************************************)
(* What devices report and what the server writes down, for TLC: in each   *)
(* behaviour one of the mirrors, the power history, the denial log, the    *)
(* device log, the traffic recorder, its store and its listener runs; the  *)
(* others rest.  They share no state here.                                 *)
(***************************************************************************)
EXTENDS Mirrors, PowerHistory, DeviceLog, CaptureRecorder, CaptureStore, TLC

CONSTANTS d1, d2, m1, s1, s2, r1, r2, e1, e2, k1, a1, c1, c2, x1

VARIABLE acting

NoActs == [a \in {"create", "put", "delete", "post", "sweep", "compact", "restart", "pair", "tick", "fault"} |-> 0]
MirrorScenarios == {
    NoActs,
    [NoActs EXCEPT !.create = 2, !.delete = 1, !.post = 1, !.fault = 1, !.restart = 1],
    [NoActs EXCEPT !.create = 1, !.put = 1, !.post = 1, !.delete = 1, !.pair = 1],
    [NoActs EXCEPT !.create = 1, !.post = 2, !.sweep = 1, !.tick = 2, !.fault = 1],
    [NoActs EXCEPT !.create = 1, !.post = 2, !.sweep = 1, !.compact = 1, !.tick = 1, !.restart = 1],
    [NoActs EXCEPT !.create = 1, !.put = 1, !.post = 1, !.delete = 1, !.compact = 1, !.fault = 1, !.restart = 1],
    [NoActs EXCEPT !.create = 1, !.put = 1, !.post = 2, !.sweep = 1, !.tick = 1]}

NoPowerActs == [a \in {"pass", "post", "delete", "join", "tick", "prune", "compact", "crash", "fault"} |-> 0]
PowerScenarios == {
    NoPowerActs,
    [NoPowerActs EXCEPT !.pass = 3, !.post = 1, !.tick = 3, !.fault = 1, !.crash = 1],
    [NoPowerActs EXCEPT !.pass = 2, !.post = 2, !.tick = 4, !.compact = 1, !.crash = 1],
    [NoPowerActs EXCEPT !.pass = 2, !.post = 1, !.tick = 5, !.prune = 1, !.fault = 1, !.crash = 1],
    [NoPowerActs EXCEPT !.pass = 2, !.post = 2, !.tick = 3, !.delete = 1, !.join = 1]}

NoLog == [line |-> 0, close |-> 0, fault |-> 0, expire |-> 0, timeout |-> 0, crash |-> 0, register |-> 0, read |-> 0,
          filed |-> 0]
LogScenarios == {
    NoLog,
    [NoLog EXCEPT !.line = 4, !.fault = 1, !.crash = 1, !.timeout = 1],
    [NoLog EXCEPT !.line = 3, !.fault = 1, !.expire = 1, !.register = 1, !.timeout = 1, !.close = 1],
    [NoLog EXCEPT !.line = 4, !.read = 1],
    [NoLog EXCEPT !.line = 3, !.read = 1, !.timeout = 1],
    [NoLog EXCEPT !.line = 2, !.read = 1, !.filed = 3]}

NoRec == [accept |-> 0, reset |-> 0, request |-> 0, fault |-> 0, close |-> 0, timeout |-> 0]
RecScenarios == {
    NoRec,
    [NoRec EXCEPT !.accept = 1, !.request = 3, !.fault = 1],
    [NoRec EXCEPT !.accept = 2, !.request = 2, !.reset = 1],
    [NoRec EXCEPT !.accept = 2, !.request = 2, !.close = 2, !.timeout = 1, !.fault = 1]}

\* The disk makes room, then the index; streams over evictions; a restart.
NoStoreBudget == [record |-> 0, fault |-> 0, close |-> 0, restart |-> 0, stream |-> 0, hangup |-> 0, fetch |-> 0,
                  index |-> 4]
StoreScenarios == {
    NoStoreBudget,
    [NoStoreBudget EXCEPT !.record = 4, !.fault = 1, !.fetch = 1],
    [NoStoreBudget EXCEPT !.record = 3, !.fault = 2, !.fetch = 1, !.index = 2],
    [NoStoreBudget EXCEPT !.record = 3, !.stream = 2, !.hangup = 1, !.index = 2],
    [NoStoreBudget EXCEPT !.record = 2, !.stream = 2, !.restart = 1, !.close = 1]}

Chosen(part, b, idle) == (acting = part) = (b # idle)

Init ==
    /\ acting \in {"mirrors", "power", "denials", "log", "recorder", "store", "listener"}
    /\ MirrorInit /\ Chosen("mirrors", mleft, NoActs)
    /\ PowerInit /\ Chosen("power", pleft, NoPowerActs)
    /\ DenialInit
    /\ LogInit /\ Chosen("log", lleft, NoLog) /\ (acting # "log" => known = {})
    /\ RecInit /\ Chosen("recorder", rleft, NoRec)
    /\ StoreInit /\ Chosen("store", sleft, NoStoreBudget)
    /\ ListenInit /\ (acting # "listener" => lfaults = 0)

\* What the part that acts may change, and what every other part leaves alone.
Acts(part, next) == acting = part /\ next
Idle(part, partVars) == acting # part => UNCHANGED partVars

Next ==
    /\ UNCHANGED acting
    /\ \/ Acts("mirrors", MirrorNext) \/ Acts("power", PowerNext)
       \/ Acts("denials", DenialNext) \/ Acts("log", LogNext)
       \/ Acts("recorder", RecNext) \/ Acts("store", StoreNext) \/ Acts("listener", ListenNext)
    /\ Idle("mirrors", mirrorVars) /\ Idle("power", powerVars)
    /\ Idle("denials", denialVars) /\ Idle("log", logVars)
    /\ Idle("recorder", recVars) /\ Idle("store", storeVars) /\ Idle("listener", listenVars)

Spec ==
    Init /\ [][Next]_<<acting, mirrorVars, powerVars, denialVars, logVars, recVars, storeVars, listenVars>>

\* The devices of the mirrors and those of the power history change places
\* together: only one of the two parts acts in a behaviour.
Interchangeable ==
    {(d1 :> d2) @@ (d2 :> d1) @@ (e1 :> e2) @@ (e2 :> e1)}
    \cup Permutations(ReadingMRIDs) \cup Permutations(MirrorRequests)

\* The properties, each asked of the part that acts: a part at rest stays in
\* its initial state.
Of(parts, property) == acting \in parts => property

\* What is left of the readings is what their mirror was told: SeriesKeepsType
\* and NoInheritedReadings (see Mirrors).
ReadingsKept == Of({"mirrors"}, SeriesKeepsType /\ NoInheritedReadings)

\* The power history is kept: NothingSkipped, GroupsAddUp and
\* CompactionSufficient at every state, RecordedStays at every step (see
\* PowerHistory).
PowerIsKept == []Of({"power"}, NothingSkipped /\ GroupsAddUp /\ CompactionSufficient) /\ RecordedStays

\* The logs leave nothing out and keep their order: NumbersGoUp, LinesInOrder
\* and PagesComplete of the device log, DenialsAreTold of the denial log.
LogsAreWhole == Of({"log"}, NumbersGoUp /\ LinesInOrder /\ PagesComplete) /\ Of({"denials"}, DenialsAreTold)

\* The traffic capture loses nothing it does not tell of. The recorder takes
\* every connection and exchange for what it is (ExchangeIsOne,
\* EveryExchangeCounted), the listener leaves no connection unaccepted and
\* unclosed (NoConnDangles), and the store gives a true account of its files
\* and streams (DiskAccounted, StreamHasNoGap).
TrafficIsWhole ==
    /\ Of({"recorder"}, ExchangeIsOne /\ EveryExchangeCounted)
    /\ Of({"listener"}, NoConnDangles)
    /\ Of({"store"}, DiskAccounted /\ StreamHasNoGap)
=============================================================================
