----------------------------- MODULE ServerLife -----------------------------
(***************************************************************************)
(* The life of a server process (cmd/sep2server main.go, internal/server   *)
(* server.go, pkg/sep2server server.go): the order in which Run opens its  *)
(* stores, workers and listeners, the ways it can end, and the order in    *)
(* which it closes what requests in flight are still using.                *)
(***************************************************************************)
EXTENDS FiniteSets, Sequences, SequencesExt, Integers

(***************************************************************************)
(* The settings of a server (internal/config config.go): what the parsers  *)
(* of the environment accept, and what the server takes a setting to be.   *)
(* A setting is refused at most once, before anything is opened: what a    *)
(* parser lets through, the later check lets through too.                  *)
(***************************************************************************)

Unset == -1       \* the variable is not in the environment
Text == -2        \* it is not a whole number
Bad == -3         \* refused

\* Bounds, in seconds, bytes, hours and readings.
DefaultMaxDuration == 24 * 3600
MirrorReadingMaxHold == 900
MinMirrorReadingRetention == DefaultMaxDuration + MirrorReadingMaxHold
MaxMirrorReadingRetention == 30 * 24 * 3600
MirrorReadingCadence == 300

MinMirrorReadingMaxPerSeries == MinMirrorReadingRetention \div MirrorReadingCadence + 1
MaxMirrorReadingMaxPerSeries == MaxMirrorReadingRetention
MaxPowerHistoryHours == 720

\* A parser gives 0 for a variable that is not set.
Parsed(v, lo, hi) == IF v = Unset THEN 0 ELSE IF v \in lo..hi THEN v ELSE Bad

\* The setting in force: a default for 0, and the bounds again, since an
\* embedder may build the configuration by hand.
Effective(n, lo, hi, default) == IF n = 0 THEN default ELSE IF n \in lo..hi THEN n ELSE Bad

ParseFlowReservationDeadlineSeconds(v) == Parsed(v, 1, 3600)
EffectiveFlowReservationDeadline(n) == Effective(n, 1, 3600, 300)

ParseFlowReservationRetentionGraceSeconds(v) == Parsed(v, 900, 604800)
EffectiveFlowReservationRetentionGrace(n) == Effective(n, 900, 7 * 24 * 3600, 1800)

ParseCommsOfflineAfterSeconds(v) == Parsed(v, 1, 86400)
EffectiveCommsOfflineAfter(n) == IF n <= 0 THEN 300 ELSE n

ParseDeviceLogMaxBytes(v) == Parsed(v, 1000000, 20000000)
EffectiveDeviceLogMaxBytes(n) == Effective(n, 1000000, 20000000, 20000000)

ParseMirrorReadingRetentionSeconds(v) == Parsed(v, MinMirrorReadingRetention, MaxMirrorReadingRetention)
EffectiveMirrorReadingRetention(n) == Effective(n, MinMirrorReadingRetention, MaxMirrorReadingRetention, 25 * 3600)

ParsePowerHistoryHours(v) == Parsed(v, 1, MaxPowerHistoryHours)
EffectivePowerHistoryRetention(n) == Effective(n, 1, MaxPowerHistoryHours, 48)

ParseMirrorReadingMaxPerSeries(v) == Parsed(v, MinMirrorReadingMaxPerSeries, MaxMirrorReadingMaxPerSeries)
EffectiveMirrorReadingMaxPerSeries(n) == Effective(n, MinMirrorReadingMaxPerSeries, MaxMirrorReadingMaxPerSeries, 20000)

\* A switch is true, false, or not set, and then on.
ParseDeviceLog(v) == CASE v \in {"", "true"} -> "on" [] v = "false" -> "off" [] OTHER -> "bad"
ParseInBandManagement(v) == CASE v \in {"", "true"} -> "on" [] v = "false" -> "off" [] OTHER -> "bad"
ParseSEP2Edition(v) == CASE v = "" -> "2018" [] v \in {"2018", "2023"} -> v [] OTHER -> "bad"

\* The limits of an environment as the configuration holds them.
ParsedLimits(env) ==
    [deadline |-> ParseFlowReservationDeadlineSeconds(env.deadline),
     grace |-> ParseFlowReservationRetentionGraceSeconds(env.grace),
     offline |-> ParseCommsOfflineAfterSeconds(env.offline),
     logBytes |-> ParseDeviceLogMaxBytes(env.logBytes),
     retention |-> ParseMirrorReadingRetentionSeconds(env.retention),
     perSeries |-> ParseMirrorReadingMaxPerSeries(env.perSeries),
     history |-> ParsePowerHistoryHours(env.history)]

\* The limits in force.
EffectiveLimits(cfg) ==
    [deadline |-> EffectiveFlowReservationDeadline(cfg.deadline),
     grace |-> EffectiveFlowReservationRetentionGrace(cfg.grace),
     offline |-> EffectiveCommsOfflineAfter(cfg.offline),
     logBytes |-> EffectiveDeviceLogMaxBytes(cfg.logBytes),
     retention |-> EffectiveMirrorReadingRetention(cfg.retention),
     perSeries |-> EffectiveMirrorReadingMaxPerSeries(cfg.perSeries),
     history |-> EffectivePowerHistoryRetention(cfg.history)]

Accepted(limits) == \A l \in DOMAIN limits : limits[l] # Bad

\* Which file or address a setting with a fallback means.
EffectiveAdminListen(s) == IF s.listen # "unset" THEN s.listen ELSE s.addr
EffectiveServingCA(s) == IF s.servingCA # "unset" THEN s.servingCA ELSE s.ca
EffectiveDeviceCA(s) == IF s.deviceCA # "unset" THEN s.deviceCA ELSE s.ca
EffectiveAdminClientCA(s) == IF s.clientCA # "unset" THEN s.clientCA ELSE EffectiveServingCA(s)

\* A port without a host is bound on loopback.
ResolveAdminBind(listen) == IF listen = "port" THEN "loopback" ELSE listen

\* Without a data directory, and without a path of its own, a store is kept
\* in memory.
EffectiveStorePath(s, own) == IF own # "unset" THEN own ELSE IF s.dataDir THEN "data dir" ELSE "memory"
EffectiveTrafficDir(s) == IF s.trafficDir # "unset" THEN s.trafficDir ELSE IF s.dataDir THEN "data dir" ELSE "none"
EffectivePowerHistoryDir(s) == IF s.dataDir THEN "data dir" ELSE "none"
EffectiveMirrorReadingJournalPath(s) == IF s.dataDir THEN "data dir" ELSE "none"
-----------------------------------------------------------------------------

CONSTANTS
    Settings,         \* configurations: see Sound
    DeviceRequests,   \* requests on the protocol listener
    AdminRequests,    \* requests on the admin listener
    MaxBootFaults     \* bound: failures of a start or of a listener

ASSUME LifeConstants == MaxBootFaults \in Nat

VARIABLES
    setting,     \* the configuration of this process
    stage,       \* how far Run is
    exitBy,      \* what made Run leave
    live,        \* parts that are open or running
    defers,      \* deferred calls, last in first out
    signalled,   \* the context of Run is done
    protocol,    \* the protocol listener
    devReq,      \* device request -> where it is
    admReq,      \* admin request -> where it is
    bootFaults   \* what the scenario has left

lifeVars == <<setting, stage, exitBy, live, defers, signalled, protocol, devReq, admReq, bootFaults>>

InitLife ==
    /\ setting \in Settings /\ stage = "config" /\ exitBy = "none" /\ live = {} /\ defers = <<>>
    /\ signalled = FALSE /\ protocol = "off"
    /\ devReq = [r \in DeviceRequests |-> "idle"] /\ admReq = [r \in AdminRequests |-> "idle"]
    /\ bootFaults = MaxBootFaults

BootFault == bootFaults > 0 /\ bootFaults' = bootFaults - 1

\* Run leaves: what it has deferred is still to come.
Leave(why) == stage' = "leaving" /\ exitBy' = why

-----------------------------------------------------------------------------
\* Before Run.

\* Every variable of the environment can be read.
configFromEnv(s) ==
    /\ Accepted(ParsedLimits(s.env))
    /\ "bad" \notin {ParseDeviceLog(s.log), ParseInBandManagement(s.inBand), ParseSEP2Edition(s.edition)}

\* LoadCAPair: a certificate, and a key that belongs to it.
LoadCAPair(ca) == [cert |-> ca \in {"pair", "certificate"}, key |-> ca = "pair"]

\* A certificate service if a CA certificate loads; it mints with a key.
loadAdminCertService(s) ==
    LET pairs == {LoadCAPair(EffectiveServingCA(s)), LoadCAPair(EffectiveDeviceCA(s))}
    IN IF \A p \in pairs : ~ p.cert THEN "none" ELSE IF \E p \in pairs : p.key THEN "mints" ELSE "verifies"

CanMint(s) == loadAdminCertService(s) = "mints"

\* A key of usable length.
CheckAdminKey(s) == s.key = "usable"

\* The key is read or made only for an admin listener.
applyAdminKey(s) == EffectiveAdminListen(s) = "off" \/ CheckAdminKey(s)

\* A named directory that cannot be used stops the start; the default one
\* only turns the log off.
prepareDeviceLogOn(s) == ParseDeviceLog(s.log) = "off" \/ s.logDir # "named, unusable"
newDeviceLog(s) == ParseDeviceLog(s.log) = "on" /\ s.logDir = "usable"

prepareServe ==
    /\ stage = "config"
    /\ IF configFromEnv(setting) /\ (CanMint(setting) => applyAdminKey(setting)) /\ prepareDeviceLogOn(setting)
       THEN stage' = "stores" /\ UNCHANGED exitBy
       ELSE Leave("boot")
    /\ UNCHANGED <<setting, live, defers, signalled, protocol, devReq, admReq, bootFaults>>

-----------------------------------------------------------------------------
\* Run, one step for each part it starts.

\* A step either goes on or fails, and then Run leaves.
Starts(from, to, part, deferred) ==
    /\ stage = from
    /\ \/ /\ stage' = to /\ live' = live \cup part /\ defers' = defers \o deferred
          /\ UNCHANGED <<exitBy, bootFaults>>
       \/ BootFault /\ Leave("boot") /\ UNCHANGED <<live, defers>>
    /\ UNCHANGED <<setting, signalled, protocol, devReq, admReq>>

\* A step that cannot fail.
Goes(from, to, part, deferred) ==
    /\ stage = from /\ stage' = to /\ live' = live \cup part /\ defers' = defers \o deferred
    /\ UNCHANGED <<setting, exitBy, signalled, protocol, devReq, admReq, bootFaults>>

\* The stores, each read from its file if it has one.
newRunStores == Starts("stores", "assemble", {"stores"}, <<>>)

\* The issuer, the limits, and the power history of a data directory.
assembleStores ==
    IF Accepted(EffectiveLimits(ParsedLimits(setting.env)))
    THEN Starts("assemble", "seed", IF EffectivePowerHistoryDir(setting) = "none" THEN {} ELSE {"history"}, <<>>)
    ELSE /\ stage = "assemble" /\ Leave("limits")
         /\ UNCHANGED <<setting, live, defers, signalled, protocol, devReq, admReq, bootFaults>>

\* Fixture, default DERs, program assignments, copies, replicas.
seedStores == Starts("seed", "hrefs", {"seeded"}, <<>>)

CheckProgramHrefs == Starts("hrefs", "notifier", {}, <<>>)

StartNotifier == Goes("notifier", "capture", {"index", "notifier"}, <<>>)

\* Without a directory, or with one the store refuses, capture is off.
Captures(s) == s.capture /\ EffectiveTrafficDir(s) # "none"
StartCapture ==
    \/ /\ Captures(setting) /\ Goes("capture", "queue", {"capture"}, <<"capture">>)
    \/ /\ stage = "capture" /\ stage' = "queue"
       /\ IF Captures(setting) THEN BootFault ELSE UNCHANGED bootFaults
       /\ UNCHANGED <<setting, exitBy, live, defers, signalled, protocol, devReq, admReq>>

newFlowReservationQueue == Goes("queue", "recover", {"queue"}, <<"queue">>)

\* Recovery fails, or a signal stops it and Run leaves without an error.
recoverAtBoot ==
    \/ Starts("recover", "retention", {"recovered"}, <<>>)
    \/ /\ stage = "recover" /\ signalled /\ Leave("signal")
       /\ UNCHANGED <<setting, live, defers, signalled, protocol, devReq, admReq, bootFaults>>

StartFlowReservationRetention == Goes("retention", "mirrors", {"retention"}, <<"retention">>)

startMirrorReadingRetention == Goes("mirrors", "power", {"mirrors"}, <<"mirrors">>)

StartPowerHistory == Goes("power", "log", {"power"}, <<"power">>)

startDeviceLog ==
    IF newDeviceLog(setting) THEN Starts("log", "listen", {"log"}, <<"log">>) ELSE Goes("log", "listen", {}, <<>>)

\* sep2server.New binds the listener; Run serves it.
ServerNew ==
    /\ stage = "listen"
    /\ \/ stage' = "mdns" /\ protocol' = "serving" /\ defers' = Append(defers, "protocol")
          /\ UNCHANGED <<exitBy, bootFaults>>
       \/ BootFault /\ Leave("boot") /\ UNCHANGED <<protocol, defers>>
    /\ UNCHANGED <<setting, live, signalled, devReq, admReq>>

\* A registration that fails is done without.
RegisterMDNS == Goes("mdns", "admin", IF setting.mdns THEN {"mdns"} ELSE {}, IF setting.mdns THEN <<"mdns">> ELSE <<>>)

\* What startAdminServer refuses before it binds.
isLoopbackBind(addr) == addr = "loopback"
validateAdminExposure(s) == isLoopbackBind(ResolveAdminBind(EffectiveAdminListen(s))) \/ s.allowed
validateAdminKey(s) == CheckAdminKey(s)
adminCrossOriginPolicy(s) == s.origins # "malformed"

\* Anchors for operators' certificates: a file that is named must hold a CA;
\* one that is only fallen back on may lack it.
parseAdminClientCAPool(ca) == ca \in {"pair", "certificate"}
adminClientCAPool(s) == s.clientCA = "unset" \/ s.clientCA = "system" \/ parseAdminClientCAPool(EffectiveAdminClientCA(s))
buildAdminTLSConfig(s) == s.tls # "half a pair" /\ (s.tls = "off" \/ adminClientCAPool(s))

\* The start is given up: the listener is drained first.
GiveUp == stage' = "give up" /\ exitBy' = "boot"

startAdminServer ==
    /\ stage = "admin"
    /\ LET wanted == EffectiveAdminListen(setting) # "off" /\ CanMint(setting)
           sound == /\ validateAdminExposure(setting) /\ validateAdminKey(setting)
                    /\ adminCrossOriginPolicy(setting) /\ buildAdminTLSConfig(setting)
       IN \/ /\ ~ wanted /\ stage' = "metrics" /\ UNCHANGED <<live, exitBy, bootFaults>>
          \/ /\ wanted /\ sound /\ stage' = "metrics" /\ live' = live \cup {"admin"} /\ UNCHANGED <<exitBy, bootFaults>>
          \/ /\ wanted /\ ~ sound /\ GiveUp /\ UNCHANGED <<live, bootFaults>>
          \/ /\ wanted /\ sound /\ BootFault /\ GiveUp /\ UNCHANGED live
    /\ UNCHANGED <<setting, defers, signalled, protocol, devReq, admReq>>

startMetricsServer ==
    /\ stage = "metrics"
    /\ \/ /\ ~ setting.metrics /\ stage' = "serving" /\ UNCHANGED <<live, exitBy, bootFaults>>
       \/ /\ setting.metrics /\ stage' = "serving" /\ live' = live \cup {"metrics"} /\ UNCHANGED <<exitBy, bootFaults>>
       \/ /\ setting.metrics /\ BootFault /\ GiveUp /\ UNCHANGED live
    /\ UNCHANGED <<setting, defers, signalled, protocol, devReq, admReq>>

-----------------------------------------------------------------------------
\* Requests and signals.

Signal ==
    /\ ~ signalled /\ stage # "returned" /\ signalled' = TRUE
    /\ UNCHANGED <<setting, stage, exitBy, live, defers, protocol, devReq, admReq, bootFaults>>

\* A listener that fails leaves its connections, which go on sending.
DeviceRequest(r) ==
    /\ devReq[r] = "idle" /\ protocol \in {"serving", "failed"} /\ stage # "returned"
    /\ devReq' = [devReq EXCEPT ![r] = "running"]
    /\ UNCHANGED <<setting, stage, exitBy, live, defers, signalled, protocol, admReq, bootFaults>>

DeviceAnswered(r) ==
    /\ devReq[r] = "running" /\ devReq' = [devReq EXCEPT ![r] = "done"]
    /\ UNCHANGED <<setting, stage, exitBy, live, defers, signalled, protocol, admReq, bootFaults>>

AdminRequest(r) ==
    /\ admReq[r] = "idle" /\ "admin" \in live /\ stage # "returned"
    /\ admReq' = [admReq EXCEPT ![r] = "running"]
    /\ UNCHANGED <<setting, stage, exitBy, live, defers, signalled, protocol, devReq, bootFaults>>

AdminAnswered(r) ==
    /\ admReq[r] = "running" /\ admReq' = [admReq EXCEPT ![r] = "done"]
    /\ UNCHANGED <<setting, stage, exitBy, live, defers, signalled, protocol, devReq, bootFaults>>

\* A request of the metrics listener: "scrape" is live while it runs.
Scrape ==
    /\ {"metrics", "scrape"} \cap live = {"metrics"} /\ stage \notin {"stop metrics", "returned"} /\ live' = live \cup {"scrape"}
    /\ UNCHANGED <<setting, stage, exitBy, defers, signalled, protocol, devReq, admReq, bootFaults>>

ScrapeAnswered ==
    /\ "scrape" \in live /\ live' = live \ {"scrape"}
    /\ UNCHANGED <<setting, stage, exitBy, defers, signalled, protocol, devReq, admReq, bootFaults>>

\* Serve returns by itself.
ProtocolFails ==
    /\ protocol = "serving" /\ stage \in {"mdns", "admin", "metrics", "serving"} /\ BootFault
    /\ protocol' = "failed"
    /\ UNCHANGED <<setting, stage, exitBy, live, defers, signalled, devReq, admReq>>

-----------------------------------------------------------------------------
\* The end.

\* sep2server Run: Shutdown waits for every request in flight.
Drained == \A r \in DeviceRequests : devReq[r] # "running"

\* stopProtocolServer: once.  A server that has failed has nothing to drain.
stopProtocolServer(from, to) ==
    /\ stage = from
    /\ CASE protocol = "serving"  -> protocol' = "draining" /\ UNCHANGED stage
         [] protocol = "draining" -> Drained /\ protocol' = "stopped" /\ stage' = to
         [] OTHER                 -> stage' = to /\ UNCHANGED protocol

\* The select of Run.
SelectSignal ==
    /\ stage = "serving" /\ signalled
    /\ stage' = "stop protocol" /\ exitBy' = "signal"
    /\ UNCHANGED <<setting, live, defers, signalled, protocol, devReq, admReq, bootFaults>>

SelectProtocol ==
    /\ stage = "serving" /\ protocol = "failed"
    /\ Leave("protocol")
    /\ UNCHANGED <<setting, live, defers, signalled, protocol, devReq, admReq, bootFaults>>

SelectListener ==
    /\ stage = "serving" /\ live \cap {"admin", "metrics"} # {} /\ BootFault
    /\ Leave("listener")
    /\ UNCHANGED <<setting, live, defers, signalled, protocol, devReq, admReq>>

\* The ordered shutdown after a signal.
ShutProtocol ==
    /\ stopProtocolServer("stop protocol", "stop capture")
    /\ UNCHANGED <<setting, exitBy, live, defers, signalled, devReq, admReq, bootFaults>>

closeCapture ==
    /\ stage = "stop capture" /\ stage' = "stop admin" /\ live' = live \ {"capture"}
    /\ UNCHANGED <<setting, exitBy, defers, signalled, protocol, devReq, admReq, bootFaults>>

ShutAdminUnbounded ==
    /\ stage = "stop admin" /\ \A r \in AdminRequests : admReq[r] # "running"
    /\ stage' = "stop metrics" /\ live' = live \ {"admin"}
    /\ UNCHANGED <<setting, exitBy, defers, signalled, protocol, devReq, admReq, bootFaults>>

\* The admin listener is given a bounded time.
ShutAdmin ==
    /\ stage = "stop admin" /\ stage' = "stop metrics" /\ live' = live \ {"admin"}
    /\ UNCHANGED <<setting, exitBy, defers, signalled, protocol, devReq, admReq, bootFaults>>

\* The metrics listener is given all the time its request takes.
ShutMetrics ==
    /\ stage = "stop metrics" /\ "scrape" \notin live
    /\ stage' = "stop notifier" /\ live' = live \ {"metrics"}
    /\ UNCHANGED <<setting, exitBy, defers, signalled, protocol, devReq, admReq, bootFaults>>

NotifierDone ==
    /\ stage = "stop notifier" /\ signalled
    /\ stage' = "leaving" /\ live' = live \ {"notifier"}
    /\ UNCHANGED <<setting, exitBy, defers, signalled, protocol, devReq, admReq, bootFaults>>

\* A start given up after the listener: it is drained, the admin listener
\* closed, and Run leaves.
ShutAborted ==
    /\ stopProtocolServer("give up", "leaving")
    /\ live' = IF stage' = "leaving" THEN live \ {"admin"} ELSE live
    /\ UNCHANGED <<setting, exitBy, defers, signalled, devReq, admReq, bootFaults>>

RunDefersInOrder ==
    /\ stage = "leaving" /\ defers # <<>>
    /\ IF Head(defers) = "protocol" /\ protocol = "serving" THEN protocol' = "draining" /\ UNCHANGED <<defers, live>>
       ELSE /\ protocol = "draining" => Drained
            /\ protocol' = IF protocol = "draining" THEN "stopped" ELSE protocol
            /\ defers' = Tail(defers) /\ live' = live \ {Head(defers)}
    /\ UNCHANGED <<setting, stage, exitBy, signalled, devReq, admReq, bootFaults>>

\* The deferred calls, last first.
RunDefers ==
    /\ stage = "leaving" /\ defers # <<>>
    /\ IF Last(defers) = "protocol" /\ protocol = "serving" THEN protocol' = "draining" /\ UNCHANGED <<defers, live>>
       ELSE /\ protocol = "draining" => Drained
            /\ protocol' = IF protocol = "draining" THEN "stopped" ELSE protocol
            /\ defers' = Front(defers) /\ live' = live \ {Last(defers)}
    /\ UNCHANGED <<setting, stage, exitBy, signalled, devReq, admReq, bootFaults>>

\* Run returns and the process ends.
Return ==
    /\ stage = "leaving" /\ defers = <<>> /\ stage' = "returned"
    /\ UNCHANGED <<setting, exitBy, live, defers, signalled, protocol, devReq, admReq, bootFaults>>

RunStep ==
    \/ prepareServe \/ newRunStores \/ assembleStores \/ seedStores \/ CheckProgramHrefs \/ StartNotifier \/ StartCapture
    \/ newFlowReservationQueue \/ recoverAtBoot \/ StartFlowReservationRetention
    \/ startMirrorReadingRetention \/ StartPowerHistory \/ startDeviceLog \/ ServerNew \/ RegisterMDNS
    \/ startAdminServer \/ startMetricsServer \/ SelectSignal \/ SelectProtocol \/ ShutProtocol
    \/ closeCapture \/ ShutAdmin \/ ShutMetrics \/ NotifierDone \/ ShutAborted \/ RunDefers \/ Return

LifeNext ==
    \/ RunStep \/ Signal \/ ProtocolFails \/ SelectListener \/ Scrape \/ ScrapeAnswered
    \/ \E r \in DeviceRequests : DeviceRequest(r) \/ DeviceAnswered(r)
    \/ \E r \in AdminRequests : AdminRequest(r) \/ AdminAnswered(r)

\* Run goes on whenever it can; the handlers of devices and of the metrics
\* end.  Nothing is assumed of admin handlers, which may serve a stream
\* without end.  After Shutdown the metrics listener takes no new request,
\* so "stop metrics" is not kept waiting by one scrape after another.
LifeFairness ==
    /\ WF_lifeVars(RunStep) /\ WF_lifeVars(ScrapeAnswered)
    /\ \A r \in DeviceRequests : WF_lifeVars(DeviceAnswered(r))

-----------------------------------------------------------------------------
\* What a device's request uses is open while it runs, in every order of
\* start, signal and failure: the queue takes its submission, the log its
\* line, the recorder its bytes.  (The one exit that does not drain is the
\* listener's own failure.)
RequestsKeepStores ==
    (protocol # "failed" /\ \E r \in DeviceRequests : devReq[r] = "running") =>
        /\ {"stores", "recovered", "queue", "retention"} \subseteq live
        /\ newDeviceLog(setting) => "log" \in live
        /\ "capture" \in ToSet(defers) => "capture" \in live

\* A limit out of bounds is refused before anything is opened, and the
\* limits a server runs with keep, on a leg read every five minutes, all the
\* readings of the longest control and the furthest one reading reaches.
LimitsHold ==
    /\ exitBy # "limits"
    /\ stage = "serving" =>
          LET limits == EffectiveLimits(ParsedLimits(setting.env)) IN
          /\ limits.retention >= DefaultMaxDuration + MirrorReadingMaxHold
          /\ (limits.perSeries - 1) * MirrorReadingCadence >= DefaultMaxDuration + MirrorReadingMaxHold
          /\ limits.history * 3600 >= limits.deadline

\* A server serves only with what its requests use, and within its limits.
ServesWhole == RequestsKeepStores /\ LimitsHold

\* A signalled server ends, also when an admin handler never returns, and
\* ends with the queue, the workers and the log closed.
SignalEnds == signalled ~> (stage = "returned" /\ live \cap {"queue", "retention", "mirrors", "power", "log"} = {})
=============================================================================
