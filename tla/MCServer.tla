------------------------------- MODULE MCServer -------------------------------
(***************************************************************************)
(* The server process for TLC: in each behaviour one of the life of Run,   *)
(* the boots over a fixture, the starts over an admin key file and the     *)
(* protocol router runs; the others rest.  The fairness is that of Run: in *)
(* a behaviour of another part it claims nothing, and only the invariants  *)
(* speak of it.                                                            *)
(***************************************************************************)
EXTENDS ServerLife, BootFixture, AdminKeyFile, ProtocolRouter

CONSTANTS d1, d2, a1, s1, s2, s3, q1, q2

VARIABLE acting

Rest(choices) == CHOOSE c \in choices : TRUE

NoEnv == [l \in {"deadline", "grace", "offline", "logBytes", "retention", "perSeries", "history"} |-> Unset]
Plain == [env |-> NoEnv, ca |-> "pair", servingCA |-> "unset", deviceCA |-> "unset", clientCA |-> "unset",
          key |-> "usable", listen |-> "port", addr |-> "off", allowed |-> FALSE, log |-> "", inBand |-> "",
          edition |-> "", logDir |-> "usable", capture |-> TRUE, trafficDir |-> "unset", dataDir |-> TRUE,
          mdns |-> TRUE, tls |-> "off", origins |-> "", metrics |-> TRUE]
Bare == [Plain EXCEPT !.metrics = FALSE, !.mdns = FALSE, !.capture = FALSE, !.log = "false"]

\* Both sides of every limit.
Edges == [deadline |-> {0, 1, 3600, 3601}, grace |-> {899, 900, 604800, 604801}, offline |-> {0, 1, 86401},
          logBytes |-> {999999, 1000000, 20000001}, retention |-> {87299, 87300, 2592001},
          perSeries |-> {291, 292, 2592000, 2592001}, history |-> {0, 1, 720, 721, Text}]
TheSettings ==
    {Plain, [Bare EXCEPT !.listen = "unset", !.dataDir = FALSE], [Plain EXCEPT !.listen = "wide"],
     [Plain EXCEPT !.tls = "pair", !.clientCA = "empty", !.metrics = FALSE], [Plain EXCEPT !.edition = "2030"],
     [Plain EXCEPT !.ca = "certificate", !.key = "short", !.dataDir = FALSE]}
    \cup UNION {{[Bare EXCEPT !.env[l] = v] : v \in Edges[l]} : l \in DOMAIN NoEnv}

TheFiles == {[kind |-> "regular", key |-> <<"old">>, id |-> 0], [kind |-> "regular", key |-> EmptyKey, id |-> 0],
             [kind |-> "link", key |-> <<"old">>, id |-> 0]}

TheWirings ==
    {{}, AllStores}
    \cup {AllStores \ {s} : s \in {"EndDevices", "EndDeviceManagers", "FlowReservationRequests", "DERs", "Registrations"}}

Few == {<<"GET", E(<<"der", Wild>>)>>, <<"PUT", E(<<"der", Wild>>)>>, <<"POST", <<"rsps", Wild, "rsp">>>>}
Some == Few \cup {<<"GET", <<"edev">>>>, <<"GET", E(<<"rg">>)>>, <<"HEAD", <<"dcap">>>>, <<"GET", <<"admin">>>>,
                  <<"GET", E(<<"frq">>)>>, <<"PUT", E(<<"der", Wild, "derg">>)>>}
Every == {<<r.method, r.path>> : r \in Patterns(AllStores)} \cup MintableHrefs
NoAsk == [asked |-> {}, ask |-> 0, pair |-> 0, record |-> 0, fault |-> 0, panic |-> 0]
TheRouteBudgets == {
    [NoAsk EXCEPT !.asked = Some \cup Every, !.ask = 1, !.pair = 1],
    [NoAsk EXCEPT !.asked = Some, !.ask = 1, !.pair = 1, !.fault = 1, !.panic = 1],
    [NoAsk EXCEPT !.asked = Few, !.ask = 2, !.pair = 1, !.record = 1]}

Init ==
    /\ acting \in {"life", "fixture", "key", "router"}
    /\ InitLife /\ (acting # "life" => setting = Plain)
    /\ InitFixture /\ (acting # "fixture" => ~ dataDir /\ fixture = {k \in FixtureKeys : k[2] = d1})
    /\ InitKeyFile /\ (acting # "key" => keyFile = NoFile /\ \A s \in Starters : starter[s].does = "serve")
    /\ InitRouter
    /\ acting # "router" =>
          wired = {} /\ onRecord = {} /\ routeLeft = Rest(RouteBudgets) /\ \A d \in Devices : pairedTo[d] = Unmanaged

Next ==
    /\ UNCHANGED acting
    /\ \/ acting = "life" /\ LifeNext /\ UNCHANGED <<fixtureVars, keyVars, routeVars>>
       \/ acting = "fixture" /\ FixtureNext /\ UNCHANGED <<lifeVars, keyVars, routeVars>>
       \/ acting = "key" /\ KeyFileNext /\ UNCHANGED <<lifeVars, fixtureVars, routeVars>>
       \/ acting = "router" /\ RouterNext /\ UNCHANGED <<lifeVars, fixtureVars, keyVars>>

Spec == Init /\ [][Next]_<<acting, lifeVars, fixtureVars, keyVars, routeVars>> /\ LifeFairness
=============================================================================
