--------------------------- MODULE ProtocolRouter ---------------------------
(***************************************************************************)
(* A request on the protocol listener, from the top mux to its log line:   *)
(* the access rules, the request observers, the refusal of managed         *)
(* callers, the mux, the ownership gate, the handler and the observers     *)
(* again.  Every read of a store is a step, so that pairs and records      *)
(* change between the checks of one request and between the steps of its   *)
(* handler.                                                                *)
(***************************************************************************)
EXTENDS Naturals, Sequences, SequencesExt, FiniteSets

(***************************************************************************)
(* The protocol listener's route tables: the families the top mux and the  *)
(* access rules are built from, the patterns BuildProtocolRouter mounts    *)
(* for the stores it is given, the EndDevice links its store decorators    *)
(* write, and the hrefs the handlers can put on the wire with the probe    *)
(* that checks them.  A path is a sequence of segments, Wild a wildcard.    *)
(***************************************************************************)

Wild == "{}"

\* The one value a probe puts in place of a wildcard.
hrefProbeSegment == "probe"

read == {"GET", "HEAD"}
readPost == read \cup {"POST"}
readWrite == readPost \cup {"PUT", "DELETE"}

Family(prefix, subtree, methods, unauthenticated) ==
    [prefix |-> <<prefix>>, subtree |-> subtree, methods |-> methods,
     open |-> unauthenticated]

\* routefamily.All
All == {Family("dcap", FALSE, read, TRUE),   Family("tm", FALSE, read, TRUE),
        Family("sdev", TRUE, read, FALSE),   Family("edev", TRUE, readWrite, FALSE),
        Family("mup", TRUE, readWrite, FALSE), Family("dc", TRUE, read, FALSE),
        Family("upt", TRUE, readPost, FALSE), Family("rt", TRUE, read, FALSE),
        Family("msg", TRUE, readPost, FALSE), Family("rsps", TRUE, readPost, FALSE)}

\* A path the top mux hands to the protocol chain: a family's own path, or
\* one below it when the family is a subtree.
Mounted(path) ==
    \E f \in All : path = f.prefix \/ (f.subtree /\ IsPrefix(f.prefix, path))

-----------------------------------------------------------------------------
(* The access rules *)

AuthNone == "none"
AuthDeviceCert == "cert"

\* DefaultACLRules: a rule for each family; an open one needs no certificate.
DefaultACLRules ==
    {[prefix |-> f.prefix, methods |-> f.methods,
      auth |-> {AuthDeviceCert} \cup (IF f.open THEN {AuthNone} ELSE {})] : f \in All}

underPrefix(path, prefix) == IsPrefix(prefix, path)

\* matchRule: the longest prefix wins; NoRule when none covers the path.
NoRule == [prefix |-> <<>>, methods |-> {}, auth |-> {}]

matchRule(path) ==
    LET over == {r \in DefaultACLRules : underPrefix(path, r.prefix)}
    IN IF over = {} THEN NoRule
       ELSE CHOOSE r \in over : \A o \in over : Len(o.prefix) <= Len(r.prefix)

\* ACLMiddleware: refused, method refused, or passed on.
ACLMiddleware(method, path, auth) ==
    LET r == matchRule(path)
    IN IF r = NoRule THEN "403"
       ELSE IF method \notin r.methods THEN "405"
       ELSE IF auth \notin r.auth THEN "403"
       ELSE "pass"

-----------------------------------------------------------------------------
(* The patterns, by the function that mounts them.  A store in needs that  *)
(* is not wired is replaced by one that fails (miswired.go): the route is  *)
(* mounted and answers 500.                                                *)

R(ms, path, needs) ==
    {[method |-> m, path |-> path, needs |-> needs] : m \in ms}

\* Stores: the fields a consumer may leave unwired.
AllStores ==
    {"EndDevices", "EndDeviceManagers", "Registrations", "FSAs", "Subscriptions", "MirrorUsagePoints",
     "MirrorMeterReadings", "DERs", "DERCapabilities", "DERSettings", "DERStatuses", "DERAvailabilities",
     "DERPrograms", "DERControls", "DefaultDERControls", "DERCurves", "UsagePoints", "MeterReadings", "Readings",
     "ReadingTypes", "Configurations", "DeviceStatuses", "LogEvents", "PowerStatuses", "MessagingPrograms",
     "TextMessages", "FlowReservationRequests", "FlowReservationResponses", "ResponseSets", "Responses"}

\* The routes that are mounted when one store is wired.
When(store, w, routes) == IF store \in w THEN routes ELSE {}

E(rest) == <<"edev", Wild>> \o rest
GetPut == {"GET", "PUT"}

FixedRoutes == R({"GET"}, <<"dcap">>, {}) \cup R({"GET"}, <<"tm">>, {})
               \cup R({"GET"}, <<"sdev">>, {}) \cup R({"GET"}, <<"sdev", "sdi">>, {})

registerEndDeviceRoutes(w) ==
    R({"GET", "POST"}, <<"edev">>, {"EndDevices"})
    \cup R({"GET", "PUT", "DELETE"}, E(<<>>), {"EndDevices"})
    \cup When("Registrations", w, R({"GET"}, E(<<"rg">>), {"EndDevices"}))
    \cup When("FSAs", w, R({"GET"}, E(<<"fsa">>), {}) \cup R({"GET"}, E(<<"fsa", Wild>>), {}))
    \cup When("Subscriptions", w,
              R({"GET", "POST"}, E(<<"sub">>), {}) \cup R({"DELETE"}, E(<<"sub", Wild>>), {}))

registerMirrorRoutes(w) ==
    IF "MirrorUsagePoints" \notin w THEN {}
    ELSE R({"GET", "POST"}, <<"mup">>, {})
         \cup R(GetPut, <<"mup", Wild>>, {})
         \cup R({"POST", "DELETE"}, <<"mup", Wild>>, {"MirrorMeterReadings"})
         \cup R({"POST"}, <<"mup", Wild, "mr">>, {"MirrorMeterReadings"})

registerDERRoutes(w) ==
    LET derp == E(<<"fsa", Wild, "derp">>)
        one == Append(derp, Wild)
    IN IF "DERs" \notin w THEN {}
       ELSE R({"GET"}, E(<<"der">>), {}) \cup R(GetPut, E(<<"der", Wild>>), {})
            \cup R(GetPut, E(<<"der", Wild, "dercap">>), {"DERCapabilities"})
            \cup R(GetPut, E(<<"der", Wild, "derg">>), {"DERSettings"})
            \cup R(GetPut, E(<<"der", Wild, "ders">>), {"DERStatuses"})
            \cup R(GetPut, E(<<"der", Wild, "dera">>), {"DERAvailabilities"})
            \cup R({"GET"}, derp, {"DERPrograms", "DERControls"})
            \cup R({"GET"}, one, {"DERPrograms", "DERControls"})
            \cup R({"GET"}, one \o <<"derc">>, {"DERControls"})
            \cup R({"GET"}, one \o <<"derc", Wild>>, {"DERControls"})
            \cup R({"GET"}, one \o <<"dderc">>, {"DefaultDERControls"})
            \cup R({"GET"}, <<"dc">>, {"DERCurves"})

registerMeteringRoutes(w) ==
    IF "UsagePoints" \notin w THEN {}
    ELSE R({"GET", "POST"}, <<"upt">>, {}) \cup R({"GET"}, <<"upt", Wild>>, {})
         \cup R({"GET"}, <<"upt", Wild, "mr">>, {"MeterReadings"})
         \cup R({"GET"}, <<"upt", Wild, "mr", Wild, "r">>, {"Readings"})
         \cup R({"GET"}, <<"rt">>, {"ReadingTypes"})
         \cup R({"GET"}, <<"rt", Wild>>, {"ReadingTypes"})

\* DeviceStatus mounted only where there is no Configuration.
StatusRoutesEither(w) ==
    IF "Configurations" \in w THEN R(GetPut, E(<<"cfg">>), {}) ELSE R(GetPut, E(<<"dstat">>), {})

\* registerNewFunctionSetRoutes, family by family.
StatusRoutes(w) ==
    When("Configurations", w, R(GetPut, E(<<"cfg">>), {}))
    \cup When("DeviceStatuses", w, R(GetPut, E(<<"dstat">>), {}))

LogEventRoutes(w) ==
    IF "LogEvents" \notin w THEN {}
    ELSE R({"GET", "POST"}, E(<<"lel">>), {}) \cup R({"GET", "DELETE"}, E(<<"lel", Wild>>), {})

PowerStatusRoutes(w) ==
    When("PowerStatuses", w, R(GetPut, E(<<"ps">>), {}))

MessagingRoutes(w) ==
    IF "MessagingPrograms" \notin w THEN {}
    ELSE R({"GET"}, <<"msg">>, {}) \cup R({"GET"}, <<"msg", Wild>>, {})
         \cup R({"GET", "POST"}, <<"msg", Wild, "tm">>, {"TextMessages"})
         \cup R({"GET"}, <<"msg", Wild, "tm", Wild>>, {"TextMessages"})

FlowReservationRoutes(w) ==
    IF "FlowReservationRequests" \notin w THEN {}
    ELSE R({"GET", "POST"}, E(<<"frq">>), {}) \cup R(GetPut, E(<<"frq", Wild>>), {})
         \cup R({"GET"}, E(<<"frp">>), {"FlowReservationResponses"})
         \cup R({"GET"}, E(<<"frp", Wild>>), {"FlowReservationResponses"})

ResponseRoutes(w) ==
    IF "ResponseSets" \notin w THEN {}
    ELSE R({"GET"}, <<"rsps">>, {}) \cup R({"GET"}, <<"rsps", Wild>>, {})
         \cup R({"GET", "POST"}, <<"rsps", Wild, "rsp">>, {"Responses"})
         \cup R({"GET"}, <<"rsps", Wild, "rsp", Wild>>, {"Responses"})

\* registerGatedRoutes
GatedRoutes(w) ==
    registerEndDeviceRoutes(w) \cup registerMirrorRoutes(w) \cup registerDERRoutes(w)
    \cup registerMeteringRoutes(w) \cup StatusRoutes(w) \cup LogEventRoutes(w)
    \cup PowerStatusRoutes(w) \cup MessagingRoutes(w) \cup FlowReservationRoutes(w)
    \cup ResponseRoutes(w)

\* The whole protocol mux; an empty wiring stands for no Stores at all.
Patterns(w) == FixedRoutes \cup (IF w = {} THEN {} ELSE GatedRoutes(w))

-----------------------------------------------------------------------------
(* Matching *)

Covers(shape, path) ==
    /\ Len(shape) = Len(path)
    /\ \A i \in 1..Len(shape) : shape[i] \in {Wild, path[i]}

\* A GET pattern answers HEAD too.
Takes(route, method) ==
    method = route.method \/ (method = "HEAD" /\ route.method = "GET")

\* What the mux does: the route found, or 404, or 405.
Match(routes, method, path) ==
    LET at == {r \in routes : Covers(r.path, path)}
        on == {r \in at : Takes(r, method)}
    IN CASE at = {} -> [found |-> "404"]
         [] at # {} /\ on = {} -> [found |-> "405"]
         [] OTHER -> [found |-> "route", route |-> CHOOSE r \in on : TRUE]

-----------------------------------------------------------------------------
(* The ownership gate's view of a pattern *)

ownershipExempt == {<<"POST", <<"edev">>>>, <<"GET", <<"edev">>>>}

requiresOwnership(r) ==
    /\ <<r.method, r.path>> \notin ownershipExempt
    /\ r.path[1] = "edev"

writeAllowlist ==
    {<<"PUT", E(<<"der", Wild, s>>)>> : s \in {"dercap", "derg", "ders", "dera"}}
    \cup {<<"POST", E(<<"lel">>)>>, <<"DELETE", E(<<>>)>>}

\* A manager may write whatever it may read.
delegableWrites(r) ==
    /\ Len(r.path) >= 2 /\ r.path[1] = "edev" /\ r.path[2] = Wild
    /\ Len(r.path) = 2 \/ r.path[3] \notin {"rg", Wild}

\* delegable: the writes of the list, the record, and the reads below it
\* except the Registration.
delegable(r) ==
    /\ Len(r.path) >= 2 /\ r.path[1] = "edev" /\ r.path[2] = Wild
    /\ IF r.method # "GET" THEN <<r.method, r.path>> \in writeAllowlist
       ELSE Len(r.path) = 2 \/ r.path[3] \notin {"rg", Wild}

-----------------------------------------------------------------------------
(* The hrefs the handlers mint, and the probe that checks them *)

Href(ms, path) == {<<m, path>> : m \in ms}

MintableHrefs ==
    Href({"GET"}, <<"dcap">>) \cup Href({"GET"}, <<"tm">>) \cup Href({"GET"}, <<"sdev">>)
    \cup Href({"GET"}, <<"sdev", "sdi">>) \cup Href({"GET"}, <<"edev">>)
    \cup Href({"GET"}, <<"mup">>) \cup Href({"GET"}, <<"upt">>) \cup Href({"GET"}, <<"dc">>)
    \cup Href({"GET"}, <<"msg">>) \cup Href({"GET"}, <<"rsps">>) \cup Href({"GET"}, <<"rt">>)
    \cup UNION {Href({"GET"}, E(s)) :
                  s \in {<<>>, <<"rg">>, <<"fsa">>, <<"fsa", Wild>>, <<"fsa", Wild, "derp">>,
                         <<"fsa", Wild, "derp", Wild>>, <<"fsa", Wild, "derp", Wild, "dderc">>,
                         <<"frq">>, <<"frp">>, <<"cfg">>, <<"dstat">>, <<"ps">>,
                         <<"der", Wild, "dercap">>, <<"der", Wild, "derg">>,
                         <<"der", Wild, "ders">>, <<"der", Wild, "dera">>,
                         <<"frq", Wild>>, <<"frp", Wild>>}}
    \cup Href({"GET", "POST"}, E(<<"lel">>)) \cup Href({"GET", "DELETE"}, E(<<"lel", Wild>>))
    \cup Href(GetPut, E(<<"der", Wild>>)) \cup Href({"GET", "DELETE"}, E(<<"sub", Wild>>))
    \cup Href({"GET"}, <<"msg", Wild, "tm", Wild>>) \cup Href({"GET"}, <<"rsps", Wild>>)
    \cup Href({"GET"}, <<"rsps", Wild, "rsp", Wild>>)
    \cup Href({"GET", "POST"}, <<"rsps", Wild, "rsp">>)
    \cup Href({"GET", "POST", "PUT", "DELETE"}, <<"mup", Wild>>)
    \cup Href({"GET"}, <<"mup", Wild, "mr", Wild>>) \cup Href({"GET"}, <<"upt", Wild>>)
    \cup Href({"GET"}, <<"upt", Wild, "mr">>)

knownUnroutedHrefs ==
    Href({"GET"}, E(<<"sub", Wild>>)) \cup Href({"GET"}, <<"mup", Wild, "mr", Wild>>)

probePath(shape) ==
    [i \in 1..Len(shape) |-> IF shape[i] = Wild THEN hrefProbeSegment ELSE shape[i]]

\* buildProbeRouter and checkHrefsAgainst: the patterns under the same
\* mounts, without the access rules or the gate.
CheckMintableHrefs(w) ==
    {h \in MintableHrefs :
       \/ ~Mounted(probePath(h[2]))
       \/ Match(Patterns(w), h[1], probePath(h[2])).found # "route"}

-----------------------------------------------------------------------------
(* The EndDevice links: what each decorator of ownedEndDevices, in its     *)
(* order, leaves on a record that was stored with the links in had.        *)

FRLinks == {E(<<"frq">>), E(<<"frp">>)}

registrationBoundEndDevices(w, links) ==
    IF {"EndDevices", "Registrations"} \subseteq w THEN links \cup {E(<<"rg">>)} ELSE links

logEventLinkedEndDevices(w, links) ==
    IF {"EndDevices", "LogEvents"} \subseteq w THEN links \cup {E(<<"lel">>)} ELSE links

\* The link is there when the device has a DER.
derLinkedEndDevices(w, links) ==
    IF {"EndDevices", "DERs"} \subseteq w THEN links \cup {E(<<"der">>)} ELSE links

\* Without the requests the links are taken off, not left as stored.
flowReservationLinkedEndDevices(w, links) ==
    CASE "EndDevices" \notin w -> links
      [] "FlowReservationRequests" \notin w -> links \ FRLinks
      [] OTHER -> links \cup FRLinks

ownedEndDevices(w, had) ==
    flowReservationLinkedEndDevices(w,
      derLinkedEndDevices(w, logEventLinkedEndDevices(w,
        registrationBoundEndDevices(w, had))))
-----------------------------------------------------------------------------

CONSTANTS Devices,      \* device identities; a device's record has its name as key
          Managers,     \* identities that manage devices
          Calls,        \* requests in flight at once
          Wirings,      \* sets of store names a server is assembled with
          RouteBudgets  \* bounds: what is asked, and how many requests, pair
                        \* and record changes, faults and panics

Anonymous == "anonymous"
Unmanaged == "unmanaged"
NoItem == "no item"

VARIABLES wired,      \* the stores this server was assembled with
          onRecord,    \* devices with a record
          pairedTo,   \* device -> its manager, or Unmanaged
          derItem,    \* device -> its DER instance: who wrote it, or NoItem
          responses,  \* the Responses stored: named device and sender
          seenBy,     \* the activity recorder: identities seen
          call,       \* the requests in flight
          done,       \* the request that ended last
          routeLeft

routeVars == <<wired, onRecord, pairedTo, derItem, responses, seenBy, call, done, routeLeft>>

\* rights: what the checks found the caller to be; listed: the devices a
\* list answer names; lines: the log lines written, as kind and status.
NoCall == [pc |-> "idle", who |-> Anonymous, ask |-> <<>>, dev |-> Unmanaged,
           status |-> "none", reason |-> "", rights |-> {}, listed |-> {},
           lines |-> <<>>, known |-> FALSE]

InitRouter ==
    /\ wired \in Wirings
    /\ onRecord \in SUBSET Devices
    /\ pairedTo \in [Devices -> Managers \cup {Unmanaged}]
    /\ derItem = [d \in Devices |-> NoItem]
    /\ responses = {}
    /\ seenBy = {}
    /\ call = [q \in Calls |-> NoCall]
    /\ done = NoCall
    /\ routeLeft \in RouteBudgets

SpendRoute(what) ==
    /\ routeLeft[what] > 0
    /\ routeLeft' = [routeLeft EXCEPT ![what] = @ - 1]

Tried(ok) == IF ok THEN UNCHANGED routeLeft ELSE SpendRoute("fault")

\* The path asked for: the device's key below /edev, any key elsewhere.
PathOf(shape, d) ==
    [i \in 1..Len(shape) |->
       IF shape[i] # Wild THEN shape[i]
       ELSE IF i = 2 /\ shape[1] = "edev" THEN d ELSE hrefProbeSegment]

Path(c) == PathOf(c.ask[2], c.dev)

\* The mux and the probe's report of each server.
MuxOf == [w \in Wirings |-> Patterns(w)]
UnroutedOf == [w \in Wirings |-> CheckMintableHrefs(w)]

\* AssertMintableHrefs: the boot stops on an href that is not a known gap.
AssertMintableHrefs(w) == UnroutedOf[w] \subseteq knownUnroutedHrefs

Routed(c) == Match(MuxOf[wired], c.ask[1], Path(c))

ManagerOf(l) == IF l \in Devices THEN pairedTo[l] ELSE Unmanaged

\* End the request with a status that was never observed.
Unobserved(q, c, status) ==
    /\ call' = [call EXCEPT ![q] = NoCall]
    /\ done' = [c EXCEPT !.status = status]

Goto(q, pc) == call' = [call EXCEPT ![q].pc = pc]

\* The status is set and the observers run next.
Answer(q, status) == call' = [call EXCEPT ![q].pc = "finish", ![q].status = status]

-----------------------------------------------------------------------------
(* The chain in front of the mux *)

\* BuildProtocolRouter's top mux, ACLMiddleware, then requestObservers.wrap:
\* a request without an identity passes through unobserved.
Arrive(q, who, ask, d) ==
    LET c == [NoCall EXCEPT !.who = who, !.ask = ask, !.dev = d,
                            !.known = who # Anonymous, !.pc = "exclusive"]
        path == PathOf(ask[2], d)
        acl == ACLMiddleware(ask[1], path, IF who = Anonymous THEN AuthNone ELSE AuthDeviceCert)
    IN /\ call[q].pc = "idle"
       /\ SpendRoute("ask")
       /\ IF ~Mounted(path) \/ acl # "pass"
          THEN Unobserved(q, c, IF ~Mounted(path) THEN "403" ELSE acl) /\ UNCHANGED seenBy
          ELSE /\ call' = [call EXCEPT ![q] = c]
               /\ seenBy' = IF c.known THEN seenBy \cup {who} ELSE seenBy
               /\ UNCHANGED done
       /\ UNCHANGED <<wired, onRecord, pairedTo, derItem, responses>>

\* The gate's refusal is noted for the log line.
refuse(q, reason) ==
    call' = [call EXCEPT ![q].pc = "finish", ![q].status = "403", ![q].reason = reason]

\* recordingMux.ServeHTTP, and ownershipGate.HandleFunc's choice of wrapper.
ServeHTTP(q) ==
    LET m == Routed(call[q])
    IN IF m.found # "route" THEN Answer(q, m.found)
       ELSE Goto(q, IF requiresOwnership(m.route) THEN "gate" ELSE "handle")

\* ownershipGate.exclusive: a managed caller is refused on every path, and a
\* pair that cannot be read fails the request.
exclusive(q) ==
    LET c == call[q]
        checked == "EndDeviceManagers" \in wired /\ c.known /\ wired # {}
    IN /\ c.pc = "exclusive"
       /\ \E ok \in BOOLEAN :
            /\ checked \/ ok
            /\ Tried(ok)
            /\ CASE ~ok -> Answer(q, "500")
                 [] ok /\ checked /\ ManagerOf(c.who) # Unmanaged -> refuse(q, "managed-direct")
                 [] OTHER -> ServeHTTP(q)
       /\ UNCHANGED <<wired, onRecord, pairedTo, derItem, responses, seenBy, done>>

\* What the caller is to the record it asks for.
Rights(c) ==
    (IF c.dev = c.who THEN {"own"} ELSE {})
    \cup (IF ManagerOf(c.dev) = c.who THEN {"manage"} ELSE {})

\* ownershipGate.wrap and decideFor to the read of the EndDevice: absent,
\* failed, refused, allowed for the device itself, or its manager to be read.
wrap(q) ==
    LET c == call[q]
        delegated == delegable(Routed(c).route)
        readable == "EndDevices" \in wired
    IN /\ c.pc = "gate"
       /\ \E ok \in BOOLEAN :
            /\ (c.known /\ readable) \/ ok
            /\ Tried(ok)
            /\ CASE ~c.known -> refuse(q, "no-identity")
                 [] c.known /\ ~(ok /\ readable) -> Answer(q, "500")
                 [] c.known /\ ok /\ readable /\ c.dev \notin onRecord -> Answer(q, "404")
                 [] c.known /\ ok /\ readable /\ c.dev \in onRecord ->
                      IF c.dev = c.who
                      THEN call' = [call EXCEPT ![q].pc = "handle", ![q].rights = {"own"}]
                      ELSE IF delegated /\ "EndDeviceManagers" \in wired THEN Goto(q, "manager")
                      ELSE refuse(q, "not-owner")
       /\ UNCHANGED <<wired, onRecord, pairedTo, derItem, responses, seenBy, done>>

\* CurrentManagerOwns: the second read of decideFor.
decideManager(q) ==
    LET c == call[q]
    IN /\ c.pc = "manager"
       /\ \E ok \in BOOLEAN :
            /\ Tried(ok)
            /\ IF ~ok THEN Answer(q, "500")
               ELSE IF ManagerOf(c.dev) = c.who
               THEN call' = [call EXCEPT ![q].pc = "handle", ![q].rights = {"manage"}]
               ELSE refuse(q, "not-owner-or-manager")
       /\ UNCHANGED <<wired, onRecord, pairedTo, derItem, responses, seenBy, done>>

-----------------------------------------------------------------------------
(* The handlers.  The ones with a module of their own answer 200 here.     *)

IsDERInstance(c) == c.ask[2] = E(<<"der", Wild>>)
IsList(c) == c.ask = <<"GET", <<"edev">>>>
IsResponse(c) == c.ask = <<"POST", <<"rsps", Wild, "rsp">>>>

\* scopedResourceHandler on the DER instance: a PUT creates, and when the
\* item is there updates it in a second call to the store.
scopedResourceHandler(q) ==
    LET c == call[q]
    IN \E ok \in BOOLEAN :
         /\ Tried(ok)
         /\ CASE ~ok -> Answer(q, "500") /\ UNCHANGED derItem
              [] ok /\ c.ask[1] = "GET" ->
                   /\ Answer(q, IF derItem[c.dev] = NoItem THEN "404" ELSE "200")
                   /\ UNCHANGED derItem
              [] ok /\ c.ask[1] = "PUT" /\ derItem[c.dev] = NoItem ->
                   /\ derItem' = [derItem EXCEPT ![c.dev] = c.who]
                   /\ Answer(q, "204")
              [] OTHER -> Goto(q, "update") /\ UNCHANGED derItem

scopedUpdate(q) ==
    LET c == call[q]
    IN /\ c.pc = "update"
       /\ \E ok \in BOOLEAN :
            /\ Tried(ok)
            /\ IF ok /\ derItem[c.dev] # NoItem
               THEN derItem' = [derItem EXCEPT ![c.dev] = c.who] /\ Answer(q, "204")
               ELSE UNCHANGED derItem /\ Answer(q, "500")
       /\ UNCHANGED <<wired, onRecord, pairedTo, responses, seenBy, done>>

\* callerDevices: the managed identities are read, then each one's record.
HandleEndDeviceListForCaller(q) ==
    LET c == call[q]
        managed == {d \in Devices : ManagerOf(d) = c.who}
    IN /\ \E ok \in BOOLEAN :
            /\ Tried(ok)
            /\ IF ok THEN call' = [call EXCEPT ![q].pc = "records", ![q].listed =
                                     (({c.who} \cap Devices) \cup
                                      IF "EndDeviceManagers" \in wired THEN managed ELSE {})]
               ELSE Answer(q, "500")

callerDevices(q) ==
    /\ call[q].pc = "records"
    /\ call' = [call EXCEPT ![q].pc = "finish", ![q].status = "200",
                            ![q].listed = @ \cap onRecord]
    /\ UNCHANGED <<wired, onRecord, pairedTo, derItem, responses, seenBy, done, routeLeft>>

\* responseSenderAuthorizer: the sender itself, or one it now manages.
responseSenderAuthorizer(c, named) ==
    c.known /\ (named = c.who \/ ("EndDeviceManagers" \in wired /\ ManagerOf(named) = c.who))

\* HandlePostResponse, to the authorisation; the named device is c.dev.
HandlePostResponse(q) ==
    LET c == call[q]
    IN \E ok \in BOOLEAN :
         /\ Tried(ok)
         /\ CASE ~ok -> Answer(q, "500")
              [] ok /\ ~responseSenderAuthorizer(c, c.dev) -> Answer(q, "403")
              [] OTHER -> call' = [call EXCEPT ![q].pc = "create", ![q].rights = Rights(c)]

createResponse(q) ==
    /\ call[q].pc = "create"
    /\ \E ok \in BOOLEAN :
         /\ Tried(ok)
         /\ IF ok
            THEN /\ responses' = responses \cup {[named |-> call[q].dev, sender |-> call[q].who,
                                                  by |-> call[q].rights]}
                 /\ Answer(q, "201")
            ELSE UNCHANGED responses /\ Answer(q, "500")
    /\ UNCHANGED <<wired, onRecord, pairedTo, derItem, seenBy, done>>

\* A handler that panics: the observers write the line and panic again.
panics(q) ==
    /\ SpendRoute("panic")
    /\ call' = [call EXCEPT ![q].pc = "panic"]
    /\ UNCHANGED derItem

\* A family mounted without a store it reads has one in its place whose
\* every call fails, and the handler answers for it.
requireScoped(route) == route.needs \subseteq wired
miswiredErr == "500"

handle(q) ==
    LET c == call[q]
    IN /\ c.pc = "handle"
       /\ \/ panics(q)
          \/ /\ ~requireScoped(Routed(c).route)
             /\ Answer(q, miswiredErr) /\ UNCHANGED <<derItem, routeLeft>>
          \/ /\ requireScoped(Routed(c).route)
             /\ CASE IsDERInstance(c) -> scopedResourceHandler(q)
                  [] IsList(c) -> HandleEndDeviceListForCaller(q) /\ UNCHANGED derItem
                  [] IsResponse(c) -> HandlePostResponse(q) /\ UNCHANGED derItem
                  [] OTHER -> Answer(q, "200") /\ UNCHANGED <<derItem, routeLeft>>
       /\ UNCHANGED <<wired, onRecord, pairedTo, responses, seenBy, done>>

-----------------------------------------------------------------------------
(* The observers after the handler *)

\* logRequest: a refusal that was noted is a line of its own kind.
logRequest(c, status) ==
    [kind |-> IF c.reason # "" /\ status = "403" THEN "refused" ELSE "request",
     status |-> status]

\* A wrapper without the deferred line.
observeNoPanic(c) ==
    IF c.known /\ c.pc = "finish" THEN <<logRequest(c, c.status)>> ELSE <<>>

\* requestObservers.wrap after the handler returned, or while it panics.
observe(c) ==
    IF ~c.known THEN <<>>
    ELSE <<logRequest(c, IF c.pc = "panic" THEN "500" ELSE c.status)>>

\* bufferContentLength sends what the handler wrote; a panic sends nothing.
finish(q) ==
    LET c == call[q]
    IN /\ c.pc \in {"finish", "panic"}
       /\ done' = [c EXCEPT !.lines = observe(c),
                            !.status = IF c.pc = "panic" THEN "aborted" ELSE @]
       /\ call' = [call EXCEPT ![q] = NoCall]
       /\ UNCHANGED <<wired, onRecord, pairedTo, derItem, responses, seenBy, routeLeft>>

-----------------------------------------------------------------------------
(* What changes meanwhile: the pairs, and a device's registration.         *)

Pair(d, m) ==
    /\ SpendRoute("pair")
    /\ pairedTo[d] # m
    /\ pairedTo' = [pairedTo EXCEPT ![d] = m]
    /\ UNCHANGED <<wired, onRecord, derItem, responses, seenBy, call, done>>

\* A device is deleted with what is below its record, or registered again
\* with the DER the server seeds.
Register(d) ==
    /\ SpendRoute("record")
    /\ IF d \in onRecord
       THEN onRecord' = onRecord \ {d} /\ derItem' = [derItem EXCEPT ![d] = NoItem]
       ELSE /\ onRecord' = onRecord \cup {d}
            /\ derItem' = [derItem EXCEPT ![d] = IF @ = NoItem THEN d ELSE @]
    /\ UNCHANGED <<wired, pairedTo, responses, seenBy, call, done>>

RouterNext ==
    \/ \E q \in Calls :
         \/ \E who \in Devices \cup Managers \cup {Anonymous}, ask \in routeLeft.asked, d \in Devices :
              Arrive(q, who, ask, d)
         \/ exclusive(q) \/ wrap(q) \/ decideManager(q) \/ handle(q) \/ scopedUpdate(q) \/ callerDevices(q)
         \/ createResponse(q) \/ finish(q)
    \/ \E d \in Devices, m \in Managers \cup {Unmanaged} : Pair(d, m)
    \/ \E d \in Devices : Register(d)

-----------------------------------------------------------------------------
(* Properties *)

Ended == done.status # "none"

\* CheckMintableHrefs probes a router without the access rules and without
\* the gate.  Its report is true of the router that serves: an href it
\* passes is never answered 405, nor 403 by the rules, to a device that
\* follows it, and one it reports is never handled.  With every store wired
\* it reports the known gaps and nothing else, so AssertMintableHrefs lets
\* the server boot.
ProbeIsTrue ==
    /\ wired = AllStores => AssertMintableHrefs(wired) /\ knownUnroutedHrefs \subseteq UnroutedOf[wired]
    /\ (Ended /\ done.known /\ done.ask \in MintableHrefs) =>
        IF done.ask \in UnroutedOf[wired]
        THEN done.status \in {"404", "405", "403", "500"}
        ELSE done.lines # <<>> /\ done.status # "405"

\* A device that follows a link of its own record (ownedEndDevices, over a
\* record that a server with other stores may have written) finds a route,
\* whatever stores are wired; the FSA list link is the one written without
\* looking whether its store is.
LinksAreRouted ==
    \A d \in onRecord :
        \A link \in ownedEndDevices(wired, FRLinks) :
            (Ended /\ done.who = d /\ done.dev = d /\ done.ask = <<"GET", link>>
               /\ "EndDevices" \in wired /\ done.known) =>
                /\ done.status # "405"
                /\ (done.status = "404" => Routed(done).found = "route")

\* Every request of a known identity that passed the access rules leaves one
\* line in the device log, with the status it was answered, also when the
\* gate refused it or its handler panicked.
EveryRequestLogged ==
    (Ended /\ done.who \in seenBy /\ done.pc # "exclusive") =>
        /\ Len(done.lines) = 1
        /\ LET line == done.lines[1]
           IN /\ line.status = IF done.status = "aborted" THEN "500" ELSE done.status
              /\ (line.kind = "refused") <=> (done.reason # "")

\* A request below a device's record is handled only for the device itself,
\* or, for reads other than the Registration and for the six delegated
\* writes, for who managed it when the gate looked; a Response is stored
\* only from the device it names or who managed that device when asked.
ServedByRight ==
    /\ \A q \in Calls :
         LET c == call[q] IN
         (c.pc \in {"handle", "update"} /\ Len(c.ask[2]) >= 2 /\ c.ask[2][1] = "edev") =>
            \/ "own" \in c.rights
            \/ /\ "manage" \in c.rights
               /\ \/ c.ask[1] = "GET" /\ c.ask[2] # E(<<"rg">>)
                  \/ c.ask \in {<<"PUT", E(<<"der", Wild, s>>)>> :
                                  s \in {"dercap", "derg", "ders", "dera"}}
                                \cup {<<"POST", E(<<"lel">>)>>, <<"DELETE", E(<<>>)>>}
    /\ \A r \in responses : r.by # {}

\* The router, the probe, the gate and the log agree about one request, also
\* when pairs and records change while it is served.
RoutesAreTrue == ProbeIsTrue /\ LinksAreRouted /\ EveryRequestLogged /\ ServedByRight
=============================================================================
