---------------------------- MODULE AdminAccess ----------------------------
(***************************************************************************)
(* Who the admin plane serves (internal/auth admin.go, session.go,         *)
(* ticket.go; internal/adminplane admin_router.go, admin_sensitive_routes, *)
(* login.go, host_allowlist.go, page_panels.go): the gates a request goes  *)
(* through, and the session and ticket tables they share.                  *)
(*                                                                         *)
(* Each use of a table is a step of its own.  Validate reads the clock     *)
(* before it takes the lock, so its reading may be old when it is used.    *)
(***************************************************************************)
EXTENDS Integers, FiniteSets, FiniteSetsExt, Sequences

CONSTANTS
    Callers,        \* concurrent requests
    Scenarios,      \* bounds: how many requests come, and what they look like
    PlaneConfigs,   \* configurations of the plane
    MaxSessions,    \* maxSessions
    SessionIdle,    \* idle lifetime of a session
    SessionAbs,     \* absolute lifetime
    TicketTTL,      \* lifetime of a ticket
    MaxClock,       \* bound: ticks of the clock
    MaxIssued       \* bound: sessions and tickets issued

ASSUME AccessConstants ==
    /\ {MaxSessions, SessionIdle, SessionAbs, TicketTTL, MaxClock, MaxIssued} \subseteq Nat
    /\ MaxSessions > 0

VARIABLES
    planeCfg,     \* the configuration
    clock,        \* the clock
    sessions,     \* session table: id -> issue time and deadlines
    tickets,      \* ticket table: id -> expiry
    issued,       \* sessions and tickets issued so far, which number them
    call,         \* caller -> its request and how far it is
    uses,         \* session -> clock readings of its issue and its uses
    spent,        \* tickets redeemed, one entry for each redemption
    served,       \* requests served: route, path of admission
    arrivals      \* requests that may still come, and their shapes

accessVars == <<planeCfg, clock, sessions, tickets, issued, call, uses, spent, served, arrivals>>

Idle == [at |-> "idle"]

InitAccess ==
    /\ planeCfg \in PlaneConfigs /\ clock = 0
    /\ sessions = [i \in {} |-> 0] /\ tickets = [i \in {} |-> 0] /\ issued = [session |-> 0, ticket |-> 0]
    /\ call = [c \in Callers |-> Idle] /\ uses = [i \in 1..MaxIssued |-> {}]
    /\ spent = <<>> /\ served = {} /\ arrivals \in Scenarios

Tick ==
    /\ clock < MaxClock /\ clock' = clock + 1
    /\ UNCHANGED <<planeCfg, sessions, tickets, issued, call, uses, spent, served, arrivals>>

-----------------------------------------------------------------------------
\* The tables.

sessionExpired(s, now) == now >= s.idle \/ now >= s.abs

Without(f, gone) == [i \in DOMAIN f \ gone |-> f[i]]

purgeSessions(now) == Without(sessions, {i \in DOMAIN sessions : sessionExpired(sessions[i], now)})

\* evictOldestLocked until there is room.  Sessions of one instant are left
\* in any order.
evictOldestLocked(table) ==
    IF Cardinality(DOMAIN table) < MaxSessions THEN {table}
    ELSE {Without(table, {i}) : i \in {i \in DOMAIN table : \A j \in DOMAIN table : table[i].at <= table[j].at}}

\* A session's deadlines.  Mutant: the absolute one never comes.
DeadlinesIdleOnly(now) == [at |-> now, idle |-> now + SessionIdle, abs |-> now + SessionIdle + SessionAbs + MaxClock]

Deadlines(now) == [at |-> now, idle |-> now + SessionIdle, abs |-> now + SessionAbs]

\* Issue of a session.
IssueSession(now, table) ==
    LET id == issued.session + 1 IN
    /\ id <= MaxIssued
    /\ issued' = [issued EXCEPT !.session = id]
    /\ sessions' = [i \in DOMAIN table \cup {id} |-> IF i = id THEN Deadlines(now) ELSE table[i]]
    /\ uses' = [uses EXCEPT ![id] = {now}]

\* What Validate leaves of a session: its idle deadline slides, up to the
\* absolute one.
Slide(s, now) == [s EXCEPT !.idle = Min({now + SessionIdle, s.abs})]

Validate(id, now) ==
    LET table == purgeSessions(now) IN
    /\ sessions' = IF id \in DOMAIN table THEN [table EXCEPT ![id] = Slide(@, now)] ELSE table
    /\ uses' = IF id \in DOMAIN table THEN [uses EXCEPT ![id] = @ \cup {now}] ELSE uses

purgeTickets == Without(tickets, {i \in DOMAIN tickets : clock > tickets[i]})

IssueTicket ==
    LET id == issued.ticket + 1 IN
    /\ id <= MaxIssued
    /\ issued' = [issued EXCEPT !.ticket = id]
    /\ tickets' = [i \in DOMAIN purgeTickets \cup {id} |-> IF i = id THEN clock + TicketTTL ELSE tickets[i]]

Redeemable(id) == id \in DOMAIN tickets /\ clock < tickets[id]

RedeemKeeps(id) ==
    /\ UNCHANGED tickets
    /\ spent' = IF Redeemable(id) THEN Append(spent, id) ELSE spent

\* Redeem: a ticket is good once, before it expires.
Redeem(id) ==
    /\ tickets' = IF Redeemable(id) THEN Without(tickets, {id}) ELSE tickets
    /\ spent' = IF Redeemable(id) THEN Append(spent, id) ELSE spent

-----------------------------------------------------------------------------
\* What a request looks like to the gates.

\* The host the request names is one of the plane's own or of the extras.
HostAllowed(shape) == shape.host

\* A read, or a write from this origin or from a trusted one.
CrossOriginCheck(shape) == shape.sameSite \/ shape.route \in {"read", "device data", "page read", "stream"}

isLoopbackRemote(shape) == shape.near
hasForwardedHeader(shape) == shape.forwarded
Bypasses(shape) == planeCfg.bypass /\ isLoopbackRemote(shape) /\ ~ hasForwardedHeader(shape)

\* A certificate with the admin policy, and a right key, need no table.
CertAdmits(shape) == shape.cert = "admin"
bearerToken(shape) == shape.bearer = "key"
TablePath(shape) == IF CertAdmits(shape) THEN "mtls" ELSE IF bearerToken(shape) THEN "bearer" ELSE "none"

\* Routes the plane has under its configuration: no write when it is read
\* only, no control unless controls are on, no action unless actions are.
Mounted(route) ==
    /\ route \in {"write", "add device", "control"} => ~ planeCfg.readOnly
    /\ route = "control" => planeCfg.controls
    /\ route = "action" => planeCfg.actions

\* requireCredentialForSensitiveRoutes: pages, the sensitive patterns and
\* reads, and every write that is mounted but the one that adds a device.
\* Mutant: pages are judged by their method, as other routes are.
SensitiveUnlessPageRead(route) ==
    \/ route \in {"page write", "device data", "stream"}
    \/ route \in {"write", "control", "action", "ticket"} /\ Mounted(route)

Sensitive(route) ==
    \/ route \in {"page read", "page write", "device data", "stream"}
    \/ route \in {"write", "control", "action", "ticket"} /\ Mounted(route)

\* The declared media type of the body is one the route takes.
declaresMediaType(shape) == shape.typed \/ shape.route \in {"read", "device data", "page read", "page write", "ticket", "stream"}

\* RequireNonTicketAdmission, page writes, panel actions and streams: not
\* with a ticket.  Mutant: only the first of them.
RefusesTicketToMint(route) == route = "ticket"

RefusesTicket(route) == route \in {"ticket", "page write", "action", "stream"}

-----------------------------------------------------------------------------
\* A request's steps.

\* wantsLoginPage is left out: a refusal is a refusal.
Refused(c) == call' = [call EXCEPT ![c] = Idle]

\* It arrives, with the cookie and the ticket it has, and goes through the
\* host and origin gates to the bypass or to its credentials.
Arrive(c, shape, cookie, ticket) ==
    /\ call[c] = Idle /\ arrivals.calls > 0 /\ arrivals' = [arrivals EXCEPT !.calls = @ - 1]
    /\ cookie \in 0..issued.session /\ ticket \in 0..issued.ticket
    /\ IF ~ (HostAllowed(shape) /\ CrossOriginCheck(shape)) THEN Refused(c)
       ELSE call' = [call EXCEPT ![c] =
                [at |-> IF Bypasses(shape) THEN "guard" ELSE "clock", shape |-> shape, cookie |-> cookie,
                 ticket |-> ticket, via |-> IF Bypasses(shape) THEN "bypass" ELSE TablePath(shape), read |-> 0]]
    /\ UNCHANGED <<planeCfg, clock, sessions, tickets, issued, uses, spent, served>>

\* Validate reads the clock.
ClockRead(c) ==
    /\ call[c].at = "clock"
    /\ call' = [call EXCEPT ![c].read = clock,
                ![c].at = IF call[c].via = "none" /\ call[c].cookie > 0 THEN "validate" ELSE "redeem"]
    /\ UNCHANGED <<planeCfg, clock, sessions, tickets, issued, uses, spent, served, arrivals>>

ValidateCookie(c) ==
    /\ call[c].at = "validate"
    /\ LET now == call[c].read
           id == call[c].cookie IN
       /\ call' = [call EXCEPT ![c].at = "redeem",
                               ![c].via = IF id \in DOMAIN purgeSessions(now) THEN "cookie" ELSE @]
       /\ Validate(id, now)
    /\ UNCHANGED <<planeCfg, clock, tickets, issued, spent, served, arrivals>>

\* The ticket: the last credential tried, and spent also by a request that
\* another one admits.
RedeemPresented(c) ==
    /\ call[c].at = "redeem"
    /\ LET id == call[c].ticket
           via == IF call[c].via = "none" /\ Redeemable(id) THEN "ticket" ELSE call[c].via
       IN IF via = "none" THEN Refused(c)
          ELSE call' = [call EXCEPT ![c].at = "guard", ![c].via = via]
    /\ Redeem(call[c].ticket)
    /\ UNCHANGED <<planeCfg, clock, sessions, issued, uses, served, arrivals>>

\* RequireRealCredential: a request the bypass admitted starts again with
\* its credentials.
RequireRealCredential(c) ==
    /\ call[c].at = "guard"
    /\ call' = [call EXCEPT ![c] = IF Sensitive(call[c].shape.route) /\ call[c].via = "bypass"
                                   THEN [@ EXCEPT !.at = "clock", !.via = TablePath(call[c].shape)]
                                   ELSE [@ EXCEPT !.at = "route"]]
    /\ UNCHANGED <<planeCfg, clock, sessions, tickets, issued, uses, spent, served, arrivals>>

\* The body type, the route table, the ticket rule; then the handler.  The
\* one that mints a ticket does it here.
Serve(c) ==
    /\ call[c].at = "route"
    /\ LET route == call[c].shape.route
           ok == declaresMediaType(call[c].shape) /\ Mounted(route)
                 /\ ~ (RefusesTicket(route) /\ call[c].via = "ticket")
                 /\ (route = "stream" => call[c].shape.sameSite)     \* handleStream's own check
       IN IF ok
          THEN /\ served' = served \cup {[route |-> route, via |-> call[c].via]}
               /\ IF route = "ticket" /\ issued.ticket < MaxIssued THEN IssueTicket ELSE UNCHANGED <<tickets, issued>>
          ELSE UNCHANGED <<served, tickets, issued>>
    /\ Refused(c)
    /\ UNCHANGED <<planeCfg, clock, sessions, uses, spent, arrivals>>

\* HandleLoginSubmit with the key: a session, with a clock reading of before
\* the lock.
LoginStarts(c, shape) ==
    /\ call[c] = Idle /\ arrivals.calls > 0 /\ arrivals' = [arrivals EXCEPT !.calls = @ - 1]
    /\ HostAllowed(shape) /\ CrossOriginCheck(shape) /\ planeCfg.key
    /\ call' = [call EXCEPT ![c] = [at |-> "login", read |-> clock]]
    /\ UNCHANGED <<planeCfg, clock, sessions, tickets, issued, uses, spent, served>>

HandleLoginSubmit(c) ==
    /\ call[c].at = "login"
    /\ \E table \in evictOldestLocked(purgeSessions(call[c].read)) : IssueSession(call[c].read, table)
    /\ Refused(c)
    /\ UNCHANGED <<planeCfg, clock, tickets, spent, served, arrivals>>

AccessNext ==
    \/ Tick
    \/ \E c \in Callers, shape \in arrivals.shapes, cookie, ticket \in 0..MaxIssued : Arrive(c, shape, cookie, ticket)
    \/ \E c \in Callers, shape \in arrivals.shapes : LoginStarts(c, shape)
    \/ \E c \in Callers :
          \/ ClockRead(c) \/ ValidateCookie(c) \/ RedeemPresented(c) \/ RequireRealCredential(c)
          \/ Serve(c) \/ HandleLoginSubmit(c)

-----------------------------------------------------------------------------
\* A session ends: the table stays within its cap, every use of a session
\* comes less than the idle lifetime after another use of it or its issue,
\* and before its absolute end, whatever old clock readings meet in the lock.
SessionsEnd ==
    /\ Cardinality(DOMAIN sessions) <= MaxSessions
    /\ \A i \in 1..MaxIssued : \A t \in uses[i] :
          /\ t - Min(uses[i]) < SessionAbs
          /\ \A u \in uses[i] : (u < t /\ \A v \in uses[i] : v <= u \/ v >= t) => t - u < SessionIdle

\* A ticket is spent at most once, by whichever request is first, and no
\* ticket buys a ticket, a stream, or a change through a page or an action.
TicketsSpentOnce ==
    /\ \A i, j \in DOMAIN spent : spent[i] = spent[j] => i = j
    /\ \A s \in served : s.via = "ticket" => ~ (s.route \in {"ticket", "page write", "action", "stream"})

\* What a loopback connection alone may do: read what is not sensitive, and
\* add a device; everything else was served to a credential, and no write is
\* served by a plane that is read only.
LoopbackOnlyReads ==
    \A s \in served :
        /\ s.via # "none"
        /\ s.via = "bypass" => s.route \in {"read", "add device"}
        /\ planeCfg.readOnly => s.route \in {"read", "device data", "page read", "page write", "ticket", "action", "stream"}

\* What a session, a ticket and a loopback connection are good for is bounded,
\* whatever requests run at once.
AccessIsBounded == SessionsEnd /\ TicketsSpentOnce /\ LoopbackOnlyReads
=============================================================================
