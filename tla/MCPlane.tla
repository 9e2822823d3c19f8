------------------------------- MODULE MCPlane -------------------------------
(***************************************************************************)
(* The admin plane and the HELICS federate beside it, for TLC: in each     *)
(* behaviour one of the federate, the panels' actions, their streams, the  *)
(* device columns and the access checks runs; the others rest.             *)
(***************************************************************************)
EXTENDS Federate, AdminPanels, AdminAccess

CONSTANTS p1, r1, r2, s1, s2, t1, t2, c1, c2

VARIABLE acting

Rest(budgets) == CHOOSE b \in budgets : TRUE

TheFedBudgets == {[setup |-> 3, step |-> 2, take |-> 1, fail |-> 0], [setup |-> 1, step |-> 2, take |-> 1, fail |-> 1]}

NoPanel == [get |-> 0, choices |-> 0, actions |-> 0, action |-> 0, fault |-> 0, refill |-> 0]
ThePanelBudgets == {[NoPanel EXCEPT !.get = 1, !.action = 2, !.fault = 2],
                    [NoPanel EXCEPT !.choices = 1, !.actions = 1, !.action = 1, !.fault = 1, !.refill = 1]}
ThePanelShapes == {
    [id |-> "slug", view |-> TRUE, page |-> FALSE, picker |-> "whole", actions |-> <<"a">>],
    [id |-> "slug", view |-> FALSE, page |-> TRUE, picker |-> "half", actions |-> <<>>],
    [id |-> "core tab", view |-> FALSE, page |-> TRUE, picker |-> "none", actions |-> <<"a", "a">>]}

TheStreamBudgets == {[resend |-> 1, invalid |-> 0, fault |-> 1], [resend |-> 0, invalid |-> 1, fault |-> 1]}

TheColumnLists == {<<<<"a">>>>, <<<<"a">>, <<"bad">>>>}

Remote == [host |-> TRUE, sameSite |-> TRUE, near |-> FALSE, forwarded |-> FALSE, cert |-> "none", bearer |-> "none",
           typed |-> TRUE, route |-> "read"]
Near == [Remote EXCEPT !.near = TRUE]
Keyed == [Remote EXCEPT !.bearer = "key"]
\* Sessions: requests with a cookie, over the whole of a session's life.
\* Tickets: minted with the key, presented to every route that refuses one.
\* Callers: every kind of caller at every route, one request each.
TheScenarios == {
    [calls |-> 4, shapes |-> {[Remote EXCEPT !.route = "device data"]}],
    [calls |-> 3, shapes |-> {[Keyed EXCEPT !.route = "ticket"], [Near EXCEPT !.route = "control"]}
                       \cup {[Remote EXCEPT !.route = r] : r \in {"page read", "page write", "action", "stream", "ticket"}}],
    [calls |-> 1, shapes |-> {[s EXCEPT !.route = r, !.sameSite = b] :
                                s \in {Remote, Near, [Near EXCEPT !.forwarded = TRUE], Keyed, [Near EXCEPT !.host = FALSE],
                                       [Remote EXCEPT !.cert = "admin"], [Near EXCEPT !.typed = FALSE]},
                                r \in {"read", "device data", "page read", "page write", "stream", "write", "add device",
                                       "control", "action", "ticket"},
                                b \in BOOLEAN}]}
ThePlaneConfigs ==
    {[bypass |-> TRUE, key |-> TRUE, readOnly |-> FALSE, controls |-> TRUE, actions |-> TRUE],
     [bypass |-> TRUE, key |-> TRUE, readOnly |-> TRUE, controls |-> TRUE, actions |-> FALSE]}

Init ==
    /\ acting \in {"federate", "panels", "streams", "columns", "access"}
    /\ InitFederate /\ (acting # "federate" => fedLeft = Rest(FedBudgets))
    /\ InitPanels /\ (acting # "panels" => panelLeft = Rest(PanelBudgets))
    /\ InitStreams /\ (acting # "streams" => streamLeft = Rest(StreamBudgets))
    /\ InitColumns
    /\ InitAccess /\ (acting # "access" => planeCfg = Rest(PlaneConfigs) /\ arrivals = Rest(Scenarios))

Next ==
    /\ UNCHANGED acting
    /\ \/ acting = "federate" /\ FederateNext /\ UNCHANGED <<panelVars, streamVars, columnVars, accessVars>>
       \/ acting = "panels" /\ PanelsNext /\ UNCHANGED <<fedVars, streamVars, columnVars, accessVars>>
       \/ acting = "streams" /\ StreamsNext /\ UNCHANGED <<fedVars, panelVars, columnVars, accessVars>>
       \/ acting = "columns" /\ ColumnsNext /\ UNCHANGED <<fedVars, panelVars, streamVars, accessVars>>
       \/ acting = "access" /\ AccessNext /\ UNCHANGED <<fedVars, panelVars, streamVars, columnVars>>

Spec == Init /\ [][Next]_<<acting, fedVars, panelVars, streamVars, columnVars, accessVars>>

Interchangeable == Permutations(Callers) \cup Permutations(Steppers) \cup Permutations(Closers)

\* What the plane says of an action and what became of it agree
\* (ActionsAccounted, see AdminPanels), and a stream neither leaks its slot nor
\* loses an event it does not tell of (StreamsAccounted, see AdminPanels).
PanelsAccounted == ActionsAccounted /\ StreamsAccounted
=============================================================================
