------------------------------ MODULE MCDevices ------------------------------
(***************************************************************************)
(* Devices for TLC: in each behaviour either the device registry or the    *)
(* subscriptions run; the other rests.  The registry has an aggregator, a  *)
(* device, and a second device whose certificate has the same SFDI as the  *)
(* first.  The fairness is that of the subscription manager.               *)
(***************************************************************************)
EXTENDS DeviceRegistry, Subscriptions, TLC

CONSTANTS agg, dev, twin, d1, d2, r1, r2, w1

VARIABLE acting

Shared == (agg :> 1) @@ (dev :> 2) @@ (twin :> 2)
Prefixes == (agg :> 3) @@ (dev :> 4) @@ (twin :> 4)

\* Request counts: the clients alone, with one admin request, with the form,
\* and the admin plane with little else.
Count(clients, admins, forms, faulty) ==
    [client |-> clients, admin |-> admins, form |-> forms, fault |-> faulty]
Counts == {Count(4, 0, 0, 1), Count(3, 1, 0, 2), Count(2, 0, 1, 1), Count(0, 3, 1, 1)}

\* Subscriptions come and go; their devices do; they are notified; all stops.
Nothing == [k \in {"create", "delete", "deleteDevice", "register", "notify", "pair",
                   "shutdown", "fault", "crash"} |-> 0]
Reuse == [Nothing EXCEPT !.create = 1, !.deleteDevice = 1, !.register = 1, !.fault = 1, !.crash = 1]
FiveBudgets ==
    {[Nothing EXCEPT !.create = 2, !.delete = 2, !.fault = 1, !.crash = 1],
     Reuse,
     [Nothing EXCEPT !.create = 1, !.deleteDevice = 1, !.register = 1, !.notify = 1],
     [Nothing EXCEPT !.create = 2, !.notify = 1, !.pair = 1, !.shutdown = 1],
     [Nothing EXCEPT !.create = 1, !.delete = 1, !.deleteDevice = 1, !.notify = 1, !.shutdown = 1]}

Init ==
    /\ acting \in {"registry", "subscriptions"}
    /\ InitDevices /\ (acting # "registry" => left = Count(4, 0, 0, 1))
    /\ InitSubs /\ (acting # "subscriptions" => subLeft = Reuse)

Next ==
    /\ UNCHANGED acting
    /\ \/ acting = "registry" /\ DevicesNext /\ UNCHANGED subVars
       \/ acting = "subscriptions" /\ SubsNext /\ UNCHANGED deviceVars

SubscriptionsRun(action) == acting = "subscriptions" /\ action /\ UNCHANGED <<acting, deviceVars>>
allVars == <<acting, deviceVars, subVars>>

Spec ==
    /\ Init /\ [][Next]_allVars
    /\ \A p \in Procs : WF_allVars(SubscriptionsRun(Step(p)))
    /\ WF_allVars(SubscriptionsRun(Close))
=============================================================================
