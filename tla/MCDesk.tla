-------------------------------- MODULE MCDesk --------------------------------
(***************************************************************************)
(* The operator's desk for TLC: in each behaviour one of the program       *)
(* copies, the grid requests, the flow reservations and the decisions on   *)
(* one of them runs; the others rest.  A decision is about one fleet and   *)
(* a few seconds, at the end of which an int64 wraps, requests that differ *)
(* in direction and in what they leave out, answers at several             *)
(* multipliers, and targets at two.                                        *)
(***************************************************************************)
EXTENDS ProgramCopies, GridDesk, ReservationDesk, GrantDecision, TLC

CONSTANTS g1, g2, v1, v2, o1, o2

VARIABLE acting

NoCopies == [k \in {"fsa", "template", "assign", "own", "edit", "delete", "fault", "boot", "vacate"} |-> 0]
CopyScenarios == {
    [NoCopies EXCEPT !.fsa = 1, !.template = 1, !.assign = 2, !.edit = 1, !.fault = 2, !.boot = 1],
    [NoCopies EXCEPT !.fsa = 1, !.template = 1, !.assign = 1, !.edit = 2, !.delete = 1, !.fault = 1],
    [NoCopies EXCEPT !.fsa = 1, !.template = 1, !.assign = 1, !.edit = 3],
    [NoCopies EXCEPT !.fsa = 2, !.template = 1, !.assign = 2, !.vacate = 1, !.boot = 1],
    [NoCopies EXCEPT !.fsa = 1, !.assign = 1, !.own = 1, !.edit = 1, !.delete = 1, !.fault = 2],
    [NoCopies EXCEPT !.own = 2, !.delete = 1, !.fault = 2, !.boot = 1]}

NoDeskBudget == [k \in {"batch", "cancel", "move", "direct", "fault", "boot"} |-> 0]
DeskScenarios == {
    [NoDeskBudget EXCEPT !.batch = 2, !.cancel = 1, !.move = 1],
    [NoDeskBudget EXCEPT !.batch = 2, !.direct = 1, !.fault = 1],
    [NoDeskBudget EXCEPT !.batch = 1, !.cancel = 2, !.move = 1, !.fault = 1, !.boot = 1]}

NoResv == [k \in {"answer", "due", "revise", "cancel", "put", "look", "sweep", "fault", "crash", "leave"} |-> 0]
Resv(answer, due, revise, cancel, put, look, sweeps, fault, crash, leave) ==
    [answer |-> answer, due |-> due, revise |-> revise, cancel |-> cancel, put |-> put, look |-> look, sweep |-> sweeps,
     fault |-> fault, crash |-> crash, leave |-> leave]
ResvScenarios == {
    Resv(1, 0, 2, 0, 0, 0, 1, 0, 0, 0), Resv(1, 0, 2, 0, 0, 0, 0, 1, 0, 0), Resv(1, 0, 1, 0, 0, 0, 1, 1, 0, 0), Resv(1, 0, 1, 1, 0, 0, 1, 0, 0, 0), Resv(0, 1, 0, 0, 1, 0, 1, 1, 1, 0),
    Resv(1, 0, 1, 0, 0, 0, 2, 0, 1, 0), Resv(1, 0, 1, 0, 1, 0, 0, 1, 0, 0), Resv(1, 0, 1, 1, 0, 0, 0, 0, 0, 1),
    Resv(1, 0, 0, 0, 0, 0, 1, 1, 0, 1), Resv(1, 0, 1, 1, 0, 0, 0, 1, 0, 0),
    \* builds that overlap
    Resv(2, 1, 0, 0, 0, 0, 0, 1, 0, 0), Resv(1, 1, 0, 0, 1, 0, 0, 1, 1, 0),
    \* reads
    Resv(1, 0, 0, 0, 0, 1, 1, 0, 0, 0), Resv(0, 1, 1, 0, 0, 1, 0, 1, 0, 0), Resv(0, 1, 0, 0, 1, 1, 0, 1, 0, 0)}

TheResvBudgets == {NoResv} \cup ResvScenarios
TheCopyBudgets == {NoCopies} \cup CopyScenarios
TheDeskBudgets == {NoDeskBudget} \cup DeskScenarios
Qty(v, mul) == [v |-> v, mul |-> mul]
Win(start, dur) == [start |-> start, dur |-> dur]
All == {"win", "energy", "power"}
Request(has, w, energy, power) == [has |-> has, win |-> w, energy |-> energy, power |-> power, cancelled |-> FALSE]

\* Energy in units of 10^-3 Wh, 3.6 watt-seconds; charging is positive.
TheAsked ==
  {Request(All, Win(0, 3), Qty(2, -3), Qty(35, -1)),
   Request(All, Win(0, 3), Qty(-2, -3), Qty(3, 0)),
   Request(All, Win(0, 3), Qty(2, -3), Qty(-3, 0)),
   Request(All, Win(1, 2), Qty(0, 0), Qty(3, 0)),
   Request(All, Win(4, 3), Qty(2, -3), Qty(3, 0)),
   Request({"energy"}, Win(0, 0), Qty(2, -3), ZeroQty)}

Body(decision, has, w, energy, power) == [decision |-> decision, has |-> has, win |-> w, energy |-> energy, power |-> power]
NoWin == Win(0, 0)

TheBodies ==
  {Body("deny", {}, NoWin, ZeroQty, ZeroQty),
   Body("perhaps", {}, NoWin, ZeroQty, ZeroQty),
   Body("grant", {}, NoWin, ZeroQty, ZeroQty),
   Body("grant", {"win"}, Win(1, 2), ZeroQty, ZeroQty),
   Body("grant", {"win"}, Win(1, 3), ZeroQty, ZeroQty),
   Body("grant", {"win"}, Win(1, 0), ZeroQty, ZeroQty),
   Body("grant", {"win"}, Win(4, 1), ZeroQty, ZeroQty),
   Body("grant", {"win"}, Win(5, 3), ZeroQty, ZeroQty),
   Body("grant", {"energy"}, NoWin, Qty(1, -3), ZeroQty),
   Body("grant", {"energy"}, NoWin, Qty(1, -2), ZeroQty),
   Body("grant", {"energy"}, NoWin, Qty(-1, -3), ZeroQty),
   Body("grant", {"power"}, NoWin, ZeroQty, Qty(25, -1)),
   Body("grant", {"power"}, NoWin, ZeroQty, Qty(4, 0)),
   Body("grant", {"power"}, NoWin, ZeroQty, Qty(1, 4))}

Target(v, mul, reach) == [mode |-> "targetW", v |-> v, mul |-> mul, reach |-> reach, fleet |-> "f"]

TheTargets ==
  {Target(-2, 0, 1), Target(-15, -1, 1), Target(-1, 0, 2), Target(-4, 0, 0), Target(1, 0, 1),
   [Target(-1, 0, 1) EXCEPT !.mode = "other"], [Target(-1, 0, 1) EXCEPT !.fleet = "g"]}

TheSpans == [start : 0..2, dur : 0..2] \cup {Win(4, 1)}

TheSlots == {[from |-> 0, to |-> 1], [from |-> 1, to |-> 2], [from |-> 0, to |-> 2]}

Init ==
    /\ acting \in {"copies", "grid", "reservations", "decisions"}
    /\ InitCopies /\ (acting = "copies") = (copyLeft # NoCopies)
    /\ InitDesk /\ (acting = "grid") = (deskLeft # NoDeskBudget)
    /\ acting # "grid" => manager = [d \in GridDevices |-> NoFleet]
    /\ InitReservations /\ (acting = "reservations") = (resvLeft # NoResv)
    /\ InitDecision /\ (acting # "decisions" => request = CHOOSE q \in Asked : TRUE)

Next ==
    /\ UNCHANGED acting
    /\ \/ acting = "copies" /\ CopiesNext /\ UNCHANGED <<deskVars, resvVars, decisionVars>>
       \/ acting = "grid" /\ DeskNext /\ UNCHANGED <<copyVars, resvVars, decisionVars>>
       \/ acting = "reservations" /\ ReservationsNext /\ UNCHANGED <<copyVars, deskVars, decisionVars>>
       \/ acting = "decisions" /\ DecisionNext /\ UNCHANGED <<copyVars, deskVars, resvVars>>

Spec == Init /\ [][Next]_<<acting, copyVars, deskVars, resvVars, decisionVars>>

Interchangeable == Permutations({v1, v2}) \cup Permutations({o1, o2})

\* What is granted keeps to what was asked (GrantWithinRequest), the figures
\* shown of it keep to the ledger's rules (SuggestionFits, LeftIsNotNegative,
\* see GrantDecision), and what executes it keeps to it: PowerAtEverySecond,
\* EnergyOverAllSeconds and ActsForGrant (see GrantDecision).
DecisionsFit ==
    acting = "decisions" =>
        /\ GrantWithinRequest /\ SuggestionFits /\ LeftIsNotNegative
        /\ PowerAtEverySecond /\ EnergyOverAllSeconds /\ ActsForGrant
=============================================================================
