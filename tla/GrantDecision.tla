--------------------------- MODULE GrantDecision ----------------------------
(***************************************************************************)
(* What an operator may answer a flow reservation request with: the body   *)
(* of the admin write routes (internal/handler/admin_flowreservation*.go)  *)
(* turned into a decision, the decision into a response                    *)
(* (internal/flowreservation/flowreservation.go), and what the read routes *)
(* then say of it.  The response is the grant that the controls below      *)
(* execute, so the two sets of rules are checked against each other.       *)
(*                                                                         *)
(* A request, a body and a response hold in "has" the optional fields that *)
(* they carry; the others read as zero.                                    *)
(***************************************************************************)
EXTENDS Window, FiniteSetsExt, SequencesExt

(***************************************************************************)
(* What a grant lets its executions do: the bounds of                      *)
(* internal/commitment/fitsgrant.go and magnitude.go, kept while controls  *)
(* execute the grant, supersede one another and are cancelled, and while   *)
(* the grant is revised.                                                   *)
(*                                                                         *)
(* A quantity is v * 10^mul, as in 2030.5; the code compares quantities of *)
(* different multipliers exactly and so do the operators here.             *)
(***************************************************************************)

CONSTANTS
  MaxMultiplier,  \* the largest multiplier of a quantity, and its negation the smallest
  Targets,    \* targets a control may carry: [mode, v, mul, reach, fleet]
  Spans,      \* windows of controls, which begin within StartLead and so end without wrapping
  Fleet,      \* the fleet of the grant
  MaxExecs    \* bound on executions held at one time

ASSUME GrantFitAssumption ==
  /\ MaxExecs \in Nat /\ MaxMultiplier \in Nat /\ Spans \subseteq Proper
  /\ \A x \in Targets :
       /\ x.mode \in {"targetW", "other"} /\ x.v \in Int /\ x.reach \in Nat
       /\ x.mul \in -MaxMultiplier..MaxMultiplier

VARIABLES
  grant,  \* the live grant
  execs   \* its live executions, in any order: [win, mode, v, mul, reach, fleet]

Control(w, x) == [win |-> w, mode |-> x.mode, v |-> x.v, mul |-> x.mul, reach |-> x.reach, fleet |-> x.fleet]
Fits == "fits"
-----------------------------------------------------------------------------
(* Sums of magnitudes. *)

SignOf(v) == IF v > 0 THEN 1 ELSE IF v < 0 THEN -1 ELSE 0
Mag(v) == IF v < 0 THEN -v ELSE v

ScaleUp(term, exp) == Mag(term.v) * term.factor * 10^(term.mul - exp)

(* Everything is scaled to the lowest multiplier there is, by multiplying. *)
MagnitudeSumExceeds(terms, bound) ==
  LET exp == Min({bound.mul} \cup {terms[i].mul : i \in DOMAIN terms})
  IN FoldSeq(LAMBDA x, sum : sum + ScaleUp(x, exp), 0, terms) > ScaleUp(bound, exp)

(* ratScaled: a fraction, for a multiplier may be negative. *)
RatScaled(v, mul, factor) ==
  IF mul >= 0 THEN [num |-> Mag(v) * factor * 10^mul, den |-> 1]
              ELSE [num |-> Mag(v) * factor, den |-> 10^(-mul)]

RatAdd(a, b) == [num |-> a.num * b.den + b.num * a.den, den |-> a.den * b.den]
RatExceeds(a, b) == a.num * b.den > b.num * a.den

Committed(cs) ==
  FoldSeq(LAMBDA c, sum : IF c.mode # "targetW" THEN sum
                          ELSE RatAdd(sum, RatScaled(c.v, c.mul, c.reach * c.win.dur)),
          [num |-> 0, den |-> 1], cs)
-----------------------------------------------------------------------------
(* FitsGrant, rule by rule in the code's order. *)

Executable(g) == g.has = {"win", "energy", "power"} /\ g.win.dur > 0 /\ g.energy.v # 0

DirectionOf(g) == -SignOf(g.energy.v)

Active(cs, t) == SelectSeq(cs, LAMBDA c : c.win.start <= t /\ t < WEnd(c.win))

OverPower(g, cs, t) ==
  LET active == Active(cs, t)
      terms == [i \in DOMAIN active |-> [v |-> active[i].v, mul |-> active[i].mul, factor |-> active[i].reach]]
  IN MagnitudeSumExceeds(terms, [v |-> g.power.v, mul |-> g.power.mul, factor |-> 1])

(* The sum is tried where each execution begins.  Mutant: where the first    *)
(* does.                                                                     *)
CheckPowerFirst(g, cs) == cs # <<>> => ~OverPower(g, cs, cs[1].win.start)

CheckPower(g, cs) == \A i \in DOMAIN cs : ~OverPower(g, cs, cs[i].win.start)

(* Watt-seconds against watt-hours.  Mutant: a scale that is ten times off. *)
CheckEnergyScaledOff(g, cs) == ~RatExceeds(Committed(cs), RatScaled(g.energy.v, g.energy.mul + 1, 3600))

CheckEnergy(g, cs) == ~RatExceeds(Committed(cs), RatScaled(g.energy.v, g.energy.mul, 3600))

(* The first rule an execution breaks by itself.  Mutant: it may run either  *)
(* way.                                                                      *)
BrokenEitherWay(g, c, proposed) ==
  CASE c.mode # "targetW" -> "execution_mode_not_target_w"
    [] c.fleet # Fleet -> "execution_outside_fleet"
    [] proposed /\ c.win.dur = 0 -> "execution_zero_duration"
    [] ~Within(c.win, g.win) -> "execution_outside_interval"
    [] OTHER -> Fits

Broken(g, c, proposed) ==
  CASE c.mode # "targetW" -> "execution_mode_not_target_w"
    [] c.fleet # Fleet -> "execution_outside_fleet"
    [] proposed /\ c.win.dur = 0 -> "execution_zero_duration"
    [] ~Within(c.win, g.win) -> "execution_outside_interval"
    [] SignOf(c.v) # DirectionOf(g) -> "execution_reverses_grant"
    [] OTHER -> Fits

FitsGrant(g, existing, proposal) ==
  LET cs == existing \o proposal
      codes == [i \in DOMAIN cs |-> Broken(g, cs[i], i > Len(existing))]
      bad == {i \in DOMAIN cs : codes[i] # Fits}
  IN CASE g.cancelled -> "grant_not_live"
       [] ~Executable(g) -> "grant_not_executable"
       [] bad # {} -> codes[Min(bad)]
       [] ~CheckPower(g, cs) -> "execution_exceeds_power"
       [] ~CheckEnergy(g, cs) -> "execution_exceeds_energy"
       [] OTHER -> Fits

(* fitsRevision: the executions are added one at a time and the first that   *)
(* does not fit is named (0: all fit).                                       *)
FitsRevision(next, cs) ==
  LET bad == {i \in DOMAIN cs : FitsGrant(next, SubSeq(cs, 1, i), <<>>) # Fits}
  IN IF bad = {} THEN 0 ELSE Min(bad)
-----------------------------------------------------------------------------
(* What happens to a grant and its executions. *)

(* The issuer marks superseded, at the new one's start, controls it overlaps. *)
Clipped(sup, t) == [i \in DOMAIN execs |-> IF i \in sup THEN [execs[i] EXCEPT !.win = ClipAt(@, t)] ELSE execs[i]]

CheckExecution(c, sup) == c.reach >= 1 /\ FitsGrant(grant, Clipped(sup, c.win.start), <<c>>) = Fits

Execute(w, x, sup) ==
  LET c == Control(w, x) IN
  /\ Len(execs) < MaxExecs
  /\ \A i \in sup : Overlaps(execs[i].win, w)
  /\ CheckExecution(c, sup)
  /\ execs' = Append(Clipped(sup, w.start), c)
  /\ UNCHANGED grant

CancelExecution(i) == execs' = RemoveAt(execs, i) /\ UNCHANGED grant

(* Revise.  With nothing to execute the new grant is checked by itself. *)
Revise(g) ==
  /\ IF execs = <<>> THEN FitsGrant(g, <<>>, <<>>) = Fits ELSE FitsRevision(g, execs) = 0
  /\ grant' = g /\ UNCHANGED execs
-----------------------------------------------------------------------------
(* The reference: seconds, and everything in units of 10^Lowest. *)
Lowest == -MaxMultiplier
Units(v, mul) == Mag(v) * 10^(mul - Lowest)
Load(cs, s) == FoldSeq(LAMBDA c, sum : sum + (IF s \in Seconds(c.win) THEN c.reach * Units(c.v, c.mul) ELSE 0), 0, cs)

(* At no second, not only where an execution begins, do the executions of a  *)
(* grant together take more than its power (checkPower).                     *)
PowerAtEverySecond == \A s \in Seconds(grant.win) : Load(execs, s) <= Units(grant.power.v, grant.power.mul)

(* Summed over the seconds, they take no more than its energy (checkEnergy). *)
EnergyOverAllSeconds ==
  MapThenSumSet(LAMBDA s : Load(execs, s), Seconds(grant.win)) <= 3600 * Units(grant.energy.v, grant.energy.mul)

(* What executes a grant is a target, of its fleet and in its direction, and *)
(* covers only seconds of its window, also after others superseded it and    *)
(* the grant was revised; a grant whose end wraps is executed at no second.  *)
ActsForGrant ==
  \A i \in DOMAIN execs :
    /\ execs[i].mode = "targetW" /\ execs[i].fleet = Fleet
    /\ SignOf(execs[i].v) = -SignOf(grant.energy.v)
    /\ Seconds(execs[i].win) \subseteq (IF grant.win \in Proper THEN Seconds(grant.win) ELSE {})
-----------------------------------------------------------------------------

CONSTANTS
  Asked,    \* requests: [has, win, energy, power, cancelled]
  Bodies    \* bodies of a write: [decision, has, win, energy, power]

ASSUME DecisionAssumption == \A q \in Asked : q.win \in Windows /\ ~q.cancelled

VARIABLES request, answered

decisionVars == <<grant, execs, request, answered>>

ZeroQty == [v |-> 0, mul |-> 0]
Unanswered == [has |-> {}, win |-> [start |-> 0, dur |-> 0], energy |-> ZeroQty, power |-> ZeroQty, cancelled |-> FALSE]
-----------------------------------------------------------------------------
(* The body: a refusal names its rule, "" is none. *)

multiplierInRange(m) == -MaxMultiplier <= m /\ m <= MaxMultiplier

\* A magnitude takes the sign of what was requested.
Signed(qty, asked) == IF asked.v < 0 THEN [qty EXCEPT !.v = -@] ELSE qty

decisionOf(b, q) ==
  LET given == {f \in {"energy", "power"} : f \in b.has}
  IN [code |-> CASE b.decision \notin {"grant", "deny"} -> "decision_invalid"
                 [] b.decision = "deny" -> ""
                 [] \E f \in given : b[f].v < 0 -> "value_negative"
                 [] \E f \in given : ~multiplierInRange(b[f].mul) -> "multiplier_range"
                 [] OTHER -> "",
      decision |-> b.decision, has |-> b.has, win |-> b.win,
      energy |-> Signed(b.energy, q.energy), power |-> Signed(b.power, q.power)]
-----------------------------------------------------------------------------
(* The response: every granted field lies within the requested one. *)

intervalWithin(inner, outer) == inner.start >= outer.start /\ WEnd(inner) <= WEnd(outer)

grantedInterval(q, d) ==
  CASE "win" \notin d.has -> [code |-> "", set |-> "win" \in q.has, win |-> q.win]
    [] "win" \notin q.has -> [code |-> "no_requested_window", set |-> FALSE, win |-> q.win]
    [] ~intervalWithin(d.win, q.win) -> [code |-> "interval_outside_window", set |-> FALSE, win |-> q.win]
    [] OTHER -> [code |-> "", set |-> TRUE, win |-> d.win]

\* magnitudeExceeds: both are scaled to the lower multiplier.
\* Mutant: the values alone are compared.
magnitudeExceedsUnscaled(a, b) == Mag(a.v) > Mag(b.v)

magnitudeExceeds(a, b) ==
  LET exp == Min({a.mul, b.mul}) IN Mag(a.v) * 10^(a.mul - exp) > Mag(b.v) * 10^(b.mul - exp)

\* The rule is the same for energy (grantedEnergy) and power (grantedPower).
Granted(q, d, f) ==
  CASE f \notin d.has -> [code |-> "", set |-> f \in q.has, qty |-> q[f]]
    [] f \notin q.has -> [code |-> "no_requested", set |-> FALSE, qty |-> ZeroQty]
    [] d[f].v # 0 /\ SignOf(d[f].v) # SignOf(q[f].v) -> [code |-> "reverses_request", set |-> FALSE, qty |-> ZeroQty]
    [] magnitudeExceeds(d[f], q[f]) -> [code |-> "exceeds_request", set |-> FALSE, qty |-> ZeroQty]
    [] OTHER -> [code |-> "", set |-> TRUE, qty |-> d[f]]

grantedEnergy(q, d) == Granted(q, d, "energy")
grantedPower(q, d) == Granted(q, d, "power")

\* A denial is a response of duration zero; only a denial answers a request
\* that its client cancelled.
answerFor(q, d) ==
  LET i == grantedInterval(q, d)
      e == grantedEnergy(q, d)
      p == grantedPower(q, d)
  IN IF d.decision = "deny"
     THEN [code |-> "", has |-> {"win", "energy", "power"}, win |-> [start |-> q.win.start, dur |-> 0],
           energy |-> ZeroQty, power |-> ZeroQty, cancelled |-> FALSE]
     ELSE [code |-> CASE q.cancelled -> "request_cancelled"
                      [] i.code # "" -> i.code
                      [] i.set /\ i.win.dur = 0 -> "grant_zero_duration"
                      [] e.code # "" -> e.code
                      [] p.code # "" -> p.code
                      [] OTHER -> "",
           has |-> {f \in {"win", "energy", "power"} : CASE f = "win" -> i.set [] f = "energy" -> e.set [] OTHER -> p.set},
           win |-> i.win, energy |-> e.qty, power |-> p.qty, cancelled |-> FALSE]

Answer(a) == [has |-> a.has, win |-> a.win, energy |-> a.energy, power |-> a.power, cancelled |-> FALSE]
-----------------------------------------------------------------------------
(* The routes. *)

Accepted(b, a) == decisionOf(b, request).code = "" /\ a = answerFor(request, decisionOf(b, request)) /\ a.code = ""

AnswerDecision(b) ==
  LET a == answerFor(request, decisionOf(b, request)) IN
  /\ ~answered /\ Accepted(b, a)
  /\ grant' = Answer(a) /\ answered' = TRUE
  /\ UNCHANGED <<execs, request>>

\* A revision to a denial stops the executions.
HandleRevise(b) ==
  LET a == answerFor(request, decisionOf(b, request)) IN
  /\ answered /\ ~request.cancelled /\ grant.win.dur > 0 /\ Accepted(b, a)
  /\ \/ a.win.dur = 0 /\ execs' = <<>> /\ grant' = Answer(a)
     \/ a.win.dur > 0 /\ Revise(Answer(a))
  /\ UNCHANGED <<request, answered>>

\* The client's PUT.
CancelRequest ==
  /\ ~request.cancelled /\ request' = [request EXCEPT !.cancelled = TRUE]
  /\ IF answered THEN grant' = [grant EXCEPT !.cancelled = TRUE] ELSE grant' = Answer(answerFor(request, [decision |-> "deny", has |-> {}]))
  /\ execs' = <<>> /\ answered' = TRUE

InitDecision == request \in Asked /\ answered = FALSE /\ grant = Unanswered /\ execs = <<>>

DecisionNext ==
  \/ \E b \in Bodies : AnswerDecision(b) \/ HandleRevise(b)
  \/ CancelRequest
  \/ /\ \/ \E w \in Spans, x \in Targets, sup \in SUBSET DOMAIN execs : Execute(w, x, sup)
        \/ \E i \in DOMAIN execs : CancelExecution(i)
     /\ UNCHANGED <<request, answered>>

DecisionSpec == InitDecision /\ [][DecisionNext]_decisionVars
-----------------------------------------------------------------------------
(* What the read routes say of the response. *)

\* The word for a sign: discharge is positive.
directionWord(sign) == IF sign > 0 THEN "discharge" ELSE IF sign < 0 THEN "charge" ELSE "none"
directionOf(g) == IF "energy" \in g.has THEN directionWord(DirectionOf(g)) ELSE "none"

\* Mutant: the sign of the power is kept.
suggestedTargetSigned(g) ==
  [ok |-> directionOf(g) # "none" /\ "power" \in g.has, v |-> g.power.v, mul |-> g.power.mul]

suggestedTarget(g) ==
  [ok |-> directionOf(g) # "none" /\ "power" \in g.has,
   v |-> IF directionOf(g) = "charge" THEN -Mag(g.power.v) ELSE Mag(g.power.v), mul |-> g.power.mul]

\* Watt-hours committed, as a fraction, and the numerator of what is left of
\* the grant over the denominator of both.
committedWh(cs) == [num |-> Committed(cs).num, den |-> Committed(cs).den * 3600]
scaledMagnitude(q) == RatScaled(q.v, q.mul, 1)
energyFigures(g, cs) ==
  LET all == scaledMagnitude(g.energy)
      used == committedWh(cs)
  IN [committed |-> used, known |-> {"energy", "win"} \subseteq g.has /\ g.win.dur > 0,
      left |-> all.num * used.den - used.num * all.den]
-----------------------------------------------------------------------------
(* What was asked for bounds what is granted: whatever an operator enters,   *)
(* and however often the answer is revised, a grant does not begin before    *)
(* the request, covers only requested seconds unless its own end wraps past  *)
(* the largest int64 (intervalWithin compares the wrapped ends), and runs    *)
(* the requested way with no more than the requested energy and power        *)
(* (answerFor behind decisionOf).                                            *)
GrantWithinRequest ==
  (answered /\ grant.win.dur > 0) =>
    /\ grant.has = request.has
    /\ "win" \in grant.has => grant.win.start >= request.win.start
    /\ "win" \in grant.has /\ grant.win \in Proper => Seconds(grant.win) \subseteq Seconds(request.win)
    /\ \A f \in {"energy", "power"} :
         LET given == grant[f]
             wanted == request[f]
         IN given.v * wanted.v >= 0 /\ Units(given.v, given.mul) <= Units(wanted.v, wanted.mul)

(* The target that GET .../grants suggests for a live grant is one the       *)
(* ledger takes: a control that carries it to one device for a second of the *)
(* grant's window breaks no rule of FitsGrant but the energy one, unless the *)
(* grant's power is zero or its end wraps.                                   *)
SuggestionFits ==
  LET t == suggestedTarget(grant)
      c == [win |-> [start |-> grant.win.start, dur |-> 1], mode |-> "targetW", v |-> t.v, mul |-> t.mul, reach |-> 1, fleet |-> Fleet]
  IN (answered /\ ~grant.cancelled /\ grant.win.dur > 0 /\ "win" \in grant.has /\ grant.win \in Proper
      /\ t.ok /\ t.v # 0) =>
       FitsGrant(grant, <<>>, <<c>>) \in {Fits, "execution_exceeds_energy"}

(* The energy left that the view shows is never below nothing: the figures   *)
(* of the view and the rule of the ledger agree to the watt-second           *)
(* (energyFigures against checkEnergy).                                      *)
LeftIsNotNegative ==
  LET f == energyFigures(grant, execs) IN f.known => f.left >= 0
=============================================================================
