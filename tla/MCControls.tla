------------------------------ MODULE MCControls ------------------------------
(***************************************************************************)
(* Controls for TLC: in each behaviour one of the issuer, the operator's   *)
(* control desk, the control timeline, the delivered power and its cache   *)
(* runs; the others rest.  The issuer runs in one of several scenes, each  *)
(* with batches and bounds of its own.                                     *)
(***************************************************************************)
EXTENDS DERControlIssuer, ControlDesk, ControlTimeline, PowerCharts

CONSTANTS p, q, o1, o2, f1, f2, k1, k2, v1, v2

VARIABLES acting, scene

Item(targets, lead, offset, dur, ofFSA) ==
    [targets |-> targets, lead |-> lead, offset |-> offset, dur |-> dur, set |-> "w", rec |-> ofFSA]

(* One control to one device, at once or one ahead; one to both devices of a *)
(* group; a long one, and a call of two, the second to both devices.         *)
AtOnce == <<Item({1}, NoStart, 0, 2, FALSE)>>
Ahead == <<Item({1}, 1, 0, 2, FALSE)>>
Long == <<Item({1}, 0, 0, 3, FALSE)>>
ToGroup == <<Item({1, 2}, NoStart, 0, 2, TRUE)>>
AheadGroup == <<Item({1}, 1, 0, 2, TRUE)>>
Pair == <<Item({1}, NoStart, 0, 1, TRUE), Item({1, 2}, NoStart, 1, 1, TRUE)>>
TheBatches == {AtOnce, Ahead, Long, ToGroup, AheadGroup, Pair}

Scene(batches, callers, devices, ops, cancels, time, events, failing, dying) ==
    [batches |-> batches, callers |-> callers, devices |-> devices, ops |-> ops \cup {"none"}, cancels |-> cancels,
     time |-> time, events |-> events, faults |-> failing, crashes |-> dying]

Scenes == {
    Scene({AtOnce, Ahead}, {p, q}, {1}, {"issue", "retire"}, 1, 2, 2, 1, 0),
    Scene({Long, Pair}, {p}, {1, 2}, {"issue"}, 1, 0, 3, 2, 1),
    Scene({AtOnce, ToGroup}, {p, q}, {1, 2}, {"issue", "retire"}, 0, 0, 2, 0, 0),
    Scene({Long, AheadGroup, ToGroup}, {p}, {1, 2}, {"issue", "replicate"}, 1, 1, 2, 0, 0),
    Scene({AheadGroup}, {p}, {1, 2}, {"issue", "replicate", "retire"}, 0, 0, 1, 2, 0)}

InScene ==
    /\ now <= scene.time /\ Cardinality(Minted) <= scene.events /\ faults <= scene.faults /\ crashes <= scene.crashes
    /\ Cardinality({x \in Scopes \X Ids : life[x[1]][x[2]].cancelled}) <= scene.cancels
    /\ \A c \in Callers : /\ call[c] # Idle => c \in scene.callers
                          /\ call[c].op \in scene.ops /\ call[c].scopes \subseteq scene.devices
                          /\ call[c].batch \in scene.batches \cup {<<>>}

ControlSets == <<"r1", "r2">>
CtlBudget(create, cancel, grant, move, post, pair, list, fault) ==
    [create |-> create, cancel |-> cancel, grant |-> grant, move |-> move, post |-> post, pair |-> pair,
     list |-> list, fault |-> fault]
TheCtlBudgets ==
    {CtlBudget(1, 2, 1, 1, 0, 0, 0, 1), CtlBudget(1, 1, 0, 0, 0, 0, 0, 2), CtlBudget(1, 1, 0, 0, 1, 0, 1, 1),
     CtlBudget(0, 0, 0, 0, 3, 1, 1, 0)}

TheAggregators == <<"a1", "a2">>
TlBudget(send, direct, void, pair, drop, read, fault, retire) ==
    [send |-> send, direct |-> direct, void |-> void, pair |-> pair, drop |-> drop, read |-> read, fault |-> fault,
     retire |-> retire]
TheTlBudgets ==
    {TlBudget(1, 0, 0, 0, 0, 1, 2, 0), TlBudget(1, 2, 1, 1, 0, 1, 0, 0), TlBudget(1, 2, 0, 0, 1, 1, 1, 0),
     TlBudget(1, 0, 3, 0, 0, 1, 0, 1), TlBudget(1, 0, 1, 1, 0, 1, 1, 2)}
TlStart(members, fleet, of1, of2) ==
    [members |-> members, fleet |-> fleet, manager |-> ("d1" :> of1) @@ ("d2" :> of2)]
TheTlStarts ==
    {TlStart({}, "direct", "direct", "a1"), TlStart({"d1"}, "direct", "a1", "a2"),
     TlStart({"d1", "d2"}, "direct", "a1", "a2"), TlStart({"d1"}, "a1", "a1", "direct")}

ALeg(average, phase, dir) == [average |-> average, phase |-> phase, dir |-> dir]
SixLegs == {ALeg(TRUE, "total", "main"), ALeg(FALSE, "total", "forward"), ALeg(FALSE, "total", "reverse"),
            ALeg(TRUE, "A", "main"), ALeg(FALSE, "A", "main"), ALeg(FALSE, "B", "main")}
FewSamples ==
    {s \in [leg : SixLegs, at : 1..3, watts : {2, -1, Unmapped}, period : {0, 1}] :
       /\ s.watts = Unmapped <=> s.leg.dir = "forward" /\ s.at = 3
       /\ s.leg.dir = "reverse" \/ s.leg.phase = "B" => s.watts = -1
       /\ s.leg.dir = "forward" => s.watts # -1
       /\ s.leg.phase = "A" => s.watts = 2
       /\ s.period > 0 => s.leg.average}
TwoBuckets == <<0, 2, 4>>

Rest(choices) == CHOOSE c \in choices : TRUE

Init ==
    /\ acting \in {"issuer", "desk", "timeline", "charts", "cache"}
    /\ scene \in Scenes /\ (acting # "issuer" => scene = Rest(Scenes)) /\ InitIssuer
    /\ InitControls
    /\ acting # "desk" =>
          ctlLeft = Rest(CtlBudgets) /\ devFleet = Rest(Fleets) /\ wiring = [ledger |-> TRUE, resolver |-> TRUE] /\ manages = {}
    /\ InitTimeline
    /\ acting # "timeline" =>
          LET t == Rest(TlStarts) IN
          tlLeft = Rest(TlBudgets) /\ fsaMembers = t.members /\ fsaFleet = t.fleet /\ manager = t.manager
    /\ ChartInit /\ CacheInit

Next ==
    /\ UNCHANGED <<acting, scene>>
    /\ \/ acting = "issuer" /\ IssuerNext /\ InScene' /\ UNCHANGED <<ctlVars, tlVars, samples, cacheVars>>
       \/ acting = "desk" /\ ControlsNext /\ UNCHANGED <<issuerVars, tlVars, samples, cacheVars>>
       \/ acting = "timeline" /\ TimelineNext /\ UNCHANGED <<issuerVars, ctlVars, samples, cacheVars>>
       \/ acting = "charts" /\ ChartNext /\ UNCHANGED <<issuerVars, ctlVars, tlVars, cacheVars>>
       \/ acting = "cache" /\ CacheNext /\ UNCHANGED <<issuerVars, ctlVars, tlVars, samples>>

Spec == Init /\ [][Next]_<<acting, scene, issuerVars, ctlVars, tlVars, samples, cacheVars>>

Interchangeable == Permutations({p, q}) \cup Permutations({f1, f2})

\* The power pages are true to the readings: a chart adds up every second of
\* a bucket once (EverySecondOnce) and no viewer is answered from an entry
\* computed before its time to live (AnswersAreFresh).
FiguresAreTrue == (acting = "charts" => EverySecondOnce) /\ (acting = "cache" => AnswersAreFresh)
=============================================================================
