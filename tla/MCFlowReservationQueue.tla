----------------------- MODULE MCFlowReservationQueue -----------------------
(***************************************************************************)
(* FlowReservationQueue for TLC, in two scenes: an operator beside the     *)
(* client, the fallback and the recovery; and, with no operator, deletes   *)
(* of the EndDevice and requests without a window.                         *)
(***************************************************************************)
EXTENDS FlowReservationQueue

VARIABLES scene, answers   \* the operators' calls so far

SceneInit ==
    /\ Init
    /\ scene \in {"operator", "lifetime"} /\ answers = 0
    /\ scene = "operator" => ask = "window"

(* An operator answers once, beside one failing store operation or one      *)
(* restart.                                                                 *)
InScene ==
    IF scene = "operator" THEN answers <= 1 /\ deletes = 0 /\ faults + restarts <= 1
    ELSE answers = 0

Answers(p) == pc[p] = "idle" /\ pc'[p] = "lookup"

SceneNext ==
    /\ Next /\ UNCHANGED scene
    /\ answers' = answers + Cardinality({p \in Operators : Answers(p)})
    /\ InScene'

SceneSpec == SceneInit /\ [][SceneNext]_<<vars, scene, answers>>
=============================================================================
