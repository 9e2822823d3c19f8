------------------------- MODULE MCCommitmentLedger -------------------------
(***************************************************************************)
(* CommitmentLedger for TLC: two slots of a fleet's calendar, the three    *)
(* windows over them, and four scenes: two requests and a control; a chain *)
(* of three responses; repairs of a revision with two executions after a   *)
(* crash; two operators who revise one chain.                              *)
(***************************************************************************)
EXTENDS CommitmentLedger, TLC

CONSTANTS q1, q2, c1, c2

VARIABLE scene

TwoSlots == {{1}, {2}, {1, 2}}
TwoSlotsOrDenial == TwoSlots \cup {{}}

Scenes == {
    [requests |-> {q1, q2}, controls |-> 1, windows |-> TwoSlots, revisions |-> {{1, 2}, {}},
     revisers |-> {"reviser"}, ids |-> 2, mrids |-> 3, faults |-> 1, crashes |-> 1],
    [requests |-> {q1}, controls |-> 1, windows |-> {{2}, {1, 2}}, revisions |-> {{2}, {}},
     revisers |-> {"reviser"}, ids |-> 3, mrids |-> 3, faults |-> 1, crashes |-> 1],
    [requests |-> {q1}, controls |-> 2, windows |-> {{2}, {1, 2}}, revisions |-> {{2}},
     revisers |-> {"reviser"}, ids |-> 2, mrids |-> 2, faults |-> 2, crashes |-> 1],
    [requests |-> {q1}, controls |-> 0, windows |-> {{2}}, revisions |-> {{2}},
     revisers |-> {"reviser", "reviser2"}, ids |-> 3, mrids |-> 4, faults |-> 2, crashes |-> 1]}

InScene ==
    /\ \A q \in Requests \ scene.requests : ~Stored(q, 1)
    /\ Cardinality({c \in Controls : ctl[c] # NoControl}) <= scene.controls
    /\ \A q \in Requests : resp[q][1].win \in scene.windows \cup {Denial}
    /\ \A c \in Controls : ctl[c].win \in scene.windows \cup {Denial}
    /\ \A v \in Revisers : pc[v] = "revise" =>
         v \in scene.revisers /\ loc[v].win \in scene.revisions /\ loc[v].pos < scene.ids
    /\ minted <= scene.mrids /\ faults <= scene.faults /\ crashes <= scene.crashes

SceneSpec == (Init /\ scene \in Scenes) /\ [][Next /\ UNCHANGED scene /\ InScene']_<<vars, scene>>

Interchangeable == Permutations(Controls)
=============================================================================
