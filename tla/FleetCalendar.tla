--------------------------- MODULE FleetCalendar ---------------------------
(***************************************************************************)
(* What the commitment ledger promises of one fleet: a calendar of slots,  *)
(* each held by at most one party.  The parties are the requests, through  *)
(* their live grants, and the plain dispatches taken together.  One party  *)
(* at a time changes what it holds, and only to slots no other holds.      *)
(***************************************************************************)
CONSTANTS Parties, Slots

VARIABLE held

Free(p) == {s \in Slots : \A r \in Parties \ {p} : s \notin held[r]}

Rebook(p, S) == held' = [held EXCEPT ![p] = S] /\ S \subseteq Free(p)

Init == held = [p \in Parties |-> {}]
Next == \E p \in Parties, S \in SUBSET Slots : Rebook(p, S)
Spec == Init /\ [][Next]_held

(* No slot has two holders. *)
NoSlotTwice == \A p, r \in Parties : p # r => held[p] \cap held[r] = {}
=============================================================================
