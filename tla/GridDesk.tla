------------------------------ MODULE GridDesk ------------------------------
(***************************************************************************)
(* The operator's desk for whole fleets: grid requests (a batch of rows,   *)
(* each split over every aggregator's fleet), their cancel, and the fleet  *)
(* FSA whose assignment follows the devices an aggregator manages.         *)
(*                                                                         *)
(* A handler here holds programMu from its first read to its last write.   *)
(* A device joins or leaves a fleet, a device gets a control of its own,   *)
(* and time passes, without it.  One control on a fleet is a record on the *)
(* fleet FSA and one copy on every device assigned to it; the writes of an *)
(* issue and of one cancel are DERControlIssuer's and are one step here,   *)
(* with each outcome it can leave.                                         *)
(***************************************************************************)
EXTENDS Integers, FiniteSets, SequencesExt

CONSTANTS
    Aggregators,    \* aggregators, each with its own EndDevice
    GridDevices,    \* devices an aggregator can manage
    ShareIds,       \* records a scenario can write
    Slots,          \* windows a row can ask for, [from, to) with from < to
    MaxRows,        \* maxGridRows
    MaxEvents,      \* maxLiveEvents
    LastTick,       \* bound: how far time goes
    DeskBudgets,    \* bound: how often each thing happens
    NoFleet

ASSUME DeskConstants ==
    /\ \A s \in Slots : s.from \in Nat /\ s.to \in Nat /\ s.from < s.to
    /\ ShareIds \subseteq Nat /\ MaxRows \in Nat /\ MaxEvents \in Nat /\ LastTick \in Nat
    /\ NoFleet \notin Aggregators
    /\ \A b \in DeskBudgets : DOMAIN b = {"batch", "cancel", "move", "direct", "fault", "boot"}

VARIABLES
    gridClock,   \* the server's clock
    manager,     \* device -> the aggregator that manages it, or NoFleet
    fleetFSA,    \* aggregator -> devices assigned to its fleet FSA
    share,       \* id -> the FSA control record, or NoShare
    copies,      \* id -> device -> "none", "live" or "cancelled"
    direct,      \* device -> number of live controls of other origins
    desk,        \* the handler holding programMu, or NoDesk
    joined,      \* pairs <<id, device>> assigned after the batch read the fleets; a ghost
    inDoubt,     \* ids an answer said are left half done; a ghost
    deskLeft     \* what the scenario has left

deskVars == <<gridClock, manager, fleetFSA, share, copies, direct, desk, joined, inDoubt, deskLeft>>

NoShare == [fleet |-> NoFleet]
NoDesk == [op |-> "none"]

SpendDesk(what) == deskLeft[what] > 0 /\ deskLeft' = [deskLeft EXCEPT ![what] = @ - 1]

InitDesk ==
    /\ gridClock = 0
    /\ manager \in [GridDevices -> Aggregators \cup {NoFleet}]
    /\ fleetFSA = [a \in Aggregators |-> {}]
    /\ share = [i \in ShareIds |-> NoShare]
    /\ copies = [i \in ShareIds |-> [d \in GridDevices |-> "none"]]
    /\ direct = [d \in GridDevices |-> 0]
    /\ desk = NoDesk /\ joined = {} /\ inDoubt = {}
    /\ deskLeft \in DeskBudgets

Recorded == {i \in ShareIds : share[i] # NoShare}
Live(i) == i \in Recorded /\ ~ share[i].cancelled /\ gridClock < share[i].slot.to
Overlap(s, t) == s.from < t.to /\ t.from < s.to

\* LiveCount: scheduled or in force on the device, of any origin.
LiveEvents(d) == direct[d] + Cardinality({i \in Recorded : copies[i][d] = "live" /\ gridClock < share[i].slot.to})

\* fleetWant: the devices the aggregator manages now.
fleetWant(a) == {d \in GridDevices : manager[d] = a}

-----------------------------------------------------------------------------
\* POST /api/derms/grid-requests.

\* gridControls and liveBlocks: the blocks of earlier batches not yet ended.
liveBlocks == {share[i].slot : i \in {j \in Recorded : Live(j)}}

checkEventsAfterRow(devices, rows) ==
    \A a \in Aggregators : \A d \in devices[a] : LiveEvents(d) < MaxEvents

\* checkEvents: no device of a fleet is taken past maxLiveEvents.
checkEvents(devices, rows) ==
    \A a \in Aggregators : \A d \in devices[a] : LiveEvents(d) + Len(rows) <= MaxEvents

overlapCheckBatchOnly(devices, rows) ==
    /\ \A m, n \in 1..Len(rows) : m < n => ~ Overlap(rows[m], rows[n])
    /\ checkEvents(devices, rows)

\* overlapCheck: no row overlaps an earlier row or a live block.
overlapCheck(devices, rows) ==
    /\ \A m, n \in 1..Len(rows) : m < n => ~ Overlap(rows[m], rows[n])
    /\ \A n \in 1..Len(rows), s \in liveBlocks : ~ Overlap(rows[n], s)
    /\ checkEvents(devices, rows)

\* validateRows: no row starts in the past.
validateRows(rows) == \A n \in 1..Len(rows) : rows[n].from >= gridClock

\* readFleets: an aggregator that manages no device takes no share.
readFleets == [a \in Aggregators |-> fleetWant(a)]
Sharing(devices) == {a \in Aggregators : devices[a] # {}}

\* A row in the past and a batch that fails a check are refused before
\* anything is written.
HandleCreate(rows) ==
    LET devices == readFleets
    IN /\ desk = NoDesk /\ SpendDesk("batch")
       /\ validateRows(rows)
       /\ Sharing(devices) # {}
       /\ overlapCheck(devices, rows)
       /\ desk' = [op |-> "create", batch |-> deskLeft["batch"], rows |-> rows, devices |-> devices,
                   todo |-> Sharing(devices)]
       /\ UNCHANGED <<gridClock, manager, fleetFSA, share, copies, direct, joined, inDoubt>>

\* unassignLocked refuses a device with a live copy (Retire).
Retirable(a, d) == \A i \in Recorded : ~ (share[i].fleet = a /\ copies[i][d] = "live" /\ Live(i))

liveReplicasHeldToo(a, new) == {i \in Recorded : share[i].fleet = a}

\* liveReplicas: the records a new device is given a copy of.
liveReplicas(a, new) == {i \in Recorded : share[i].fleet = a /\ Live(i) /\ ~ share[i].held}

\* reconcileFleet: the devices that left and can go are unassigned, the ones
\* that came are assigned with a copy of every live control; it reads the
\* fleet again.  An assignment that fails is undone.
Reconciled(a, failed) ==
    LET want == fleetWant(a)
        stay == {d \in fleetFSA[a] : d \in want \/ ~ Retirable(a, d)}
        new == (want \ fleetFSA[a]) \ failed
    IN /\ fleetFSA' = [fleetFSA EXCEPT ![a] = stay \cup new]
       /\ copies' = [i \in ShareIds |-> [d \in GridDevices |->
                       IF d \in new /\ i \in liveReplicas(a, new) /\ copies[i][d] = "none"
                       THEN "live" ELSE copies[i][d]]]
       /\ joined' = {k \in joined : share[k[1]].fleet = a => k[2] \in stay}

\* reconcileFleets: a device that cannot be assigned or unassigned, or one the
\* batch read that holds no copy of the program, refuses the batch.
reconcileFleets(a, failed) ==
    /\ desk.op = "create" /\ a \in desk.todo
    /\ Reconciled(a, failed)
    /\ IF failed = {}
       THEN UNCHANGED deskLeft
       ELSE failed \subseteq fleetWant(a) \ fleetFSA[a] /\ SpendDesk("fault")
    /\ desk' = IF desk.devices[a] \subseteq fleetFSA'[a]
                  /\ failed = {} /\ fleetFSA'[a] \subseteq fleetWant(a)
               THEN [desk EXCEPT !.todo = @ \ {a}]
               ELSE NoDesk
    /\ UNCHANGED <<gridClock, manager, share, direct, inDoubt>>

\* splitRows and gridIssues: one share per row and fleet, row by row.
gridIssues ==
    LET fleets == SetToSeq(Sharing(desk.devices))
        m == Len(fleets)
    IN [k \in 1..(m * Len(desk.rows)) |-> <<1 + ((k - 1) \div m), fleets[1 + ((k - 1) % m)]>>]

\* The k-th of the ids not taken yet.
Fresh(k) == CHOOSE i \in ShareIds \ Recorded : Cardinality({j \in ShareIds \ Recorded : j < i}) = k - 1

\* recorder: the record of a share.
Record(n, a, held) ==
    [fleet |-> a, batch |-> desk.batch, row |-> n, slot |-> desk.rows[n], cancelled |-> FALSE, held |-> held]

\* issueAcrossAll: the check runs again under the fleet locks, then every
\* share is written, or none, or a failed undo keeps some of them held.
issueAcrossAll(outcome) ==
    LET issues == gridIssues
        n == Len(issues)
        ids == [k \in 1..n |-> Fresh(k)]
        used == {ids[k] : k \in 1..n}
        at == [i \in used |-> issues[CHOOSE k \in 1..n : ids[k] = i]]
    IN /\ desk.op = "create" /\ desk.todo = {}
       /\ Cardinality(ShareIds \ Recorded) >= n
       /\ desk' = NoDesk
       /\ IF overlapCheck(desk.devices, desk.rows) /\ outcome # "undone"
          THEN \E kept \in IF outcome = "kept" THEN (SUBSET used) \ {{}} ELSE {used} :
                 /\ IF outcome = "kept" THEN SpendDesk("fault") ELSE UNCHANGED deskLeft
                 /\ share' = [i \in ShareIds |-> IF i \notin kept THEN share[i]
                                ELSE Record(at[i][1], at[i][2], outcome = "kept")]
                 /\ copies' = [i \in ShareIds |-> [d \in GridDevices |->
                                 IF i \in kept /\ d \in desk.devices[at[i][2]] THEN "live" ELSE copies[i][d]]]
                 /\ inDoubt' = IF outcome = "kept" THEN inDoubt \cup kept ELSE inDoubt
                 /\ joined' = joined \cup {<<i, d>> \in kept \X GridDevices :
                                              d \in fleetFSA[at[i][2]] \ desk.devices[at[i][2]]}
          ELSE /\ IF outcome = "undone" THEN SpendDesk("fault") ELSE UNCHANGED deskLeft
               /\ UNCHANGED <<share, copies, inDoubt, joined>>
       /\ UNCHANGED <<gridClock, manager, fleetFSA, direct>>

-----------------------------------------------------------------------------
\* POST .../cancel of one control, and of a batch's shares one after another.

\* noneLive: a batch with no share left to cancel is refused.
HandleCancel(ids) ==
    /\ desk = NoDesk /\ SpendDesk("cancel")
    /\ \E i \in ids : Live(i)
    /\ desk' = [op |-> "cancel", todo |-> {i \in ids : Live(i)}]
    /\ UNCHANGED <<gridClock, manager, fleetFSA, share, copies, direct, joined, inDoubt>>

\* cancelControl: every copy, then the record.  A stop keeps the copies
\* cancelled so far and the record live; a record that cannot be written is
\* held back from new devices.
cancelControl(i, outcome, done) ==
    /\ share' = [share EXCEPT ![i].cancelled = outcome = "done",
                              ![i].held = @ \/ outcome = "record"]
    /\ copies' = [copies EXCEPT ![i] = [d \in GridDevices |->
                    IF d \in done /\ @[d] = "live" THEN "cancelled" ELSE @[d]]]

\* One share of the cancel: a failure is reported and the next is tried.  The
\* clock may have passed the end of the control meanwhile.
CancelShare(i, outcome) ==
    /\ desk.op = "cancel" /\ i \in desk.todo
    /\ LET all == fleetFSA[share[i].fleet]
       IN \E done \in IF outcome = "stopped" THEN (SUBSET all) \ {all} ELSE {all} :
            cancelControl(i, outcome, done)
    /\ IF outcome = "done" THEN UNCHANGED deskLeft ELSE SpendDesk("fault")
    /\ inDoubt' = IF outcome = "done" THEN inDoubt \ {i} ELSE inDoubt \cup {i}
    /\ desk' = IF desk.todo = {i} THEN NoDesk ELSE [desk EXCEPT !.todo = @ \ {i}]
    /\ UNCHANGED <<gridClock, manager, fleetFSA, direct, joined>>

\* FleetFSA, called before a control on one fleet: the reconcile alone.
FleetFSA(a) ==
    /\ desk = NoDesk /\ SpendDesk("cancel") /\ fleetWant(a) # fleetFSA[a]
    /\ Reconciled(a, {})
    /\ UNCHANGED <<gridClock, manager, share, direct, desk, inDoubt>>

-----------------------------------------------------------------------------
\* What happens without programMu.

\* The operator moves a device to another fleet, or out of its fleet.
Move(d, a) ==
    /\ SpendDesk("move") /\ manager[d] # a
    /\ manager' = [manager EXCEPT ![d] = a]
    /\ UNCHANGED <<gridClock, fleetFSA, share, copies, direct, desk, joined, inDoubt>>

\* POST /api/der-controls: a control on one device.
DirectCreate(d) ==
    /\ SpendDesk("direct")
    /\ direct' = [direct EXCEPT ![d] = @ + 1]
    /\ UNCHANGED <<gridClock, manager, fleetFSA, share, copies, desk, joined, inDoubt>>

GridTick ==
    /\ gridClock < LastTick
    /\ gridClock' = gridClock + 1
    /\ UNCHANGED <<manager, fleetFSA, share, copies, direct, desk, joined, inDoubt, deskLeft>>

\* A restart: CompleteFSAControlReplicas gives every assigned device the live
\* controls it lacks, and no record is held any more.
CompleteFSAControlReplicas ==
    /\ SpendDesk("boot")
    /\ desk' = NoDesk /\ joined' = {}
    /\ share' = [i \in ShareIds |-> IF i \in Recorded THEN [share[i] EXCEPT !.held = FALSE] ELSE NoShare]
    /\ copies' = [i \in ShareIds |-> [d \in GridDevices |->
                    IF Live(i) /\ d \in fleetFSA[share[i].fleet] /\ copies[i][d] = "none"
                    THEN "live" ELSE copies[i][d]]]
    /\ UNCHANGED <<gridClock, manager, fleetFSA, direct, inDoubt>>

DeskNext ==
    \/ \E rows \in UNION {[1..n -> Slots] : n \in 1..MaxRows} : HandleCreate(rows)
    \/ \E a \in Aggregators : FleetFSA(a) \/ \E failed \in SUBSET GridDevices : reconcileFleets(a, failed)
    \/ \E outcome \in {"done", "undone", "kept"} : issueAcrossAll(outcome)
    \/ \E i \in Recorded : HandleCancel({i}) \/ HandleCancel({j \in Recorded : share[j].batch = share[i].batch})
    \/ \E i \in ShareIds, outcome \in {"done", "stopped", "record"} : CancelShare(i, outcome)
    \/ \E d \in GridDevices : DirectCreate(d) \/ \E a \in Aggregators \cup {NoFleet} : Move(d, a)
    \/ GridTick \/ CompleteFSAControlReplicas

-----------------------------------------------------------------------------
\* Every device assigned to a fleet FSA holds a live copy of each of its live
\* controls, the pairs of X apart, and no live copy of a cancelled one.
ReachesWholeFleet(X) ==
    desk = NoDesk => \A i \in Recorded \ inDoubt : \A d \in fleetFSA[share[i].fleet] :
        /\ Live(i) /\ <<i, d>> \notin X => copies[i][d] = "live"
        /\ share[i].cancelled => copies[i][d] # "live"

\* The fleet a batch read has its controls: while no handler is at work and no
\* answer said otherwise, the batches, cancels and assignments leave every
\* device of the fleet FSA with a copy of each live control and of no cancelled
\* one (issueAcrossAll, reconcileFleet).  A device that an operator pairs with
\* the aggregator after the batch has read the fleets and before it reconciles
\* them is assigned without the batch's controls, and gets them at the next
\* start (CompleteFSAControlReplicas): programMu does not hold the pairs.
FleetHoldsControl == ReachesWholeFleet(joined)

\* Two live rows never overlap, be they of one batch or of two, the shares an
\* answer left in doubt apart: the shares of one row have one block.
LiveBlocksApart ==
    \A i, j \in Recorded \ inDoubt :
        Live(i) /\ Live(j) /\ Overlap(share[i].slot, share[j].slot)
        => share[i].batch = share[j].batch /\ share[i].row = share[j].row

\* A batch never takes a device past maxLiveEvents live controls of any origin.
BatchKeepsCap ==
    [][\A i \in ShareIds : share[i] = NoShare /\ share'[i] # NoShare =>
         \A d \in GridDevices : copies'[i][d] = "live" => LiveEvents(d)' <= MaxEvents]_deskVars

\* Grid requests keep their promises: FleetHoldsControl and LiveBlocksApart at
\* every state, BatchKeepsCap at every step.
GridIsOrderly == [](FleetHoldsControl /\ LiveBlocksApart) /\ BatchKeepsCap

=============================================================================
