-------------------------- MODULE ControlTimeline --------------------------
(***************************************************************************)
(* GET /api/derms/control-events (internal/handler/admin_control_events.go)*)
(* beside the writers of what it reads: one control sent to an FSA, whose  *)
(* record is stored before its copies and removed after them, the delete   *)
(* of the FSA's program template, and one direct control for each device.  *)
(*                                                                         *)
(* A control's window is in the future, so a cancelled or superseded one   *)
(* ("void") was never in force and has no event.                           *)
(***************************************************************************)
EXTENDS Integers, FiniteSets, Sequences, TLC

CONSTANTS
  TlDevices,     \* the EndDevices
  TlAggregators, \* the aggregators, in the order they are read
  TlStarts,      \* the first memberships: [members, fleet, manager]
  TlBudgets      \* bounds: [send, direct, void, pair, drop, read, fault, retire]

Direct == "direct"
Unassigned == "unassigned"
Lanes == {TlAggregators[i] : i \in DOMAIN TlAggregators} \union {Direct, Unassigned}
Bare == [control |-> FALSE, record |-> "none"]
Fsa == <<"fsa", "copy">>
TemplateGone == <<"fsa", "retired">>
TlScopes == TlDevices \X {"own", "copy"}
NoReader == [at |-> "idle", aggs |-> <<>>, fleets |-> <<>>, scopes |-> {}, scope |-> CHOOSE s \in TlScopes : TRUE,
             known |-> <<>>, lanes |-> {}, todo |-> {}, voided |-> {}, events |-> {}]

VARIABLES
  held,      \* each scope's control and lifecycle record: "none", "live" or "void"
  fsaRecord, \* the FSA's record: "none", "live" or "void"; or "deleted" with its template
  fsaEnded,  \* the interval of the FSA's control is over
  fsaMembers,\* the devices of the FSA
  fsaFleet,  \* the aggregator whose fleet the FSA is, or Direct for one of any devices
  manager,   \* the aggregator of each device, or Direct
  recorded,  \* the devices with an EndDevice record
  sending,   \* the send to the FSA: [at, done]
  reader,    \* the request
  steady,    \* what has been stored, whole and live, since the request began (history)
  repaired,  \* the devices whose pair or record changed since it began (history)
  tlLeft     \* what is left of the budget

tlVars == <<held, fsaRecord, fsaEnded, fsaMembers, fsaFleet, manager, recorded, sending, reader, steady, repaired, tlLeft>>

InitTimeline ==
  /\ held = [s \in TlScopes |-> Bare] /\ fsaRecord = "none" /\ fsaEnded = FALSE
  /\ \E s \in TlStarts : fsaMembers = s.members /\ fsaFleet = s.fleet /\ manager = s.manager
  /\ recorded = TlDevices
  /\ sending = [at |-> "idle", done |-> {}] /\ reader = NoReader
  /\ steady = {} /\ repaired = {} /\ tlLeft \in TlBudgets

TlSpend(what) == tlLeft[what] > 0 /\ tlLeft' = [tlLeft EXCEPT ![what] = @ - 1]

Whole(s) == held[s].control /\ held[s].record = "live"
TlCopyOf(d) == <<d, "copy">>

\* What a live FSA control is: its record, with no copy of it void.
FsaLive == fsaRecord = "live" /\ \A d \in fsaMembers : held[TlCopyOf(d)].record # "void"

\* FSAControlByMRID finds the control.
IsFsaControl == fsaRecord \in {"live", "void"}

\* Each write drops from steady what it disturbed.
Steady == steady' = {x \in steady : IF x = Fsa THEN FsaLive' ELSE x = TemplateGone \/ Whole(x)'}
-----------------------------------------------------------------------------
(* The writers. *)

\* The FSA's record first, then a record and a control for each member.
SendRecord ==
  /\ sending.at = "idle" /\ fsaRecord = "none" /\ TlSpend("send")
  /\ fsaRecord' = "live" /\ sending' = [at |-> "copies", done |-> {}]
  /\ UNCHANGED <<held, fsaEnded, fsaMembers, fsaFleet, manager, recorded, reader, repaired>> /\ Steady

SendCopy ==
  /\ sending.at = "copies"
  /\ \E d \in fsaMembers \ sending.done :
       LET s == TlCopyOf(d) IN
       IF held[s].record = "none"
       THEN held' = [held EXCEPT ![s].record = "live"] /\ UNCHANGED sending
       ELSE held' = [held EXCEPT ![s].control = TRUE] /\ sending' = [sending EXCEPT !.done = @ \union {d}]
  /\ UNCHANGED <<fsaRecord, fsaEnded, fsaMembers, fsaFleet, manager, recorded, reader, repaired, tlLeft>> /\ Steady

SendFinishes ==
  /\ sending.at = "copies" /\ sending.done = fsaMembers
  /\ sending' = [sending EXCEPT !.at = "idle"]
  /\ UNCHANGED <<held, fsaRecord, fsaEnded, fsaMembers, fsaFleet, manager, recorded, reader, steady, repaired, tlLeft>>

SendFails ==
  /\ sending.at = "copies" /\ TlSpend("fault")
  /\ sending' = [sending EXCEPT !.at = "undo"]
  /\ UNCHANGED <<held, fsaRecord, fsaEnded, fsaMembers, fsaFleet, manager, recorded, reader, steady, repaired>>

\* removeWritten: each copy's control, then its record; the FSA's record last.
UndoCopy ==
  /\ sending.at = "undo"
  /\ \E d \in fsaMembers :
       LET s == TlCopyOf(d) IN
       /\ held[s] # Bare
       /\ held' = [held EXCEPT ![s] = IF @.control THEN [@ EXCEPT !.control = FALSE] ELSE Bare]
  /\ UNCHANGED <<fsaRecord, fsaEnded, fsaMembers, fsaFleet, manager, recorded, sending, reader, repaired, tlLeft>> /\ Steady

UndoRecord ==
  /\ sending.at = "undo" /\ \A d \in fsaMembers : held[TlCopyOf(d)] = Bare
  /\ fsaRecord' = "none" /\ sending' = [at |-> "idle", done |-> {}]
  /\ UNCHANGED <<held, fsaEnded, fsaMembers, fsaFleet, manager, recorded, reader, repaired, tlLeft>> /\ Steady

\* A removal that fails keeps what the undo has not reached.
UndoStops ==
  /\ sending.at = "undo" /\ TlSpend("fault")
  /\ sending' = [sending EXCEPT !.at = "idle"]
  /\ UNCHANGED <<held, fsaRecord, fsaEnded, fsaMembers, fsaFleet, manager, recorded, reader, steady, repaired>>

\* A direct control: its record, its control; an undo takes them back.
DirectWrites ==
  /\ \E d \in TlDevices :
       LET s == <<d, "own">> IN
       held' = [held EXCEPT ![s] = IF @.record = "none" THEN [@ EXCEPT !.record = "live"] ELSE [@ EXCEPT !.control = TRUE]]
  /\ held' # held /\ TlSpend("direct")
  /\ UNCHANGED <<fsaRecord, fsaEnded, fsaMembers, fsaFleet, manager, recorded, sending, reader, repaired>> /\ Steady

DirectUndone ==
  /\ \E d \in TlDevices :
       LET s == <<d, "own">> IN
       held[s] # Bare /\ held' = [held EXCEPT ![s] = IF @.control THEN [@ EXCEPT !.control = FALSE] ELSE Bare]
  /\ TlSpend("fault")
  /\ UNCHANGED <<fsaRecord, fsaEnded, fsaMembers, fsaFleet, manager, recorded, sending, reader, repaired>> /\ Steady

\* A cancel of a control, or of a copy; or of the FSA's record once every
\* copy is cancelled.
Voids ==
  /\ \/ /\ \E s \in TlScopes : Whole(s) /\ ~(s[2] = "copy" /\ fsaEnded) /\ held' = [held EXCEPT ![s].record = "void"]
        /\ UNCHANGED fsaRecord
     \/ /\ sending.at = "idle" /\ fsaRecord = "live" /\ \A d \in fsaMembers : held[TlCopyOf(d)].record = "void"
        /\ fsaRecord' = "void" /\ UNCHANGED held
  /\ TlSpend("void")
  /\ UNCHANGED <<fsaEnded, fsaMembers, fsaFleet, manager, recorded, sending, reader, repaired>> /\ Steady

FsaEnds ==
  /\ sending.at = "idle" /\ fsaRecord = "live" /\ ~fsaEnded /\ TlSpend("retire")
  /\ fsaEnded' = TRUE
  /\ UNCHANGED <<held, fsaRecord, fsaMembers, fsaFleet, manager, recorded, sending, reader, steady, repaired>>

\* HandleDeleteProgramTemplate, under the locks of the copies' scopes: none of
\* them may be live (Retire).  The FSA's records go with the template, the
\* copies' controls and records stay.
DeleteTemplate ==
  /\ sending.at = "idle" /\ IsFsaControl /\ TlSpend("retire")
  /\ \A d \in fsaMembers : Whole(TlCopyOf(d)) => fsaEnded
  /\ fsaRecord' = "deleted"
  /\ UNCHANGED <<held, fsaEnded, fsaMembers, fsaFleet, manager, recorded, sending, reader, repaired>> /\ Steady

TlPairs ==
  /\ \E d \in TlDevices, a \in Lanes \ {Unassigned} :
       manager[d] # a /\ manager' = [manager EXCEPT ![d] = a] /\ repaired' = repaired \union {d}
  /\ TlSpend("pair") /\ UNCHANGED <<held, fsaRecord, fsaEnded, fsaMembers, fsaFleet, recorded, sending, reader, steady>>

TlDrops ==
  /\ \E d \in recorded : recorded' = recorded \ {d} /\ repaired' = repaired \union {d}
  /\ TlSpend("drop") /\ UNCHANGED <<held, fsaRecord, fsaEnded, fsaMembers, fsaFleet, manager, sending, reader, steady>>
-----------------------------------------------------------------------------
(* The request. *)

timelineStores == <<held, fsaRecord, fsaEnded, fsaMembers, fsaFleet, manager, recorded, sending>>
Reads(fields) == reader' = fields @@ reader /\ UNCHANGED <<timelineStores, steady, repaired, tlLeft>>

HandleControlEvents ==
  /\ reader.at = "idle" /\ TlSpend("read")
  /\ reader' = [NoReader EXCEPT !.at = "groups", !.aggs = TlAggregators]
  /\ steady' = {s \in TlScopes : Whole(s)} \union {x \in {Fsa} : FsaLive} \union {x \in {TemplateGone} : fsaRecord = "deleted"}
  /\ repaired' = {} /\ UNCHANGED timelineStores

\* energyGroupsOf: one aggregator's members at a time.
energyGroupsOf ==
  /\ reader.at = "groups"
  /\ IF reader.aggs # <<>>
     THEN LET a == Head(reader.aggs)
          IN Reads([aggs |-> Tail(reader.aggs), fleets |-> (a :> {d \in TlDevices : manager[d] = a}) @@ reader.fleets])
     ELSE Reads([at |-> "scopes", scopes |-> {s \in TlScopes : held[s].control}])

\* energyGroup.has: the direct group has what no aggregator's fleet has.
has(g, d) == IF g = Direct THEN \A a \in DOMAIN reader.fleets : d \notin reader.fleets[a]
                           ELSE g \in DOMAIN reader.fleets /\ d \in reader.fleets[g]

\* lfdi: asked once for each device of one request.
lfdi(d) == IF d \in DOMAIN reader.known THEN reader.known[d] ELSE d \in recorded
byGroup(devices) ==
  {<<g, {d \in devices : IF lfdi(d) THEN has(g, d) ELSE g = Unassigned}>> : g \in Lanes} \ {<<g, {}>> : g \in Lanes}
Learnt(devices) == [d \in devices |-> lfdi(d)] @@ reader.known

\* controlEvent: nothing for a control that was never in force.
eventsOf(scope, s, lanes, voided) ==
  {[lane |-> l[1], scope |-> scope, of |-> s, devices |-> l[2]] : l \in {x \in lanes : x[1] \notin voided}}

\* List: the scope's page is read, if it still has one.
deviceEvents ==
  /\ reader.at = "scopes"
  /\ IF reader.scopes # {}
     THEN LET s == CHOOSE x \in reader.scopes : TRUE
          IN Reads([scopes |-> reader.scopes \ {s}, scope |-> s, at |-> IF held[s].control THEN "listed" ELSE "scopes"])
     ELSE Reads([at |-> "fsa"])

\* Mutant: the record is read before the mRID is looked up.
notCopyLate == Reads([at |-> IF held[reader.scope].record = "none" THEN "scopes" ELSE "is copy"])

\* FSAControlByMRID: a copy's event is its FSA's.
notCopy == Reads([at |-> IF reader.scope[2] = "copy" /\ IsFsaControl THEN "scopes" ELSE "lifecycle"])

NotCopy == reader.at = "listed" /\ notCopy

\* Lifecycles.Get, and the groups of the device: a control with no record
\* was not issued here.
OwnEvent ==
  /\ reader.at \in {"lifecycle", "is copy"}
  /\ LET s == reader.scope
         gone == IF reader.at = "lifecycle" THEN held[s].record = "none" ELSE s[2] = "copy" /\ IsFsaControl
         voided == IF held[s].record = "void" THEN Lanes ELSE {}
     IN Reads(IF gone THEN [at |-> "scopes"]
              ELSE [at |-> "scopes", known |-> Learnt({s[1]}),
                    events |-> reader.events \union eventsOf("device", s, byGroup({s[1]}), voided)])

\* Mutant: an FSA with no device has no lane.
fsaGroupsBare == IF fsaFleet # Direct THEN {<<fsaFleet, fsaMembers>>} ELSE byGroup(fsaMembers)

\* A fleet's FSA is in its aggregator's lane, and one with no device in the
\* unassigned lane.
fsaGroups ==
  LET lanes == byGroup(fsaMembers)
  IN IF fsaFleet # Direct THEN {<<fsaFleet, fsaMembers>>} ELSE IF lanes = {} THEN {<<Unassigned, {}>>} ELSE lanes

\* The FSA's devices and its record are read once.
fsaEvents ==
  /\ reader.at = "fsa"
  /\ IF ~IsFsaControl
     THEN Reads([at |-> "answered"])
     ELSE LET lanes == fsaGroups
          IN Reads([at |-> "copies", known |-> IF fsaFleet # Direct THEN reader.known ELSE Learnt(fsaMembers), lanes |-> lanes,
                    todo |-> UNION {{<<l[1], d>> : d \in l[2]} : l \in lanes},
                    voided |-> IF fsaRecord = "void" THEN Lanes ELSE {}])

\* fsaCopyLifecycle: the earliest end of the copies of a lane.
fsaCopyLifecycle ==
  /\ reader.at = "copies"
  /\ IF reader.todo # {}
     THEN LET x == CHOOSE y \in reader.todo : TRUE
          IN Reads([todo |-> reader.todo \ {x},
                    voided |-> IF held[TlCopyOf(x[2])].record = "void" THEN reader.voided \union {x[1]} ELSE reader.voided])
     ELSE Reads([at |-> "answered",
                 events |-> reader.events \union eventsOf("fsa", Fsa, reader.lanes, reader.voided)])

EventsAnswered ==
  /\ reader.at = "answered" /\ reader' = NoReader /\ steady' = {} /\ repaired' = {}
  /\ UNCHANGED <<timelineStores, tlLeft>>

\* A store read that fails ends the request with a 500.
EventsFail ==
  /\ reader.at \notin {"idle", "answered"} /\ TlSpend("fault")
  /\ reader' = NoReader /\ steady' = {} /\ repaired' = {} /\ UNCHANGED timelineStores
-----------------------------------------------------------------------------
TimelineNext ==
  \/ SendRecord \/ SendCopy \/ SendFinishes \/ SendFails \/ UndoCopy \/ UndoRecord \/ UndoStops
  \/ DirectWrites \/ DirectUndone \/ Voids \/ FsaEnds \/ DeleteTemplate \/ TlPairs \/ TlDrops
  \/ HandleControlEvents \/ energyGroupsOf \/ deviceEvents \/ NotCopy \/ OwnEvent \/ fsaEvents
  \/ fsaCopyLifecycle \/ EventsAnswered \/ EventsFail

TimelineSpec == InitTimeline /\ [][TimelineNext]_tlVars
-----------------------------------------------------------------------------
(* Properties. *)

\* A copy of an FSA's control is not shown as a control of its device, also
\* when the send is undone while the request reads: the mRID is looked up
\* before the lifecycle record, and an undo removes them in the other order
\* (deviceEvents, removeWritten).  It is once the delete of its template took
\* the FSA's record and left the copy; then no event of the FSA is beside it.
CopiesAreNotOwn ==
  \A e \in reader.events :
    (e.scope = "device" /\ e.of[2] = "copy") =>
      fsaRecord = "deleted" /\ \A f \in reader.events : f.scope # "fsa"

\* An answer has every control that was stored and live from the request's
\* first read to its last: a direct one in exactly one lane, and an FSA's in
\* one lane for each device, or in the unassigned lane when it has none; one
\* whose template was deleted before in a lane for each device's copy.  A
\* device whose pair or record changed meanwhile is not held to one lane.
TimelineWhole ==
  reader.at = "answered" =>
    /\ \A s \in steady \ {Fsa, TemplateGone} :
         LET shown == {e \in reader.events : e.of = s}
         IN (s[2] = "own" \/ TemplateGone \in steady) => shown # {} /\ (s[1] \notin repaired => Cardinality(shown) = 1)
    /\ Fsa \in steady =>
         LET shown == {e \in reader.events : e.scope = "fsa"}
         IN /\ shown # {}
            /\ \A d \in fsaMembers \ repaired : Cardinality({e \in shown : d \in e.devices}) = 1

\* The timeline tells the truth: CopiesAreNotOwn and TimelineWhole.
TimelineIsTrue == CopiesAreNotOwn /\ TimelineWhole
=============================================================================
