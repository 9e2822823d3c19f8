---------------------------- MODULE ControlDesk ----------------------------
(***************************************************************************)
(* The admin routes that create, cancel and list the DERControls of one    *)
(* EndDevice (internal/handler/admin_dercontrol.go), against a client's    *)
(* cancel of the grant a control executes (commitment.Ledger.CancelGrant)  *)
(* and the device's moves between fleets.                                  *)
(*                                                                         *)
(* What the issuer does inside one call is modelled by DERControlIssuer;   *)
(* here IssueInFleet and Cancel are one step each with every result they   *)
(* can have, and what the handler reads before the fleet lock and writes   *)
(* after it are steps of their own.  The whole device has one live grant,  *)
(* made in the fleet it was in at the time (grantFleet).                   *)
(***************************************************************************)
EXTENDS Integers, Sequences, FiniteSets, Bags, TLC

CONSTANTS
  Controls,       \* the mRIDs a create may be given
  FsaControls,    \* mRIDs of controls sent to an FSA, a subset of Controls
  Operators,      \* concurrent admin requests
  Fleets,         \* the fleets the device may be in
  Named,          \* the LFDIs a Response may name, other than the device's own
  RspSets,        \* the ResponseSets, in the order Parents lists them
  CtlBudgets      \* bounds: [create, cancel, grant, move, post, pair, list, fault]

Self == "self"
Gone == "gone"          \* FleetOf: the EndDevice is not found
NoLFDI == "no lfdi"     \* FleetOf: commitment.ErrNoLFDI
Absent == [stored |-> FALSE, lifecycle |-> FALSE, grant |-> FALSE, fleet |-> Gone, cancelled |-> FALSE]
NoWork == [at |-> "idle", op |-> "none", c |-> CHOOSE c \in Controls : TRUE, grant |-> FALSE, keys |-> {},
           err |-> "ok", away |-> FALSE, answer |-> "none"]
NoList == [at |-> "idle", sets |-> <<>>, page |-> <<>>, counted |-> <<>>, idx |-> EmptyBag, seen |-> EmptyBag,
           left |-> {}, items |-> {}]

VARIABLES
  ctl,          \* the stored control and lifecycle record of each mRID
  devFleet,     \* what FleetOf answers for the device
  grantFleet,   \* the fleet of the grant
  grantLive,    \* whether the grant is live
  wiring,       \* [ledger, resolver]: what the handler is given
  owner,        \* who holds each fleet's commitment lock
  work,         \* what each operator's request is doing
  clientCancel, \* CancelGrant: [at, plan]
  responses,    \* the stored Responses of each ResponseSet
  manages,      \* the LFDIs the device manages
  listing,      \* what the list request is doing
  unheard,      \* controls changed since their scope was last notified (history)
  walkedOff,    \* controls left changed by a request answered as client gone (history)
  unguarded,    \* controls cancelled without the lock of the grant's fleet for a told or read failure (history)
  ctlLeft       \* what is left of the budget

deskState == <<ctl, devFleet, grantFleet, grantLive, owner>>
ctlVars == <<ctl, devFleet, grantFleet, grantLive, wiring, owner, work, clientCancel, responses, manages,
             listing, unheard, walkedOff, unguarded, ctlLeft>>
listVars == <<responses, manages, listing>>
CtlHistory == <<unheard, walkedOff, unguarded>>

Free == "free"
Client == "client"

InitControls ==
  /\ ctl = [c \in Controls |-> Absent]
  /\ devFleet \in Fleets /\ grantFleet = devFleet /\ grantLive = TRUE
  /\ wiring \in [ledger : BOOLEAN, resolver : BOOLEAN]
  /\ owner = [f \in Fleets |-> Free]
  /\ work = [o \in Operators |-> NoWork]
  /\ clientCancel = [at |-> "idle", plan |-> {}]
  /\ responses = [s \in {RspSets[i] : i \in DOMAIN RspSets} |-> <<>>] /\ manages \in SUBSET Named
  /\ listing = NoList /\ unheard = {} /\ walkedOff = {} /\ unguarded = {}
  /\ ctlLeft \in CtlBudgets

CtlSpend(what) == ctlLeft[what] > 0 /\ ctlLeft' = [ctlLeft EXCEPT ![what] = @ - 1]

\* A step that may only happen because of a fault, or is free.
Perhaps(fault) == IF fault THEN CtlSpend("fault") ELSE UNCHANGED ctlLeft

Goes(o, fields) == work' = [work EXCEPT ![o] = fields @@ @]
-----------------------------------------------------------------------------
(* The answers of a request, and the notifications it makes. *)

\* The answer that follows an error of the issuer.
mapIssuerError(err) == IF err \in {"not found", "already cancelled"} THEN "refused" ELSE "internal"

\* refuse: the request ends with an error status and notifies nobody.
refuse(o, answer) ==
  /\ Goes(o, [at |-> "answered", answer |-> answer])
  /\ walkedOff' = IF answer = "client gone" THEN walkedOff \union ({work[o].c} \intersect unheard) ELSE walkedOff
  /\ UNCHANGED unheard

\* notify: the program list and the control list of the control's scope.
notify(o, answer) ==
  /\ Goes(o, [at |-> "answered", answer |-> answer])
  /\ unheard' = unheard \ {work[o].c} /\ walkedOff' = walkedOff \ {work[o].c}

\* Mutant: the 500 of a write that was not undone is answered like any other.
incompleteUntold(o) == refuse(o, "incomplete")

incomplete(o) == notify(o, "incomplete")

\* issueFailed: a client that went away comes before an undo that failed, and
\* an undo that kept no control is a plain failure.
issueFailed(o, err) ==
  CASE err = "conflict" -> refuse(o, "conflict")
    [] err = "commitment" -> refuse(o, "internal")
    [] work[o].away -> refuse(o, "client gone")
    [] err = "kept" /\ ~work[o].away -> incomplete(o)
    [] OTHER -> refuse(o, mapIssuerError(err))

\* The same for a cancel, whose failed undo always keeps the control.
cancelFailed(o, err) ==
  CASE work[o].away -> refuse(o, "client gone")
    [] err = "kept" /\ ~work[o].away -> incomplete(o)
    [] OTHER -> refuse(o, mapIssuerError(err))

\* The handler's last step, once issueInFleet or cancelInFleet has returned.
Answer(o) ==
  /\ work[o].at = "returned"
  /\ CASE work[o].err = "ok" -> notify(o, "done")
       [] work[o].op = "create" -> issueFailed(o, work[o].err)
       [] work[o].op = "cancel" -> cancelFailed(o, work[o].err)
  /\ UNCHANGED <<deskState, wiring, clientCancel, listVars, unguarded, ctlLeft>>

Finish(o) ==
  /\ work[o].at = "answered"
  /\ work' = [work EXCEPT ![o] = NoWork]
  /\ UNCHANGED <<deskState, wiring, clientCancel, listVars, CtlHistory, ctlLeft>>

Returns(o, err, away) == Goes(o, [at |-> "returned", err |-> err, away |-> away])
-----------------------------------------------------------------------------
(* The commitment locks. *)

\* FleetOf, with the error it may return.
FleetOf == {devFleet} \union (IF ctlLeft.fault > 0 THEN {"error"} ELSE {})

CanLock(keys) == \A f \in keys : owner[f] = Free
Taken(who, keys) == [f \in Fleets |-> IF f \in keys THEN who ELSE owner[f]]
Released(who) == [f \in Fleets |-> IF owner[f] = who THEN Free ELSE owner[f]]

\* withinFleets: the body runs with every lock, or it did not run and the
\* client went away while it waited or the ledger failed.
withinFleets(o, body, notRun) ==
  \/ /\ CanLock(work[o].keys)
     /\ owner' = Taken(o, work[o].keys)
     /\ Goes(o, [at |-> body]) /\ UNCHANGED <<unguarded, ctlLeft>>
  \/ Returns(o, "context", TRUE) /\ CtlSpend("fault") /\ UNCHANGED <<owner, unguarded>>
  \/ notRun /\ CtlSpend("fault") /\ UNCHANGED owner
-----------------------------------------------------------------------------
(* POST /api/der/controls. *)

BeginCreate(o) ==
  /\ work[o].at = "idle"
  /\ \E c \in Controls \ FsaControls, g \in BOOLEAN :
       /\ ctl[c] = Absent /\ \A p \in Operators : work[p].c = c => work[p].at = "idle"
       /\ Goes(o, [at |-> "issue", op |-> "create", c |-> c, grant |-> g])
  /\ CtlSpend("create")
  /\ UNCHANGED <<deskState, wiring, clientCancel, listVars, CtlHistory>>

\* fleetOf: an EndDevice that is not found is a refusal, any other error a
\* failure of the check.
fleetOf(key) == CASE key \in Fleets -> "ok" [] key = Gone -> "not found" [] OTHER -> "commitment"

issueInFleet(o) ==
  /\ work[o].at = "issue"
  /\ IF wiring.resolver /\ wiring.ledger
     THEN \E key \in FleetOf :
            /\ IF fleetOf(key) = "ok"
               THEN Goes(o, [at |-> "issue locks", keys |-> {key}])
               ELSE Returns(o, fleetOf(key), FALSE)
            /\ Perhaps(key = "error")
     ELSE Returns(o, "commitment", FALSE) /\ UNCHANGED ctlLeft
  /\ UNCHANGED <<deskState, wiring, clientCancel, listVars, CtlHistory>>

IssueLocks(o) ==
  /\ work[o].at = "issue locks"
  /\ withinFleets(o, "issuing", Returns(o, "commitment", FALSE) /\ UNCHANGED unguarded)
  /\ UNCHANGED <<ctl, devFleet, grantFleet, grantLive, wiring, clientCancel, listVars, unheard, walkedOff>>

\* checkIn: a control may execute only a live grant of the locked fleet.
checkIn(o) == work[o].grant => grantLive /\ work[o].keys = {grantFleet}

\* What IssueInFleet leaves stored: the control with its record, the record
\* alone, or nothing.
IssueInFleet(o) ==
  LET c == work[o].c
      whole == [stored |-> TRUE, lifecycle |-> TRUE, grant |-> work[o].grant,
                fleet |-> CHOOSE f \in work[o].keys : TRUE, cancelled |-> FALSE]
      Leaves(r) == /\ ctl' = [ctl EXCEPT ![c] = r]
                   /\ unheard' = IF r.stored THEN unheard \union {c} ELSE unheard
  IN /\ work[o].at = "issuing"
     /\ \/ checkIn(o) /\ Leaves(whole) /\ Returns(o, "ok", FALSE) /\ UNCHANGED ctlLeft
        \/ ~checkIn(o) /\ Leaves(Absent) /\ Returns(o, "conflict", FALSE) /\ UNCHANGED ctlLeft
        \/ /\ CtlSpend("fault")
           /\ \E away \in BOOLEAN :
                \/ Leaves(Absent) /\ Returns(o, "store", away)
                \/ checkIn(o) /\ Leaves([Absent EXCEPT !.lifecycle = TRUE]) /\ Returns(o, "lifecycle kept", away)
                \/ checkIn(o) /\ Leaves(whole) /\ Returns(o, "kept", away)
     /\ owner' = Released(o)
     /\ UNCHANGED <<devFleet, grantFleet, grantLive, wiring, clientCancel, listVars, walkedOff, unguarded>>
-----------------------------------------------------------------------------
(* POST /api/der/controls/{mrid}/cancel. *)

refuseFSAControl(o, c) == Goes(o, [at |-> "answered", op |-> "cancel", c |-> c, answer |-> "fsa control"])

\* A control sent to an FSA is cancelled there, and an mRID nobody has is
\* not found.
HandleCancel(o) ==
  /\ work[o].at = "idle"
  /\ \E c \in Controls :
       LET begun == [at |-> "cancel", op |-> "cancel", c |-> c]
       IN CASE c \in FsaControls -> refuseFSAControl(o, c)
            [] c \notin FsaControls /\ ~ctl[c].stored ->
                 Goes(o, [at |-> "answered", op |-> "cancel", c |-> c, answer |-> "refused"])
            [] OTHER -> Goes(o, begun)
  /\ CtlSpend("cancel")
  /\ UNCHANGED <<deskState, wiring, clientCancel, listVars, CtlHistory>>

\* Mutant: only the fleet the device is in now.
cancelFleetKeysNow(c, readable, key) == IF wiring.resolver /\ key \in Fleets THEN {key} ELSE {}

\* cancelFleetKeys: the fleet of the grant the control executes, when its
\* record can be read, and the device's fleet, when it has one.
cancelFleetKeys(c, readable, key) ==
  {ctl[x].fleet : x \in {y \in {c} : readable /\ ctl[y].lifecycle /\ ctl[y].grant}}
    \union (IF wiring.resolver /\ key \in Fleets THEN {key} ELSE {})

\* cancelUnlocked: the cancel goes on without a lock.
cancelUnlocked(o) ==
  /\ Goes(o, [at |-> "cancelling", keys |-> {}])
  /\ unguarded' = unguarded \union {work[o].c}

\* cancelInFleet: no key and no ledger are both done without.
cancelInFleet(o) ==
  /\ work[o].at = "cancel"
  /\ \E readable \in BOOLEAN, key \in FleetOf :
       LET keys == cancelFleetKeys(work[o].c, readable, key)
       IN /\ ~(key = "error" /\ ~readable) /\ Perhaps(key = "error" \/ ~readable)
          /\ \/ (keys = {} \/ ~wiring.ledger) /\ cancelUnlocked(o)
             \/ /\ keys # {} /\ wiring.ledger
                /\ Goes(o, [at |-> "cancel locks", keys |-> keys])
                /\ unguarded' = IF readable THEN unguarded ELSE unguarded \union {work[o].c}
  /\ UNCHANGED <<deskState, wiring, clientCancel, listVars, unheard, walkedOff>>

\* Within, for a cancel: a ledger that did not run is done without.
CancelLocks(o) ==
  /\ work[o].at = "cancel locks"
  /\ withinFleets(o, "cancelling", cancelUnlocked(o))
  /\ UNCHANGED <<ctl, devFleet, grantFleet, grantLive, wiring, clientCancel, listVars, unheard, walkedOff>>

\* Issuer.Cancel: refused for a control that is gone or cancelled; a write
\* that failed was restored, or may have been recorded.
IssuerCancel(o) ==
  LET c == work[o].c
      Records == ctl' = [ctl EXCEPT ![c].cancelled = TRUE] /\ unheard' = unheard \union {c}
      whole == ctl[c].stored /\ ctl[c].lifecycle
  IN /\ work[o].at = "cancelling"
     /\ \/ /\ ~whole \/ ctl[c].cancelled
           /\ Returns(o, IF whole THEN "already cancelled" ELSE "not found", FALSE)
           /\ UNCHANGED <<ctl, unheard, ctlLeft>>
        \/ /\ whole /\ ~ctl[c].cancelled
           /\ \/ Records /\ Returns(o, "ok", FALSE) /\ UNCHANGED ctlLeft
              \/ /\ CtlSpend("fault")
                 /\ \E away \in BOOLEAN :
                      \/ Returns(o, "store", away) /\ UNCHANGED <<ctl, unheard>>
                      \/ Returns(o, "kept", away) /\ UNCHANGED <<ctl, unheard>>
                      \/ Returns(o, "kept", away) /\ Records
     /\ owner' = Released(o)
     /\ UNCHANGED <<devFleet, grantFleet, grantLive, wiring, clientCancel, listVars, walkedOff, unguarded>>
-----------------------------------------------------------------------------
(* A client's cancel of the grant: every live control that executes it is *)
(* cancelled, then the grant, under the lock of the grant's fleet.        *)

CancelGrant ==
  /\ clientCancel.at = "idle" /\ grantLive /\ wiring.ledger /\ owner[grantFleet] = Free
  /\ owner' = [owner EXCEPT ![grantFleet] = Client]
  /\ clientCancel' = [at |-> "cancelling", plan |-> {c \in Controls : ctl[c].lifecycle /\ ctl[c].grant /\ ~ctl[c].cancelled}]
  /\ CtlSpend("grant")
  /\ UNCHANGED <<ctl, devFleet, grantFleet, grantLive, wiring, work, listVars, CtlHistory>>

cancelExecutions ==
  /\ clientCancel.at = "cancelling"
  /\ \E c \in clientCancel.plan :
       /\ ctl' = [ctl EXCEPT ![c].cancelled = TRUE]
       /\ clientCancel' = [clientCancel EXCEPT !.plan = @ \ {c}]
  /\ UNCHANGED <<devFleet, grantFleet, grantLive, wiring, owner, work, listVars, CtlHistory, ctlLeft>>

MarkCancelled ==
  /\ clientCancel.at = "cancelling" /\ clientCancel.plan = {}
  /\ clientCancel' = [clientCancel EXCEPT !.at = "done"]
  /\ grantLive' = FALSE /\ owner' = Released(Client)
  /\ UNCHANGED <<ctl, devFleet, grantFleet, wiring, work, listVars, CtlHistory, ctlLeft>>

\* The device's management pair changes, or it is deleted, or loses its LFDI.
Moves ==
  /\ devFleet' \in (Fleets \union {Gone, NoLFDI}) \ {devFleet}
  /\ CtlSpend("move")
  /\ UNCHANGED <<ctl, grantFleet, grantLive, wiring, owner, work, clientCancel, listVars, CtlHistory>>
-----------------------------------------------------------------------------
(* GET /api/der/controls?device=. *)

controlVars == <<deskState, wiring, work, clientCancel, CtlHistory>>

\* POST /rsps: the device's own Response, or one for a device it manages now.
PostResponse ==
  /\ \E s \in DOMAIN responses, c \in Controls, d \in manages \union {Self} :
       responses' = [responses EXCEPT ![s] = Append(@, [subject |-> c, named |-> d])]
  /\ CtlSpend("post") /\ UNCHANGED <<controlVars, manages, listing>>

PairChanges ==
  /\ \E d \in Named : manages' = IF d \in manages THEN manages \ {d} ELSE manages \union {d}
  /\ CtlSpend("pair") /\ UNCHANGED <<controlVars, responses, listing>>

Lists(fields) == listing' = fields @@ listing

ListFails == listing.at # "idle" /\ listing' = NoList /\ CtlSpend("fault") /\ UNCHANGED <<controlVars, responses, manages>>

\* loadDevice, and responseCounts' list of the ResponseSets.
HandleList ==
  /\ listing.at = "idle" /\ devFleet # Gone
  /\ listing' = [NoList EXCEPT !.at = "sets", !.sets = RspSets]
  /\ CtlSpend("list") /\ UNCHANGED <<controlVars, responses, manages>>

ReadSet ==
  /\ listing.at = "sets" /\ listing.page = <<>>
  /\ \/ /\ listing.sets # <<>>
        /\ Lists([page |-> responses[Head(listing.sets)], sets |-> Tail(listing.sets)])
     \/ listing.sets = <<>> /\ Lists([at |-> "counted"])
  /\ UNCHANGED <<controlVars, responses, manages, ctlLeft>>

\* Mutant: the pairs are asked again for every Response.
countsDeviceAnew(counted, d) == d = Self \/ d \in manages

\* countsDevice: asked once for each LFDI of one list.
countsDevice(counted, d) == IF d \in DOMAIN counted THEN counted[d] ELSE d = Self \/ d \in manages

\* One Response of the page, under its subject and the device it names.
responseCounts ==
  /\ listing.at = "sets" /\ listing.page # <<>>
  /\ LET r == Head(listing.page)
         ok == countsDevice(listing.counted, r.named)
     IN Lists([page |-> Tail(listing.page),
               counted |-> (r.named :> ok) @@ listing.counted,
               idx |-> IF ok THEN listing.idx (+) SetToBag({r}) ELSE listing.idx,
               seen |-> listing.seen (+) SetToBag({r})])
  /\ UNCHANGED <<controlVars, responses, manages, ctlLeft>>

forMRID(idx, c) == [r \in {x \in BagToSet(idx) : x.subject = c} |-> idx[r]]

\* The item of a control that has its record.
newDERControlView(c) == [mrid |-> c, status |-> IF ctl[c].cancelled THEN "cancelled" ELSE "live",
                         total |-> BagCardinality(forMRID(listing.idx, c))]

\* The stored controls of the device are read once, then each one's record.
ListControls ==
  /\ listing.at = "counted"
  /\ Lists([at |-> "items", left |-> {c \in Controls : ctl[c].stored}])
  /\ UNCHANGED <<controlVars, responses, manages, ctlLeft>>

\* A control with no record was not issued through these routes.
ListItem ==
  /\ listing.at = "items" /\ listing.left # {}
  /\ LET c == CHOOSE x \in listing.left : TRUE
     IN Lists([left |-> listing.left \ {c},
               items |-> IF ctl[c].lifecycle THEN listing.items \union {newDERControlView(c)} ELSE listing.items])
  /\ UNCHANGED <<controlVars, responses, manages, ctlLeft>>

ListAnswered ==
  /\ listing.at = "items" /\ listing.left = {}
  /\ listing' = NoList
  /\ UNCHANGED <<controlVars, responses, manages, ctlLeft>>
-----------------------------------------------------------------------------
ControlsNext ==
  \/ \E o \in Operators :
       \/ BeginCreate(o) \/ issueInFleet(o) \/ IssueLocks(o) \/ IssueInFleet(o)
       \/ HandleCancel(o) \/ cancelInFleet(o) \/ CancelLocks(o) \/ IssuerCancel(o)
       \/ Answer(o) \/ Finish(o)
  \/ CancelGrant \/ cancelExecutions \/ MarkCancelled \/ Moves
  \/ PostResponse \/ PairChanges
  \/ HandleList \/ ReadSet \/ responseCounts \/ ListControls \/ ListItem \/ ListAnswered \/ ListFails

ControlsSpec == InitControls /\ [][ControlsNext]_ctlVars
-----------------------------------------------------------------------------
(* Properties. *)

\* While a client's cancel of the grant walks the controls that execute it,
\* no operator's cancel changes one of them, although the device may have
\* moved to another fleet since the grant (cancelInFleet takes the lock of the
\* fleet on the control's record as well).  The exceptions are the cancels
\* that could not take it: no ledger, a ledger that failed, or a record that
\* could not be read.
GrantCancelAlone ==
  \A c \in clientCancel.plan : ctl[c].cancelled => c \in unguarded

\* Once its request is answered, every change of a control that devices can
\* see has been followed by a notification of its lists, also when the write
\* failed and could not be undone (incomplete).  The exception is a client
\* that went away while its write failed.
ControlChangesTold ==
  \A c \in unheard : c \in walkedOff \/ \E o \in Operators : work[o].c = c /\ work[o].at = "returned"

\* The counts of one list are of one set of devices: for each device a
\* Response names, all the Responses the list read are counted or none is,
\* although the management pairs may change between the pages
\* (countsDevice asks once).
DevicesCountedWhole ==
  \A d \in Named \union {Self} :
    LET Of(bag) == {r \in BagToSet(bag) : r.named = d}
    IN \/ Of(listing.idx) = {}
       \/ /\ Of(listing.idx) = Of(listing.seen)
          /\ \A r \in Of(listing.seen) : CopiesIn(r, listing.idx) = CopiesIn(r, listing.seen)

\* The operator's controls are accounted for: GrantCancelAlone,
\* ControlChangesTold and DevicesCountedWhole.
ControlsAccounted == GrantCancelAlone /\ ControlChangesTold /\ DevicesCountedWhole
=============================================================================
