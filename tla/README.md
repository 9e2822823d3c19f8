# Verification of the IEEE 2030.5 server

This directory holds TLA+ models of the server's stateful parts, the TLC
configurations that check them on small instances, and TLAPS proofs about five
of them for every instance. Every definition that models code is listed with
its source lines in `PROJECT.json` under `map`.

## The system and its modules

The server (`cmd/sep2server`, `internal/server`) runs a protocol listener for
devices and an admin listener for operators over one set of stores. The stores
are in memory, with a snapshot file or a journal behind each when a data
directory is set. What makes them hard is that a handler is several store
writes, any of which may fail, that handlers run concurrently, and that the
process may stop between any two writes.

| Part | Code | Modules |
|---|---|---|
| Answering a flow reservation request | `internal/flowreservation` queue, answers, cancel, recover; `pkg/store/memory/flowreservationbinding.go` | `FlowReservationQueue` |
| Commitments of a fleet, revision, cancel, repair | `internal/commitment` ledger, operations; `internal/flowreservation` revise, cancel, recover | `CommitmentLedger`, abstract `FleetCalendar` |
| Windows and bounds of a grant | `internal/interval`, `internal/commitment` window, magnitude, fitsgrant; admin answer bodies | `Window`, `GrantDecision` |
| Operators and devices on reservations, retention | `internal/handler/admin_flowreservation*.go`, `internal/flowreservation/retention.go` | `ReservationDesk` |
| Issuing DER controls | `internal/dercontrol` | `DERControlIssuer`, `ControlDesk`, `ControlTimeline` |
| FSAs, program templates and their copies, grid requests | `internal/fsaprogram`, `internal/handler/admin_fsa*.go`, `admin_derprogram*.go`, `admin_grid*.go` | `ProgramCopies`, `GridDesk`, `FsaStore` |
| Stores | `pkg/store/memory`, `internal/jsonl`, `internal/atomicfile` | `JournaledStore`, `SnapshotStores`, `FsaStore`, `StatusSince`, `DeviceStores` |
| Devices | `pkg/sep2srv/handlers/enddevice`, `pkg/sep2srv/assembly` | `DeviceRegistry`, `DeviceStores` |
| Subscriptions | `pkg/sep2srv/handlers/subscription`, `pkg/store/memory/subscription*.go` | `Subscriptions` |
| Metering and power | `pkg/sep2srv/handlers/metering`, `internal/mirrorretention`, `internal/handler` power | `Mirrors`, `PowerHistory`, `PowerCharts` |
| Logs and traffic capture | `pkg/sep2srv/devicelog`, `pkg/sep2capture` | `DeviceLog`, `Mirrors` (denials), `CaptureRecorder`, `CaptureStore` |
| Admin plane | `internal/adminplane`, `internal/auth`, `pkg/sep2admin` | `AdminPanels`, `AdminAccess` |
| HELICS federate | `internal/helics` | `Federate` |
| Process | `internal/server`, `internal/config`, `internal/bootfixture`, `cmd/sep2server` | `ServerLife`, `BootFixture`, `AdminKeyFile` |
| Protocol routes | `pkg/sep2srv/assembly`, `internal/auth/acl.go` | `ProtocolRouter` |

`PROJECT.json` lists every part under `components`, the ones that are not
modelled too, with the reason.

### How a module corresponds to its code

A variable is a store, a lock, a counter or the position of a goroutine. An
action is what a goroutine does between two accesses to something shared: a
store call outside a lock is a step of its own, a critical section is one step.
A failing store write is an alternative of the step, paid for from a bounded
budget (`MaxFaults`, or a `...Budgets` record). Payloads are model values or
members of small sets. A crash forgets what is in memory and keeps what was
written.

Where one component calls another that has a module of its own, the caller's
module has the call as one step with every result it can have. `ReservationDesk`
does so with the ledger's work on controls (the builds of an answer, a revision's
store and mark, and the reads of a list are steps of their own there), `ControlDesk` and `GridDesk` with the issuer,
`ControlTimeline` with both writers, `Mirrors` with the reading store.
`FlowReservationQueue` and `CommitmentLedger` split the flow reservation
service at the first answer: the first has the race for that answer in full and
any later change as one step of the ledger, the second starts from an answer
that is there.

`CommitmentLedger` is shown to implement `FleetCalendar`, in which a fleet's
slots are held by requests and by plain dispatches, one holder a slot, and one
party at a time changes what it holds. The mapping takes for a request the
slots of its live grants and for the dispatches the slots of the controls in
force that execute no grant.

Definitions marked `Mutant` (and those named in `PROJECT.json` under `mutants`)
are variants of the definition that follows them with a plausible mistake. No
specification uses them. Each property is shown to fail for at least one.

## The runs

Runs that cover several components choose one of them in the initial state
(`acting`); the others rest in one initial state. The components of such a run
share no variable, so this explores each of them whole and none of their
product. Where the run is about interaction the components are in one module.

| Run | Module, configuration | Properties |
|---|---|---|
| `queue` | `MCFlowReservationQueue` | `ResponseNeverReplaced`: a stored answer is never replaced. `CancelSettles`: a client's cancel that returned success leaves no live grant. `RequestIsKept`: a stored request has a timer, a thread or a reported failure; only a failing store uses up the attempts. |
| `queue_live` | `FlowReservationQueue` | `EveryRequestAnswered`: every stored request is answered in the end. |
| `ledger` | `MCCommitmentLedger` | `NeverDoubleBooked`, `ExecutionsHaveLiveGrant`, `ChainsAreOrderly`, `RecoveryCancelsWithdrawn`, and `KeepsCalendar`, the refinement. |
| `ledger_live` | `CommitmentLedger` | `EveryCallEnds`: every revision, cancel and recovery returns. |
| `controls` | `MCControls` | `UndoIsWhole`: an error of the issuer leaves nothing behind, a stored control has its lifecycle record, a mark names a stored control. `IssuerIsOrderly`: one control of a function set in force, no control in a retired scope, no ring of waiting calls. `CancelStays`. `ControlsAccounted`: what an operator is told and what devices and fleets were locked, notified and counted agree. `TimelineIsTrue`: the timeline shows each control once, as whose it is. `FiguresAreTrue`: every second of delivered power is counted once and served fresh. |
| `stores` | `MCStores` | `JournalKeeps`: a restart or a power loss keeps what was answered, batches whole, floors honest. `SnapshotKeeps`: an answered write is in the file, indexes agree, undone writes are not read. `FsaStoreKept`. `SinceIsTrue`. |
| `devices` | `MCDevices` | `RegistryIsTrue`: no foreign Registration, no second record for an identity, a failed delete gives back what it held, pair maps agree. `SubscriptionsKept`: indexes, file and owner agree. `ShutdownEnds`. |
| `telemetry` | `MCTelemetry` | `ReadingsKept`: a reading keeps its type through sweeps, compactions and restarts, and none is inherited. `PowerIsKept`: no bucket is skipped, repeated or changed. `LogsAreWhole`: numbers go up, lines keep their order, a page leaves nothing out, every denial is told. `TrafficIsWhole`: connections, exchanges, files and streams are all accounted for. |
| `desk` | `MCDesk` | `CopiesAccounted`: copies follow their template or the remainder was reported. `GridIsOrderly`: blocks apart, caps kept, one control reaches every device of the fleet the batch read. `ReservationsAccounted`: a record and a row name who answered though builds overlap; an answered request reads as pending only when it was swept between the two reads; a sweep leaves no orphan. `DecisionsFit`: grants within requests and executions within grants at every second, at the ends of the integer range as well. |
| `plane` | `MCPlane` | `FederateIsOrderly`: no call on a freed handle. `PanelsAccounted`, `ColumnsKeepUp`. `AccessIsBounded`: a session ends at the first of its two deadlines, a ticket is spent once and opens no minting, page write, action or stream, and the loopback address alone opens reads that are not sensitive and the adding of a device. |
| `server` | `MCServer` | `ServesWhole`: nothing is closed under a request still using it. `SignalEnds`. `FixtureIsKept`, `OneAdminKey`, `RoutesAreTrue`. |
| `issuer_batch_mark` | `DERControlIssuer` | `MarkedAtEarliest` is violated; see below. |

Deadlock is not checked: every model has states in which nothing is left to do
(requests answered, budgets spent, the server stopped). Progress is stated as
liveness or, for the issuer's locks, as the invariant `LocksPass`.

### Bounds

Each bound is a named constant in the `.cfg`. They are the smallest at which
the cases that matter occur, and every action of every module fires in some
run.

* Queue: one operator beside client, fallback and recovery gives every pair of
  racing answers; two attempts give a retry and a last one; two faults let an
  undo fail; one restart gives recovery after each prefix.
* Ledger: two slots give disjoint, touching and equal windows. A chain of three
  is needed for a repair with more than one older grant, two executions for a
  relink that fails half way, two revisers for a stale tip. The four scenes
  have one of these each.
* Issuer: three controls are a superseded one, its successor and one more; two
  scopes and two callers are a ring; two faults fail a write and its undo.
* Stores: two writers and two keys; one fault and one crash, so that each
  follows the other in both orders.
* Devices: three identities, two of them with one SFDI, and four keys, so that
  a key can be reused after a restart; one failing write, or two, so that the
  undo of a failed delete fails as well.
* Telemetry: two series and a cap of one reading, with a compaction cut into its
  snapshot, its staged file and its commit beside a sweep, posts and a restart;
  a log of three earlier lines in two files, so that a backward scan stops early;
  four exchanges over three units of disk and two of the index, so that both
  evict, also under an open stream. Devices, series and requests are symmetric.
* Ledger, liveness: two grants and three controls are enough for a revision, a
  cancel and a recovery to wait for one another; two faults fail a step and its
  undo, one crash starts the recovery.
* Desk: each reservation scenario has a budget of answers, deadlines, revisions,
  cancels, PUTs, reads, sweeps, faults, crashes and departures, so that two
  builds of one request overlap, alone and beside a fault or a crash, and a read
  is cut by an answer, a delete or a sweep. The clock does not pass a build of a
  request that was answered already: the grace of a sweep is 900 s or more
  (`internal/config/config.go:31`).
* Plane: three scenarios of admin access. Four calls of one session pass both of
  its deadlines; three calls with tickets mint, spend and try again on each kind
  of route; one call of every kind of caller reaches every kind of route.
* Numeric limits are kept small and symbolic: `IntMax` for the width of an
  integer, `MaxMultiplier` for the code's `maxFRMultiplier` of 9, `QueueEvents`,
  `SinkQueue`, `ActionBurst` and the like for the lengths of queues.

### Fairness

* `FlowReservationQueue.FairSpec`: goroutines run on (weak fairness of each
  thread's steps and of a due timer), and a `sync.Mutex` does not starve a
  waiter (strong fairness of the steps that take a lock). Go's scheduler is
  preemptive and its mutex has a starvation mode. Nothing is assumed of
  clients, operators, faults, crashes or shutdown.
* `CommitmentLedger.FairSpec`: the same for recovery, cancel and revision; a
  cancel and a revision compete for the fleet lock, hence strong fairness.
* `Subscriptions`: each request and worker goes on, and the context is
  cancelled in the end; `ShutdownEnds` is about what follows.
* `ServerLife`: Run's own goroutine goes on, and a handler of the protocol
  listener and a scrape of the metrics answer: both only read memory. Nothing is assumed of admin requests: `ShutAdmin` waits for
  them with a bound.
## What is proved

TLAPS checks the theorems for every value of the constants: any number of
requests, controls, scopes, operators and windows, chains of any length, and any
number of faults, deletes, crashes and restarts. `PROJECT.json` lists them under
`theorems`. Each inductive invariant was first checked by TLC on the small
instance of its run.

* `Window`: what `Overlaps`, `Within` and `ClipAt` mean in seconds, for
  every integer width, and that a window whose end wraps conflicts with none.
* `FlowReservationQueueProofs`: `TypeCorrect`, `AnsweredOnce`
  (`ResponseNeverReplaced`), `CancelSettled` (`CancelSettles`) and
  `RequestStaysInHand` (`RequestIsKept`). The cancel needs an invariant over the
  client's position: from the step at which it found an answer until it
  returns, each grant is either marked or the one it is about to cancel. That a
  request is never forgotten needs `KeepInv`: a build that is about to stop the
  timer, or reports anything but a failure, knows that the request is over. That
  the fallback gives up only after a fault needs `RaceInv`: while no store has
  failed, a build loses its answer record only to a build that answers the
  request.
* `LedgerInvariant`, `LedgerRevisionProofs`, `LedgerRecoveryProofs`,
  `CommitmentLedgerProofs`: `LedgerRule` (`NeverDoubleBooked`),
  `NoOrphanedExecution` (`ExecutionsHaveLiveGrant`), `ChainsAreWhole`,
  `NoStrayMark` and `ImplementsCalendar` (`KeepsCalendar`). None of these is
  inductive. `LedgerInv` adds that an mRID is minted once, that a chain has no
  gap and a denial only at its end, that one thread is inside the fleet lock,
  and, for each step of a revision, a cancel and a repair, which executions in
  force can still name the response that is about to be marked or deleted. The
  refinement follows from it: each step changes the holdings of one party, and
  after each step holdings are apart. `OneLiveGrant` (`ChainsAreOrderly`) and
  `WithdrawnHoldNothing` (`RecoveryCancelsWithdrawn`) need a second invariant,
  `Repaired`: while serving, a request has at most one live grant or is the one
  being revised, and then only the grant replaced and the new one are live;
  during recovery the same holds of every request the walk has passed.
  `PassesSuffice` says that the bound on the repair's passes never cuts one
  short: a chain with two live responses is no longer than the passes left.
* `DERControlIssuerProofs`: `CancelNeverLost` (`CancelStays`), and `NoLockRing`
  and `RetiredScopesRest`, the conjuncts `LocksPass` and `RetiredHasNoLive` of
  `IssuerIsOrderly`. The invariant `IssuerInv` says what a call may hold at each
  of its steps. It owns exactly the scopes it has locked, and they precede the
  ones it still wants; so the holder of the greatest scope anyone waits for
  cannot itself be waiting. Every copy it may still write, mark, revert or
  delete lies in a scope it owns, whose program is stored or was taken back, and
  neither the lifecycle records it read and may write back nor the stored ones
  they would replace are cancelled: a cancel takes the same lock. The proof has
  one lemma per action, and each uses that the step touches only scopes its
  caller owns, so the hands of other callers stay as they were.
* `AdminKeyFile`: `SharedKey` (`OneAdminKey`). `OneCreator` adds that `O_EXCL`
  lets one starter at a time be between creating the file and closing it, and
  that what it has written is what the path holds; so a failed write takes away
  an empty file, from which nobody has read a key.

The assumptions are those the modules name. `LedgerAssumption` and
`QueueAssumption` say that the bounds are natural numbers, that a granted window
is not empty and that thread names differ. `IssuerAssumption` says that scopes
are finitely many keys in an order (numbers stand for them), that a control sent
names at least one target, lasts at least a second and has a function set, as
`prepareItem` demands, and that no caller has the name of the free lock.
`KeyFileConstants` says that the bound is a natural number. TLC evaluates them
in every run.

Only model-checked:

* the liveness properties (fairness and `ENABLED` are out of the prover's
  reach), and what the recursive operators compute (induction over data is too);
* of the issuer, `OneInForce` and `UndoIsWhole`: both depend on which marks each
  later copy of a batch planned against and on the order of the units of an
  undo, an invariant over the whole history of a call that TLC covers to the
  bound of its run;
* the stores, devices, telemetry, desk, admin plane and the server's life, to
  the bounds their runs name.

## Where code and comments differ

The run `issuer_batch_mark` shows one: a batch of two controls that both replace
an older one leaves the older one's mark at the later start, though
`internal/dercontrol/lifecycle.go:100` says "earliest". The finding is in
`PROJECT.json`.

These were met while modelling. The properties above are stated so that they
hold beside them:

* `internal/flowreservation/cancel.go:226`: a cancel passes over a member that
  was a denial when the chain was walked. If that denial is undone and another
  revision is stored under its id, the cancel returns success with the new
  grant live (`cancel.go:120`: "CancelGrants cancels every live grant").
* `internal/commitment/operations.go:434`: a repair that rolls back relinks
  executions to an older grant without checking that they fit it
  (`internal/dercontrol/link.go:87` says that the caller has checked).
* `internal/flowreservation/answers.go:112`: of two overlapping builds the one
  that loses may have written its answer record over the winner's. The record
  names the loser until it is taken back, and for good when that fails, a crash
  comes first or a third attempt's record is met. `AnswererIsTrue` allows these.
* `internal/handler/admin_flowreservation.go:450` and `:504`, and
  `internal/flowreservation/notify.go:141`: requests and responses are read one
  after the other with no lock. A request swept in between shows as pending, and
  a row whose response was deleted, its id used again, before its record is read
  may name another answerer.
* `internal/flowreservation/flowreservation.go:163`: an interval whose end wraps
  past the largest integer is taken to lie within any window it starts in. Such a
  grant covers no second, so nothing runs under it and it conflicts with none;
  `DecisionsFit` excepts its end.
* `internal/handler/admin_grid_requests.go:226` and `admin_fsa_fleet.go:21`: the
  fleet is read before the controls are reconciled. A device paired in between
  is without the batch's controls until the next start; `GridIsOrderly` is about
  the devices that were read.
* `internal/flowreservation/queue.go:607`: Close waits for fallbacks and not
  for answers of operators, which may still write after it has returned.
* `pkg/store/memory/flowreservationbinding.go:329` and `:350`: a request put
  back by a failed delete may be without its timer, and a response may be
  created after the cascade took the responses.
* `pkg/store/memory/flowreservationbinding.go:333`: the undo of a failed delete
  writes each record back on its own, and a write that fails loses the record
  (`persistent_scoped.go:381` says that the log is then its only trace).
  `HeldOrRestored` excepts those records.
* `internal/handler/admin_fsa_membership.go:149`: the rollback of a failed
  assignment removes a copy without `Retire` (`:205` says why it is used).
* `internal/fsaprogram/copy.go:233`: the program store keeps a record whose
  snapshot failed, and the undo deletes only the parts whose write succeeded.
* `internal/handler/admin_control_events.go:241` says that a copy of an FSA's
  control "is left to fsaEvents". `pkg/store/memory/admin_fsa.go:559` drops the
  FSA's records with their template and `internal/dercontrol/retire.go:24` keeps
  the copies, so a past control is then shown once for each device, as the
  device's own. `CopiesAreNotOwn` allows this after the delete of the template
  only.
* `pkg/store/memory/registration_persistence.go:218`: a record created anew
  between the two steps of a Delete is missing from the next snapshot.
  `SnapshotKeeps` excepts the keys this race reached.
* `internal/handler/reading_journal.go:123`: after a compaction an untyped
  reading may take its type from a reading only memory holds, and a sweep may
  keep that one and drop a journaled one. A reading posted between the snapshot
  and the commit of a compaction (`pkg/store/memory/journaled_scoped.go:335`) is
  carried over, its type only if the snapshot kept it. `SeriesKeepsType` excepts
  the readings these reached.
* `pkg/sep2srv/devicelog/reader.go:25`: a backward scan stops `readSkew` below
  the page's oldest line. A line that trails its neighbours by more, as one
  parked behind a slow lookup can, may be missing from the page; `PagesComplete`
  excepts it.
* `pkg/sep2capture/handler_sse.go:88`: an exchange published after the
  subscription and evicted before the history is read reaches the client late,
  after exchanges that followed it. `StreamHasNoGap` allows this order for
  evicted exchanges only.
* `pkg/sep2srv/devicelog/writer.go:503`: a parked line is written with its
  arrival time, after later lines; a client that follows may skip it.
* `pkg/store/memory/subscription.go:106`: a sweep that finds nothing in memory
  writes no snapshot, so what an earlier failed write left in the file returns
  at a restart.
* `internal/server/server.go:650`: when the protocol listener itself fails, Run
  leaves without draining it.
* `pkg/store/memory/dercontrol_persistence.go:340`: a read beside a write may
  show a record that is then rolled back.
* `docs/commitments.md:94` says that requests and responses do not persist;
  `internal/server/server.go:242` persists them when `SEP2_DATA_DIR` is set.

## Abstractions and what is not modelled

* Bodies, headers, certificates, XML and JSON are model values; where a
  conversion decides something (a multiplier, a wrapped window, a bounded
  duration) it is modelled by what it does.
* A store operation succeeds durably or fails with no effect, except in the
  modules about the stores, which have torn lines, failed replacements and
  power loss.
* Queue: one request; the ledger's own check may refuse any grant.
* Ledger: one fleet; each control on a device of its own, so that controls do
  not supersede one another here (they do in `DERControlIssuer`); power and
  energy are in `GrantDecision`.
* Issuer: checks of fleet and commitment may refuse any plan; a replication is
  to one scope; calls with no device are left out.
* Devices: letter case and profile names are abstracted; restarts happen when
  no request is running; one step for each store write; the records of a device
  in one flow reservation store are one value, kept or lost together.
* Program copies: the delete cascade of a device is one step; the copies of a
  deleted device are left out of `CopiesAccounted`, since nothing removes them.
* Capture: pipelined requests are left out, sizes are counted in records.
* Timeline: membership of an FSA does not change; windows lie in the future, or
  are over before the template is deleted.
* Admin access: cookies and redirects are a refusal; the tables, the clock and
  the order of the gates are kept.
* `ServerLife` has the limits that relate settings, not the parsing of each.
* Admin key: a write of the key file succeeds whole or leaves an empty file; a
  write cut off in the middle of the key is not modelled.
* Routes: the gate of a route is looked up and then applied, and the start
  refuses a route with no gate; which methods a handler answers is its own.
* Not modelled: certificate generation, pages and views without state, the load
  generator, metrics, discovery and the encoding of resources. `components`
  says why for each.
