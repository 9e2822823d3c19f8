---------------------------- MODULE AdminPanels -----------------------------
(***************************************************************************)
(* Extension panels of the admin plane (internal/adminplane panels.go and  *)
(* panel_actions.go, pkg/sep2admin): a request calls embedder code in a    *)
(* goroutine, waits for it until a deadline, and may answer before it has  *)
(* returned or even started.  Plane.Close ends the plane and reports how   *)
(* many action Run calls are still executing.                              *)
(*                                                                         *)
(* A request has two processes: its handler, and the goroutine InvokeView  *)
(* starts.  They share the flags started, entered and counted.             *)
(***************************************************************************)
EXTENDS Integers, FiniteSets, Sequences, SequencesExt

CONSTANTS
    Panels,        \* names of panels
    PanelShapes,   \* what embedders offer to register
    Fields,        \* fields of an action
    Requests,      \* concurrent requests
    ActionBurst,   \* actionBurst
    PanelBudgets   \* bound: requests of each kind, faults, late clocks

ASSUME PanelConstants ==
    /\ ActionBurst \in Nat
    /\ \A b \in PanelBudgets : DOMAIN b = {"get", "choices", "actions", "action", "fault", "refill"}

VARIABLES
    panel,         \* panel -> its shape once registered
    frozen,        \* the registry is frozen: the plane serves
    busy,          \* panel -> its busy flag
    tokens,        \* tokens in the action bucket
    req,           \* request -> handler, goroutine and what they share
    runs,          \* ActionTracker
    stopped,       \* streamsDone is closed
    closeGot,      \* what Plane.Close returned; -1 before
    panelLeft      \* what the scenario has left

panelVars == <<panel, frozen, busy, tokens, req, runs, stopped, closeGot, panelLeft>>

Unregistered == [id |-> "none", view |-> FALSE, page |-> FALSE, picker |-> "none", actions |-> <<>>]

\* at: the handler; fn: the goroutine; ran: what the action's Run came to.
NoRequest == [kind |-> "none", panel |-> "none", at |-> "idle", fn |-> "none", started |-> FALSE,
              entered |-> FALSE, counted |-> FALSE, ctxDone |-> FALSE, skipped |-> FALSE,
              invalid |-> FALSE, failed |-> FALSE, ran |-> "no", answer |-> "none"]

SpendPanel(what) == panelLeft[what] > 0 /\ panelLeft' = [panelLeft EXCEPT ![what] = @ - 1]

InitPanels ==
    /\ panel = [p \in Panels |-> Unregistered] /\ frozen = FALSE
    /\ busy = [p \in Panels |-> FALSE] /\ tokens = ActionBurst
    /\ req = [r \in Requests |-> NoRequest]
    /\ runs = 0 /\ stopped = FALSE /\ closeGot = -1
    /\ panelLeft \in PanelBudgets

-----------------------------------------------------------------------------
\* The registry.

\* The identifier is a slug that is no core tab and no path segment.
validateID(shape) == shape.id = "slug"

\* Every action is well formed, and no two share an identifier.
validateActions(shape) == \A i, j \in DOMAIN shape.actions : shape.actions[i] = shape.actions[j] => i = j

\* A picker has both of its functions.
ValidPicker(shape) == shape.picker \in {"none", "whole"}

Register(p, shape) ==
    /\ ~ frozen /\ panel[p] = Unregistered
    /\ validateID(shape) /\ (shape.view # shape.page) /\ ValidPicker(shape) /\ validateActions(shape)
    /\ panel' = [panel EXCEPT ![p] = shape]
    /\ UNCHANGED <<frozen, busy, tokens, req, runs, stopped, closeGot, panelLeft>>

\* Freeze, and the panel set built from it.
Freeze ==
    /\ ~ frozen /\ \E p \in Panels : panel[p] # Unregistered /\ frozen' = TRUE
    /\ UNCHANGED <<panel, busy, tokens, req, runs, stopped, closeGot, panelLeft>>

-----------------------------------------------------------------------------
\* Requests.

lookup(p) == frozen /\ panel[p] # Unregistered

\* run: the busy flag, then InvokeView.  A request whose context is done is
\* refused by InvokeView before the goroutine, and settle clears the flag.
RunAs(r, kind, p, counted) ==
    IF busy[p]
    THEN /\ req' = [req EXCEPT ![r] = [NoRequest EXCEPT !.kind = kind, !.panel = p, !.at = "returned",
                                       !.answer = "busy", !.counted = counted]]
         /\ UNCHANGED busy
    ELSE /\ req' = [req EXCEPT ![r] = [NoRequest EXCEPT !.kind = kind, !.panel = p, !.at = "waiting",
                                       !.fn = "spawned", !.counted = counted]]
         /\ busy' = [busy EXCEPT ![p] = TRUE]

handleGet(r, p) ==
    /\ req[r].at = "idle" /\ lookup(p) /\ panel[p].view /\ SpendPanel("get")
    /\ RunAs(r, "get", p, FALSE)
    /\ UNCHANGED <<panel, frozen, tokens, runs, stopped, closeGot>>

handleChoices(r, p) ==
    /\ req[r].at = "idle" /\ lookup(p) /\ panel[p].picker = "whole" /\ SpendPanel("choices")
    /\ RunAs(r, "choices", p, FALSE)
    /\ UNCHANGED <<panel, frozen, tokens, runs, stopped, closeGot>>

\* The token bucket; a token comes back with time.
allow == tokens > 0

Refill ==
    /\ tokens < ActionBurst /\ SpendPanel("refill")
    /\ tokens' = tokens + 1
    /\ UNCHANGED <<panel, frozen, busy, req, runs, stopped, closeGot>>

handleActions(r, p) ==
    /\ req[r].at = "idle" /\ lookup(p) /\ panel[p].actions # <<>> /\ ~ stopped /\ allow /\ SpendPanel("actions")
    /\ tokens' = tokens - 1
    /\ RunAs(r, "actions", p, FALSE)
    /\ UNCHANGED <<panel, frozen, runs, stopped, closeGot>>

\* handleAction up to the parsing of the body, which may take any time.
handleAction(r, p) ==
    /\ req[r].at = "idle" /\ lookup(p) /\ panel[p].actions # <<>> /\ ~ stopped /\ allow /\ SpendPanel("action")
    /\ tokens' = tokens - 1
    /\ req' = [req EXCEPT ![r] = [NoRequest EXCEPT !.kind = "action", !.panel = p, !.at = "body"]]
    /\ UNCHANGED <<panel, frozen, busy, runs, stopped, closeGot>>

\* The body cannot be read.
readActionBody(r) ==
    /\ req[r].at = "body" /\ SpendPanel("fault")
    /\ req' = [req EXCEPT ![r].at = "done", ![r].answer = "invalid"]
    /\ UNCHANGED <<panel, frozen, busy, tokens, runs, stopped, closeGot>>

\* A body names some fields, perhaps one twice, with literals of some fields
\* that are of their kind.
Bodies == [names : SUBSET (Fields \cup {"another"}), twice : BOOLEAN, typed : SUBSET Fields]

\* decodeObject: an object in which no name comes twice.
decodeObject(body) == ~ body.twice

\* Parse: exactly the fields of the action, each with a literal of its kind.
Parse(body) == decodeObject(body) /\ body.names = Fields /\ body.typed = Fields

refuseInvalid(r, body) ==
    /\ req[r].at = "body" /\ ~ Parse(body)
    /\ req' = [req EXCEPT ![r].at = "done", ![r].answer = "invalid"]
    /\ UNCHANGED <<panel, frozen, busy, tokens, runs, stopped, closeGot, panelLeft>>

runActionUncounted(r, body) ==
    /\ req[r].at = "body" /\ Parse(body)
    /\ UNCHANGED runs
    /\ RunAs(r, "action", req[r].panel, FALSE)
    /\ UNCHANGED <<panel, frozen, tokens, stopped, closeGot, panelLeft>>

\* runAction up to run: the call is counted before it can start.
runAction(r, body) ==
    /\ req[r].at = "body" /\ Parse(body)
    /\ runs' = runs + 1
    /\ RunAs(r, "action", req[r].panel, TRUE)
    /\ UNCHANGED <<panel, frozen, tokens, stopped, closeGot, panelLeft>>

-----------------------------------------------------------------------------
\* The goroutine.

\* oneAtATime: whichever of the view and settle is first takes the flag.
ViewStarts(r) ==
    /\ req[r].fn = "spawned"
    /\ req' = [req EXCEPT ![r].fn = IF req[r].started THEN "returned" ELSE "starting", ![r].started = TRUE]
    /\ UNCHANGED <<panel, frozen, busy, tokens, runs, stopped, closeGot, panelLeft>>

\* The first statement of the action's closure.
ViewEnters(r) ==
    /\ req[r].fn = "starting"
    /\ req' = [req EXCEPT ![r].fn = "checking", ![r].entered = TRUE]
    /\ UNCHANGED <<panel, frozen, busy, tokens, runs, stopped, closeGot, panelLeft>>

Returned(r, rec) ==
    /\ req' = [req EXCEPT ![r] = [rec EXCEPT !.fn = "returned", !.counted = FALSE]]
    /\ busy' = [busy EXCEPT ![req[r].panel] = FALSE]
    /\ runs' = IF req[r].counted THEN runs - 1 ELSE runs

\* A view answers, fails or panics.
ViewReturns(r) ==
    /\ req[r].fn = "checking" /\ req[r].kind # "action"
    /\ Returned(r, req[r])
    /\ UNCHANGED <<panel, frozen, tokens, stopped, closeGot, panelLeft>>

\* CheckChoices refuses a value, or fails.
CheckChoices(r) ==
    /\ req[r].fn = "checking" /\ req[r].kind = "action" /\ SpendPanel("fault")
    /\ \E bad \in BOOLEAN : Returned(r, [req[r] EXCEPT !.invalid = bad, !.failed = ~ bad])
    /\ UNCHANGED <<panel, frozen, tokens, stopped, closeGot>>

\* The last look before Run: the request's context and the plane.
MayRun(r) == ~ req[r].ctxDone /\ ~ stopped

SkipClosing(r) ==
    /\ req[r].fn = "checking" /\ req[r].kind = "action" /\ ~ MayRun(r)
    /\ Returned(r, [req[r] EXCEPT !.skipped = TRUE])
    /\ UNCHANGED <<panel, frozen, tokens, stopped, closeGot, panelLeft>>

RunStarts(r) ==
    /\ req[r].fn = "checking" /\ req[r].kind = "action" /\ MayRun(r)
    /\ req' = [req EXCEPT ![r].fn = "running", ![r].ran = "started"]
    /\ UNCHANGED <<panel, frozen, busy, tokens, runs, stopped, closeGot, panelLeft>>

\* Run returns, refuses, fails or panics.
RunReturns(r) ==
    /\ req[r].fn = "running"
    /\ \E out \in {"ok", "refused", "failed"} :
           Returned(r, [req[r] EXCEPT !.ran = out, !.failed = (out = "failed")])
    /\ UNCHANGED <<panel, frozen, tokens, stopped, closeGot, panelLeft>>

-----------------------------------------------------------------------------
\* The handler's wait.

\* The deadline passes, the client goes, or the plane stops.
ContextEnds(r) ==
    /\ req[r].at = "waiting" /\ ~ req[r].ctxDone
    /\ \/ stopped /\ req[r].kind = "action" /\ UNCHANGED panelLeft
       \/ SpendPanel("fault")
    /\ req' = [req EXCEPT ![r].ctxDone = TRUE]
    /\ UNCHANGED <<panel, frozen, busy, tokens, runs, stopped, closeGot>>

\* InvokeView returns, by the result or by the context.
InvokeView(r) ==
    /\ req[r].at = "waiting"
    /\ \/ /\ req[r].fn = "returned" /\ req[r].entered
          /\ req' = [req EXCEPT ![r].at = "settle", ![r].answer = "result"]
       \/ /\ req[r].ctxDone
          /\ req' = [req EXCEPT ![r].at = "settle", ![r].answer = "unknown"]
    /\ UNCHANGED <<panel, frozen, busy, tokens, runs, stopped, closeGot, panelLeft>>

\* settle: a view that has not started never will.
settle(r) ==
    /\ req[r].at = "settle"
    /\ req' = [req EXCEPT ![r].at = "returned", ![r].started = TRUE]
    /\ busy' = IF req[r].started THEN busy ELSE [busy EXCEPT ![req[r].panel] = FALSE]
    /\ UNCHANGED <<panel, frozen, tokens, runs, stopped, closeGot, panelLeft>>

\* What the handler tells the client.
AnswerOf(q) ==
    IF q.skipped THEN "stopping"
    ELSE IF q.answer # "result" THEN q.answer
    ELSE IF q.failed THEN "failed"
    ELSE IF q.invalid THEN "invalid"
    ELSE IF q.ran = "refused" THEN "refused" ELSE "ok"

\* The answer, and the deferred release of a call that was not entered.
Answer(r) ==
    /\ req[r].at = "returned"
    /\ LET release == req[r].counted /\ ~ req[r].entered IN
       /\ req' = [req EXCEPT ![r].at = "done", ![r].answer = AnswerOf(req[r]),
                             ![r].counted = req[r].counted /\ ~ release]
       /\ runs' = IF release THEN runs - 1 ELSE runs
    /\ UNCHANGED <<panel, frozen, busy, tokens, stopped, closeGot, panelLeft>>

\* The plane.
CloseStreams ==
    /\ frozen /\ ~ stopped /\ stopped' = TRUE
    /\ UNCHANGED <<panel, frozen, busy, tokens, req, runs, closeGot, panelLeft>>

\* Plane.Close looks at the count until it is zero or the wait is over.
PlaneClose ==
    /\ stopped /\ closeGot = -1
    /\ closeGot' = runs
    /\ UNCHANGED <<panel, frozen, busy, tokens, req, runs, stopped, panelLeft>>

PanelsNext ==
    \/ \E p \in Panels, shape \in PanelShapes : Register(p, shape)
    \/ Freeze \/ Refill \/ CloseStreams \/ PlaneClose
    \/ \E r \in Requests, p \in Panels :
          handleGet(r, p) \/ handleChoices(r, p) \/ handleActions(r, p) \/ handleAction(r, p)
    \/ \E r \in Requests, body \in Bodies : refuseInvalid(r, body) \/ runAction(r, body)
    \/ \E r \in Requests :
          \/ readActionBody(r) \/ ViewStarts(r) \/ ViewEnters(r) \/ ViewReturns(r)
          \/ CheckChoices(r) \/ SkipClosing(r) \/ RunStarts(r) \/ RunReturns(r)
          \/ ContextEnds(r) \/ InvokeView(r) \/ settle(r) \/ Answer(r)

-----------------------------------------------------------------------------
\* Plane.Close answers zero only when no action is executing and none will
\* start: the count covers a Run from before it can begin until it returns,
\* although a handler may give its count back while the goroutine is on its
\* way in, and a request may pass the first shutdown check before the close.
ZeroMeansQuiet ==
    /\ closeGot = 0 => \A r \in Requests : req[r].fn # "running"
    /\ \A r \in Requests : req[r].fn = "running" => req[r].counted
    /\ runs = Cardinality({r \in Requests : req[r].counted})

\* A definite answer is true: an action answered as refused by the plane
\* (busy, invalid, stopping) was not and will not be run, one answered with
\* its own outcome has it, and only "unknown" leaves it open.
AnswersAreTrue ==
    \A r \in Requests : (req[r].kind = "action" /\ req[r].at = "done") =>
        /\ req[r].answer \in {"busy", "invalid", "stopping"} => req[r].ran = "no"
        /\ req[r].answer = "ok" => req[r].ran = "ok"
        /\ req[r].answer = "refused" => req[r].ran = "refused"

\* One call per panel at a time, and a panel with no call is not left busy.
PanelsFreed ==
    \A p \in Panels :
        LET inside == {r \in Requests : req[r].panel = p /\ req[r].fn \in {"starting", "checking", "running"}}
            pending == {r \in Requests : req[r].panel = p /\ req[r].fn = "spawned" /\ ~ req[r].started}
        IN Cardinality(inside \cup pending) = IF busy[p] THEN 1 ELSE 0

\* What the plane says of an action and what became of it agree: in the count
\* Plane.Close returns, in the answer to its request, and in the panel's mark.
ActionsAccounted == ZeroMeansQuiet /\ AnswersAreTrue /\ PanelsFreed
-----------------------------------------------------------------------------
(***************************************************************************)
(* The dashboard's device columns (internal/adminplane/dashboard.go): each *)
(* page asks every column source, embedder code that may hang, fail or     *)
(* change its columns.  A source has one call at a time; pages share it,   *)
(* wait for it until their own deadline, and fall back on what the source  *)
(* last answered once the call is older than the bound.                    *)
(***************************************************************************)

CONSTANTS
    Sources,          \* number of column sources
    Pages,            \* pages being collected at once
    ColumnLists,      \* what Columns() may answer: sequences of identifiers
    MaxSourceCalls,   \* bound: calls of a source
    MaxPages,         \* bound: pages collected
    MaxSourceFaults   \* bound: failed calls, passed deadlines

ASSUME ColumnConstants == {Sources, MaxSourceCalls, MaxPages, MaxSourceFaults} \subseteq Nat

VARIABLES
    cur,        \* source -> its call in flight, or NoCall
    last,       \* source -> columns and cells last answered
    calls,      \* source -> calls made so far
    page,       \* page -> what it waits for and has
    shown,      \* pages shown so far: the columns of each, oldest first
    logged,     \* problems logged and still present
    faultsLeft  \* what the scenario has left

columnVars == <<cur, last, calls, page, shown, logged, faultsLeft>>

\* old: the call is past the bound.  asked: what Columns() answered in it.
NoCall == [n |-> 0, old |-> FALSE, asked |-> <<>>, started |-> FALSE]
NoAnswer == [cols |-> <<>>, from |-> 0, err |-> "none"]
NoPage == [at |-> "idle", waits |-> [i \in 1..Sources |-> 0], res |-> [i \in 1..Sources |-> NoAnswer], since |-> 0]

InitColumns ==
    /\ cur = [i \in 1..Sources |-> NoCall] /\ last = [i \in 1..Sources |-> NoAnswer]
    /\ calls = [i \in 1..Sources |-> 0] /\ page = [p \in Pages |-> NoPage]
    /\ shown = <<>> /\ logged = {} /\ faultsLeft = MaxSourceFaults

Fault == faultsLeft > 0 /\ faultsLeft' = faultsLeft - 1

-----------------------------------------------------------------------------
\* collectData reaches fillColumns, which starts a call per source.
fillStarts(p) ==
    /\ page[p].at = "idle" /\ Len(shown) + Cardinality({q \in Pages : page[q].at = "asking"}) < MaxPages
    /\ page' = [page EXCEPT ![p] = [NoPage EXCEPT !.at = "asking", !.since = Len(shown)]]
    /\ UNCHANGED <<cur, last, calls, shown, logged, faultsLeft>>

Pending(p, i) == page[p].at = "asking" /\ page[p].res[i] = NoAnswer /\ page[p].waits[i] = 0

\* call when the source is being called: its last answer if the call is old,
\* else a wait for it.
callBusy(p, i) ==
    /\ Pending(p, i) /\ cur[i] # NoCall
    /\ page' = IF cur[i].old THEN [page EXCEPT ![p].res[i] = [last[i] EXCEPT !.err = "busy"]]
               ELSE [page EXCEPT ![p].waits[i] = cur[i].n]
    /\ UNCHANGED <<cur, last, calls, shown, logged, faultsLeft>>

\* call when it is not: a new call, in a goroutine.
callStarts(p, i) ==
    /\ Pending(p, i) /\ cur[i] = NoCall /\ calls[i] < MaxSourceCalls
    /\ calls' = [calls EXCEPT ![i] = @ + 1]
    /\ cur' = [cur EXCEPT ![i] = [NoCall EXCEPT !.n = calls'[i]]]
    /\ page' = [page EXCEPT ![p].waits[i] = calls'[i]]
    /\ UNCHANGED <<last, shown, logged, faultsLeft>>

\* Columns() answers inside the call.
ColumnsAsked(i, cols) ==
    /\ cur[i] # NoCall /\ ~ cur[i].started
    /\ cur' = [cur EXCEPT ![i].asked = cols, ![i].started = TRUE]
    /\ UNCHANGED <<last, calls, page, shown, logged, faultsLeft>>

Bound(i) ==
    /\ cur[i] # NoCall /\ ~ cur[i].old /\ Fault
    /\ cur' = [cur EXCEPT ![i].old = TRUE]
    /\ UNCHANGED <<last, calls, page, shown, logged>>

\* A result is kept only if the call succeeded; it goes to every page that
\* waits for this call.
Told(i, answer) ==
    page' = [p \in Pages |-> IF page[p].waits[i] = cur[i].n /\ cur[i].n > 0 /\ page[p].res[i] = NoAnswer
                             THEN [page[p] EXCEPT !.res[i] = answer, !.waits[i] = 0] ELSE page[p]]

CellsAnswerUnkept(i) ==
    /\ cur[i] # NoCall /\ cur[i].started
    /\ UNCHANGED last
    /\ Told(i, [cols |-> cur[i].asked, from |-> cur[i].n, err |-> "ok"])
    /\ cur' = [cur EXCEPT ![i] = NoCall]
    /\ UNCHANGED <<calls, shown, logged, faultsLeft>>

CellsAnswer(i) ==
    /\ cur[i] # NoCall /\ cur[i].started
    /\ last' = [last EXCEPT ![i] = [cols |-> cur[i].asked, from |-> cur[i].n, err |-> "ok"]]
    /\ Told(i, last'[i])
    /\ cur' = [cur EXCEPT ![i] = NoCall]
    /\ UNCHANGED <<calls, shown, logged, faultsLeft>>

\* Cells() fails, or the source panics.
CellsFail(i) ==
    /\ cur[i] # NoCall /\ Fault
    /\ Told(i, [cols |-> cur[i].asked, from |-> 0, err |-> "failed"])
    /\ cur' = [cur EXCEPT ![i] = NoCall]
    /\ UNCHANGED <<last, calls, shown, logged>>

\* wait: the page's own deadline passes first.
waitEnds(p, i) ==
    /\ page[p].at = "asking" /\ page[p].waits[i] > 0 /\ Fault
    /\ page' = [page EXCEPT ![p].waits[i] = 0,
                            ![p].res[i] = [cols |-> cur[i].asked, from |-> 0, err |-> "late"]]
    /\ UNCHANGED <<cur, last, calls, shown, logged>>

-----------------------------------------------------------------------------
\* fillColumns once every source has answered.

\* An identifier the page accepts ("bad" stands for the ones it does not).
validColumnID(id) == id # <<"bad">>
placeholderID(i) == <<"source", i>>

\* One source's columns after those before it: identifiers already on the
\* page and malformed ones are problems.
Accepted(before, cols) ==
    FoldLeft(LAMBDA acc, id : IF validColumnID(id) /\ id \notin Range(acc) /\ id \notin before
                              THEN Append(acc, id) ELSE acc, <<>>, cols)

SourceColumns(before, i, res) ==
    LET mine == Accepted(before, res.cols)
        problem == Len(mine) < Len(res.cols)
    IN IF mine = <<>>
       THEN << [id |-> placeholderID(i), source |-> i, from |-> res.from, err |-> res.err] >>
       ELSE [j \in DOMAIN mine |-> [id |-> mine[j], source |-> i, from |-> res.from,
                                    err |-> IF problem /\ res.err = "ok" THEN "problem" ELSE res.err]]

uniqueColumnIDs(cols) == {c.id : c \in Range(cols)}

fillColumns(res) ==
    FoldLeft(LAMBDA cols, i : cols \o SourceColumns(uniqueColumnIDs(cols), i, res[i]), <<>>,
             [i \in 1..Sources |-> i])

\* logOnce adds what is present and new; clearLogged drops what is not.
logOnce(seen, failing) == seen \cup failing
clearLogged(seen, failing) == seen \cap failing

PageShown(p) ==
    /\ page[p].at = "asking" /\ \A i \in 1..Sources : page[p].res[i] # NoAnswer
    /\ shown' = Append(shown, [cols |-> fillColumns(page[p].res), since |-> page[p].since])
    /\ LET failing == {i \in 1..Sources : page[p].res[i].err \in {"failed", "late"}}
       IN logged' = clearLogged(logOnce(logged, failing), failing)
    /\ page' = [page EXCEPT ![p] = NoPage]
    /\ UNCHANGED <<cur, last, calls, faultsLeft>>

ColumnsNext ==
    \/ \E p \in Pages : fillStarts(p) \/ PageShown(p)
    \/ \E p \in Pages, i \in 1..Sources : callBusy(p, i) \/ callStarts(p, i) \/ waitEnds(p, i)
    \/ \E i \in 1..Sources : Bound(i) \/ CellsAnswer(i) \/ CellsFail(i)
    \/ \E i \in 1..Sources, cols \in ColumnLists : ColumnsAsked(i, cols)

-----------------------------------------------------------------------------
\* A page never goes back: if it was begun after another page was shown, no
\* source's cells on it are of an earlier call than on that page, also when
\* it falls back on what the source answered last because a call hangs.
PagesGoForward ==
    \A j, k \in DOMAIN shown : (j <= shown[k].since) =>
        \A c \in Range(shown[j].cols), d \in Range(shown[k].cols) :
            (c.source = d.source /\ c.from > 0 /\ d.err \in {"ok", "problem", "busy"}) => d.from >= c.from

\* Every page has a column of every source, so that a failure has a place to
\* be told, and no two of its columns share an identifier, whatever the
\* sources answer and however many share a name.
EverySourceShown ==
    \A k \in DOMAIN shown : LET cols == shown[k].cols IN
        /\ {c.source : c \in Range(cols)} = 1..Sources
        /\ \A i, j \in DOMAIN cols : cols[i].id = cols[j].id => i = j

\* Pages collected at once, over sources that hang or fail, show every source
\* and never an older answer than a page before them.
ColumnsKeepUp == PagesGoForward /\ EverySourceShown
-----------------------------------------------------------------------------
(***************************************************************************)
(* Event streams of extension panels (internal/adminplane panel_stream.go, *)
(* internal/ssedeadline): a request opens a stream in embedder code, which *)
(* keeps a send function and may call it from anywhere, at any time, also  *)
(* after the request has gone.  A bounded queue lies between the two.  The *)
(* number of open streams is limited; a slot has two owners, the handler   *)
(* and the Open call, and the last of them to finish frees it.             *)
(***************************************************************************)

CONSTANTS
    Streams,         \* requests for a stream
    MaxOpen,         \* maxOpenPanelStreams
    QueueEvents,     \* maxStreamQueueEvents
    EventIds,        \* bound: event IDs are 1..EventIds
    StreamBudgets    \* bound: resends, invalid events, faults

ASSUME StreamConstants ==
    /\ {MaxOpen, QueueEvents, EventIds} \subseteq Nat
    /\ \A b \in StreamBudgets : DOMAIN b = {"resend", "invalid", "fault"}

VARIABLES
    handlerOf,    \* stream -> where its handler is
    opening,      \* stream -> where its Open call is
    startedBy,    \* stream -> who won the started flag
    owners,       \* stream -> owners of its slot
    openStreams,  \* streams counted as open
    queue,        \* stream -> its streamQueue
    source,       \* stream -> IDs the embedder has produced for its reader, in order
    reader,       \* stream -> IDs the reader has received, and the final status
    deadline,     \* stream -> the write deadline in force
    streamsOver,  \* streamsDone is closed
    streamLeft    \* what the scenario has left

streamVars == <<handlerOf, opening, startedBy, owners, openStreams, queue, source, reader, deadline,
                streamsOver, streamLeft>>

SpendStream(what) == streamLeft[what] > 0 /\ streamLeft' = [streamLeft EXCEPT ![what] = @ - 1]

newStreamQueue(after) == [frames |-> <<>>, lastID |-> after, end |-> "open", shut |-> FALSE, ready |-> FALSE]

InitStreams ==
    /\ handlerOf = [s \in Streams |-> "idle"] /\ opening = [s \in Streams |-> "none"]
    /\ startedBy = [s \in Streams |-> "nobody"] /\ owners = [s \in Streams |-> 0] /\ openStreams = 0
    /\ queue = [s \in Streams |-> newStreamQueue(0)]
    /\ source = [s \in Streams |-> <<>>] /\ reader = [s \in Streams |-> [got |-> <<>>, last |-> "none"]]
    /\ deadline = [s \in Streams |-> "none"]
    /\ streamsOver = FALSE /\ streamLeft \in StreamBudgets

-----------------------------------------------------------------------------
\* The queue.

\* finishLocked: the stream is over, and what was queued is dropped.
finishLocked(q, text) == [q EXCEPT !.end = text, !.frames = <<>>, !.ready = TRUE]

\* An event the embedder may not send: no ID, no time, an unknown kind, or
\* text that cannot be encoded.
encodeStreamEvent(ev) == ev.valid

sendEvent(q, ev) ==
    IF q.shut \/ q.end # "open" \/ ev.id <= q.lastID THEN q
    ELSE IF ~ encodeStreamEvent(ev) THEN finishLocked(q, "invalid event")
    ELSE IF Len(q.frames) >= QueueEvents THEN finishLocked(q, "too slow")
    ELSE [q EXCEPT !.frames = Append(@, ev.id), !.lastID = ev.id, !.ready = TRUE]

take(q) == [q EXCEPT !.frames = <<>>, !.ready = FALSE]

shutQueue(q) == [q EXCEPT !.shut = TRUE, !.frames = <<>>]

\* The embedder sends: the next event, an earlier one again, or an invalid
\* one.  It has the function from the moment Open is called.
Send(s, id, valid) ==
    /\ opening[s] \in {"inside", "returned", "failed"}
    /\ LET next == IF source[s] = <<>> THEN 1 ELSE Last(source[s]) + 1 IN
       /\ id <= next
       /\ \/ valid /\ id = next /\ UNCHANGED streamLeft
          \/ valid /\ id < next /\ SpendStream("resend")
          \/ ~ valid /\ id = next /\ SpendStream("invalid")
       /\ source' = IF id = next THEN [source EXCEPT ![s] = Append(@, id)] ELSE source
    /\ queue' = [queue EXCEPT ![s] = sendEvent(@, [id |-> id, valid |-> valid])]
    /\ UNCHANGED <<handlerOf, opening, startedBy, owners, openStreams, reader, deadline, streamsOver>>

-----------------------------------------------------------------------------
\* Slots.

\* free: the last owner to go gives the slot back.
free(s, n) ==
    /\ owners' = [owners EXCEPT ![s] = @ - n]
    /\ openStreams' = IF owners[s] = n THEN openStreams - 1 ELSE openStreams

\* The parameter is valid: one value, of the stream's own syntax.
parseStreamParam(param) == param = "valid"

\* handleStream up to Open.  The slot is counted first and compared after,
\* so a request over the limit holds one for a moment.
handleStream(s, param, after) ==
    /\ handlerOf[s] = "idle" /\ parseStreamParam(param) /\ ~ streamsOver
    /\ openStreams' = openStreams + 1
    /\ IF openStreams' > MaxOpen
       THEN handlerOf' = [handlerOf EXCEPT ![s] = "over"] /\ UNCHANGED <<opening, owners, queue, source>>
       ELSE /\ handlerOf' = [handlerOf EXCEPT ![s] = "opening"]
            /\ opening' = [opening EXCEPT ![s] = "spawned"]
            /\ owners' = [owners EXCEPT ![s] = 2]
            /\ queue' = [queue EXCEPT ![s] = newStreamQueue(after)]
            /\ source' = [source EXCEPT ![s] = [i \in 1..after |-> i]]
    /\ UNCHANGED <<startedBy, reader, deadline, streamsOver, streamLeft>>

\* A request over the limit gives its count back.
TooMany(s) ==
    /\ handlerOf[s] = "over"
    /\ openStreams' = openStreams - 1
    /\ handlerOf' = [handlerOf EXCEPT ![s] = "gone"]
    /\ UNCHANGED <<opening, startedBy, owners, queue, source, reader, deadline, streamsOver, streamLeft>>

-----------------------------------------------------------------------------
\* The Open call, in a goroutine of its own.

OpenStarts(s) ==
    /\ opening[s] = "spawned"
    /\ IF startedBy[s] = "nobody"
       THEN startedBy' = [startedBy EXCEPT ![s] = "open"] /\ opening' = [opening EXCEPT ![s] = "inside"]
       ELSE opening' = [opening EXCEPT ![s] = "never"] /\ UNCHANGED startedBy
    /\ UNCHANGED <<handlerOf, owners, openStreams, queue, source, reader, deadline, streamsOver, streamLeft>>

\* Open returns, well or with an error; its deferred free.
OpenReturns(s) ==
    /\ opening[s] = "inside"
    /\ \/ opening' = [opening EXCEPT ![s] = "returned"] /\ UNCHANGED streamLeft
       \/ opening' = [opening EXCEPT ![s] = "failed"] /\ SpendStream("fault")
    /\ free(s, 1)
    /\ UNCHANGED <<handlerOf, startedBy, queue, source, reader, deadline, streamsOver>>

\* The handler returns: its deferred close of the queue and its free.
Leave(s, n) == free(s, n) /\ handlerOf' = [handlerOf EXCEPT ![s] = "gone"]

openStreamForgets(s) ==
    /\ handlerOf[s] = "opening"
    /\ IF opening[s] = "returned"
       THEN handlerOf' = [handlerOf EXCEPT ![s] = "serving"]
            /\ UNCHANGED <<startedBy, owners, openStreams, queue, streamLeft>>
       ELSE /\ IF opening[s] = "failed" THEN UNCHANGED streamLeft ELSE SpendStream("fault")
            /\ startedBy' = [startedBy EXCEPT ![s] = IF @ = "nobody" THEN "handler" ELSE @]
            /\ Leave(s, 1)
            /\ queue' = [queue EXCEPT ![s] = shutQueue(@)]
    /\ UNCHANGED <<opening, source, reader, deadline, streamsOver>>

\* openStream: Open has answered, or the wait for it is over and an Open that
\* has not started never will; then the handler frees its slot for it.
openStream(s) ==
    /\ handlerOf[s] = "opening"
    /\ IF opening[s] = "returned"
       THEN handlerOf' = [handlerOf EXCEPT ![s] = "serving"]
            /\ UNCHANGED <<startedBy, owners, openStreams, queue, streamLeft>>
       ELSE /\ IF opening[s] = "failed" THEN UNCHANGED streamLeft ELSE SpendStream("fault")
            /\ startedBy' = [startedBy EXCEPT ![s] = IF @ = "nobody" THEN "handler" ELSE @]
            /\ Leave(s, IF startedBy[s] = "nobody" THEN 2 ELSE 1)
            /\ queue' = [queue EXCEPT ![s] = shutQueue(@)]
    /\ UNCHANGED <<opening, source, reader, deadline, streamsOver>>

-----------------------------------------------------------------------------
\* serveStream.

\* Extend: the long deadline, or the grace once the plane is closing.
Extend(closing) == IF closing THEN "grace" ELSE "write"

\* Watch notices the end of the plane and shortens the deadline of a write
\* that may be under way.
Watch(s) ==
    /\ handlerOf[s] = "serving" /\ streamsOver /\ deadline[s] # "grace"
    /\ deadline' = [deadline EXCEPT ![s] = Extend(TRUE)]
    /\ UNCHANGED <<handlerOf, opening, startedBy, owners, openStreams, queue, source, reader, streamsOver, streamLeft>>

\* The queue is ready: its frames are written, and the final status if it is
\* over.  A failed write loses the rest of what was taken.
Deliver(s) ==
    /\ handlerOf[s] = "serving" /\ queue[s].ready
    /\ LET frames == queue[s].frames
           over == queue[s].end # "open"
       IN \E n \in 0..Len(frames) :
          /\ IF n = Len(frames) THEN UNCHANGED streamLeft ELSE SpendStream("fault")
          /\ reader' = [reader EXCEPT ![s].got = @ \o SubSeq(frames, 1, n),
                                      ![s].last = IF over /\ n = Len(frames) THEN queue[s].end ELSE @]
          /\ deadline' = [deadline EXCEPT ![s] = Extend(deadline[s] = "grace")]
          /\ IF n < Len(frames) \/ over
             THEN Leave(s, 1) /\ queue' = [queue EXCEPT ![s] = shutQueue(take(@))]
             ELSE UNCHANGED <<handlerOf, owners, openStreams>> /\ queue' = [queue EXCEPT ![s] = take(@)]
    /\ UNCHANGED <<opening, startedBy, source, streamsOver>>

\* The client goes, or a keep-alive cannot be written.
ReaderGone(s) ==
    /\ handlerOf[s] = "serving" /\ SpendStream("fault")
    /\ Leave(s, 1) /\ queue' = [queue EXCEPT ![s] = shutQueue(@)]
    /\ UNCHANGED <<opening, startedBy, source, reader, deadline, streamsOver>>

\* The plane stops: a last status, without what is still queued.
ServingStops(s) ==
    /\ handlerOf[s] = "serving" /\ streamsOver
    /\ reader' = [reader EXCEPT ![s].last = "shutting down"]
    /\ Leave(s, 1) /\ queue' = [queue EXCEPT ![s] = shutQueue(@)]
    /\ UNCHANGED <<opening, startedBy, source, deadline, streamsOver, streamLeft>>

StopStreams ==
    /\ ~ streamsOver /\ streamsOver' = TRUE
    /\ UNCHANGED <<handlerOf, opening, startedBy, owners, openStreams, queue, source, reader, deadline, streamLeft>>

StreamsNext ==
    \/ StopStreams
    \/ \E s \in Streams, after \in 0..1 : handleStream(s, "valid", after)
    \/ \E s \in Streams, id \in 1..EventIds, valid \in BOOLEAN : Send(s, id, valid)
    \/ \E s \in Streams :
          \/ TooMany(s) \/ OpenStarts(s) \/ OpenReturns(s) \/ openStream(s)
          \/ Watch(s) \/ Deliver(s) \/ ReaderGone(s) \/ ServingStops(s)

-----------------------------------------------------------------------------
\* A slot is held exactly as long as the handler or embedder code is inside
\* the stream, whichever of them is last and whoever wins the started flag;
\* so a stuck Open keeps its slot, and no exit of the handler leaks one.
SlotsAreHeld ==
    openStreams = Cardinality({s \in Streams :
        \/ handlerOf[s] \in {"over", "opening", "serving"}
        \/ opening[s] = "inside"})

\* A reader sees a gapless run of the events after its Last-Event-ID, each
\* once: nothing is dropped or repeated in the middle, and events that could
\* not be queued end the stream with a status the reader is told.
StreamHasNoHole ==
    \A s \in Streams : LET got == reader[s].got IN
        /\ got # <<>> => \A i \in DOMAIN got : got[i] = Head(got) + i - 1
        /\ got # <<>> => Head(got) \in {1, 2}
        /\ (queue[s].frames # <<>> /\ got # <<>>) => Head(queue[s].frames) = Last(got) + 1
        /\ handlerOf[s] = "serving" /\ queue[s].end = "open" =>
              queue[s].lastID = IF source[s] = <<>> THEN 0 ELSE Last(source[s])

\* A stream neither leaks its slot nor loses an event it does not tell of.
StreamsAccounted == SlotsAreHeld /\ StreamHasNoHole
=============================================================================
