-------------------------- MODULE CaptureRecorder ---------------------------
(***************************************************************************)
(* The traffic recorder (pkg/sep2capture recorder.go, attach.go): it cuts  *)
(* what crosses each connection of the protocol server into exchanges at   *)
(* net/http's connection states, and hands the finished ones over one      *)
(* queue to one goroutine that passes them to the sink, until Close.       *)
(*                                                                         *)
(* A request is two chunks, its first byte and the rest.  A client sends   *)
(* its next request once it has the answer to the last (pipelining is a    *)
(* limit the code documents), and that can be before the server has gone   *)
(* idle: net/http's background read then takes the first byte alone.       *)
(***************************************************************************)
EXTENDS Integers, Sequences, FiniteSets, SequencesExt

CONSTANTS
    CapConns,      \* connections
    CapAddrs,      \* remote addresses
    SinkQueue,     \* sinkQueueCapacity
    RecBudgets,    \* bound: how often each thing happens in one behaviour
    NoEx

VARIABLES
    conn,        \* connection -> its recorder and where net/http is with it
    byAddr,      \* address -> the connection's recorder, or NoEx
    nextEx,      \* nextExchangeID
    finished,    \* the queue
    taken,       \* the exchange dispatch has taken, or NoEx
    inFlight,    \* dispatch is in Sink.Record
    intake,      \* "open", "closed"
    closers,     \* steps of Close: "none", "waiting", "drain", "done"
    dispatching, \* the dispatch goroutine runs
    liveConns,   \* the counter
    sink,        \* exchanges the sink was given
    dropped,     \* exchanges counted as dropped
    ended,       \* every exchange with bytes that closed
    rleft        \* what is left of the budget

recVars == <<conn, byAddr, nextEx, finished, taken, inFlight, intake, closers, dispatching, liveConns, sink, dropped, ended, rleft>>
recQueue == <<finished, taken, inFlight, intake, closers, dispatching, sink>>

NewBuilding(id) == [id |-> id, req |-> <<>>, resp |-> <<>>, runs |-> <<>>, err |-> "none"]
NoConn == [pc |-> "none", addr |-> NoEx, current |-> NoEx, carry |-> <<>>, n |-> 0, first |-> FALSE, usurped |-> FALSE]

RecInit ==
    /\ conn = [c \in CapConns |-> NoConn]
    /\ byAddr = [x \in CapAddrs |-> NoEx]
    /\ nextEx = 1 /\ finished = <<>> /\ taken = NoEx /\ inFlight = FALSE
    /\ intake = "open" /\ closers = "none" /\ dispatching = TRUE /\ liveConns = 0
    /\ sink = <<>> /\ dropped = {} /\ ended = {}
    /\ rleft \in RecBudgets

RecSpend(what) == rleft[what] > 0 /\ rleft' = [rleft EXCEPT ![what] = @ - 1]

-----------------------------------------------------------------------------
(* Exchanges *)

recordInbound(b, chunks, isPeek, k) ==
    IF b = NoEx THEN k
    ELSE IF isPeek THEN [k EXCEPT !.carry = @ \o chunks]
    ELSE [k EXCEPT !.current.req = @ \o chunks]

noteError(k, err) == IF k.current = NoEx THEN k ELSE [k EXCEPT !.current.err = err]

\* classify: how an exchange ended.
classify(b) ==
    CASE b.err = "timeout" -> "incomplete"
      [] b.err # "timeout" /\ b.err # "none" /\ (b.runs # <<>> \/ b.resp # <<>>) -> "connection error"
      [] b.err = "none" /\ b.runs # <<>> -> "handled"
      [] b.err = "none" /\ b.runs = <<>> /\ b.resp # <<>> -> "rejected"
      [] OTHER -> "no response"

\* finish and enqueue: an exchange without bytes is no exchange; the queue is
\* never waited for.
finishExchange(c, b, final) ==
    LET ex == [id |-> b.id, conn |-> c, final |-> final, req |-> b.req, resp |-> b.resp, runs |-> b.runs, mark |-> classify(b)]
    IN IF b = NoEx \/ (b.req = <<>> /\ b.resp = <<>>) THEN UNCHANGED <<finished, dropped, ended>>
       ELSE /\ ended' = ended \cup {b.id}
            /\ IF intake = "closed" \/ Len(finished) >= SinkQueue
               THEN dropped' = dropped \cup {b.id} /\ UNCHANGED finished
               ELSE finished' = Append(finished, ex) /\ UNCHANGED dropped

-----------------------------------------------------------------------------
(* A connection, as net/http drives it *)

\* Accept, wrap and StateNew: an address is free once its last connection is
\* gone for the kernel, which the server may not yet have noticed.
AcceptConn(c, x) ==
    /\ RecSpend("accept") /\ conn[c].pc = "none"
    /\ \A d \in CapConns : conn[d].addr = x => conn[d].pc \in {"none", "closed"} \/ conn[d].usurped
    /\ conn' = [conn EXCEPT ![c] = [NoConn EXCEPT !.pc = "read", !.addr = x, !.current = NewBuilding(nextEx), !.n = 1]]
    /\ byAddr' = [byAddr EXCEPT ![x] = c]
    /\ nextEx' = nextEx + 1 /\ liveConns' = liveConns + 1
    /\ UNCHANGED <<recQueue, dropped, ended>>

\* The client's reset: its address may be used again.
PeerReset(c) ==
    /\ RecSpend("reset") /\ conn[c].pc \in {"read", "handle", "wrote"} /\ ~conn[c].usurped
    /\ conn' = [conn EXCEPT ![c].usurped = TRUE]
    /\ UNCHANGED <<byAddr, nextEx, recQueue, liveConns, dropped, ended>>

\* Read: the request, but for a first byte already taken.
ReadRequest(c) ==
    LET k == conn[c]
        chunks == IF k.first THEN <<<<c, k.n, 2>>>> ELSE <<<<c, k.n, 1>>, <<c, k.n, 2>>>>
    IN /\ k.pc = "read" /\ RecSpend("request")
       /\ conn' = [conn EXCEPT ![c] = [recordInbound(k.current, chunks, FALSE, k) EXCEPT !.pc = "handle", !.first = FALSE]]
       /\ UNCHANGED <<byAddr, nextEx, recQueue, liveConns, dropped, ended>>

\* A Read that fails, before a request or within one.
ReadFails(c) ==
    /\ conn[c].pc = "read" /\ RecSpend("fault")
    /\ \E err \in {"timeout", "reset"}, part \in BOOLEAN :
         LET k == conn[c]
             in == IF part /\ ~k.first THEN recordInbound(k.current, <<<<c, k.n, 1>>>>, FALSE, k) ELSE k
         IN conn' = [conn EXCEPT ![c] = [noteError(in, err) EXCEPT !.pc = "closing"]]
    /\ UNCHANGED <<byAddr, nextEx, recQueue, liveConns, dropped, ended>>

\* annotate: the handler's run is noted on the recorder of the address.
RunHandler(c) ==
    LET d == byAddr[conn[c].addr]
        marked == IF d = NoEx \/ conn[d].current = NoEx THEN conn
                  ELSE [conn EXCEPT ![d].current.runs = Append(@, <<c, conn[c].n>>)]
    IN /\ conn[c].pc = "handle"
       /\ conn' = [marked EXCEPT ![c].pc = "run"]
       /\ UNCHANGED <<byAddr, nextEx, recQueue, liveConns, dropped, ended, rleft>>

\* Write: the answer, the handler's or net/http's refusal of the request.
WriteResponse(c) ==
    /\ conn[c].pc \in {"run", "handle"}
    /\ LET k == [conn[c] EXCEPT !.current.resp = Append(@, <<c, conn[c].n, conn[c].pc = "run">>)]
       IN \/ /\ conn' = [conn EXCEPT ![c] = [k EXCEPT !.pc = IF conn[c].pc = "run" THEN "wrote" ELSE "closing"]]
             /\ UNCHANGED rleft
          \/ /\ RecSpend("fault")
             /\ conn' = [conn EXCEPT ![c] = [noteError(conn[c], "reset") EXCEPT !.pc = "closing"]]
    /\ UNCHANGED <<byAddr, nextEx, recQueue, liveConns, dropped, ended>>

\* The background read takes the first byte of the next request.
PeekByte(c) ==
    /\ conn[c].pc = "wrote" /\ ~conn[c].first /\ rleft["request"] > 0
    /\ conn' = [conn EXCEPT ![c] = [recordInbound(conn[c].current, <<<<c, conn[c].n + 1, 1>>>>, TRUE, conn[c]) EXCEPT !.first = TRUE]]
    /\ UNCHANGED <<byAddr, nextEx, recQueue, liveConns, dropped, ended, rleft>>

\* The carried byte stays with the exchange that ends.
rolloverKeeping(c) ==
    LET k == conn[c]
    IN /\ k.pc = "wrote"
       /\ conn' = [conn EXCEPT ![c] = [k EXCEPT !.pc = "read", !.n = @ + 1, !.current = NewBuilding(nextEx), !.carry = <<>>]]
       /\ nextEx' = nextEx + 1
       /\ finishExchange(c, [k.current EXCEPT !.req = @ \o k.carry], FALSE)
       /\ UNCHANGED <<byAddr, taken, inFlight, intake, closers, dispatching, sink, liveConns, rleft>>

\* rollover at StateIdle: the next exchange begins with the byte held back.
rollover(c) ==
    LET k == conn[c]
    IN /\ k.pc = "wrote"
       /\ conn' = [conn EXCEPT ![c] = [k EXCEPT !.pc = "read", !.n = @ + 1, !.carry = <<>>,
                                         !.current = [NewBuilding(nextEx) EXCEPT !.req = k.carry]]]
       /\ nextEx' = nextEx + 1
       /\ finishExchange(c, k.current, FALSE)
       /\ UNCHANGED <<byAddr, taken, inFlight, intake, closers, dispatching, sink, liveConns, rleft>>

\* StateClosed: closeFinal, forget and the count.
CloseConn(c) ==
    LET k == conn[c]
        b == [k.current EXCEPT !.req = @ \o k.carry]
    IN /\ k.pc \in {"closing", "wrote"} \/ (k.pc = "read" /\ k.current.req = <<>>)
       /\ conn' = [conn EXCEPT ![c] = [k EXCEPT !.pc = "closed", !.current = NoEx, !.carry = <<>>]]
       /\ byAddr' = IF byAddr[k.addr] = c THEN [byAddr EXCEPT ![k.addr] = NoEx] ELSE byAddr
       /\ liveConns' = liveConns - 1
       /\ finishExchange(c, b, TRUE)
       /\ UNCHANGED <<nextEx, taken, inFlight, intake, closers, dispatching, sink, rleft>>

-----------------------------------------------------------------------------
(* dispatch and Close *)

dispatch ==
    /\ dispatching
    /\ \/ /\ taken = NoEx /\ finished # <<>>
          /\ taken' = Head(finished) /\ finished' = Tail(finished) /\ UNCHANGED <<inFlight, sink, dropped, dispatching, rleft>>
       \/ /\ taken # NoEx /\ ~inFlight /\ inFlight' = TRUE /\ UNCHANGED <<taken, finished, sink, dropped, dispatching, rleft>>
       \/ /\ taken # NoEx /\ inFlight
          /\ \/ sink' = Append(sink, taken) /\ UNCHANGED <<dropped, rleft>>
             \/ RecSpend("fault") /\ dropped' = dropped \cup {taken.id} /\ UNCHANGED sink
          /\ taken' = NoEx /\ inFlight' = FALSE /\ UNCHANGED <<finished, dispatching>>
       \/ /\ taken = NoEx /\ finished = <<>> /\ intake = "closed"
          /\ dispatching' = FALSE /\ UNCHANGED <<taken, finished, inFlight, sink, dropped, rleft>>
    /\ UNCHANGED <<conn, byAddr, nextEx, intake, closers, liveConns, ended>>

\* Close waits for the connections, or its deadline passes (a timeout).
CloseWaits ==
    /\ closers = "none" /\ RecSpend("close")
    /\ closers' = "waiting"
    /\ UNCHANGED <<conn, byAddr, nextEx, finished, taken, inFlight, intake, dispatching, liveConns, sink, dropped, ended>>

waitLiveZero ==
    /\ closers = "waiting"
    /\ \/ liveConns = 0 /\ UNCHANGED rleft
       \/ liveConns > 0 /\ RecSpend("timeout")
    /\ intake' = "closed" /\ closers' = "drain"
    /\ UNCHANGED <<conn, byAddr, nextEx, finished, taken, inFlight, dispatching, liveConns, sink, dropped, ended>>

\* What the queue still holds is let go uncounted.
drainUncounted ==
    /\ closers = "drain"
    /\ \/ ~dispatching /\ UNCHANGED <<finished, dropped, rleft>>
       \/ /\ dispatching /\ RecSpend("timeout")
          /\ finished' = <<>>
          /\ dropped' = dropped \cup (IF inFlight THEN {taken.id} ELSE {})
    /\ closers' = "none"
    /\ UNCHANGED <<conn, byAddr, nextEx, taken, inFlight, intake, dispatching, liveConns, sink, ended>>

\* drainRemaining: at the deadline what is queued and what Sink.Record has not
\* returned is counted.
drainRemaining ==
    /\ closers = "drain"
    /\ \/ ~dispatching /\ UNCHANGED <<finished, dropped, rleft>>
       \/ /\ dispatching /\ RecSpend("timeout")
          /\ finished' = <<>>
          /\ dropped' = dropped \cup {finished[i].id : i \in DOMAIN finished}
                                \cup (IF inFlight THEN {taken.id} ELSE {})
    /\ closers' = "none"
    /\ UNCHANGED <<conn, byAddr, nextEx, taken, inFlight, intake, dispatching, liveConns, sink, ended>>

RecNext ==
    \/ \E c \in CapConns : \/ \E x \in CapAddrs : AcceptConn(c, x)
                           \/ PeerReset(c) \/ ReadRequest(c) \/ ReadFails(c) \/ RunHandler(c)
                           \/ WriteResponse(c) \/ PeekByte(c) \/ rollover(c) \/ CloseConn(c)
    \/ dispatch \/ CloseWaits \/ waitLiveZero \/ drainRemaining

-----------------------------------------------------------------------------
\* An exchange that reaches the sink is one request and what answered it: its
\* bytes in order and none of another's, but for a byte read ahead of a request
\* that never came to be, at the connection's end; its handler's run is on it
\* alone, and it is marked by who answered (recordInbound, rollover, annotate,
\* classify).  A handler that runs when the client has reset the connection and
\* its address is in use again is noted on the new connection.
ExchangeIsOne ==
    \A i \in DOMAIN sink :
        LET ex == sink[i]
            ahead == ex.final /\ Len(ex.req) > 1 /\ ex.req[Len(ex.req)][3] = 1
            own == IF ahead THEN Front(ex.req) ELSE ex.req
            whose == {<<own[j][1], own[j][2]>> : j \in DOMAIN own}
        IN /\ \A j \in DOMAIN own : own[j][3] = j
           /\ Cardinality(whose) = 1
           /\ \A j \in DOMAIN ex.resp : Len(own) = 2 /\ <<ex.resp[j][1], ex.resp[j][2]>> \in whose
           /\ (\A c \in CapConns : ~conn[c].usurped) =>
                 /\ Range(ex.runs) \subseteq whose
                 /\ ex.mark = "handled" => \A j \in DOMAIN ex.resp : ex.resp[j][3]
                 /\ ex.mark = "rejected" => \A j \in DOMAIN ex.resp : ~ex.resp[j][3]

\* Close's promise: every exchange with bytes that closes, before or after
\* Close, is passed to the sink or counted as dropped, or on its way to it,
\* and the sink sees none twice (finish, dispatch, drainRemaining).
EveryExchangeCounted ==
    /\ ended = dropped \cup {sink[i].id : i \in DOMAIN sink} \cup {finished[i].id : i \in DOMAIN finished}
                      \cup (IF taken = NoEx THEN {} ELSE {taken.id})
    /\ \A i, j \in DOMAIN sink : i # j => sink[i].id # sink[j].id
-----------------------------------------------------------------------------
(***************************************************************************)
(* The listener that finishes TLS handshakes off the accept loop           *)
(* (pkg/sep2capture listener.go): a goroutine accepts, one goroutine per   *)
(* connection shakes hands and offers it to Accept, and Close ends them    *)
(* all.                                                                    *)
(***************************************************************************)

CONSTANTS
    Peers,        \* connections that arrive
    ListenFaults  \* bound: temporary and fatal errors of the inner listener

VARIABLES
    peer,       \* connection -> "out", "shaking", "offered", "served", "closed"
    acceptLoop, \* "running", "error" (a temporary error to hand on), "stopped"
    caller,     \* the server's Accept: "idle", "waiting", "holding" (a connection), "told" (an error), "over"
    accepted,   \* the connections Accept has received and not returned
    listenCtx,  \* "live", "cancelled" by Close, "closed" when Close has returned
    lfaults

listenVars == <<peer, acceptLoop, caller, accepted, listenCtx, lfaults>>

ListenInit ==
    /\ peer = [p \in Peers |-> "out"] /\ acceptLoop = "running" /\ caller = "idle" /\ accepted = {}
    /\ listenCtx = "live" /\ lfaults \in 0..ListenFaults

\* acceptLoop: a connection gets its own goroutine; a temporary error is for
\* the caller, any other ends the loop, as does Close.
InnerAccept(p) ==
    /\ acceptLoop = "running" /\ peer[p] = "out" /\ listenCtx = "live"
    /\ peer' = [peer EXCEPT ![p] = "shaking"]
    /\ UNCHANGED <<acceptLoop, caller, accepted, listenCtx, lfaults>>
InnerFails ==
    /\ acceptLoop = "running"
    /\ \/ lfaults > 0 /\ lfaults' = lfaults - 1 /\ acceptLoop' \in {"error", "stopped"}
       \/ listenCtx # "live" /\ acceptLoop' = "stopped" /\ UNCHANGED lfaults
    /\ UNCHANGED <<peer, caller, accepted, listenCtx>>
HandOnError ==
    /\ acceptLoop = "error"
    /\ \/ caller = "waiting" /\ caller' = "told" /\ acceptLoop' = "running"
       \/ listenCtx # "live" /\ acceptLoop' = "stopped" /\ UNCHANGED caller
    /\ UNCHANGED <<peer, accepted, listenCtx, lfaults>>

\* handshake: refused and closed, or offered until Accept takes it or Close
\* cancels.
Handshake(p) ==
    /\ peer[p] = "shaking"
    /\ peer' = [peer EXCEPT ![p] = IF listenCtx = "live" THEN "offered" ELSE "closed"]
    /\ UNCHANGED <<acceptLoop, caller, accepted, listenCtx, lfaults>>
HandshakeFails(p) ==
    /\ peer[p] = "shaking"
    /\ peer' = [peer EXCEPT ![p] = "closed"]
    /\ UNCHANGED <<acceptLoop, caller, accepted, listenCtx, lfaults>>

\* The connection offered when Close cancels is let go.
OfferForgotten(p) ==
    /\ peer[p] = "offered"
    /\ \/ /\ caller = "waiting" /\ caller' = "holding" /\ accepted' = {p} /\ peer' = [peer EXCEPT ![p] = "taken"]
       \/ /\ listenCtx # "live" /\ peer' = [peer EXCEPT ![p] = "dangling"] /\ UNCHANGED <<caller, accepted>>
    /\ UNCHANGED <<acceptLoop, listenCtx, lfaults>>

Offer(p) ==
    /\ peer[p] = "offered"
    /\ \/ /\ caller = "waiting" /\ caller' = "holding" /\ accepted' = {p} /\ peer' = [peer EXCEPT ![p] = "taken"]
       \/ /\ listenCtx # "live" /\ peer' = [peer EXCEPT ![p] = "closed"] /\ UNCHANGED <<caller, accepted>>
    /\ UNCHANGED <<acceptLoop, listenCtx, lfaults>>

\* Accept: waits; a connection received once Close has cancelled is closed.
CallAccept ==
    /\ caller \in {"idle", "told"}
    /\ caller' = "waiting"
    /\ UNCHANGED <<peer, acceptLoop, accepted, listenCtx, lfaults>>
ReturnConn ==
    /\ caller = "holding"
    /\ peer' = [p \in Peers |-> IF p \in accepted THEN IF listenCtx = "live" THEN "served" ELSE "closed" ELSE peer[p]]
    /\ caller' = (IF listenCtx = "live" THEN "idle" ELSE "over") /\ accepted' = {}
    /\ UNCHANGED <<acceptLoop, listenCtx, lfaults>>
ReturnStopped ==
    /\ caller = "waiting" /\ acceptLoop = "stopped"
    /\ caller' = "over"
    /\ UNCHANGED <<peer, acceptLoop, accepted, listenCtx, lfaults>>

\* Close: cancels, closes the inner listener and waits for the goroutines.
CancelListen ==
    /\ listenCtx = "live"
    /\ listenCtx' = "cancelled"
    /\ UNCHANGED <<peer, acceptLoop, caller, accepted, lfaults>>
CloseReturns ==
    /\ listenCtx = "cancelled" /\ acceptLoop = "stopped"
    /\ \A p \in Peers : peer[p] \notin {"shaking", "offered"}
    /\ listenCtx' = "closed"
    /\ UNCHANGED <<peer, acceptLoop, caller, accepted, lfaults>>

ListenNext ==
    \/ \E p \in Peers : InnerAccept(p) \/ Handshake(p) \/ HandshakeFails(p) \/ Offer(p)
    \/ InnerFails \/ HandOnError \/ CallAccept \/ ReturnConn \/ ReturnStopped \/ CancelListen \/ CloseReturns

-----------------------------------------------------------------------------
\* Once Close has returned and the caller's Accept with it, every connection
\* the listener accepted was served or is closed: none dangles, whichever of
\* the cancel and the hand-over came first (handshake, Accept, Close).
NoConnDangles ==
    listenCtx = "closed" /\ caller # "holding" => \A p \in Peers : peer[p] \in {"out", "served", "closed"}
=============================================================================
