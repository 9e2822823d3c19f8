------------------------------ MODULE CaptureStore ------------------------------
(***************************************************************************)
(* The store of captured exchanges (pkg/sep2capture store.go,              *)
(* segment_writer.go, index.go, store_reader.go, handler_sse.go): one      *)
(* goroutine appends records to segment files, evicting the oldest for     *)
(* room on disk and in the index, then indexes and publishes each; readers *)
(* fetch an exchange and follow the stream, resuming where they were.      *)
(*                                                                         *)
(* A record is one unit on disk and one in the index.  A segment is        *)
(* [num, size, recs]; a failed write may leave a unit without a record.    *)
(* The epoch is the incarnation's number.                                  *)
(***************************************************************************)
EXTENDS Integers, Sequences, FiniteSets, SequencesExt, FiniteSetsExt

CONSTANTS
    StoreIds,      \* exchange ids, in any order of finishing
    WriteQueue,    \* writeChanCapacity and the bytes in flight
    CapUnits,      \* capBytes
    SegUnits,      \* segBytes
    SubBuffer,     \* subscriberBufferSize
    Streams,       \* clients of the stream
    StoreBudgets,  \* bound: how often each thing happens in one behaviour, and
                   \* the store's index budget in it
    NoSeg

VARIABLES
    writeCh,      \* the queue
    storeClosed,  \* intake closed
    files,        \* number -> what is on disk: [size, recs]
    liveSegs,     \* live segments, oldest first: [num, size]
    activeSeg,    \* the active segment's number, or NoSeg
    nextSegNum,
    totalOnDisk,  \* the counter
    idx,          \* id -> [seg, seq], for the indexed
    maxSeen,      \* the highest id indexed
    publishSeq,   \* nextPublishSeq and maxPublishSeq
    pubPc,        \* the writer: NoSeg, or the summary indexed and not yet published
    stream,       \* client -> its stream
    fetch,        \* a reader of one exchange
    epoch,
    gone,         \* ids counted as dropped, abandoned or refused
    sleft         \* what is left of the budget

storeVars == <<writeCh, storeClosed, files, liveSegs, activeSeg, nextSegNum, totalOnDisk, idx, maxSeen, publishSeq, pubPc, stream, fetch, epoch, gone, sleft>>
diskVars == <<files, liveSegs, activeSeg, nextSegNum, totalOnDisk>>
indexVars == <<idx, maxSeen, publishSeq>>

\* A client holds the last event's id (epoch and sequence) between streams.
NoStream == [pc |-> "none", ch |-> <<>>, chOpen |-> FALSE, resume |-> NoSeg, evicted |-> {}, history |-> {}, replayed |-> {}, got |-> <<>>,
             last |-> NoSeg, from |-> NoSeg]
NoFetch == [pc |-> "none", id |-> 0, seg |-> 0, seq |-> 0]

StoreInit ==
    /\ writeCh = <<>> /\ storeClosed = FALSE
    /\ files = <<>> /\ liveSegs = <<>> /\ activeSeg = NoSeg /\ nextSegNum = 1 /\ totalOnDisk = 0
    /\ idx = <<>> /\ maxSeen = 0 /\ publishSeq = 0 /\ pubPc = NoSeg
    /\ stream = [c \in Streams |-> NoStream] /\ fetch = NoFetch
    /\ epoch = 1 /\ gone = {}
    /\ sleft \in StoreBudgets

\* indexMemBudget, in entries.
IndexUnits == sleft["index"]

StoreSpend(what) == sleft[what] > 0 /\ sleft' = [sleft EXCEPT ![what] = @ - 1]
Drop(f, keys) == [k \in DOMAIN f \ keys |-> f[k]]
Put1(f, k, v) == [x \in DOMAIN f \cup {k} |-> IF x = k THEN v ELSE f[x]]

-----------------------------------------------------------------------------
\* Record: never waits.
RecordExchange(id) ==
    /\ StoreSpend("record")
    /\ IF storeClosed \/ Len(writeCh) >= WriteQueue THEN gone' = gone \cup {id} /\ UNCHANGED writeCh
       ELSE writeCh' = Append(writeCh, id) /\ UNCHANGED gone
    /\ UNCHANGED <<storeClosed, diskVars, indexVars, pubPc, stream, fetch, epoch>>

-----------------------------------------------------------------------------
(* Segments.  The writer's work on one record is a sequence of states of the *)
(* disk d = [files, live, active, next, total, idx, ok]. *)

Disk == [files |-> files, live |-> liveSegs, active |-> activeSeg, next |-> nextSegNum, total |-> totalOnDisk, idx |-> idx, ok |-> TRUE]

rollSegment(d) ==
    {[d EXCEPT !.files = Put1(@, d.next, [size |-> 0, recs |-> {}]), !.live = Append(@, [num |-> d.next, size |-> 0]),
               !.active = d.next, !.next = @ + 1]}
    \cup (IF sleft["fault"] > 0 THEN {[d EXCEPT !.next = @ + 1, !.ok = FALSE]} ELSE {})

evictSegment(d, num) == Drop(d.idx, {id \in DOMAIN d.idx : d.idx[id].seg = num})

\* evictOldest: the file first; when that fails nothing has changed.
evictOldest1(d) ==
    LET o == Head(d.live)
    IN {[d EXCEPT !.files = Drop(@, {o.num}), !.live = Tail(@), !.total = @ - o.size, !.idx = evictSegment(d, o.num)]}
       \cup (IF sleft["fault"] > 0 THEN {[d EXCEPT !.ok = FALSE]} ELSE {})

SizeOf(d, num) == d.live[CHOOSE i \in DOMAIN d.live : d.live[i].num = num].size

\* One turn of ensureRoomFor: the states it can be in after, or none when
\* there is room or nothing more to evict.
turn(d, rolled) ==
    LET overDisk == d.total + 1 > CapUnits
        overIndex == Cardinality(DOMAIN d.idx) + 1 > IndexUnits
        onlyActive == d.active # NoSeg /\ Head(d.live).num = d.active
    IN IF d.live = <<>> \/ ~(overDisk \/ overIndex) THEN {}
       ELSE IF onlyActive
            THEN IF ~overIndex \/ rolled \/ SizeOf(d, d.active) = 0 THEN {}
                 ELSE {<<r, TRUE>> : r \in rollSegment(d)}
            ELSE {<<r, rolled>> : r \in evictOldest1(d)}

\* ensureRoomFor: turns until there are none.
RECURSIVE ensureRoomFor(_, _)
ensureRoomFor(d, rolled) ==
    LET next == turn(d, rolled)
    IN IF next = {} THEN {d}
       ELSE UNION {IF n[1].ok THEN ensureRoomFor(n[1], n[2]) ELSE {n[1]} : n \in next}

\* A new segment when there is none or the record does not fit.
withActive(d) ==
    IF d.active = NoSeg \/ (SizeOf(d, d.active) > 0 /\ SizeOf(d, d.active) + 1 > SegUnits) THEN rollSegment(d) ELSE {d}

Grown(d, recs) ==
    [d EXCEPT !.files[d.active] = [size |-> @.size + 1, recs |-> @.recs \cup recs],
              !.live = [i \in DOMAIN @ |-> IF @[i].num = d.active THEN [@[i] EXCEPT !.size = @ + 1] ELSE @[i]],
              !.total = @ + 1]

\* What a failed write left on disk is not counted.
failUncounted(d) ==
    {[d EXCEPT !.active = NoSeg, !.ok = FALSE],
     [d EXCEPT !.active = NoSeg, !.ok = FALSE, !.files[d.active].size = @ + 1]}

\* failActiveSegment: what a failed write left on disk is counted.
failActiveSegment(d) ==
    {[d EXCEPT !.active = NoSeg, !.ok = FALSE], [Grown(d, {}) EXCEPT !.active = NoSeg, !.ok = FALSE]}

Worked(d) ==
    /\ files' = d.files /\ liveSegs' = d.live /\ activeSeg' = d.active
    /\ nextSegNum' = d.next /\ totalOnDisk' = d.total

\* index.add.
indexAdd(d, id) == Put1(d.idx, id, [seg |-> d.active, seq |-> publishSeq + 1])

\* writeOne up to the index: a duplicate is refused, room is made, the record
\* is written and indexed under the next sequence number.
writeOne ==
    /\ pubPc = NoSeg /\ writeCh # <<>>
    /\ LET id == Head(writeCh)
           opened == UNION {IF r.ok THEN withActive(r) ELSE {r} : r \in ensureRoomFor(Disk, FALSE)}
           written == UNION {IF ~o.ok THEN {o}
                             ELSE {Grown(o, {id})} \cup (IF sleft["fault"] > 0 THEN failActiveSegment(o) ELSE {}) : o \in opened}
       IN IF id \in DOMAIN idx THEN gone' = gone \cup {id} /\ UNCHANGED <<diskVars, indexVars, pubPc, sleft>>
          ELSE \E d \in written :
                 /\ Worked(d)
                 /\ IF d.ok
                    THEN /\ publishSeq' = publishSeq + 1
                         /\ idx' = indexAdd(d, id)
                         /\ maxSeen' = Max({maxSeen, id}) /\ pubPc' = publishSeq + 1
                         /\ UNCHANGED <<gone, sleft>>
                    ELSE /\ StoreSpend("fault") /\ idx' = d.idx
                         /\ gone' = gone \cup {id} /\ UNCHANGED <<publishSeq, maxSeen, pubPc>>
    /\ writeCh' = Tail(writeCh)
    /\ UNCHANGED <<storeClosed, stream, fetch, epoch>>

\* publish: to every subscriber; one whose buffer is full is ended.
Sent(s, seq) ==
    IF ~s.chOpen THEN s
    ELSE IF Len(s.ch) >= SubBuffer THEN [s EXCEPT !.chOpen = FALSE]
    ELSE [s EXCEPT !.ch = Append(@, seq)]
publish ==
    /\ pubPc # NoSeg
    /\ stream' = [c \in Streams |-> Sent(stream[c], pubPc)]
    /\ pubPc' = NoSeg
    /\ UNCHANGED <<writeCh, storeClosed, diskVars, indexVars, fetch, epoch, gone, sleft>>

\* Close: intake ends, every stream ends; at the deadline (a timeout) what is
\* queued is abandoned, else the writer drains it.
CloseStore ==
    /\ StoreSpend("close")
    /\ storeClosed' = TRUE
    /\ stream' = [c \in Streams |-> [stream[c] EXCEPT !.chOpen = FALSE]]
    /\ \/ UNCHANGED <<writeCh, gone>>
       \/ writeCh # <<>> /\ gone' = gone \cup Range(writeCh) /\ writeCh' = <<>>
    /\ UNCHANGED <<diskVars, indexVars, pubPc, fetch, epoch>>

\* The process starts again: resetDir removes the segments.
RestartStore ==
    /\ StoreSpend("restart")
    /\ writeCh' = <<>> /\ storeClosed' = FALSE
    /\ files' = <<>> /\ liveSegs' = <<>> /\ activeSeg' = NoSeg /\ nextSegNum' = 1 /\ totalOnDisk' = 0
    /\ idx' = <<>> /\ maxSeen' = 0 /\ publishSeq' = 0 /\ pubPc' = NoSeg
    /\ stream' = [c \in Streams |-> [NoStream EXCEPT !.last = stream[c].last]]
    /\ fetch' = NoFetch /\ epoch' = epoch + 1
    /\ UNCHANGED gone

-----------------------------------------------------------------------------
(* The stream *)

\* History is read before the stream subscribes.
replayFirst == <<"connect", "replay", "subscribe", "live">>

\* handleStream: subscribe, then read the history, then live.
streamOrder == <<"connect", "subscribe", "replay", "live">>

After(pc) == streamOrder[1 + CHOOSE i \in 1..3 : streamOrder[i] = pc]

\* The resume point: a sequence of this incarnation, all of it for one of
\* another; a sequence never issued is refused.
parseResume(last) == IF last = NoSeg THEN NoSeg ELSE IF last[1] # epoch THEN 0 ELSE last[2]

OpenStream(c) ==
    LET s == stream[c] IN
    /\ s.pc = "none" /\ StoreSpend("stream")
    /\ parseResume(s.last) \in {NoSeg} \cup 0..publishSeq
    /\ stream' = [stream EXCEPT ![c] = [NoStream EXCEPT !.pc = After("connect"), !.resume = parseResume(s.last),
                                             !.last = s.last, !.from = s.last]]
    /\ UNCHANGED <<writeCh, storeClosed, diskVars, indexVars, pubPc, fetch, epoch, gone>>

Subscribe(c) ==
    /\ stream[c].pc = "subscribe"
    /\ stream' = [stream EXCEPT ![c].pc = After("subscribe"), ![c].chOpen = ~storeClosed]
    /\ UNCHANGED <<writeCh, storeClosed, diskVars, indexVars, pubPc, fetch, epoch, gone, sleft>>

\* summariesAfter.
ReadHistory(c) ==
    LET s == stream[c]
        after == IF s.resume = NoSeg THEN {} ELSE {idx[id].seq : id \in {i \in DOMAIN idx : idx[i].seq > s.resume}}
    IN /\ s.pc = "replay"
       /\ stream' = [stream EXCEPT ![c].pc = After("replay"), ![c].history = after, ![c].replayed = after,
                       ![c].evicted = IF s.resume = NoSeg THEN {}
                                      ELSE 1..publishSeq \ {idx[id].seq : id \in DOMAIN idx}]
       /\ UNCHANGED <<writeCh, storeClosed, diskVars, indexVars, pubPc, fetch, epoch, gone, sleft>>

Event(s, seq) == [s EXCEPT !.got = Append(@, seq), !.last = <<epoch, seq>>]

\* The history goes out in order of sequence, then what arrives, but for what
\* was replayed.
SendEvent(c) ==
    LET s == stream[c] IN
    /\ s.pc = "live"
    /\ \/ /\ s.history # {}
          /\ stream' = [stream EXCEPT ![c] = [Event(s, Min(s.history)) EXCEPT !.history = @ \ {Min(s.history)}]]
       \/ /\ s.history = {} /\ s.ch # <<>>
          /\ stream' = [stream EXCEPT ![c] = [(IF Head(s.ch) \in s.replayed THEN s ELSE Event(s, Head(s.ch)))
                                              EXCEPT !.ch = Tail(@)]]
    /\ UNCHANGED <<writeCh, storeClosed, diskVars, indexVars, pubPc, fetch, epoch, gone, sleft>>

\* The stream ends: ended by the store and drained, or by the client or the
\* network; an event that was written may not have arrived.
EndStream(c) ==
    LET s == stream[c] IN
    /\ s.pc = "live"
    /\ \E last \in {s.last, IF Len(s.got) < 2 THEN s.from ELSE <<epoch, s.got[Len(s.got) - 1]>>} :
         stream' = [stream EXCEPT ![c] = [NoStream EXCEPT !.last = last]]
    /\ \/ ~s.chOpen /\ s.ch = <<>> /\ s.history = {} /\ UNCHANGED sleft
       \/ StoreSpend("hangup")
    /\ UNCHANGED <<writeCh, storeClosed, diskVars, indexVars, pubPc, fetch, epoch, gone>>

-----------------------------------------------------------------------------
(* Exchange: the index is read, then the segment's file opened and read. *)

FetchLookup(id) ==
    /\ StoreSpend("fetch") /\ fetch.pc = "none"
    /\ fetch' = IF id \in DOMAIN idx THEN [pc |-> "open", id |-> id, seg |-> idx[id].seg, seq |-> idx[id].seq]
                ELSE [NoFetch EXCEPT !.pc = IF id <= maxSeen THEN "evicted" ELSE "unknown"]
    /\ UNCHANGED <<writeCh, storeClosed, diskVars, indexVars, pubPc, stream, epoch, gone>>

FetchOpen ==
    /\ fetch.pc = "open"
    /\ fetch' = [fetch EXCEPT !.pc = IF fetch.seg \in DOMAIN files
                                     THEN IF fetch.id \in files[fetch.seg].recs THEN "found" ELSE "wrong" ELSE "evicted"]
    /\ UNCHANGED <<writeCh, storeClosed, diskVars, indexVars, pubPc, stream, epoch, gone, sleft>>

FetchDone ==
    /\ fetch.pc \in {"found", "evicted", "unknown"}
    /\ fetch' = NoFetch
    /\ UNCHANGED <<writeCh, storeClosed, diskVars, indexVars, pubPc, stream, epoch, gone, sleft>>

StoreNext ==
    \/ \E id \in StoreIds : RecordExchange(id) \/ FetchLookup(id)
    \/ writeOne \/ publish \/ CloseStore \/ RestartStore \/ FetchOpen \/ FetchDone
    \/ \E c \in Streams : OpenStream(c) \/ Subscribe(c) \/ ReadHistory(c) \/ SendEvent(c) \/ EndStream(c)

-----------------------------------------------------------------------------
\* The store's count of the bytes on disk is what the files hold, after failed
\* writes and removals; the directory is over its cap by no more than a record
\* on top of one segment, the index within its budget; and every exchange
\* indexed is in a file that is there, until the writer removes both
\* (ensureRoomFor, evictOldest, failActiveSegment).
DiskAccounted ==
    LET sizes == [n \in DOMAIN files |-> files[n].size]
        Sum1(S) == FoldFunctionOnSet(LAMBDA x, y : x + y, 0, sizes, S)
    IN /\ totalOnDisk = Sum1(DOMAIN files)
       /\ DOMAIN files = {liveSegs[i].num : i \in DOMAIN liveSegs}
       /\ totalOnDisk <= Max({CapUnits, SegUnits + 1})
       /\ Cardinality(DOMAIN idx) <= IndexUnits
       /\ \A id \in DOMAIN idx : idx[id].seg \in DOMAIN files /\ id \in files[idx[id].seg].recs
       /\ fetch.pc # "wrong"

\* Within an incarnation a stream sends the exchanges after the one it resumes
\* from, or from its first on, none twice, and passes over only what had been
\* evicted when the history was read: nothing falls between the history and
\* what arrives live, however slow the reader and however often it comes back.
\* They go out in order, but for one that was published after the stream
\* subscribed and evicted before it read the history (handleStream, publish).
StreamHasNoGap ==
    \A c \in Streams :
        LET s == stream[c]
            got == IF s.resume = NoSeg THEN s.got ELSE <<s.resume>> \o s.got
        IN s.pc = "live" =>
             \A i \in 2..Len(got) :
                LET before == {got[j] : j \in 1..(i - 1)}
                IN /\ got[i] \notin before
                   /\ \/ (got[1] + 1)..(got[i] - 1) \subseteq before \cup s.evicted /\ Max(before) < got[i]
                      \/ got[i] \in s.evicted
=============================================================================
