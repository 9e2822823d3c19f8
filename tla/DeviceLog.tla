------------------------------- MODULE DeviceLog -------------------------------
(***************************************************************************)
(* The device log (pkg/sep2srv/devicelog): request handlers queue lines,   *)
(* one goroutine decides whose file a line goes to, parks it while the     *)
(* lookup runs, numbers it and writes it, rotating the file at its limit;  *)
(* the admin plane reads pages and follows new lines                       *)
(* (internal/handler/admin_device_logs.go).                                *)
(*                                                                         *)
(* A file is an inode: a sequence of lines [seq, actor, t] or Garbage (a   *)
(* torn line).  A line's time is the order of acceptance.  The limit of a  *)
(* file is counted in lines.  A lookup is of the actor's registration; the *)
(* target's is like it.                                                    *)
(***************************************************************************)
EXTENDS Integers, Sequences, FiniteSets, SequencesExt, FiniteSetsExt

CONSTANTS
    Actors,        \* LFDIs that make requests
    LogQueueSize,  \* the queue
    ParkCap,       \* parked lines
    FileLines,     \* the limit of a file
    MaxOpenFiles,  \* files held open
    PageLimit,     \* lines of a page
    ReadSkew,      \* how far a line's time can trail the lines before it
    LogBudgets,    \* bound: how often each thing happens in one behaviour
    NoFile

Unregistered == "unregistered"
LogKeys == Actors \cup {Unregistered}
Garbage == [seq |-> 0, actor |-> NoFile, t |-> 0]

VARIABLES
    logq,       \* the channel
    logClosed,  \* Close was called
    parked,     \* lines waiting for their lookup
    lookups,    \* actor -> "none", "running", "yes", "no", "error"
    known,      \* the actors registered
    inodes,     \* every file's lines, by inode
    cur,        \* key -> inode of the current file, or NoFile
    old,        \* key -> inode of the rotated file, or NoFile
    opened,     \* the files held open, least recently used first: [key, seq]
    writing,    \* the line being written, or NoFile
    counted,    \* lines accepted, dropped when full, failed, lost in a crash
    reader,     \* the client that reads
    lleft       \* what is left of the budget

logVars == <<logq, logClosed, parked, lookups, known, inodes, cur, old, opened, writing, counted, reader, lleft>>
logFiles == <<inodes, cur, old, opened>>
logQueue == <<logq, logClosed, parked>>
logLookups == <<lookups, known>>

IdleReader == [mode |-> "idle", pc |-> "idle", cursor |-> <<>>, source |-> 1, curIn |-> NoFile, curLen |-> 0,
               items |-> {}, got |-> <<>>, there |-> {}]

Follower == CHOOSE a \in Actors : TRUE

\* The lines an earlier run filed for the device while it was unregistered,
\* which are older than any of this run by more than ReadSkew.
Earlier(n) == [i \in 1..n |-> [seq |-> i, actor |-> Follower, t |-> i]]
EarlierFiles(n) ==
    IF n = 0 THEN <<>> ELSE IF n <= FileLines THEN <<Earlier(n)>>
    ELSE <<Earlier(FileLines), SubSeq(Earlier(n), FileLines + 1, n)>>
LastTime(n) == IF n = 0 THEN 0 ELSE n + ReadSkew

LogInit ==
    /\ lleft \in LogBudgets
    /\ logq = <<>> /\ logClosed = FALSE /\ parked = <<>>
    /\ lookups = [a \in Actors |-> "none"] /\ known \in SUBSET Actors
    /\ inodes = EarlierFiles(lleft.filed)
    /\ cur = [k \in LogKeys |-> IF k = Unregistered /\ inodes # <<>> THEN Len(inodes) ELSE NoFile]
    /\ old = [k \in LogKeys |-> IF k = Unregistered /\ Len(inodes) = 2 THEN 1 ELSE NoFile]
    /\ opened = <<>> /\ writing = NoFile
    /\ counted = [accepted |-> LastTime(lleft.filed), failed |-> {},
                  lost |-> 1..LastTime(lleft.filed), ahead |-> {}]
    /\ reader = IdleReader

LogSpend(what) == lleft[what] > 0 /\ lleft' = [lleft EXCEPT ![what] = @ - 1]

-----------------------------------------------------------------------------
(* Files *)

Lines(i) == IF i = NoFile THEN <<>> ELSE inodes[i]
Filed(k) == Lines(old[k]) \o Lines(cur[k])
Times(s) == {s[i].t : i \in DOMAIN s} \ {0}

\* scanSeq: the last line with a number, or 0.
scanSeq(s) == LET numbered == SelectSeq(s, LAMBDA l : l # Garbage)
              IN IF numbered = <<>> THEN 0 ELSE Last(numbered).seq

\* The number from the current file alone.
seqOfCurrent(k) == scanSeq(Lines(cur[k]))

\* open: the next number follows the higher of both files'.
seqOnOpen(k) == Max({scanSeq(Lines(cur[k])), scanSeq(Lines(old[k]))})

OpenSeq(k) == LET i == {j \in DOMAIN opened : opened[j].key = k}
              IN IF i = {} THEN seqOnOpen(k) ELSE opened[Min(i)].seq
Without(k) == SelectSeq(opened, LAMBDA o : o.key # k)

\* The files held open after one more is used; the oldest is closed.
evictOldest(k, seq) ==
    LET all == Append(Without(k), [key |-> k, seq |-> seq])
    IN IF Len(all) > MaxOpenFiles THEN Tail(all) ELSE all

-----------------------------------------------------------------------------
(* Producers *)

\* AppendResolved: never waits.
AppendResolved(a) ==
    /\ LogSpend("line")
    /\ IF logClosed \/ Len(logq) >= LogQueueSize THEN UNCHANGED <<logq, counted>>
       ELSE /\ logq' = Append(logq, [actor |-> a, t |-> counted.accepted + 1])
            /\ counted' = [counted EXCEPT !.accepted = @ + 1]
    /\ UNCHANGED <<logClosed, parked, logLookups, logFiles, writing, reader>>

CloseLog ==
    /\ LogSpend("close") /\ ~logClosed
    /\ logClosed' = TRUE
    /\ UNCHANGED <<logq, parked, logLookups, logFiles, writing, counted, reader>>

-----------------------------------------------------------------------------
(* Lookups: one at a time for an actor, answered from the cache until it    *)
(* expires *)

\* Resolve: starts a lookup when there is no answer, unless too many run.
Resolve(a) ==
    \/ lookups[a] # "none" /\ UNCHANGED lookups
    \/ lookups[a] = "none" /\ lookups' = [lookups EXCEPT ![a] = "running"]
    \/ lookups[a] = "none" /\ UNCHANGED lookups
Pending(a) == lookups[a] \in {"none", "running"}

finishLookup(a) ==
    /\ lookups[a] = "running"
    /\ \/ lookups' = [lookups EXCEPT ![a] = IF a \in known THEN "yes" ELSE "no"] /\ UNCHANGED lleft
       \/ LogSpend("fault") /\ lookups' = [lookups EXCEPT ![a] = "error"]
    /\ UNCHANGED <<logQueue, known, logFiles, writing, counted, reader>>

expireLookup(a) ==
    /\ LogSpend("expire") /\ ~Pending(a)
    /\ lookups' = [lookups EXCEPT ![a] = "none"]
    /\ UNCHANGED <<logQueue, known, logFiles, writing, counted, reader>>

-----------------------------------------------------------------------------
(* The writer goroutine *)

\* place: the actor's own file, that of the unregistered, or, not knowing, by
\* whether the actor has a file.
place(l) ==
    CASE lookups[l.actor] = "yes" -> l.actor
      [] lookups[l.actor] = "no" -> Unregistered
      [] OTHER -> IF cur[l.actor] # NoFile THEN l.actor ELSE Unregistered

hasParked(a) == \E i \in DOMAIN parked : parked[i].actor = a

\* A line whose lookup has settled is written though others wait.
handleUnparked ==
    /\ writing = NoFile /\ logq # <<>>
    /\ LET l == Head(logq)
       IN /\ Resolve(l.actor)
          /\ IF ~Pending(l.actor)
             THEN writing' = [line |-> l, key |-> place(l), pc |-> "open"] /\ UNCHANGED <<parked, counted>>
             ELSE IF Len(parked) >= ParkCap
             THEN /\ writing' = [line |-> l, key |-> place(l), pc |-> "open"]
                  /\ counted' = [counted EXCEPT !.ahead = @ \cup {l.t}] /\ UNCHANGED parked
             ELSE parked' = Append(parked, l) /\ UNCHANGED <<writing, counted>>
    /\ logq' = Tail(logq)
    /\ UNCHANGED <<logClosed, known, logFiles, reader, lleft>>

\* handle: parked while the lookup runs, or behind the actor's other parked
\* lines, or placed as well as can be when too many are parked.
handle ==
    /\ writing = NoFile /\ logq # <<>>
    /\ LET l == Head(logq)
       IN /\ Resolve(l.actor)
          /\ IF ~Pending(l.actor) /\ ~hasParked(l.actor)
             THEN writing' = [line |-> l, key |-> place(l), pc |-> "open"] /\ UNCHANGED <<parked, counted>>
             ELSE IF Len(parked) >= ParkCap
             THEN /\ writing' = [line |-> l, key |-> place(l), pc |-> "open"]
                  /\ counted' = [counted EXCEPT !.ahead = @ \cup {l.t}] /\ UNCHANGED parked
             ELSE parked' = Append(parked, l) /\ UNCHANGED <<writing, counted>>
    /\ logq' = Tail(logq)
    /\ UNCHANGED <<logClosed, known, logFiles, reader, lleft>>

\* recheckParked and releaseParked: the first parked line of an actor goes
\* when its lookup settled or its deadline passed (a timeout), or at the end.
recheckParked(a) ==
    LET i == Min({j \in DOMAIN parked : parked[j].actor = a})
    IN /\ writing = NoFile /\ hasParked(a)
       /\ Resolve(a)
       /\ \/ ~Pending(a) /\ UNCHANGED lleft
          \/ logClosed /\ logq = <<>> /\ UNCHANGED lleft
          \/ LogSpend("timeout")
       /\ writing' = [line |-> parked[i], key |-> place(parked[i]), pc |-> "open"]
       /\ parked' = RemoveAt(parked, i)
       /\ UNCHANGED <<logq, logClosed, known, logFiles, counted, reader>>

Fresh == Len(inodes) + 1

\* open: the file is made when missing, a torn end is closed off, the next
\* number is found, and the file is rotated when it is full.
openFile ==
    LET k == writing.key
        missing == cur[k] = NoFile
        full == ~missing /\ Len(Lines(cur[k])) >= FileLines
    IN /\ writing # NoFile /\ writing.pc = "open"
       /\ inodes' = IF missing THEN Append(inodes, <<>>) ELSE inodes
       /\ cur' = IF missing THEN [cur EXCEPT ![k] = Fresh] ELSE cur
       /\ opened' = evictOldest(k, OpenSeq(k))
       /\ writing' = [writing EXCEPT !.pc = IF full THEN "rename" ELSE "write"]
       /\ UNCHANGED <<logQueue, logLookups, old, counted, reader, lleft>>

failOpen ==
    /\ writing # NoFile /\ writing.pc \in {"open", "rename", "create"}
    /\ LogSpend("fault")
    /\ opened' = Without(writing.key)
    /\ counted' = [counted EXCEPT !.failed = @ \cup {writing.line.t}]
    /\ writing' = NoFile
    /\ UNCHANGED <<logQueue, logLookups, inodes, cur, old, reader>>

\* rotate: the current file becomes the rotated one, then a new one is made.
rotate ==
    LET k == writing.key
    IN /\ writing # NoFile /\ writing.pc = "rename"
       /\ old' = [old EXCEPT ![k] = cur[k]] /\ cur' = [cur EXCEPT ![k] = NoFile]
       /\ writing' = [writing EXCEPT !.pc = "create"]
       /\ UNCHANGED <<logQueue, logLookups, inodes, opened, counted, reader, lleft>>

createAfterRotate ==
    /\ writing # NoFile /\ writing.pc = "create"
    /\ inodes' = Append(inodes, <<>>) /\ cur' = [cur EXCEPT ![writing.key] = Fresh]
    /\ writing' = [writing EXCEPT !.pc = "write"]
    /\ UNCHANGED <<logQueue, logLookups, old, opened, counted, reader, lleft>>

Put(l) == [inodes EXCEPT ![cur[writing.key]] = Append(@, l)]
Numbered == [seq |-> OpenSeq(writing.key) + 1, actor |-> writing.line.actor, t |-> writing.line.t]

\* write: the line is there, or part of it, or all of it but its end; on a
\* failure the file is closed, and the number found anew.
write ==
    LET k == writing.key
    IN /\ writing # NoFile /\ writing.pc = "write"
       /\ \/ /\ inodes' = Put(Numbered)
             /\ opened' = Append(Without(k), [key |-> k, seq |-> Numbered.seq])
             /\ UNCHANGED <<counted, lleft>>
          \/ /\ LogSpend("fault")
             /\ inodes' \in {inodes, Put(Garbage), Put(Numbered)}
             /\ opened' = Without(k)
             /\ counted' = [counted EXCEPT !.failed = @ \cup {writing.line.t}]
       /\ writing' = NoFile
       /\ UNCHANGED <<logQueue, logLookups, cur, old, reader>>

\* The process dies, in a write or not, and starts again.
LogCrash ==
    /\ LogSpend("crash")
    /\ inodes' \in {inodes} \cup (IF writing # NoFile /\ writing.pc = "write" THEN {Put(Garbage), Put(Numbered)} ELSE {})
    /\ counted' = [counted EXCEPT !.lost = @ \cup (1..counted.accepted)]
    /\ logq' = <<>> /\ parked' = <<>> /\ logClosed' = FALSE /\ opened' = <<>> /\ writing' = NoFile
    /\ lookups' = [a \in Actors |-> "none"] /\ reader' = IdleReader
    /\ UNCHANGED <<known, cur, old>>

\* A device is registered, or removed.
Register(a) ==
    /\ LogSpend("register")
    /\ known' = IF a \in known THEN known \ {a} ELSE known \cup {a}
    /\ UNCHANGED <<logQueue, lookups, logFiles, writing, counted, reader>>

-----------------------------------------------------------------------------
(* The reader: the pages of one device, its own file and its lines in that  *)
(* of the unregistered *)

Read1(a) == <<a, Unregistered>>
Key(k, l) == <<l.t, IF k = Unregistered THEN 1 ELSE 0, l.seq>>
KeyLess(x, y) == \/ x[1] < y[1] \/ (x[1] = y[1] /\ x[2] < y[2])
                 \/ (x[1] = y[1] /\ x[2] = y[2] /\ x[3] < y[3])

\* collector: of the keys past the cursor, the newest (one more than the
\* page, to know that there are older ones), or, following, the oldest.
Capacity == IF reader.mode = "follow" THEN PageLimit ELSE PageLimit + 1
wants(key) == reader.cursor = <<>> \/ (IF reader.mode = "follow" THEN KeyLess(reader.cursor, key)
                                       ELSE KeyLess(key, reader.cursor))
offer(keys) ==
    LET Ahead(x) == {y \in keys : IF reader.mode = "follow" THEN KeyLess(y, x) ELSE KeyLess(x, y)}
    IN {x \in keys : Cardinality(Ahead(x)) < Capacity}

Newest(keys) == CHOOSE x \in keys : \A y \in keys \ {x} : KeyLess(y, x)
Oldest(keys) == CHOOSE x \in keys : \A y \in keys \ {x} : KeyLess(x, y)

\* floor: the time below which no line belongs on the page, 0 for none yet.
floor(items) ==
    IF reader.mode = "follow" THEN IF reader.cursor = <<>> THEN 0 ELSE reader.cursor[1]
    ELSE IF Cardinality(items) = Capacity THEN Oldest(items)[1] ELSE 0

Source == Read1(Follower)[reader.source]

\* A client reads from the newest line back, or follows new ones.
Read(mode) ==
    /\ LogSpend("read") /\ reader.mode = "idle"
    /\ reader' = [IdleReader EXCEPT !.mode = mode, !.pc = "current",
                    !.there = UNION {Times(SelectSeq(Filed(k), LAMBDA l : l.actor = Follower)) : k \in Range(Read1(Follower))}]
    /\ UNCHANGED <<logQueue, logLookups, logFiles, writing, counted>>

\* scan: the current file is opened first.
scanCurrent ==
    /\ reader.pc = "current"
    /\ reader' = [reader EXCEPT !.pc = "rotated", !.curIn = cur[Source], !.curLen = Len(Lines(cur[Source]))]
    /\ UNCHANGED <<logQueue, logLookups, logFiles, writing, counted, lleft>>

\* A scan that stops at the floor itself.
visitToFloor(l, found) ==
    LET k == Key(Source, l)
    IN IF found.stopped \/ l = Garbage THEN found
       ELSE IF l.t < floor(found.items) THEN [found EXCEPT !.stopped = TRUE]
       ELSE IF l.actor = Follower /\ wants(k) THEN [found EXCEPT !.items = offer(@ \cup {k})]
       ELSE found

\* visit: a line is offered to the page; the scan, which goes from the newest
\* line back, stops at one that is far enough below the floor.
visit(l, found) ==
    LET k == Key(Source, l)
    IN IF found.stopped \/ l = Garbage THEN found
       ELSE IF l.t < floor(found.items) - ReadSkew THEN [found EXCEPT !.stopped = TRUE]
       ELSE IF l.actor = Follower /\ wants(k) THEN [found EXCEPT !.items = offer(@ \cup {k})]
       ELSE found

\* Then the rotated one, which is left out when it is the same file, and not
\* read when the scan of the current one stopped.
SecondFile == IF old[Source] = reader.curIn THEN <<>> ELSE Lines(old[Source])
scanRotated ==
    LET current == FoldRight(visit, SubSeq(Lines(reader.curIn), 1, reader.curLen),
                             [items |-> reader.items, stopped |-> FALSE])
        found == IF current.stopped THEN current ELSE FoldRight(visit, SecondFile, current)
    IN /\ reader.pc = "rotated"
       /\ reader' = [reader EXCEPT !.items = found.items,
                       !.source = IF reader.source = 2 THEN 1 ELSE 2,
                       !.pc = IF reader.source = 2 THEN "page" ELSE "current"]
       /\ UNCHANGED <<logQueue, logLookups, logFiles, writing, counted, lleft>>

\* The cursor is the line left out of the page.
pageFromExtra ==
    LET more == reader.mode = "back" /\ Cardinality(reader.items) > PageLimit
        shown == IF more THEN reader.items \ {Oldest(reader.items)} ELSE reader.items
    IN /\ reader.pc = "page"
       /\ reader' = [reader EXCEPT !.items = {},
                       !.got = @ \o SetToSortSeq(shown, LAMBDA x, y : KeyLess(y, x)),
                       !.cursor = IF shown = {} THEN @ ELSE IF reader.mode = "back" THEN Oldest(reader.items) ELSE Newest(shown),
                       !.pc = IF reader.mode = "back" /\ ~more THEN "end" ELSE "current"]
       /\ UNCHANGED <<logQueue, logLookups, logFiles, writing, counted, lleft>>

\* The page, and the cursor of the next: the oldest line of a page that has
\* more behind it, or the newest line when following.
page ==
    LET more == reader.mode = "back" /\ Cardinality(reader.items) > PageLimit
        shown == IF more THEN reader.items \ {Oldest(reader.items)} ELSE reader.items
    IN /\ reader.pc = "page"
       /\ reader' = [reader EXCEPT !.items = {},
                       !.got = @ \o SetToSortSeq(shown, LAMBDA x, y : KeyLess(y, x)),
                       !.cursor = IF shown = {} THEN @ ELSE IF reader.mode = "back" THEN Oldest(shown) ELSE Newest(shown),
                       !.pc = IF reader.mode = "back" /\ ~more THEN "end" ELSE "current"]
       /\ UNCHANGED <<logQueue, logLookups, logFiles, writing, counted, lleft>>

stopReading ==
    /\ reader.pc = "end" \/ (reader.mode = "follow" /\ reader.pc = "current" /\ reader.source = 1)
    /\ reader' = IdleReader
    /\ UNCHANGED <<logQueue, logLookups, logFiles, writing, counted, lleft>>

LogNext ==
    \/ \E a \in Actors : \/ AppendResolved(a) \/ finishLookup(a) \/ expireLookup(a)
                         \/ recheckParked(a) \/ Register(a)
    \/ CloseLog \/ handle \/ openFile \/ failOpen \/ rotate \/ createAfterRotate \/ write \/ LogCrash
    \/ \E mode \in {"back", "follow"} : Read(mode)
    \/ scanCurrent \/ scanRotated \/ page \/ stopReading

-----------------------------------------------------------------------------
\* The numbers of a file go up, over the rotated file and the current one,
\* after failed writes, a crash and a restart: a line's place is its for good,
\* so a cursor stays true (open, rotate, write).
NumbersGoUp ==
    \A k \in LogKeys :
        LET s == SelectSeq(Filed(k), LAMBDA l : l # Garbage)
        IN \A i \in 1..(Len(s) - 1) : s[i].seq < s[i + 1].seq

\* No line accepted is lost without a count but in a crash, none is written
\* twice, and in each file the lines of a device are in the order they came,
\* but for one that found too many parked (handle, recheckParked).
LinesInOrder ==
    LET All(k) == SelectSeq(Filed(k), LAMBDA l : l # Garbage)
        waiting == Times(logq) \cup Times(parked) \cup (IF writing = NoFile THEN {} ELSE {writing.line.t})
        everFiled == UNION {Times(inodes[i]) : i \in DOMAIN inodes}
    IN /\ 1..counted.accepted = waiting \cup everFiled \cup counted.failed \cup counted.lost
       /\ \A k \in LogKeys : \A i, j \in DOMAIN All(k) :
            i < j /\ All(k)[i].actor = All(k)[j].actor =>
                All(k)[i].t < All(k)[j].t \/ {All(k)[i].t, All(k)[j].t} \cap counted.ahead # {}

\* A line that one older by more than ReadSkew follows in its file.
Trailed(t) ==
    \E k \in LogKeys : \E i, j \in DOMAIN Filed(k) :
        i < j /\ Filed(k)[i].t = t /\ Filed(k)[j].t \in 1..(t - ReadSkew - 1)

\* A client that reads back page by page to the end has each of the device's
\* lines that were there when it began and still are, once, though the file
\* was rotated and written meanwhile and a scan stops before the end of a
\* file (Reader.scan, collector).  The stop supposes that no line trails the
\* one before it by more than readSkew; a line that was trailed so far may be
\* missed.
PagesComplete ==
    reader.pc = "end" =>
        LET still == UNION {Times(Filed(k)) : k \in Range(Read1(Follower))}
            Got(t) == {i \in DOMAIN reader.got : reader.got[i][1] = t}
        IN \A t \in 1..counted.accepted :
             /\ Cardinality(Got(t)) <= 1
             /\ t \in reader.there \cap still => Got(t) # {} \/ Trailed(t)

=============================================================================
