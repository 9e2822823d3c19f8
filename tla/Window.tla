------------------------------- MODULE Window -------------------------------
(***************************************************************************)
(* The half-open time windows of internal/interval and internal/commitment *)
(* and the three questions the commitment ledger asks of them: do two      *)
(* share an instant, does one lie inside another, and what is left of one  *)
(* that is superseded at an instant.  A window is a start (int64) and a    *)
(* duration (uint32), in seconds.                                          *)
(***************************************************************************)
EXTENDS Integers, TLAPS

CONSTANTS
  IntMax,   \* largest start and end, math.MaxInt64 in the code
  DurMax    \* largest duration, math.MaxUint32 in the code

ASSUME WidthAssumption == IntMax \in Nat /\ DurMax \in 0..IntMax

Instants == -(IntMax + 1)..IntMax
Windows == [start : Instants, dur : 0..DurMax]

\* Two's complement addition of a duration: one overflow at most is possible,
\* because DurMax <= IntMax.
Add(x, d) == IF x + d > IntMax THEN x + d - 2 * (IntMax + 1) ELSE x + d

WEnd(w) == Add(w.start, w.dur)

Overlaps(w, o) ==
  /\ w.start < WEnd(w)
  /\ o.start < WEnd(o)
  /\ w.start < WEnd(o)
  /\ o.start < WEnd(w)

Within(w, o) == w.dur = 0 \/ (w.start >= o.start /\ WEnd(w) <= WEnd(o))

ClipAt(w, t) ==
  IF t <= w.start THEN [start |-> w.start, dur |-> 0]
  ELSE IF t < WEnd(w) THEN [start |-> w.start, dur |-> t - w.start]
  ELSE w

-----------------------------------------------------------------------------
(***************************************************************************)
(* The reference: a window is the set of seconds it covers.                *)
(***************************************************************************)
Seconds(w) == w.start..(w.start + w.dur - 1)

\* The windows whose end is an int64, not wrapped by interval.End.
Proper == {w \in Windows : w.start + w.dur <= IntMax}

\* Window.Overlaps answers whether two windows share a covered second:
\* touching windows do not, and a window of duration zero shares none.
OverlapsIsSharedSecond ==
  \A w, o \in Proper : Overlaps(w, o) <=> Seconds(w) \cap Seconds(o) # {}

\* Window.Within answers whether every second the first window covers is
\* covered by the second; a window of duration zero is within any other.
WithinIsSubset ==
  \A w, o \in Proper : Within(w, o) <=> Seconds(w) \subseteq Seconds(o)

\* Window.ClipAt keeps exactly the seconds before the clip instant, so what a
\* superseded control still covers and what its successor covers are disjoint.
ClipKeepsEarlierSeconds ==
  \A w \in Proper, t \in Instants : Seconds(ClipAt(w, t)) = {x \in Seconds(w) : x < t}

\* Once interval.End wraps, the end lies before the start, and Overlaps takes
\* the window for an empty one: a wrapped window never conflicts.
WrappedOverlapsNothing ==
  \A w \in Windows \ Proper, o \in Windows : ~Overlaps(w, o) /\ ~Overlaps(o, w)
-----------------------------------------------------------------------------
(***************************************************************************)
(* What the window operations mean, for every integer width.               *)
(***************************************************************************)

USE WidthAssumption

\* A window's fields are integers, and its duration is not negative.
LEMMA Fields ==
  ASSUME NEW w \in Windows
  PROVE  w.start \in Int /\ w.dur \in Int /\ w.dur >= 0 /\ IntMax \in Int
  BY DEF Windows, Instants

\* A window whose end does not wrap ends where its duration says.
LEMMA EndExact ==
  ASSUME NEW w \in Proper
  PROVE  w \in Windows /\ WEnd(w) = w.start + w.dur
  BY DEF Proper, Windows, Instants, WEnd, Add

\* Window.Overlaps holds exactly when the two windows cover a common second.
THEOREM OverlapsMeaning == OverlapsIsSharedSecond
<1> SUFFICES ASSUME NEW w \in Proper, NEW o \in Proper
             PROVE  Overlaps(w, o) <=> Seconds(w) \cap Seconds(o) # {}
  BY DEF OverlapsIsSharedSecond
<1>1. WEnd(w) = w.start + w.dur /\ WEnd(o) = o.start + o.dur
  BY EndExact
<1>2. /\ w.start \in Int /\ w.dur \in Int /\ w.dur >= 0
      /\ o.start \in Int /\ o.dur \in Int /\ o.dur >= 0
  BY EndExact, Fields
<1>3. ASSUME Overlaps(w, o) PROVE Seconds(w) \cap Seconds(o) # {}
  <2>1. CASE w.start >= o.start
    <3>1. w.start \in Seconds(w) /\ w.start \in Seconds(o)
      BY <1>1, <1>2, <1>3, <2>1 DEF Overlaps, Seconds
    <3> QED BY <3>1
  <2>2. CASE w.start < o.start
    <3>1. o.start \in Seconds(w) /\ o.start \in Seconds(o)
      BY <1>1, <1>2, <1>3, <2>2 DEF Overlaps, Seconds
    <3> QED BY <3>1
  <2> QED BY <1>2, <2>1, <2>2
<1>4. ASSUME NEW x \in Seconds(w), x \in Seconds(o) PROVE Overlaps(w, o)
  BY <1>1, <1>2, <1>4 DEF Overlaps, Seconds
<1> QED BY <1>3, <1>4

\* Window.Within holds exactly when every second of the first window is one of
\* the second.
THEOREM WithinMeaning == WithinIsSubset
<1> SUFFICES ASSUME NEW w \in Proper, NEW o \in Proper
             PROVE  Within(w, o) <=> Seconds(w) \subseteq Seconds(o)
  BY DEF WithinIsSubset
<1>1. WEnd(w) = w.start + w.dur /\ WEnd(o) = o.start + o.dur
  BY EndExact
<1>2. /\ w.start \in Int /\ w.dur \in Int /\ w.dur >= 0
      /\ o.start \in Int /\ o.dur \in Int /\ o.dur >= 0
  BY EndExact, Fields
<1>3. Within(w, o) => Seconds(w) \subseteq Seconds(o)
  BY <1>1, <1>2 DEF Within, Seconds
<1>4. ASSUME Seconds(w) \subseteq Seconds(o), w.dur # 0
      PROVE  Within(w, o)
  <2>1. w.start \in Seconds(w) /\ (w.start + w.dur - 1) \in Seconds(w)
    BY <1>2, <1>4 DEF Seconds
  <2>2. w.start \in Seconds(o) /\ (w.start + w.dur - 1) \in Seconds(o)
    BY <1>4, <2>1
  <2> QED BY <1>1, <1>2, <2>2 DEF Within, Seconds
<1> QED BY <1>3, <1>4 DEF Within

\* Window.ClipAt keeps exactly the seconds before the clip instant.
THEOREM ClipMeaning == ClipKeepsEarlierSeconds
<1> SUFFICES ASSUME NEW w \in Proper, NEW t \in Instants
             PROVE  Seconds(ClipAt(w, t)) = {x \in Seconds(w) : x < t}
  BY DEF ClipKeepsEarlierSeconds
<1>1. WEnd(w) = w.start + w.dur
  BY EndExact
<1>2. w.start \in Int /\ w.dur \in Int /\ w.dur >= 0 /\ t \in Int
  BY EndExact, Fields DEF Instants
<1> QED BY <1>1, <1>2 DEF ClipAt, Seconds

\* A window whose end wraps int64 conflicts with none.
THEOREM WrappedIsEmpty == WrappedOverlapsNothing
<1> SUFFICES ASSUME NEW w \in Windows \ Proper, NEW o \in Windows
             PROVE  ~Overlaps(w, o) /\ ~Overlaps(o, w)
  BY DEF WrappedOverlapsNothing
<1>1. WEnd(w) < w.start
  BY DEF Proper, Windows, Instants, WEnd, Add
<1>2. w.start \in Int /\ WEnd(w) \in Int
  BY Fields DEF WEnd, Add
<1> QED BY <1>1, <1>2 DEF Overlaps

\* A window clipped at the start of its successor shares no second with it:
\* the supersede rule leaves one control per second.
THEOREM ClipSeparates ==
  ASSUME NEW w \in Proper, NEW o \in Proper
  PROVE  ~Overlaps(ClipAt(w, o.start), o)
<1>1. WEnd(w) = w.start + w.dur /\ WEnd(o) = o.start + o.dur
  BY EndExact
<1>2. /\ w.start \in Int /\ w.dur \in Int /\ w.dur >= 0 /\ w.start + w.dur <= IntMax
      /\ o.start \in Int /\ o.dur \in Int /\ o.dur >= 0 /\ IntMax \in Int
  BY EndExact, Fields DEF Proper
<1> QED BY <1>1, <1>2 DEF ClipAt, Overlaps, WEnd, Add
=============================================================================
