----------------------------- MODULE ChartPages_proofs -----------------------------
(***************************************************************************)
(* The page with the chart, for any readings, window and bounds: replays   *)
(* and the fitting of the axes (UsageChart) first, then the mouse over the *)
(* chart (ChartPointer).                                                   *)
(***************************************************************************)
EXTENDS ChartPages, FiniteSetTheorems, SequenceTheorems, WellFoundedInduction,
        NaturalsInduction, TLAPS

-----------------------------------------------------------------------------
(* StopStops is not inductive: that nothing runs after stop rests on there *)
(* being, while a replay runs, no interval but the one that timerid names. *)

DoneType == [starts : Nat, zooms : Nat, toggles : Nat, again : BOOLEAN, partly : BOOLEAN]

StopInv ==
    /\ timerid \in Nat
    /\ done \in DoneType
    /\ ~done.again => intervals = IF timerid = 0 THEN {} ELSE {timerid}

LEMMA PartialIsBoolean == Partial \in BOOLEAN
  BY DEF Partial

LEMMA DoneStarted ==
    ASSUME NEW d \in DoneType, NEW n \in Nat, NEW b \in BOOLEAN
    PROVE  /\ [d EXCEPT !.starts = n, !.again = b] \in DoneType
           /\ [d EXCEPT !.starts = n, !.again = b].again = b
  BY DEF DoneType

LEMMA DoneCounted ==
    ASSUME NEW d \in DoneType, NEW n \in Nat, NEW b \in BOOLEAN
    PROVE  /\ [d EXCEPT !.zooms = n, !.partly = b] \in DoneType
           /\ [d EXCEPT !.zooms = n, !.partly = b].again = d.again
           /\ [d EXCEPT !.partly = b] \in DoneType
           /\ [d EXCEPT !.partly = b].again = d.again
           /\ [d EXCEPT !.toggles = n] \in DoneType
           /\ [d EXCEPT !.toggles = n].again = d.again
  BY DEF DoneType

LEMMA StopInvInit == Init => StopInv
  BY DEF Init, StopInv, DoneType

LEMMA StopInvNext == StopInv /\ [Next]_vars => StopInv'
<1> SUFFICES ASSUME StopInv, [Next]_vars PROVE StopInv'
  OBVIOUS
<1>1. CASE UNCHANGED <<timerid, intervals, done>>
  BY <1>1 DEF StopInv
<1>2. CASE Start
  <2> DEFINE again == done.again \/ timerid > 0
  <2>1. again \in BOOLEAN /\ (~again => ~done.again /\ timerid = 0)
    BY DEF StopInv
  <2>2. /\ done' = [done EXCEPT !.starts = @ + 1, !.again = again]
        /\ timerid' = done.starts + 1
        /\ intervals' = intervals \cup {timerid'}
    BY <1>2 DEF Start
  <2>3. done \in DoneType /\ done.starts \in Nat /\ done.starts + 1 \in Nat
    BY DEF StopInv, DoneType
  <2> HIDE DEF again
  <2>4. done' \in DoneType /\ done'.again = again
    BY <2>1, <2>2, <2>3, DoneStarted
  <2>5. ~again => intervals = {}
    BY <2>1 DEF StopInv
  <2>6. timerid' \in Nat /\ timerid' # 0
    BY <2>2, <2>3
  <2>7. ~done'.again => intervals' = {timerid'}
    BY <2>2, <2>4, <2>5
  <2> QED
    BY <2>4, <2>6, <2>7 DEF StopInv
<1>3. CASE Stop
  BY <1>3 DEF Stop, StopInv, DoneType
<1>4. ASSUME UNCHANGED <<timerid, intervals>>, done' \in DoneType, done'.again = done.again
      PROVE  StopInv'
  BY <1>4 DEF StopInv
<1>5. done \in DoneType /\ done.zooms + 1 \in Nat /\ done.toggles + 1 \in Nat
  BY DEF StopInv, DoneType
<1>6. CASE ToggleChart
  <2>1. done' = [done EXCEPT !.toggles = @ + 1] /\ UNCHANGED <<timerid, intervals>>
    BY <1>6 DEF ToggleChart
  <2> QED
    BY <1>4, <1>5, <2>1, DoneCounted, PartialIsBoolean
<1>7. ASSUME NEW q, zoom(q) PROVE StopInv'
  <2>1. /\ done' = [done EXCEPT !.zooms = @ + 1, !.partly = Partial]
        /\ UNCHANGED <<timerid, intervals>>
    BY <1>7 DEF zoom
  <2> QED
    BY <1>4, <1>5, <2>1, DoneCounted, PartialIsBoolean
<1>8. CASE onResize
  <2>1. /\ done' = [done EXCEPT !.partly = Partial]
        /\ UNCHANGED <<timerid, intervals>>
    BY <1>8 DEF onResize
  <2> QED
    BY <1>4, <1>5, <2>1, DoneCounted, PartialIsBoolean
<1>9. CASE Frame
  BY <1>1, <1>9 DEF Frame
<1>10. CASE updateRandom
  BY <1>1, <1>10 DEF updateRandom
<1>11. CASE UNCHANGED vars
  BY <1>1, <1>11 DEF vars
<1> QED
  BY <1>2, <1>3, <1>6, <1>7, <1>8, <1>9, <1>10, <1>11 DEF Next, ZoomIn, ZoomOut

\* After stop no interval moves the chart, unless start was pressed while a replay ran, however
\* replays, animation, zooming, toggling and resizing follow one another (show.jsp:163-198).
THEOREM StopsForGood == Spec => []StopStops
<1>1. StopInv => StopStops
  BY DEF StopInv, StopStops
<1> QED
  BY <1>1, StopInvInit, StopInvNext, PTL DEF Spec
-----------------------------------------------------------------------------
(* ReplayShowsTheLatest, reading by reading. *)

\* s ends with the c-th reading of r and has no gap.
Latest(r, s, c) ==
    /\ c <= Len(r) /\ Len(s) <= c
    /\ \A i \in 1..Len(s) : s[i] = r[c - Len(s) + i]

LEMMA LatestTail ==
    ASSUME NEW S, NEW r \in Seq(S), NEW s \in Seq(S), NEW c \in Nat, Latest(r, s, c), s # <<>>
    PROVE  Tail(s) \in Seq(S) /\ Len(Tail(s)) = Len(s) - 1 /\ Latest(r, Tail(s), c)
<1>1. /\ Tail(s) \in Seq(S) /\ Len(Tail(s)) = Len(s) - 1
      /\ \A i \in 1..Len(Tail(s)) : Tail(s)[i] = s[i + 1]
  BY HeadTailProperties
<1>2. Len(s) \in Nat /\ Len(r) \in Nat
  BY LenProperties
<1> QED
  BY <1>1, <1>2 DEF Latest

LEMMA LatestAppend ==
    ASSUME NEW S, NEW r \in Seq(S), NEW s \in Seq(S), NEW c \in Nat, Latest(r, s, c), c < Len(r)
    PROVE  /\ Append(s, r[c + 1]) \in Seq(S)
           /\ Len(Append(s, r[c + 1])) = Len(s) + 1
           /\ Latest(r, Append(s, r[c + 1]), c + 1)
<1>1. Len(s) \in Nat /\ Len(r) \in Nat
  BY LenProperties
<1>2. r[c + 1] \in S
  BY <1>1, ElementOfSeq
<1>3. /\ Append(s, r[c + 1]) \in Seq(S) /\ Len(Append(s, r[c + 1])) = Len(s) + 1
      /\ \A i \in 1..Len(s) : Append(s, r[c + 1])[i] = s[i]
      /\ Append(s, r[c + 1])[Len(s) + 1] = r[c + 1]
  BY <1>1, <1>2, AppendProperties
<1> QED
  BY <1>1, <1>3 DEF Latest

LEMMA LatestIsSubSeq ==
    ASSUME NEW S, NEW r \in Seq(S), NEW s \in Seq(S), NEW c \in Nat, Latest(r, s, c)
    PROVE  s = SubSeq(r, c - Len(s) + 1, c)
<1>1. Len(s) \in Nat /\ Len(r) \in Nat /\ Len(s) <= c /\ c <= Len(r)
  BY LenProperties DEF Latest
<1> DEFINE from == c - Len(s) + 1
<1>2. from \in Int /\ \A i \in from..c : r[i] \in S
  BY <1>1, ElementOfSeq
<1>3. /\ SubSeq(r, from, c) \in Seq(S)
      /\ Len(SubSeq(r, from, c)) = Len(s)
      /\ \A i \in 1..Len(s) : SubSeq(r, from, c)[i] = r[from + i - 1]
  BY <1>1, <1>2, SubSeqProperties
<1>4. \A i \in 1..Len(s) : s[i] = SubSeq(r, from, c)[i]
  BY <1>1, <1>3 DEF Latest
<1> HIDE DEF from
<1>5. s = SubSeq(r, from, c)
  BY <1>3, <1>4, SeqEqual
<1> QED
  BY <1>5 DEF from

LEMMA MinOfTwo == \A m, n \in Int : Min({m, n}) = IF m <= n THEN m ELSE n
  BY DEF Min

\* The readings of a page are sequences over some set, and the window holds a number of them.
PageConstants(S) == ReadingSets \subseteq Seq(S) /\ Window \in Nat

ReplayInv(S) ==
    /\ readings \in Seq(S) /\ slicedata \in Seq(S)
    /\ curridx \in Nat
    /\ Latest(readings, slicedata, curridx)
    /\ Len(slicedata) >= curridx \/ Len(slicedata) >= Window

LEMMA ReplayInvInit == ASSUME NEW S, PageConstants(S), Init PROVE ReplayInv(S)
<1>1. readings \in Seq(S) /\ slicedata = <<>> /\ curridx = 0
  BY DEF Init, PageConstants
<1> QED
  BY <1>1, EmptySeq, LenProperties DEF ReplayInv, Latest

LEMMA ReplayInvNext ==
    ASSUME NEW S, PageConstants(S), ReplayInv(S), [Next]_vars PROVE ReplayInv(S)'
<1>1. CASE UNCHANGED <<readings, slicedata, curridx>>
  BY <1>1 DEF ReplayInv, Latest
<1>2. CASE Start
  <2>1. readings' = readings /\ slicedata' = <<>> /\ curridx' = 0
    BY <1>2 DEF Start
  <2> QED
    BY <2>1, EmptySeq, LenProperties DEF ReplayInv, Latest
<1>3. CASE updateRandom
  <2> DEFINE kept == IF Len(slicedata) > Window THEN Tail(slicedata) ELSE slicedata
             more == curridx < Len(readings)
  <2>1. /\ readings' = readings
        /\ slicedata' = IF more THEN Append(kept, readings[curridx + 1]) ELSE kept
        /\ curridx' = IF more THEN curridx + 1 ELSE curridx
    BY <1>3 DEF updateRandom
  <2>2. Len(slicedata) \in Nat /\ Len(readings) \in Nat /\ Window \in Nat
    BY LenProperties DEF ReplayInv, PageConstants
  <2>3. /\ kept \in Seq(S) /\ Latest(readings, kept, curridx)
        /\ Len(kept) >= curridx \/ Len(kept) >= Window
    <3>1. CASE Len(slicedata) > Window
      <4>1. slicedata # <<>>
        BY <2>2, <3>1, EmptySeq
      <4> QED
        BY <2>2, <3>1, <4>1, LatestTail DEF ReplayInv
    <3>2. CASE ~(Len(slicedata) > Window)
      BY <3>2 DEF ReplayInv
    <3> QED
      BY <3>1, <3>2
  <2>4. Len(kept) \in Nat
    BY <2>3, LenProperties
  <2>5. CASE more
    <3>1. curridx \in Nat /\ readings \in Seq(S)
      BY DEF ReplayInv
    <3> HIDE DEF kept
    <3> QED
      BY <2>1, <2>2, <2>3, <2>4, <2>5, <3>1, LatestAppend DEF ReplayInv
  <2>6. CASE ~more
    <3> HIDE DEF kept
    <3> QED
      BY <2>1, <2>3, <2>6 DEF ReplayInv
  <2> QED
    BY <2>5, <2>6
<1>4. CASE Stop
  BY <1>1, <1>4 DEF Stop
<1>5. CASE Frame
  BY <1>1, <1>5 DEF Frame
<1>6. CASE ToggleChart
  BY <1>1, <1>6 DEF ToggleChart
<1>7. ASSUME NEW q, zoom(q) PROVE ReplayInv(S)'
  BY <1>1, <1>7 DEF zoom
<1>8. CASE onResize
  BY <1>1, <1>8 DEF onResize
<1>9. CASE UNCHANGED vars
  BY <1>1, <1>9 DEF vars
<1> QED
  BY <1>2, <1>3, <1>4, <1>5, <1>6, <1>7, <1>8, <1>9 DEF Next, ZoomIn, ZoomOut

\* A replay holds the readings up to its place without a gap and in order, and as many as the
\* window takes, for any readings and any window (updateRandom, show.jsp:167-183).
THEOREM ReplayIsLatest ==
    ASSUME NEW S, PageConstants(S)
    PROVE  Spec => []ReplayShowsTheLatest
<1>1. ReplayInv(S) => ReplayShowsTheLatest
  <2> SUFFICES ASSUME ReplayInv(S) PROVE ReplayShowsTheLatest
    OBVIOUS
  <2>1. /\ Len(slicedata) \in Nat /\ Len(slicedata) <= curridx /\ curridx \in Nat
        /\ Window \in Nat
    BY LenProperties DEF ReplayInv, Latest, PageConstants
  <2>2. slicedata = SubSeq(readings, curridx - Len(slicedata) + 1, curridx)
    BY LatestIsSubSeq DEF ReplayInv
  <2>3. Len(slicedata) >= Min({curridx, Window})
    BY <2>1, MinOfTwo DEF ReplayInv
  <2> QED
    BY <2>1, <2>2, <2>3 DEF ReplayShowsTheLatest
<1>2. Init => ReplayInv(S)
  BY ReplayInvInit
<1>3. ReplayInv(S) /\ [Next]_vars => ReplayInv(S)'
  BY ReplayInvNext
<1> QED
  BY <1>1, <1>2, <1>3, PTL DEF Spec
-----------------------------------------------------------------------------
(* PlotDoesNotDrift: once an axis with a name was drawn, its options hold  *)
(* the room it has, and every further draw takes off what it adds.         *)

Fields == {"data", "kind", "extent", "opts", "axis", "room", "named"}

\* c has the fields of a chart and its options.
Shape(c) == /\ c = [f \in Fields |-> c[f]]
            /\ c.opts = [f \in {"x", "y", "room"} |-> c.opts[f]]

Fixed(c, n) == Shape(c) /\ c.named = TRUE /\ c.opts.room = <<n>> /\ c.room = n

\* All that setupGrid sets: the axes, and the room its options give or the labels take.
LEMMA SetupGridSets ==
    ASSUME NEW c
    PROVE  \E axes, ticks :
              setupGrid(c) = [c EXCEPT !.axis = axes,
                                       !.room = IF c.opts.room # Unset THEN c.opts.room[1]
                                                ELSE labelWidth(ticks)]
<1> DEFINE y     == setRange(c.opts.y, c.extent.y, 2, 1000)
           ticks == tickGenerator(y, tickSize(y.max - y.min, YTicks, 10))
           axes  == [x |-> setRange(c.opts.x, c.extent.x, 0, 1000),
                     y |-> snapRangeToTicks(y, c.opts.y, ticks)]
<1>1. setupGrid(c) = [c EXCEPT !.axis = axes,
                               !.room = IF c.opts.room # Unset THEN c.opts.room[1]
                                        ELSE labelWidth(ticks)]
  BY DEF setupGrid
<1> HIDE DEF axes, ticks
<1> QED
  BY <1>1

LEMMA SetupGridFixed ==
    ASSUME NEW n \in Int, NEW c, Fixed(c, n) PROVE Fixed(setupGrid(c), n)
<1>1. PICK axes, ticks :
         setupGrid(c) = [c EXCEPT !.axis = axes,
                                  !.room = IF c.opts.room # Unset THEN c.opts.room[1]
                                           ELSE labelWidth(ticks)]
  BY SetupGridSets
<1>2. setupGrid(c) = [c EXCEPT !.axis = axes, !.room = n]
  BY <1>1 DEF Unset, Fixed
<1> QED
  BY <1>2 DEF Fixed, Shape, Fields

LEMMA DrawFixed ==
    ASSUME NEW n \in Int, NEW c, Fixed(c, n), LabelWidth \in Int PROVE Fixed(draw(c, TRUE), n)
<1> DEFINE d == [c EXCEPT !.opts.room = <<n>>, !.named = TRUE]
<1>1. draw(c, TRUE) = setupGrid(d)
  <2>1. (c.room - LabelWidth) + LabelWidth = n
    BY DEF Fixed
  <2> QED
    BY <2>1 DEF draw, Fixed
<1>2. Fixed(d, n)
  BY DEF Fixed, Shape, Fields
<1> HIDE DEF d
<1> QED
  BY <1>1, <1>2, SetupGridFixed

LEMMA SetDataFixed ==
    ASSUME NEW n \in Int, NEW c, Fixed(c, n), NEW points, NEW series
    PROVE  Fixed(setData(c, points, series), n)
<1>1. PICK k, e : setData(c, points, series) = [c EXCEPT !.data = points, !.kind = k, !.extent = e]
  BY DEF setData
<1> QED
  BY <1>1 DEF Fixed, Shape, Fields

LEMMA LabelWidthIsInt == ASSUME NEW ticks PROVE labelWidth(ticks) \in Int
<1> DEFINE W == {0} \cup {IF ticks[i] >= 10000 THEN 5 ELSE 4 : i \in DOMAIN ticks}
<1>1. 0 \in W /\ W \subseteq {0, 4, 5}
  OBVIOUS
<1> HIDE DEF W
<1>2. \E x \in W : \A y \in W : x >= y
  <2>1. CASE 5 \in W
    BY <1>1, <2>1
  <2>2. CASE 5 \notin W /\ 4 \in W
    BY <1>1, <2>2
  <2>3. CASE 5 \notin W /\ 4 \notin W
    BY <1>1, <2>3
  <2> QED BY <2>1, <2>2, <2>3
<1>3. Max(W) \in W
  BY <1>2 DEF Max
<1> QED
  BY <1>1, <1>3 DEF labelWidth, W

LEMMA FittedFixed ==
    ASSUME NEW rs, LabelWidth \in Int PROVE \E n \in Int : Fixed(Fitted(rs, TRUE), n)
<1> DEFINE new == [data |-> <<>>, kind |-> [bars |-> FALSE, lines |-> FALSE],
                   extent |-> [x |-> <<0, 0>>, y |-> <<0, 0>>], opts |-> parseOptions(rs),
                   axis |-> [x |-> [min |-> 0, max |-> 0], y |-> [min |-> 0, max |-> 0]],
                   room |-> 0, named |-> FALSE]
           made == setData(new, pInit(rs), PageSeries(rs))
           c    == setupGrid(made)
           n    == c.room + LabelWidth
           d    == [c EXCEPT !.opts.room = <<n>>, !.named = TRUE]
           Plain(e) == Shape(e) /\ e.named = FALSE /\ e.opts.room = Unset
<1>1. Plain(new)
  BY DEF Shape, Fields, parseOptions
<1>2. Plain(made)
  <2> HIDE DEF new
  <2>1. PICK k, e : made = [new EXCEPT !.data = pInit(rs), !.kind = k, !.extent = e]
    BY DEF setData
  <2> HIDE DEF made
  <2> QED
    BY <1>1, <2>1 DEF Shape, Fields
<1>3. Plain(c) /\ c.room \in Int
  <2> HIDE DEF new, made
  <2>1. PICK axes, ticks :
           c = [made EXCEPT !.axis = axes,
                            !.room = IF made.opts.room # Unset THEN made.opts.room[1]
                                     ELSE labelWidth(ticks)]
    BY SetupGridSets
  <2>2. PICK room \in Int : c = [made EXCEPT !.axis = axes, !.room = room]
    BY <1>2, <2>1, LabelWidthIsInt
  <2> HIDE DEF c
  <2> QED
    BY <1>2, <2>2 DEF Shape, Fields
<1>4. Fitted(rs, TRUE) = setupGrid(d)
  <2>1. Fitted(rs, TRUE) = draw(c, TRUE)
    BY DEF Fitted
  <2> HIDE DEF c
  <2> QED
    BY <1>3, <2>1 DEF draw
<1>5. Shape(d) /\ d.named = TRUE /\ d.opts.room = <<n>>
  <2> HIDE DEF c, n
  <2> QED
    BY <1>3 DEF Shape, Fields
<1>6. n \in Int
  <2> HIDE DEF c
  <2> QED
    BY <1>3
<1> HIDE DEF c, d, n
<1>7. PICK axes, ticks :
         setupGrid(d) = [d EXCEPT !.axis = axes,
                                  !.room = IF d.opts.room # Unset THEN d.opts.room[1]
                                           ELSE labelWidth(ticks)]
  BY SetupGridSets
<1>8. setupGrid(d) = [d EXCEPT !.axis = axes, !.room = n]
  BY <1>5, <1>7 DEF Unset
<1>9. Fixed(setupGrid(d), n)
  BY <1>5, <1>8 DEF Fixed, Shape, Fields
<1> QED
  BY <1>4, <1>6, <1>9

RoomInv == labelled \in BOOLEAN /\ (labelled = TRUE => \E n \in Int : Fixed(chart, n))

LEMMA RoomInvInit == ASSUME LabelWidth \in Int, Init PROVE RoomInv
<1>1. labelled \in BOOLEAN /\ chart = Fitted(readings, labelled)
  BY DEF Init
<1>2. CASE labelled = TRUE
  BY <1>1, <1>2, FittedFixed DEF RoomInv
<1> QED
  BY <1>1, <1>2 DEF RoomInv

LEMMA RoomInvNext ==
    ASSUME LabelWidth \in Int, RoomInv, [Next]_vars
    PROVE  RoomInv' /\ (labelled = TRUE => chart'.room = chart.room)
<1>1. labelled' = labelled
  BY DEF Next, Frame, Start, updateRandom, Stop, ToggleChart, ZoomIn, ZoomOut, zoom, onResize, vars
<1>2. CASE labelled # TRUE
  BY <1>1, <1>2 DEF RoomInv
<1>3. CASE labelled = TRUE
  <2>1. PICK n \in Int : Fixed(chart, n)
    BY <1>3 DEF RoomInv
  <2>2. SUFFICES Fixed(chart', n)
    BY <1>1, <2>1, <2>2 DEF RoomInv, Fixed
  <2>3. CASE Frame
    <3>1. chart' = draw(setData(chart, Grown(step + 1), PageSeries(readings)), TRUE)
      BY <1>3, <2>3 DEF Frame
    <3> QED
      BY <2>1, <3>1, SetDataFixed, DrawFixed
  <2>4. CASE updateRandom
    <3>1. chart' = draw(setData(chart, slicedata', getData(chart)), TRUE)
      BY <1>3, <2>4 DEF updateRandom
    <3> QED
      BY <2>1, <3>1, SetDataFixed, DrawFixed
  <2>5. CASE ToggleChart
    <3>1. PICK k : chart' = draw([chart EXCEPT !.kind = k], TRUE)
      BY <1>3, <2>5 DEF ToggleChart
    <3>2. Fixed([chart EXCEPT !.kind = k], n)
      BY <2>1 DEF Fixed, Shape, Fields
    <3> QED
      BY <3>1, <3>2, DrawFixed
  <2>6. ASSUME NEW q, zoom(q) PROVE Fixed(chart', n)
    <3>1. PICK x : chart' = draw(setupGrid([chart EXCEPT !.opts.x = x]), TRUE)
      BY <1>3, <2>6 DEF zoom
    <3>2. Fixed([chart EXCEPT !.opts.x = x], n)
      BY <2>1 DEF Fixed, Shape, Fields
    <3> QED
      BY <3>1, <3>2, SetupGridFixed, DrawFixed
  <2>7. CASE onResize
    <3>1. chart' = draw(setupGrid(chart), TRUE)
      BY <1>3, <2>7 DEF onResize
    <3> QED
      BY <2>1, <3>1, SetupGridFixed, DrawFixed
  <2>8. CASE UNCHANGED chart
    BY <2>1, <2>8
  <2> QED
    BY <2>3, <2>4, <2>5, <2>6, <2>7, <2>8 DEF Next, Start, Stop, ZoomIn, ZoomOut, vars
<1> QED
  BY <1>2, <1>3

\* Whatever is done to a chart whose y axis has a name, and however often it is drawn, the plot
\* keeps the room it had when the page was loaded (jquery.flot.axislabels.js:353-443).
THEOREM PlotStays == ASSUME LabelWidth \in Int PROVE Spec => PlotDoesNotDrift
<1>1. Init => RoomInv
  BY RoomInvInit
<1>2. RoomInv /\ [Next]_vars => RoomInv'
  BY RoomInvNext
<1>3. RoomInv /\ [Next]_vars => [RoomIsKept]_vars
  BY RoomInvNext DEF RoomIsKept, RoomInv
<1> QED
  BY <1>1, <1>2, <1>3, PTL DEF Spec, PlotDoesNotDrift

-----------------------------------------------------------------------------
(* The fitting of the axes.  First: a sequence of points has a largest and *)
(* a smallest value and time.                                              *)

\* Every set of natural numbers has a least one.
LEMMA LeastNatural ==
    ASSUME NEW T \in SUBSET Nat, T # {}
    PROVE  \E x \in T : \A y \in T : ~(y < x)
<1>1. IsWellFoundedOn(OpToRel(<, Nat), Nat)
  BY NatLessThanWellFounded
<1>2. PICK x \in T : \A y \in T : ~ (<<y, x>> \in OpToRel(<, Nat))
  BY <1>1, WFMin
<1>3. \A y \in T : y < x => <<y, x>> \in OpToRel(<, Nat)
  BY Zenon DEF OpToRel
<1> QED BY <1>2, <1>3

\* What holds of 0, and of n + 1 when of n, holds of every number: stated of a set of numbers.
LEMMA Induction ==
    ASSUME NEW S, 0 \in S, \A n \in Nat : n \in S => n + 1 \in S
    PROVE  Nat \subseteq S
<1> SUFFICES ASSUME Nat \ S # {} PROVE FALSE
  OBVIOUS
<1>1. PICK n \in Nat \ S : \A y \in Nat \ S : ~(y < n)
  BY LeastNatural
<1>2. n # 0 /\ n - 1 \in Nat
  BY <1>1
<1>3. n - 1 \in S
  BY <1>1, <1>2
<1> QED BY <1>1, <1>2, <1>3

LEMMA MaxIsLargest ==
    ASSUME NEW S, S \subseteq Int, S # {}, NEW B \in Nat, \A x \in S : x <= B
    PROVE  Max(S) \in S /\ \A y \in S : y <= Max(S)
<1> DEFINE T == {n \in Nat : \E x \in S : n = B - x}
<1>1. T # {}
  <2>1. PICK x \in S : TRUE
    OBVIOUS
  <2>2. x \in Int /\ x <= B
    BY <2>1
  <2>3. B - x \in Nat
    BY <2>2
  <2> QED BY <2>1, <2>3
<1>2. PICK n \in T : \A y \in T : ~(y < n)
  BY <1>1, LeastNatural
<1>3. PICK x \in S : n = B - x
  BY <1>2
<1>4. ASSUME NEW y \in S PROVE x >= y
  <2>1. x \in Int /\ y \in Int /\ B \in Int /\ y <= B
    OBVIOUS
  <2>2. B - y \in T
    BY <2>1
  <2>3. ~(B - y < n) /\ n = B - x
    BY <1>2, <1>3, <2>2
  <2> HIDE DEF T
  <2> QED BY <2>1, <2>3
<1>5. \E z \in S : \A y \in S : z >= y
  BY <1>4
<1>6. Max(S) \in S /\ \A y \in S : Max(S) >= y
  BY <1>5 DEF Max
<1> QED BY <1>6

LEMMA MinIsSmallest ==
    ASSUME NEW S, S \subseteq Int, S # {}, NEW B \in Nat, \A x \in S : -B <= x
    PROVE  Min(S) \in S /\ \A y \in S : Min(S) <= y
<1> DEFINE T == {n \in Nat : \E x \in S : n = B + x}
<1>1. T # {}
  <2>1. PICK x \in S : TRUE
    OBVIOUS
  <2>2. x \in Int /\ -B <= x
    BY <2>1
  <2>3. B + x \in Nat
    BY <2>2
  <2> QED BY <2>1, <2>3
<1>2. PICK n \in T : \A y \in T : ~(y < n)
  BY <1>1, LeastNatural
<1>3. PICK x \in S : n = B + x
  BY <1>2
<1>4. ASSUME NEW y \in S PROVE x =< y
  <2>1. x \in Int /\ y \in Int /\ B \in Int /\ -B <= y
    OBVIOUS
  <2>2. B + y \in T
    BY <2>1
  <2>3. ~(B + y < n) /\ n = B + x
    BY <1>2, <1>3, <2>2
  <2> HIDE DEF T
  <2> QED BY <2>1, <2>3
<1>5. \E z \in S : \A y \in S : z =< y
  BY <1>4
<1>6. Min(S) \in S /\ \A y \in S : Min(S) =< y
  BY <1>5 DEF Min
<1> QED BY <1>6

Point(p) == p[1] \in Int /\ (Len(p) = 2 => p[2] \in Nat)

Plottable(d) == \E n \in Nat : DOMAIN d = 1..n /\ \A i \in 1..n : Point(d[i])

Beyond(p, B) == -B <= p[1] /\ p[1] <= B /\ (Len(p) = 2 => p[2] <= B)

LEMMA PointsOf == ASSUME NEW d, Plottable(d), NEW i \in DOMAIN d PROVE Point(d[i])
  BY DEF Plottable

LEMMA BoundExists ==
    ASSUME NEW p, Point(p) PROVE \E B \in Nat : Beyond(p, B)
<1> DEFINE x == p[1]
           y == IF Len(p) = 2 THEN p[2] ELSE 0
<1>1. x \in Int /\ y \in Nat
  BY DEF Point
<1>2. ASSUME NEW B \in Nat, -B <= x, x <= B, y <= B PROVE Beyond(p, B)
  BY <1>2 DEF Beyond
<1> HIDE DEF x, y
<1>3. CASE x >= 0
  <2>1. x + y \in Nat /\ -(x + y) <= x /\ x <= x + y /\ y <= x + y
    BY <1>1, <1>3
  <2> QED BY <1>2, <2>1
<1>4. CASE ~(x >= 0)
  <2>1. y - x \in Nat /\ -(y - x) <= x /\ x <= y - x /\ y <= y - x
    BY <1>1, <1>4
  <2> QED BY <1>2, <2>1
<1> QED BY <1>3, <1>4

LEMMA BoundGrows ==
    ASSUME NEW p, Point(p), NEW B \in Nat, NEW C \in Nat, Beyond(p, B), B <= C
    PROVE  Beyond(p, C)
<1> DEFINE x == p[1]
           y == IF Len(p) = 2 THEN p[2] ELSE 0
<1>1. x \in Int /\ y \in Nat
  BY DEF Point
<1>2. -B <= x /\ x <= B /\ y <= B
  BY DEF Beyond
<1>3. -C <= x /\ x <= C /\ y <= C
  <2> HIDE DEF x, y
  <2> QED BY <1>1, <1>2
<1> QED BY <1>3 DEF Beyond

LEMMA PointsAreBounded ==
    ASSUME NEW d, Plottable(d)
    PROVE  \E B \in Nat : \A i \in DOMAIN d : Beyond(d[i], B)
<1> DEFINE Bounded(n) == (\A i \in 1..n : Point(d[i])) => \E B \in Nat : \A i \in 1..n : Beyond(d[i], B)
           S == {n \in Nat : Bounded(n)}
<1>1. 0 \in S
  <2>1. 1..0 = {}
    OBVIOUS
  <2>2. Bounded(0)
    BY <2>1
  <2> QED BY <2>2
<1>2. ASSUME NEW n \in Nat, n \in S PROVE n + 1 \in S
  <2>1. SUFFICES ASSUME \A i \in 1..(n + 1) : Point(d[i])
                 PROVE  \E B \in Nat : \A i \in 1..(n + 1) : Beyond(d[i], B)
    OBVIOUS
  <2>2. \A i \in 1..n : i \in 1..(n + 1)
    OBVIOUS
  <2>3. PICK B \in Nat : \A i \in 1..n : Beyond(d[i], B)
    BY <1>2, <2>1, <2>2
  <2>4. Point(d[n + 1])
    BY <2>1
  <2>5. PICK C \in Nat : Beyond(d[n + 1], C)
    BY <2>4, BoundExists
  <2>6. B + C \in Nat /\ B <= B + C /\ C <= B + C
    OBVIOUS
  <2>7. ASSUME NEW i \in 1..(n + 1) PROVE Beyond(d[i], B + C)
    <3>1. CASE i = n + 1
      BY <2>4, <2>5, <2>6, <3>1, BoundGrows
    <3>2. CASE i # n + 1
      <4>1. i \in 1..n
        BY <3>2
      <4> QED BY <2>1, <2>3, <2>6, <4>1, BoundGrows
    <3> QED BY <3>1, <3>2
  <2> QED BY <2>6, <2>7
<1> HIDE DEF S
<1>3. Nat \subseteq S
  BY <1>1, <1>2, Induction
<1>4. PICK n \in Nat : DOMAIN d = 1..n /\ \A i \in 1..n : Point(d[i])
  BY DEF Plottable
<1> QED BY <1>3, <1>4 DEF S

\* The largest value, or 0, of some points, and the first and the last of their times.
LEMMA LargestValue ==
    ASSUME NEW d, Plottable(d)
    PROVE  /\ Max(Values(d) \cup {0}) \in Nat
           /\ \A v \in Values(d) : v \in Nat /\ v <= Max(Values(d) \cup {0})
<1>1. PICK B \in Nat : \A i \in DOMAIN d : Beyond(d[i], B)
  BY PointsAreBounded
<1>2. ASSUME NEW v \in Values(d) PROVE v \in Nat /\ v <= B
  <2>1. PICK i \in DOMAIN d : Len(d[i]) = 2 /\ v = d[i][2]
    BY DEF Values, Valued
  <2> QED BY <1>1, <2>1, PointsOf DEF Point, Beyond
<1> DEFINE S == Values(d) \cup {0}
<1>3. S \subseteq Int /\ S \subseteq Nat /\ S # {} /\ \A x \in S : x <= B
  BY <1>2
<1>4. Values(d) \subseteq S
  OBVIOUS
<1> HIDE DEF S
<1>5. Max(S) \in S /\ \A y \in S : y <= Max(S)
  BY <1>3, MaxIsLargest
<1> QED BY <1>2, <1>3, <1>4, <1>5 DEF S

LEMMA SmallestAndLargest ==
    ASSUME NEW d, Plottable(d), Values(d) # {}
    PROVE  /\ Min(Values(d)) \in Values(d) /\ Max(Values(d)) \in Values(d)
           /\ \A v \in Values(d) : Min(Values(d)) <= v /\ v <= Max(Values(d))
<1>1. PICK B \in Nat : \A i \in DOMAIN d : Beyond(d[i], B)
  BY PointsAreBounded
<1>2. ASSUME NEW v \in Values(d) PROVE v \in Nat /\ v <= B /\ -B <= v
  <2>1. PICK i \in DOMAIN d : Len(d[i]) = 2 /\ v = d[i][2]
    BY DEF Values, Valued
  <2>2. v \in Nat /\ v <= B
    BY <1>1, <2>1, PointsOf DEF Point, Beyond
  <2> QED BY <2>2
<1> DEFINE S == Values(d)
<1>3. S \subseteq Int /\ S # {} /\ (\A x \in S : x <= B) /\ \A x \in S : -B <= x
  BY <1>2
<1> HIDE DEF S
<1>4. Max(S) \in S /\ \A y \in S : y <= Max(S)
  BY <1>3, MaxIsLargest
<1>5. Min(S) \in S /\ \A y \in S : Min(S) <= y
  BY <1>3, MinIsSmallest
<1> QED BY <1>4, <1>5 DEF S

LEMMA FirstAndLast ==
    ASSUME NEW d, Plottable(d), DOMAIN d # {}
    PROVE  /\ Min(Times(d)) \in Int /\ Max(Times(d)) \in Int
           /\ \A t \in Times(d) : t \in Int /\ Min(Times(d)) <= t /\ t <= Max(Times(d))
<1>1. PICK B \in Nat : \A i \in DOMAIN d : Beyond(d[i], B)
  BY PointsAreBounded
<1>2. ASSUME NEW t \in Times(d) PROVE t \in Int /\ t <= B /\ -B <= t
  <2>1. PICK i \in DOMAIN d : t = d[i][1]
    BY DEF Times
  <2> QED BY <1>1, <2>1, PointsOf DEF Point, Beyond
<1>3. Times(d) # {}
  BY DEF Times
<1> DEFINE S == Times(d)
<1>4. S \subseteq Int /\ S # {} /\ (\A x \in S : x <= B) /\ \A x \in S : -B <= x
  BY <1>2, <1>3
<1> HIDE DEF S
<1>5. Max(S) \in S /\ \A y \in S : y <= Max(S)
  BY <1>4, MaxIsLargest
<1>6. Min(S) \in S /\ \A y \in S : Min(S) <= y
  BY <1>4, MinIsSmallest
<1> QED BY <1>4, <1>5, <1>6 DEF S

\* No time, and no end of a bar, is after the last of them.
LEMMA LastEnd ==
    ASSUME BarWidth \in Nat, NEW d, Plottable(d), DOMAIN d # {}, NEW shape
    PROVE  LET S == Times(d) \cup Ends(d, shape)
           IN  Max(S) \in Int /\ S \subseteq Int /\ \A x \in S : x <= Max(S)
<1> DEFINE S == Times(d) \cup Ends(d, shape)
<1>1. PICK B \in Nat : \A i \in DOMAIN d : Beyond(d[i], B)
  BY PointsAreBounded
<1>2. PICK room \in Nat : room = RoomForBars(shape)
  BY DEF RoomForBars
<1>3. PICK C \in Nat : C = B + room
  OBVIOUS
<1>4. ASSUME NEW x \in S PROVE x \in Int /\ x <= C
  <2>1. CASE x \in Times(d)
    <3>1. PICK i \in DOMAIN d : x = d[i][1]
      BY <2>1 DEF Times
    <3>2. x \in Int /\ x <= B
      BY <1>1, <3>1, PointsOf DEF Point, Beyond
    <3> QED BY <1>2, <1>3, <3>2
  <2>2. CASE x \in Ends(d, shape)
    <3>1. PICK i \in DOMAIN d : x = d[i][1] + room
      BY <1>2, <2>2 DEF Ends, Valued
    <3>2. PICK t \in Int : t = d[i][1] /\ t <= B
      BY <1>1, PointsOf DEF Point, Beyond
    <3> QED BY <1>2, <1>3, <3>1, <3>2
  <2> QED BY <2>1, <2>2
<1>5. S # {}
  BY DEF Times
<1>6. S \subseteq Int /\ \A x \in S : x <= C
  BY <1>4
<1> HIDE DEF S
<1>7. Max(S) \in S /\ \A x \in S : x <= Max(S)
  BY <1>5, <1>6, MaxIsLargest
<1>8. Max(S) \in Int /\ S \subseteq Int /\ \A x \in S : x <= Max(S)
  BY <1>6, <1>7
<1> QED BY <1>8 DEF S

-----------------------------------------------------------------------------
(* The axes that setupGrid makes. *)

LEMMA MaxOfTwo == \A m, n \in Int : Max({m, n}) = IF m >= n THEN m ELSE n
  BY DEF Max

\* The x axis is as long as the data where nothing was set.
LEMMA FreeAxis ==
    ASSUME NEW o, o.min = Unset, o.max = Unset, NEW e, e[1] \in Int, e[2] \in Int, e[1] <= e[2]
    PROVE  LET a == setRange(o, e, 0, 1000)
           IN  a.min \in Int /\ a.max \in Int /\ a.min <= e[1] /\ e[2] <= a.max
<1>1. PICK lo \in Int, hi \in Int : lo = e[1] /\ hi = e[2] /\ lo <= hi
  OBVIOUS
<1>2. Given(o.min, e[1]) = lo /\ Given(o.max, e[2]) = hi
  BY <1>1 DEF Given
<1>3. Widen(lo, 1000) \in Nat /\ Widen(hi, 1000) \in Nat
  BY DEF Widen
<1>4. ((hi - lo) * 0) \div 100 = 0
  OBVIOUS
<1>5. CASE hi - lo = 0
  <2>1. setRange(o, e, 0, 1000) = [min |-> lo - Widen(lo, 1000), max |-> hi + Widen(hi, 1000)]
    BY <1>2, <1>5 DEF setRange
  <2>2. /\ lo - Widen(lo, 1000) \in Int /\ hi + Widen(hi, 1000) \in Int
        /\ lo - Widen(lo, 1000) <= lo /\ hi <= hi + Widen(hi, 1000)
    BY <1>3
  <2> QED BY <1>1, <2>1, <2>2
<1>6. CASE hi - lo # 0
  <2>1. setRange(o, e, 0, 1000) = [min |-> lo - 0, max |-> hi + 0]
    BY <1>2, <1>4, <1>6 DEF setRange
  <2> QED BY <1>1, <2>1
<1> QED BY <1>5, <1>6

\* The y axis begins where the page says, and ends above that and above the data, unless the
\* data end below it.
LEMMA SetAxis ==
    ASSUME NEW L \in Int, NEW o, o = [min |-> <<L>>, max |-> Unset], NEW e, e[2] \in Nat
    PROVE  LET y == setRange(o, e, 2, 1000)
           IN  /\ y = [min |-> L, max |-> y.max] /\ y.max \in Int
               /\ L <= e[2] => L < y.max /\ e[2] <= y.max
<1> DEFINE hi    == e[2]
           high  == hi + ((hi - L) * 2) \div 100
<1>1. hi \in Nat /\ high \in Int /\ Widen(hi, 1000) \in Nat /\ Widen(hi, 1000) > 0
  BY DEF Widen
<1>2. /\ o.min = <<L>> /\ o.min # Unset /\ o.max = Unset /\ Given(o.min, e[1]) = L
      /\ Given(o.max, e[2]) = hi
  BY DEF Unset, Given
<1>3. /\ hi - L = 0 => setRange(o, e, 2, 1000) = [min |-> L, max |-> hi + Widen(hi, 1000)]
      /\ hi - L # 0 => setRange(o, e, 2, 1000) =
             [min |-> L, max |-> IF high > 0 /\ hi <= 0 THEN 0 ELSE high]
  BY <1>2 DEF setRange
<1>4. L <= hi => hi <= high
  OBVIOUS
<1> HIDE DEF hi, high
<1>5. CASE hi - L = 0
  BY <1>1, <1>3, <1>5 DEF hi
<1>6. CASE hi - L # 0
  BY <1>1, <1>3, <1>4, <1>6 DEF hi
<1> QED BY <1>5, <1>6

LEMMA TickSizeIsPositive ==
    ASSUME NEW range, NEW n, NEW least \in {1, 10} PROVE tickSize(range, n, least) \in Nat \ {0}
<1> DEFINE S    == {least} \cup {p \in Powers : p > least /\ p * n <= range}
           magn == Max(S)
<1>1. S \subseteq Nat \ {0} /\ S # {}
  BY SMT DEF Powers
<1>2. \E B \in Nat : \A x \in S : x <= B
  <2>1. \A x \in S : x <= 1000000
    BY SMT DEF Powers
  <2> HIDE DEF S
  <2> QED BY <2>1, SMT
<1>3. magn \in Nat \ {0}
  <2> HIDE DEF S
  <2>1. S \subseteq Int
    BY <1>1
  <2>2. Max(S) \in S
    BY <1>1, <1>2, <2>1, MaxIsLargest
  <2> QED BY <1>1, <2>2
<1> HIDE DEF magn
<1>4. /\ magn \in Nat \ {0} /\ 2 * magn \in Nat \ {0} /\ 5 * magn \in Nat \ {0}
      /\ 10 * magn \in Nat \ {0} /\ (5 * magn) \div 2 \in Nat \ {0}
  BY <1>3
<1>5. tickSize(range, n, least) \in {magn, (5 * magn) \div 2, 2 * magn, 5 * magn, 10 * magn}
  BY DEF tickSize, magn, S
<1> QED BY <1>4, <1>5

LEMMA TicksAreIntegers ==
    ASSUME NEW L \in Int, NEW y, y.min = L, y.max \in Int, NEW size \in Nat \ {0}
    PROVE  tickGenerator(y, size) \in Seq(Int)
<1> DEFINE start == floorInBase(y.min, size)
           more  == IF start >= y.max THEN 0 ELSE Ceiling(y.max - start, size)
<1>1. start \in Int
  <2>1. size \in Int /\ size > 0
    OBVIOUS
  <2>2. L \div size \in Int
    BY <2>1
  <2> QED BY <2>1, <2>2 DEF floorInBase
<1> HIDE DEF start
<1>2. more \in Nat
  <2>1. CASE start >= y.max
    BY <2>1
  <2>2. CASE ~(start >= y.max)
    <3> DEFINE k == y.max - start
    <3>1. k \in Nat /\ k > 0
      BY <1>1, <2>2
    <3> HIDE DEF k
    <3>2. (-k) \div size \in Int /\ (-k) \div size <= 0
      BY <3>1
    <3>3. Ceiling(k, size) \in Nat
      BY <3>2 DEF Ceiling
    <3> QED BY <2>2, <3>3 DEF k
  <2> QED BY <2>1, <2>2
<1> HIDE DEF more
<1>3. \A i \in 1..(more + 1) : start + (i - 1) * size \in Int
  BY <1>1, <1>2
<1>4. [i \in 1..(more + 1) |-> start + (i - 1) * size] \in Seq(Int)
  BY <1>2, <1>3
<1>5. <<>> \in Seq(Int)
  BY EmptySeq
<1> QED BY <1>4, <1>5 DEF tickGenerator, start, more

LEMMA SnapKeeps ==
    ASSUME NEW L \in Int, NEW o, o = [min |-> <<L>>, max |-> Unset],
           NEW y, y.min = L, y.max \in Int, NEW ticks \in Seq(Int)
    PROVE  LET a == snapRangeToTicks(y, o, ticks)
           IN  a.min = L /\ a.max \in Int /\ y.max <= a.max
<1>1. o.min # Unset /\ o.max = Unset
  BY DEF Unset
<1>2. CASE ticks = <<>>
  BY <1>2 DEF snapRangeToTicks
<1>3. CASE ticks # <<>> /\ ~(Len(ticks) > 1)
  BY <1>1, <1>3 DEF snapRangeToTicks
<1>4. CASE ticks # <<>> /\ Len(ticks) > 1
  <2> DEFINE last == ticks[Len(ticks)]
  <2>1. last \in Int
    BY <1>4, LenProperties, ElementOfSeq
  <2>2. snapRangeToTicks(y, o, ticks) = [min |-> L, max |-> Max({y.max, last})]
    BY <1>1, <1>4 DEF snapRangeToTicks
  <2> HIDE DEF last
  <2>3. Max({y.max, last}) \in Int /\ y.max <= Max({y.max, last})
    BY <2>1, MaxOfTwo
  <2> QED BY <2>2, <2>3
<1> QED BY <1>2, <1>3, <1>4

-----------------------------------------------------------------------------
(* What holds of a chart between two events. *)

\* A page has readings, in the order of time.
HasReadings(rs) == rs \in Seq(Int \X Nat) /\ rs # <<>> /\ First(rs)[1] <= Last(rs)[1]

\* The range of time and the largest value of d lie in e.
Covers(e, d) ==
    /\ e.x[1] \in Int /\ e.x[2] \in Int /\ e.x[1] <= e.x[2] /\ e.y[2] \in Nat
    /\ \A t \in Times(d) : e.x[1] <= t /\ t <= e.x[2]
    /\ \A v \in Values(d) : v <= e.y[2]

\* The points that have a value are of the readings, and there is one.
Drawable(d, rs) ==
    /\ Plottable(d) /\ Values(d) # {}
    /\ Times(d) \subseteq Times(rs) /\ Values(d) \subseteq Values(rs)

Sound(c, rs) ==
    /\ Shape(c)
    /\ c.opts.y = parseOptions(rs).y
    /\ Drawable(c.data, rs)
    /\ Covers(c.extent, c.data)

\* The smallest reading is not rounded to more than it is.
Rounded(rs) == LET m == Min(Values(rs)) IN ~(m \in 625..999 \/ m \in 1875..1999)

Upright(box, rs) == Rounded(rs) => box.y.min < box.y.max

\* No part of the extent e is outside of the axes.
Spans(box, e) ==
    /\ box.x.min \in Int /\ box.x.max \in Int /\ box.x.min <= e.x[1] /\ e.x[2] <= box.x.max
    /\ box.y.min \in Int /\ box.y.max \in Int /\ (e.y[2] <= box.y.max \/ e.y[2] <= box.y.min)

\* Neither is any reading of rs.
Encloses(box, rs) ==
    /\ box.y.min \in Int /\ box.y.max \in Int
    /\ \A t \in Times(rs) : box.x.min <= t /\ t <= box.x.max
    /\ \A v \in Values(rs) : v <= box.y.max \/ v <= box.y.min

Free(c) == c.opts.x = [min |-> Unset, max |-> Unset]

LEMMA ReadingsArePoints ==
    ASSUME NEW rs, HasReadings(rs)
    PROVE  /\ Plottable(rs) /\ 1 \in DOMAIN rs /\ Values(rs) # {} /\ Drawable(rs, rs)
           /\ \A i \in DOMAIN rs : /\ rs[i] \in Int \X Nat /\ Len(rs[i]) = 2
                                   /\ rs[i][1] \in Times(rs) /\ rs[i][2] \in Values(rs)
<1>1. Len(rs) \in Nat /\ DOMAIN rs = 1..Len(rs) /\ Len(rs) # 0
  BY LenProperties, EmptySeq DEF HasReadings
<1>2. ASSUME NEW i \in DOMAIN rs
      PROVE  rs[i] \in Int \X Nat /\ Len(rs[i]) = 2 /\ Point(rs[i])
  <2>1. rs[i] \in Int \X Nat
    BY <1>1, ElementOfSeq DEF HasReadings
  <2>2. PICK t \in Int, v \in Nat : rs[i] = <<t, v>>
    BY <2>1
  <2>3. Len(rs[i]) = 2 /\ rs[i][1] = t /\ rs[i][2] = v
    BY <2>2
  <2>4. Point(rs[i])
    BY <2>2, <2>3 DEF Point
  <2> QED BY <2>1, <2>3, <2>4
<1>3. 1 \in DOMAIN rs
  BY <1>1
<1>4. Plottable(rs)
  BY <1>1, <1>2 DEF Plottable
<1>5. \A i \in DOMAIN rs : rs[i][1] \in Times(rs) /\ rs[i][2] \in Values(rs)
  BY <1>2 DEF Times, Values, Valued
<1> QED BY <1>2, <1>3, <1>4, <1>5 DEF Drawable

LEMMA ExtentCovers ==
    ASSUME BarWidth \in Nat, NEW d, Plottable(d), Values(d) # {}, NEW shape
    PROVE  /\ Covers(processData(d, shape), d)
           /\ \A x \in Ends(d, shape) : x <= processData(d, shape).x[2]
<1> DEFINE e == processData(d, shape)
           S == Times(d) \cup Ends(d, shape)
           lo == Min(Times(d))
           hi == Max(S)
           most == Max(Values(d) \cup {0})
<1>1. DOMAIN d # {}
  BY DEF Values, Valued
<1>2. hi \in Int /\ \A x \in S : x \in Int /\ x <= hi
  BY <1>1, LastEnd
<1>3. lo \in Int /\ \A t \in Times(d) : t \in Int /\ lo <= t
  BY <1>1, FirstAndLast
<1>4. most \in Nat /\ \A v \in Values(d) : v <= most
  BY LargestValue
<1>5. e.x[1] = lo /\ e.x[2] = hi /\ e.y[2] = most
  BY DEF processData
<1>6. PICK t \in Times(d) : TRUE
  BY <1>1 DEF Times
<1>7. (\A x \in Times(d) : x \in S) /\ \A x \in Ends(d, shape) : x \in S
  OBVIOUS
<1> HIDE DEF e, lo, hi, S, most
<1>8. lo <= hi
  BY <1>2, <1>3, <1>6, <1>7
<1>9. Covers(e, d)
  BY <1>2, <1>3, <1>4, <1>5, <1>7, <1>8 DEF Covers
<1>10. \A x \in Ends(d, shape) : x <= e.x[2]
  BY <1>2, <1>5, <1>7
<1> QED BY <1>9, <1>10 DEF e

\* setupGrid changes axis and room only; the new axes are upright and span the extent.
LEMMA GridFits ==
    ASSUME NEW rs, HasReadings(rs), NEW c, Sound(c, rs)
    PROVE  LET g == setupGrid(c)
           IN  /\ Sound(g, rs) /\ g.extent = c.extent /\ g.data = c.data /\ g.opts = c.opts
               /\ Upright(g.axis, rs)
               /\ Free(c) => Spans(g.axis, c.extent)
<1> DEFINE y     == setRange(c.opts.y, c.extent.y, 2, 1000)
           ticks == tickGenerator(y, tickSize(y.max - y.min, YTicks, 10))
           ax    == setRange(c.opts.x, c.extent.x, 0, 1000)
           ay    == snapRangeToTicks(y, c.opts.y, ticks)
           axes  == [x |-> ax, y |-> ay]
           room  == IF c.opts.room # Unset THEN c.opts.room[1] ELSE labelWidth(ticks)
           m     == Min(Values(rs))
           L     == minyValue(m)
<1>1. setupGrid(c) = [c EXCEPT !.axis = axes, !.room = room]
  BY DEF setupGrid
<1>2. LET g == [c EXCEPT !.axis = axes, !.room = room]
      IN  /\ Shape(g) /\ g.extent = c.extent /\ g.data = c.data /\ g.opts = c.opts
          /\ g.axis = axes
  <2> HIDE DEF axes, room
  <2> QED BY DEF Sound, Shape, Fields
<1>3. m \in Nat /\ \A v \in Values(rs) : m <= v
  BY ReadingsArePoints, SmallestAndLargest, LargestValue
<1>4. L \in Int /\ (Rounded(rs) => L <= m)
  <2>1. L = 1000 * ((8 * m + 5000) \div 10000)
    BY DEF minyValue
  <2> HIDE DEF m, L
  <2>2. L \in Int
    BY <1>3, <2>1
  <2>3. ASSUME ~(m \in 625..999 \/ m \in 1875..1999) PROVE L <= m
    BY <1>3, <2>1, <2>3
  <2> QED BY <2>2, <2>3 DEF Rounded, m
<1>5. c.opts.y = [min |-> <<L>>, max |-> Unset]
  BY DEF Sound, parseOptions
<1>6. /\ c.extent.x[1] \in Int /\ c.extent.x[2] \in Int /\ c.extent.x[1] <= c.extent.x[2]
      /\ c.extent.y[2] \in Nat
      /\ \E v \in Values(rs) : v <= c.extent.y[2]
  BY DEF Sound, Covers, Drawable
<1> HIDE DEF L
<1>7. /\ y.min = L /\ y.max \in Int
      /\ L <= c.extent.y[2] => L < y.max /\ c.extent.y[2] <= y.max
  BY <1>4, <1>5, <1>6, SetAxis
<1>8. ticks \in Seq(Int)
  <2> HIDE DEF y
  <2> QED BY <1>4, <1>7, TickSizeIsPositive, TicksAreIntegers
<1> HIDE DEF y, ticks
<1>9. ay.min = L /\ ay.max \in Int /\ y.max <= ay.max
  BY <1>4, <1>5, <1>7, <1>8, SnapKeeps
<1>10. Free(c) => /\ ax.min \in Int /\ ax.max \in Int
                  /\ ax.min <= c.extent.x[1] /\ c.extent.x[2] <= ax.max
  BY <1>6, FreeAxis DEF Free
<1> HIDE DEF ax, ay
<1>11. Upright(axes, rs)
  <2> SUFFICES ASSUME Rounded(rs) PROVE axes.y.min < axes.y.max
    BY DEF Upright
  <2>1. PICK v \in Values(rs) : v <= c.extent.y[2]
    BY <1>6
  <2>2. v \in Nat /\ m <= v
    BY <1>3, ReadingsArePoints, LargestValue
  <2> HIDE DEF m
  <2>3. L <= c.extent.y[2]
    BY <1>3, <1>4, <1>6, <2>1, <2>2
  <2>4. L < ay.max
    BY <1>4, <1>7, <1>9, <2>3
  <2> QED BY <1>9, <2>4
<1>12. Free(c) => Spans(axes, c.extent)
  <2>1. c.extent.y[2] <= ay.max \/ c.extent.y[2] <= L
    BY <1>4, <1>6, <1>7, <1>9
  <2> QED BY <1>4, <1>9, <1>10, <2>1 DEF Spans
<1> HIDE DEF axes, room
<1> QED BY <1>1, <1>2, <1>11, <1>12 DEF Sound

LEMMA DrawFits ==
    ASSUME NEW rs, HasReadings(rs), NEW c, Sound(c, rs), Upright(c.axis, rs), NEW b \in BOOLEAN
    PROVE  LET g == draw(c, b)
           IN  /\ Sound(g, rs) /\ g.extent = c.extent /\ g.data = c.data /\ g.opts.x = c.opts.x
               /\ Upright(g.axis, rs)
               /\ b = TRUE /\ Free(c) => Spans(g.axis, c.extent)
               /\ b = FALSE => g = c
<1>1. CASE b = FALSE
  BY <1>1 DEF draw
<1>2. CASE b = TRUE
  <2> DEFINE ticks == IF c.named THEN c.room - LabelWidth ELSE c.room
             n     == ticks + LabelWidth
             d     == [c EXCEPT !.opts.room = <<n>>, !.named = TRUE]
  <2>1. draw(c, b) = setupGrid(d)
    BY <1>2 DEF draw
  <2>2. Sound(d, rs) /\ d.extent = c.extent /\ d.data = c.data /\ d.opts.x = c.opts.x
    <3> HIDE DEF n
    <3>1. /\ Shape(d) /\ d.extent = c.extent /\ d.data = c.data /\ d.opts.x = c.opts.x
          /\ d.opts.y = c.opts.y
      BY DEF Sound, Shape, Fields
    <3> QED BY <3>1 DEF Sound
  <2> HIDE DEF d
  <2>3. Free(d) <=> Free(c)
    BY <2>2 DEF Free
  <2> QED BY <1>2, <2>1, <2>2, <2>3, GridFits
<1> QED BY <1>1, <1>2

-----------------------------------------------------------------------------

\* The extent has room for the whole of each bar; drawing leaves it and the data alone.
Roomy(c)       == \A x \in Ends(c.data, c.kind) : x <= c.extent.x[2]
SameData(g, c) == g.data = c.data /\ g.kind = c.kind /\ g.extent = c.extent

LEMMA RoomyKept == ASSUME NEW c, NEW g, SameData(g, c), Roomy(c) PROVE Roomy(g)
  BY DEF SameData, Roomy

LEMMA SetupGridKeeps == ASSUME NEW c, Shape(c) PROVE SameData(setupGrid(c), c)
<1>1. PICK axes, ticks :
         setupGrid(c) = [c EXCEPT !.axis = axes,
                                  !.room = IF c.opts.room # Unset THEN c.opts.room[1]
                                           ELSE labelWidth(ticks)]
  BY SetupGridSets
<1> QED BY <1>1 DEF Shape, Fields, SameData

LEMMA DrawKeeps == ASSUME NEW c, Shape(c), NEW b \in BOOLEAN PROVE SameData(draw(c, b), c)
<1>1. CASE b = FALSE
  BY <1>1 DEF draw, SameData
<1>2. CASE b = TRUE
  <2> DEFINE n == (IF c.named THEN c.room - LabelWidth ELSE c.room) + LabelWidth
             d == [c EXCEPT !.opts.room = <<n>>, !.named = TRUE]
  <2>1. draw(c, b) = setupGrid(d)
    BY <1>2 DEF draw
  <2>2. Shape(d) /\ SameData(d, c)
    <3> HIDE DEF n
    <3> QED BY DEF Shape, Fields, SameData
  <2> HIDE DEF d
  <2> QED BY <2>1, <2>2, SetupGridKeeps DEF SameData
<1> QED BY <1>1, <1>2

\* What a chart needs to be given data.
Usable(c, rs) == Shape(c) /\ c.opts.y = parseOptions(rs).y

LEMMA DataFit ==
    ASSUME BarWidth \in Nat, NEW rs, NEW c, Usable(c, rs), NEW d, Drawable(d, rs), NEW series
    PROVE  LET g == setData(c, d, series)
           IN  Sound(g, rs) /\ g.opts = c.opts /\ g.axis = c.axis /\ g.data = d /\ Roomy(g)
<1> DEFINE shape == fillInSeriesOptions(series)
           e    == processData(d, shape)
<1>1. setData(c, d, series) = [c EXCEPT !.data = d, !.kind = shape, !.extent = e]
  BY DEF setData
<1>2. Covers(e, d) /\ \A x \in Ends(d, shape) : x <= e.x[2]
  BY ExtentCovers DEF Drawable
<1> HIDE DEF e, shape
<1> DEFINE g == [c EXCEPT !.data = d, !.kind = shape, !.extent = e]
<1>4. /\ Shape(g) /\ g.opts = c.opts /\ g.axis = c.axis /\ g.data = d /\ g.extent = e
      /\ g.kind = shape
  BY DEF Usable, Shape, Fields
<1> HIDE DEF g
<1>3. Roomy(g)
  BY <1>2, <1>4 DEF Roomy
<1>5. Sound(g, rs)
  BY <1>2, <1>4 DEF Sound, Usable
<1>6. setData(c, d, series) = g
  BY <1>1 DEF g
<1> QED BY <1>3, <1>4, <1>5, <1>6

\* What is outside of no extent that spans the readings is outside of no axis.
LEMMA SpansEncloses ==
    ASSUME NEW rs, NEW box, NEW e, Spans(box, e), Covers(e, rs), HasReadings(rs)
    PROVE  Encloses(box, rs)
<1>1. \A t \in Times(rs) : t \in Int
  BY ReadingsArePoints, FirstAndLast
<1>2. \A v \in Values(rs) : v \in Nat
  BY ReadingsArePoints, LargestValue
<1>3. ASSUME NEW t \in Times(rs) PROVE box.x.min <= t /\ t <= box.x.max
  BY <1>1 DEF Spans, Covers
<1>4. ASSUME NEW v \in Values(rs) PROVE v <= box.y.max \/ v <= box.y.min
  BY <1>2 DEF Spans, Covers
<1> QED BY <1>3, <1>4 DEF Encloses, Spans

\* The points the chart is made with have all times of the readings, and the largest value.
LEMMA FirstPoints ==
    ASSUME NEW rs, HasReadings(rs)
    PROVE  /\ Drawable(pInit(rs), rs)
           /\ Times(rs) \subseteq Times(pInit(rs))
           /\ Max(Values(rs)) \in Values(pInit(rs))
<1> DEFINE n    == Len(rs)
           t    == First(rs)[1]
           most == Max(Values(rs))
           least == Min(Values(rs))
           P    == Seq(Int)
           head == << <<t, most>>, <<t>>, <<t, least>> >>
           rest == [i \in DOMAIN rs |-> <<rs[i][1]>>]
           d    == pInit(rs)
<1>1. n \in Nat /\ DOMAIN rs = 1..n /\ n # 0
  BY LenProperties, EmptySeq DEF HasReadings
<1>2. /\ Plottable(rs) /\ Values(rs) # {}
      /\ \A i \in 1..n : rs[i][1] \in Times(rs)
  BY <1>1, ReadingsArePoints
<1>3. most \in Values(rs) /\ least \in Values(rs) /\ \A v \in Values(rs) : v \in Nat
  BY <1>2, SmallestAndLargest, LargestValue
<1>4. t \in Times(rs) /\ \A u \in Times(rs) : u \in Int
  BY <1>1, <1>2, ReadingsArePoints, FirstAndLast DEF First
<1> HIDE DEF t, most, least
<1>5. most \in Int /\ least \in Int /\ t \in Int /\ most \in Nat /\ least \in Nat
  BY <1>3, <1>4
<1>6. head \in Seq(P) /\ Len(head) = 3
  BY <1>5
<1>7. \A i \in 1..n : <<rs[i][1]>> \in P
  BY <1>2, <1>4
<1>8. rest \in Seq(P) /\ Len(rest) = n
  BY <1>1, <1>7
<1>9. d = head \o rest
  BY DEF pInit, t, most, least
<1>10. \A i \in 1..n : rest[i] = <<rs[i][1]>>
  BY <1>1
<1>11. head[1] = <<t, most>> /\ head[2] = <<t>> /\ head[3] = <<t, least>>
  OBVIOUS
<1> HIDE DEF head, rest, d
<1>12. /\ d \in Seq(P) /\ Len(d) = 3 + n
       /\ \A i \in 1..(3 + n) : d[i] = IF i <= 3 THEN head[i] ELSE rest[i - 3]
  <2> HIDE DEF P, n
  <2>1. /\ head \o rest \in Seq(P) /\ Len(head \o rest) = Len(head) + Len(rest)
        /\ \A i \in 1..(Len(head) + Len(rest)) :
              (head \o rest)[i] = IF i <= Len(head) THEN head[i] ELSE rest[i - Len(head)]
    BY <1>6, <1>8, ConcatProperties
  <2> QED BY <1>6, <1>8, <1>9, <2>1
<1>13. DOMAIN d = 1..(3 + n) /\ 3 + n \in Nat
  BY <1>1, <1>12, LenProperties
<1>14. d[1] = <<t, most>> /\ d[2] = <<t>> /\ d[3] = <<t, least>>
  BY <1>1, <1>11, <1>12
<1>15. ASSUME NEW i \in 1..n PROVE i + 3 \in DOMAIN d /\ d[i + 3] = <<rs[i][1]>>
  <2>1. i + 3 \in 1..(3 + n) /\ ~(i + 3 <= 3) /\ (i + 3) - 3 = i
    BY <1>1
  <2> QED BY <1>10, <1>12, <1>13, <2>1
<1>16. ASSUME NEW i \in DOMAIN d
       PROVE  \/ d[i] = <<t, most>> \/ d[i] = <<t>> \/ d[i] = <<t, least>>
              \/ \E j \in 1..n : d[i] = <<rs[j][1]>>
  <2>1. i \in 1..(3 + n)
    BY <1>13
  <2>2. i = 1 \/ i = 2 \/ i = 3 \/ (i - 3 \in 1..n /\ (i - 3) + 3 = i)
    BY <1>1, <2>1
  <2> QED BY <1>14, <1>15, <2>2
<1>17. ASSUME NEW i \in DOMAIN d
       PROVE  /\ Point(d[i]) /\ d[i][1] \in Times(rs)
              /\ Len(d[i]) = 2 => d[i][2] \in Values(rs)
  <2>1. CASE d[i] = <<t, most>>
    BY <1>3, <1>4, <1>5, <2>1 DEF Point
  <2>2. CASE d[i] = <<t>>
    BY <1>4, <1>5, <2>2 DEF Point
  <2>3. CASE d[i] = <<t, least>>
    BY <1>3, <1>4, <1>5, <2>3 DEF Point
  <2>4. ASSUME NEW j \in 1..n, d[i] = <<rs[j][1]>>
        PROVE  /\ Point(d[i]) /\ d[i][1] \in Times(rs)
               /\ Len(d[i]) = 2 => d[i][2] \in Values(rs)
    <3>1. rs[j][1] \in Times(rs) /\ rs[j][1] \in Int
      BY <1>2, <1>4
    <3> QED BY <2>4, <3>1 DEF Point
  <2> QED BY <1>16, <2>1, <2>2, <2>3, <2>4
<1>18. Plottable(d)
  BY <1>13, <1>17 DEF Plottable
<1>19. most \in Values(d)
  <2>1. 1 \in DOMAIN d /\ d[1] = <<t, most>> /\ Len(d[1]) = 2
    BY <1>1, <1>13, <1>14
  <2> QED BY <2>1 DEF Values, Valued
<1>20. Times(d) \subseteq Times(rs) /\ Values(d) \subseteq Values(rs)
  <2>1. ASSUME NEW x \in Times(d) PROVE x \in Times(rs)
    <3>1. PICK i \in DOMAIN d : x = d[i][1]
      BY DEF Times
    <3> QED BY <1>17, <3>1
  <2>2. ASSUME NEW v \in Values(d) PROVE v \in Values(rs)
    <3>1. PICK i \in DOMAIN d : Len(d[i]) = 2 /\ v = d[i][2]
      BY DEF Values, Valued
    <3> QED BY <1>17, <3>1
  <2> QED BY <2>1, <2>2
<1>21. Times(rs) \subseteq Times(d)
  <2> SUFFICES ASSUME NEW i \in DOMAIN rs PROVE rs[i][1] \in Times(d)
    BY DEF Times
  <2>1. i + 3 \in DOMAIN d /\ d[i + 3] = <<rs[i][1]>>
    BY <1>1, <1>15
  <2> QED BY <2>1 DEF Times
<1> QED BY <1>18, <1>19, <1>20, <1>21 DEF Drawable, d, most

-----------------------------------------------------------------------------

LEMMA PartIsDrawable ==
    ASSUME NEW rs, HasReadings(rs), NEW d \in Seq(Int \X Nat), d # <<>>,
           \A i \in 1..Len(d) : \E j \in DOMAIN rs : d[i] = rs[j]
    PROVE  Drawable(d, rs)
<1>1. Len(d) \in Nat /\ DOMAIN d = 1..Len(d) /\ Len(d) # 0
  BY LenProperties, EmptySeq
<1>2. ASSUME NEW i \in DOMAIN d
      PROVE  /\ Point(d[i]) /\ Len(d[i]) = 2
             /\ d[i][1] \in Times(rs) /\ d[i][2] \in Values(rs)
  <2>1. PICK j \in DOMAIN rs : d[i] = rs[j]
    BY <1>1
  <2>2. /\ Plottable(rs) /\ Len(rs[j]) = 2
        /\ rs[j][1] \in Times(rs) /\ rs[j][2] \in Values(rs)
    BY ReadingsArePoints
  <2>3. Point(rs[j])
    BY <2>2, PointsOf
  <2> QED BY <2>1, <2>2, <2>3
<1>3. Plottable(d)
  <2>1. \A i \in DOMAIN d : Point(d[i])
    BY <1>2
  <2> QED BY <1>1, <2>1 DEF Plottable
<1>4. 1 \in DOMAIN d
  BY <1>1
<1>5. Values(d) # {}
  <2>1. d[1][2] \in Values(d)
    BY <1>2, <1>4 DEF Values, Valued
  <2> QED BY <2>1
<1>6. Times(d) \subseteq Times(rs) /\ Values(d) \subseteq Values(rs)
  <2>1. ASSUME NEW x \in Times(d) PROVE x \in Times(rs)
    <3>1. PICK i \in DOMAIN d : x = d[i][1]
      BY DEF Times
    <3> QED BY <1>2, <3>1
  <2>2. ASSUME NEW v \in Values(d) PROVE v \in Values(rs)
    <3>1. PICK i \in DOMAIN d : Len(d[i]) = 2 /\ v = d[i][2]
      BY DEF Values, Valued
    <3> QED BY <1>2, <3>1
  <2> QED BY <2>1, <2>2
<1> QED BY <1>3, <1>5, <1>6 DEF Drawable

\* Every step of the animation shows a reading.
LEMMA GrownIsDrawable ==
    ASSUME Steps \in Nat \ {0}, HasReadings(readings), NEW s \in Nat, s # 0
    PROVE  Drawable(Grown(s), readings)
<1> DEFINE si == First(readings)[1]
           fi == Last(readings)[1]
           N  == {i \in DOMAIN readings : (readings[i][1] - si) * Steps <= (s - 1) * (fi - si)}
           n  == Cardinality(N)
           k  == Len(readings)
<1>1. readings \in Seq(Int \X Nat) /\ k \in Nat /\ DOMAIN readings = 1..k /\ k # 0
  BY LenProperties, EmptySeq DEF HasReadings
<1>2. si \in Int /\ fi \in Int /\ si <= fi /\ readings[1][1] = si
  <2>1. 1 \in DOMAIN readings /\ k \in DOMAIN readings
    BY <1>1
  <2>2. readings[1] \in Int \X Nat /\ readings[k] \in Int \X Nat
    BY <2>1, ReadingsArePoints
  <2>3. si = readings[1][1] /\ fi = readings[k][1]
    BY DEF First, Last
  <2> QED BY <2>2, <2>3 DEF HasReadings
<1>3. 1 \in N
  <2> DEFINE a == s - 1
             b == fi - si
  <2>1. a \in Nat /\ b \in Nat
    BY <1>2
  <2> HIDE DEF a, b
  <2>2. 0 <= a * b
    BY <2>1
  <2>3. (si - si) * Steps = 0
    BY <1>2
  <2> QED BY <1>1, <1>2, <2>2, <2>3 DEF a, b
<1>4. n \in Nat /\ 1 <= n /\ n <= k
  <2> HIDE DEF N
  <2>1. N \subseteq 1..k
    BY <1>1 DEF N
  <2>2. IsFiniteSet(1..k) /\ Cardinality(1..k) = k
    BY <1>1, FS_Interval
  <2>3. IsFiniteSet(N) /\ n <= k
    BY <2>1, <2>2, FS_Subset
  <2>4. n \in Nat
    BY <2>3, FS_CardinalityType
  <2>5. Cardinality({1}) <= n /\ Cardinality({1}) = 1
    BY <1>3, <2>3, FS_Subset, FS_Singleton
  <2> QED BY <2>3, <2>4, <2>5
<1>5. Grown(s) = IF s < Steps THEN SubSeq(readings, 1, n) ELSE readings
  BY DEF Grown
<1> HIDE DEF N, n
<1>6. CASE s < Steps
  <2> DEFINE d == SubSeq(readings, 1, n)
  <2>1. \A i \in 1..n : readings[i] \in Int \X Nat
    BY <1>1, <1>4, ElementOfSeq
  <2>2. /\ d \in Seq(Int \X Nat) /\ Len(d) = n
        /\ \A i \in 1..n : d[i] = readings[i]
    <3>1. 1 \in Int /\ n \in Int
      BY <1>4
    <3>2. /\ d \in Seq(Int \X Nat) /\ Len(d) = IF 1 <= n THEN n - 1 + 1 ELSE 0
          /\ \A i \in 1..(n - 1 + 1) : d[i] = readings[1 + i - 1]
      BY <1>1, <2>1, <3>1, SubSeqProperties
    <3> HIDE DEF d
    <3>3. n - 1 + 1 = n
      BY <3>1
    <3>4. Len(d) = n
      BY <1>4, <3>2, <3>3
    <3>5. ASSUME NEW i \in 1..n PROVE d[i] = readings[i]
      <4>1. 1 + i - 1 = i
        BY <3>1
      <4> QED BY <3>2, <3>3, <4>1
    <3> QED BY <3>2, <3>4, <3>5
  <2> HIDE DEF d
  <2>3. d # <<>>
    <3>1. Len(d) # 0
      BY <1>4, <2>2
    <3> QED BY <2>2, <3>1, EmptySeq
  <2>4. ASSUME NEW i \in 1..Len(d) PROVE \E j \in DOMAIN readings : d[i] = readings[j]
    <3>1. i \in 1..n /\ i \in 1..k
      BY <1>1, <1>4, <2>2
    <3> QED BY <1>1, <2>2, <3>1
  <2>5. Drawable(d, readings)
    BY <2>2, <2>3, <2>4, PartIsDrawable
  <2> QED BY <1>5, <1>6, <2>5 DEF d
<1>7. CASE ~(s < Steps)
  BY <1>5, <1>7, ReadingsArePoints
<1> QED BY <1>6, <1>7

LEMMA LatestIsDrawable ==
    ASSUME NEW rs, HasReadings(rs), NEW d \in Seq(Int \X Nat), d # <<>>, NEW c \in Nat, Latest(rs, d, c)
    PROVE  Drawable(d, rs)
<1>1. Len(d) \in Nat /\ Len(rs) \in Nat /\ DOMAIN rs = 1..Len(rs)
  BY LenProperties DEF HasReadings
<1>2. ASSUME NEW i \in 1..Len(d) PROVE \E j \in DOMAIN rs : d[i] = rs[j]
  <2>1. c - Len(d) + i \in DOMAIN rs /\ d[i] = rs[c - Len(d) + i]
    BY <1>1 DEF Latest
  <2> QED BY <2>1
<1> QED BY <1>2, PartIsDrawable

-----------------------------------------------------------------------------
(* The invariant: what the axes span while nobody has zoomed.  Those with  *)
(* a name are fitted by every draw, to what is shown; those without to the *)
(* readings, unless a resize met a part of them.                           *)

LEMMA FitConstants ==
    /\ \A rs \in ReadingSets : HasReadings(rs)
    /\ Steps \in Nat \ {0} /\ Window \in Nat \ {0} /\ BarWidth \in Nat
  BY PageAssumption DEF HasReadings

FitInv ==
    /\ HasReadings(readings) /\ labelled \in BOOLEAN /\ step \in Nat
    /\ done \in DoneType
    /\ ReplayInv(Int \X Nat)
    /\ Sound(chart, readings) /\ Upright(chart.axis, readings)
    /\ done.zooms = 0 =>
          /\ Free(chart)
          /\ labelled = TRUE => Spans(chart.axis, chart.extent)
          /\ labelled = FALSE /\ ~done.partly => Encloses(chart.axis, readings)
    /\ done.toggles = 0 => Roomy(chart)

LEMMA FitInit == ASSUME Init PROVE FitInv
<1> DEFINE rs   == readings
           new  == [data |-> <<>>, kind |-> [bars |-> FALSE, lines |-> FALSE],
                    extent |-> [x |-> <<0, 0>>, y |-> <<0, 0>>], opts |-> parseOptions(rs),
                    axis |-> [x |-> [min |-> 0, max |-> 0], y |-> [min |-> 0, max |-> 0]],
                    room |-> 0, named |-> FALSE]
           made == setData(new, pInit(rs), PageSeries(rs))
           c    == setupGrid(made)
<1>1. HasReadings(rs) /\ labelled \in BOOLEAN /\ BarWidth \in Nat
  BY FitConstants DEF Init
<1>2. chart = draw(c, labelled)
  BY DEF Init, Fitted
<1>3. Usable(new, rs) /\ new.opts.x = [min |-> Unset, max |-> Unset]
  BY DEF Usable, Shape, Fields, parseOptions
<1>4. /\ Drawable(pInit(rs), rs) /\ Times(rs) \subseteq Times(pInit(rs))
      /\ Max(Values(rs)) \in Values(pInit(rs))
  BY <1>1, FirstPoints
<1> HIDE DEF new
<1>5. Sound(made, rs) /\ made.opts = new.opts /\ made.data = pInit(rs) /\ Roomy(made)
  BY <1>1, <1>3, <1>4, DataFit
<1>6. Free(made)
  BY <1>3, <1>5 DEF Free
<1> HIDE DEF made
<1>7. /\ Sound(c, rs) /\ c.extent = made.extent /\ c.opts = made.opts /\ c.data = pInit(rs)
      /\ Upright(c.axis, rs) /\ Spans(c.axis, made.extent)
  BY <1>1, <1>5, <1>6, GridFits
<1>8. Free(c)
  BY <1>6, <1>7 DEF Free
<1>9. Covers(made.extent, rs)
  <2>1. Covers(made.extent, pInit(rs))
    BY <1>5 DEF Sound
  <2>2. \A t \in Times(rs) : made.extent.x[1] <= t /\ t <= made.extent.x[2]
    BY <1>4, <2>1 DEF Covers
  <2>3. Max(Values(rs)) <= made.extent.y[2]
    BY <1>4, <2>1 DEF Covers
  <2>4. ASSUME NEW v \in Values(rs) PROVE v <= made.extent.y[2]
    <3>1. v \in Nat /\ v <= Max(Values(rs)) /\ Max(Values(rs)) \in Nat
      <4>1. Plottable(rs) /\ Values(rs) # {}
        BY <1>1, ReadingsArePoints
      <4>2. v \in Nat /\ Max(Values(rs)) \in Values(rs)
        BY <4>1, LargestValue, SmallestAndLargest
      <4> QED BY <4>1, <4>2, LargestValue, SmallestAndLargest
    <3>2. made.extent.y[2] \in Nat
      BY <2>1 DEF Covers
    <3> QED BY <2>3, <3>1, <3>2
  <2> QED BY <2>1, <2>2, <2>4 DEF Covers
<1>10. Encloses(c.axis, rs)
  BY <1>1, <1>7, <1>9, SpansEncloses
<1> HIDE DEF c
<1>11. /\ Sound(chart, rs) /\ Upright(chart.axis, rs) /\ chart.opts.x = c.opts.x
       /\ chart.extent = c.extent
       /\ labelled = TRUE => Spans(chart.axis, chart.extent)
       /\ labelled = FALSE => chart = c
  BY <1>1, <1>2, <1>7, <1>8, DrawFits
<1>12. Free(chart)
  BY <1>8, <1>11 DEF Free
<1>13. labelled = FALSE => Encloses(chart.axis, rs)
  BY <1>10, <1>11
<1>14. ReplayInv(Int \X Nat)
  <2>1. PageConstants(Int \X Nat)
    BY FitConstants DEF PageConstants, HasReadings
  <2> QED BY <2>1, ReplayInvInit
<1>15. step \in Nat /\ done \in DoneType
  BY DEF Init, DoneType
<1>16. Roomy(chart)
  <2>1. SameData(c, made)
    BY <1>5, SetupGridKeeps DEF Sound, c
  <2>2. SameData(chart, c)
    BY <1>1, <1>2, <1>7, DrawKeeps DEF Sound
  <2> QED BY <1>5, <2>1, <2>2, RoomyKept
<1> QED BY <1>1, <1>11, <1>12, <1>13, <1>14, <1>15, <1>16 DEF FitInv

\* New data, with the axes as they are or, if they have a name, fitted to the data.
LEMMA FitData ==
    ASSUME BarWidth \in Nat, FitInv, NEW d, Drawable(d, readings), NEW series,
           chart' = draw(setData(chart, d, series), labelled),
           UNCHANGED <<readings, labelled, done>>, step' \in Nat, ReplayInv(Int \X Nat)'
    PROVE  FitInv'
<1> DEFINE c == setData(chart, d, series)
<1>1. Usable(chart, readings) /\ HasReadings(readings) /\ labelled \in BOOLEAN
  BY DEF FitInv, Sound, Usable
<1>2. Sound(c, readings) /\ c.opts = chart.opts /\ c.axis = chart.axis /\ Roomy(c)
  BY <1>1, DataFit
<1>3. Upright(c.axis, readings)
  BY <1>2 DEF FitInv, Upright
<1> HIDE DEF c
<1>4. /\ Sound(chart', readings) /\ chart'.extent = c.extent /\ chart'.opts.x = c.opts.x
      /\ Upright(chart'.axis, readings)
      /\ labelled = TRUE /\ Free(c) => Spans(chart'.axis, c.extent)
      /\ labelled = FALSE => chart' = c
  BY <1>1, <1>2, <1>3, DrawFits DEF c
<1>5. done.zooms = 0 =>
         /\ Free(chart')
         /\ labelled = TRUE => Spans(chart'.axis, chart'.extent)
         /\ labelled = FALSE /\ ~done.partly => Encloses(chart'.axis, readings)
  <2> SUFFICES ASSUME done.zooms = 0
               PROVE  /\ Free(chart')
                      /\ labelled = TRUE => Spans(chart'.axis, chart'.extent)
                      /\ labelled = FALSE /\ ~done.partly => Encloses(chart'.axis, readings)
    OBVIOUS
  <2>1. Free(chart) /\ (labelled = FALSE /\ ~done.partly => Encloses(chart.axis, readings))
    BY DEF FitInv
  <2>2. Free(c) /\ Free(chart')
    BY <1>2, <1>4, <2>1 DEF Free
  <2>3. labelled = FALSE /\ ~done.partly => Encloses(chart'.axis, readings)
    BY <1>2, <1>4, <2>1
  <2> QED BY <1>4, <2>2, <2>3
<1>6. readings' = readings /\ labelled' = labelled /\ done' = done
  OBVIOUS
<1>7. Roomy(chart')
  <2>1. SameData(chart', c)
    BY <1>1, <1>2, DrawKeeps DEF Sound, c
  <2> QED BY <1>2, <2>1, RoomyKept
<1>8. Roomy(chart)'
  BY <1>7 DEF Roomy, Ends
<1> QED BY <1>4, <1>5, <1>6, <1>8 DEF FitInv

\* A draw without new data fits the axes as they are.
LEMMA FitDraw ==
    ASSUME FitInv, NEW c, Sound(c, readings), c.axis = chart.axis, c.opts = chart.opts,
           chart' = draw(c, labelled), UNCHANGED <<readings, labelled, step>>,
           done' \in DoneType, done'.zooms = done.zooms, done'.partly = done.partly,
           done'.toggles # 0, ReplayInv(Int \X Nat)'
    PROVE  FitInv'
<1>1. HasReadings(readings) /\ labelled \in BOOLEAN /\ step \in Nat /\ Upright(c.axis, readings)
  BY DEF FitInv
<1>2. /\ Sound(chart', readings) /\ chart'.extent = c.extent /\ chart'.opts.x = c.opts.x
      /\ Upright(chart'.axis, readings)
      /\ labelled = TRUE /\ Free(c) => Spans(chart'.axis, c.extent)
      /\ labelled = FALSE => chart' = c
  BY <1>1, DrawFits
<1>3. done.zooms = 0 =>
         /\ Free(chart')
         /\ labelled = TRUE => Spans(chart'.axis, chart'.extent)
         /\ labelled = FALSE /\ ~done.partly => Encloses(chart'.axis, readings)
  <2> SUFFICES ASSUME done.zooms = 0
               PROVE  /\ Free(chart')
                      /\ labelled = TRUE => Spans(chart'.axis, chart'.extent)
                      /\ labelled = FALSE /\ ~done.partly => Encloses(chart'.axis, readings)
    OBVIOUS
  <2>1. Free(chart) /\ (labelled = FALSE /\ ~done.partly => Encloses(chart.axis, readings))
    BY DEF FitInv
  <2>2. Free(c) /\ Free(chart')
    BY <1>2, <2>1 DEF Free
  <2>3. labelled = FALSE /\ ~done.partly => Encloses(chart'.axis, readings)
    BY <1>2, <2>1
  <2> QED BY <1>2, <2>2, <2>3
<1>4. readings' = readings /\ labelled' = labelled /\ step' = step
  OBVIOUS
<1> QED BY <1>1, <1>2, <1>3, <1>4 DEF FitInv

\* What is not part of the readings covers them, but for the room of a last bar.
LEMMA WholeCovers ==
    ASSUME BarWidth \in Nat, HasReadings(readings), Covers(chart.extent, chart.data), ~Partial
    PROVE  Covers(chart.extent, readings)
<1> DEFINE line == [bars |-> FALSE, lines |-> TRUE]
           e == processData(readings, line)
           f == processData(readings, chart.kind)
           g == chart.extent
<1>1. Plottable(readings) /\ Values(readings) # {}
  BY ReadingsArePoints
<1>2. Covers(e, readings) /\ Covers(f, readings)
  BY <1>1, ExtentCovers
<1>3. ~(e.x[2] > g.x[2]) /\ ~(f.x[1] < g.x[1]) /\ ~(f.y[2] > g.y[2])
  BY DEF Partial
<1>4. \A t \in Times(readings) : t \in Int
  BY <1>1, ReadingsArePoints, FirstAndLast
<1>5. \A v \in Values(readings) : v \in Nat
  BY <1>1, LargestValue
<1> HIDE DEF e, f, g
<1>6. g.x[1] \in Int /\ g.x[2] \in Int /\ g.x[1] <= g.x[2] /\ g.y[2] \in Nat
  BY DEF Covers, g
<1>7. ASSUME NEW t \in Times(readings) PROVE g.x[1] <= t /\ t <= g.x[2]
  <2>1. /\ t \in Int /\ t <= e.x[2] /\ f.x[1] <= t
        /\ e.x[2] \in Int /\ f.x[1] \in Int
    BY <1>2, <1>4 DEF Covers
  <2> QED BY <1>3, <1>6, <2>1
<1>8. ASSUME NEW v \in Values(readings) PROVE v <= g.y[2]
  <2>1. v \in Nat /\ v <= f.y[2] /\ f.y[2] \in Nat
    BY <1>2, <1>5 DEF Covers
  <2> QED BY <1>3, <1>6, <2>1
<1> QED BY <1>6, <1>7, <1>8 DEF Covers, g

LEMMA FitNext == ASSUME FitInv, [Next]_vars PROVE FitInv'
<1>1. /\ HasReadings(readings) /\ labelled \in BOOLEAN /\ step \in Nat /\ done \in DoneType
      /\ done.zooms \in Nat /\ done.toggles \in Nat /\ done.toggles + 1 \in Nat
      /\ Sound(chart, readings) /\ Upright(chart.axis, readings) /\ ReplayInv(Int \X Nat)
      /\ BarWidth \in Nat /\ Window \in Nat \ {0} /\ Steps \in Nat \ {0}
  BY FitConstants DEF FitInv, DoneType
<1>2. ReplayInv(Int \X Nat)'
  <2>1. PageConstants(Int \X Nat)
    BY FitConstants DEF PageConstants, HasReadings
  <2> QED BY <1>1, <2>1, ReplayInvNext
<1>3. CASE Frame
  <2>1. /\ chart' = draw(setData(chart, Grown(step + 1), PageSeries(readings)), labelled)
        /\ step' = step + 1 /\ UNCHANGED <<readings, labelled, done>>
    BY <1>3 DEF Frame
  <2>2. step + 1 \in Nat /\ step + 1 # 0
    BY <1>1
  <2>3. Drawable(Grown(step + 1), readings)
    BY <1>1, <2>2, GrownIsDrawable
  <2> QED BY <1>1, <1>2, <2>1, <2>2, <2>3, FitData
<1>4. CASE updateRandom
  <2>1. /\ chart' = draw(setData(chart, slicedata', getData(chart)), labelled)
        /\ UNCHANGED <<readings, labelled, step, done>>
        /\ curridx' = IF curridx < Len(readings) THEN curridx + 1 ELSE curridx
    BY <1>4 DEF updateRandom
  <2>2. /\ slicedata' \in Seq(Int \X Nat) /\ curridx' \in Nat
        /\ Latest(readings, slicedata', curridx')
        /\ Len(slicedata') >= curridx' \/ Len(slicedata') >= Window
    BY <1>2, <2>1 DEF ReplayInv
  <2>3. slicedata' # <<>>
    <3>1. Len(readings) \in Nat /\ Len(readings) # 0 /\ curridx \in Nat
      BY <1>1, LenProperties, EmptySeq DEF HasReadings, ReplayInv
    <3>2. curridx' # 0
      BY <2>1, <3>1
    <3>3. Len(slicedata') # 0
      BY <1>1, <2>2, <3>2, LenProperties
    <3> QED BY <2>2, <3>3, EmptySeq
  <2>4. Drawable(slicedata', readings)
    BY <1>1, <2>2, <2>3, LatestIsDrawable
  <2> QED BY <1>1, <1>2, <2>1, <2>4, FitData
<1>5. CASE ToggleChart
  <2> DEFINE k == [bars |-> ~chart.kind.bars, lines |-> ~chart.kind.lines]
             c == [chart EXCEPT !.kind = k]
  <2>1. /\ chart' = draw(c, labelled) /\ done' = [done EXCEPT !.toggles = done.toggles + 1]
        /\ UNCHANGED <<readings, labelled, step>>
    BY <1>5 DEF ToggleChart
  <2>2. Sound(c, readings) /\ c.axis = chart.axis /\ c.opts = chart.opts
    <3> HIDE DEF k
    <3>1. /\ Shape(c) /\ c.axis = chart.axis /\ c.opts = chart.opts
          /\ c.extent = chart.extent /\ c.data = chart.data
      BY <1>1 DEF Sound, Shape, Fields
    <3> QED BY <1>1, <3>1 DEF Sound
  <2> HIDE DEF c
  <2>3. /\ done' \in DoneType /\ done'.zooms = done.zooms /\ done'.partly = done.partly
        /\ done'.toggles # 0
    BY <1>1, <2>1 DEF DoneType
  <2> QED BY <1>2, <2>1, <2>2, <2>3, FitDraw
<1>6. ASSUME NEW q, zoom(q) PROVE FitInv'
  <2>1. PICK x : /\ chart' = draw(setupGrid([chart EXCEPT !.opts.x = x]), labelled)
                 /\ done' = [done EXCEPT !.zooms = done.zooms + 1, !.partly = Partial]
                 /\ UNCHANGED <<readings, labelled, step>>
    BY <1>6 DEF zoom
  <2> DEFINE c == [chart EXCEPT !.opts.x = x]
             g == setupGrid(c)
  <2>2. Sound(c, readings) /\ SameData(c, chart)
    <3>1. /\ Shape(c) /\ c.opts.y = chart.opts.y /\ SameData(c, chart)
      BY <1>1 DEF Sound, Shape, Fields, SameData
    <3> QED BY <1>1, <3>1 DEF Sound, SameData
  <2> HIDE DEF c
  <2>3. Sound(g, readings) /\ Upright(g.axis, readings) /\ SameData(g, c)
    BY <1>1, <2>2, GridFits, SetupGridKeeps DEF Sound
  <2>4. chart' = draw(g, labelled)
    BY <2>1 DEF c
  <2> HIDE DEF g
  <2>5. Sound(chart', readings) /\ Upright(chart'.axis, readings)
    BY <1>1, <2>3, <2>4, DrawFits
  <2>7. done'.toggles = done.toggles /\ (done.toggles = 0 => Roomy(chart)')
    <3>1. SameData(chart', g)
      BY <1>1, <2>3, <2>4, DrawKeeps DEF Sound
    <3>2. SameData(chart', chart)
      BY <2>2, <2>3, <3>1 DEF SameData
    <3>3. Roomy(chart) => Roomy(chart)'
      BY <3>2 DEF SameData, Roomy, Ends
    <3> HIDE DEF Partial
    <3>4. done'.toggles = done.toggles
      BY <1>1, <2>1 DEF DoneType
    <3> QED BY <3>3, <3>4 DEF FitInv
  <2>6. done' \in DoneType /\ done'.zooms # 0
    <3>1. done.zooms + 1 \in Nat /\ done.zooms + 1 # 0 /\ Partial \in BOOLEAN
      BY <1>1, PartialIsBoolean
    <3> HIDE DEF Partial
    <3>2. done' \in DoneType /\ done'.zooms = done.zooms + 1
      BY <1>1, <2>1, <3>1 DEF DoneType
    <3> QED BY <3>1, <3>2
  <2> QED BY <1>1, <1>2, <2>1, <2>5, <2>6, <2>7 DEF FitInv
<1>7. CASE onResize
  <2> DEFINE g == setupGrid(chart)
  <2>1. /\ chart' = draw(g, labelled)
        /\ done' = [done EXCEPT !.partly = Partial]
        /\ UNCHANGED <<readings, labelled, step>>
    BY <1>7 DEF onResize
  <2>2. /\ Sound(g, readings) /\ g.extent = chart.extent /\ g.opts = chart.opts
        /\ Upright(g.axis, readings)
        /\ Free(chart) => Spans(g.axis, chart.extent)
    BY <1>1, GridFits
  <2> HIDE DEF g
  <2>3. /\ Sound(chart', readings) /\ Upright(chart'.axis, readings)
        /\ chart'.extent = g.extent /\ chart'.opts.x = g.opts.x
        /\ labelled = TRUE /\ Free(g) => Spans(chart'.axis, g.extent)
        /\ labelled = FALSE => chart' = g
    BY <1>1, <2>1, <2>2, DrawFits
  <2>7. done.toggles = 0 => Roomy(chart)'
    <3>1. SameData(g, chart)
      BY <1>1, SetupGridKeeps DEF Sound, g
    <3>2. SameData(chart', g)
      BY <1>1, <2>1, <2>2, DrawKeeps DEF Sound
    <3>3. Roomy(chart) => Roomy(chart)'
      BY <3>1, <3>2 DEF SameData, Roomy, Ends
    <3> QED BY <3>3 DEF FitInv
  <2>4. /\ done' \in DoneType /\ done'.zooms = done.zooms /\ done'.partly = Partial
        /\ done'.toggles = done.toggles
    <3> HIDE DEF Partial
    <3>1. Partial \in BOOLEAN
      BY PartialIsBoolean
    <3> QED BY <1>1, <2>1, <3>1 DEF DoneType
  <2>5. ASSUME done.zooms = 0
        PROVE  /\ Free(chart')
               /\ labelled = TRUE => Spans(chart'.axis, chart'.extent)
               /\ labelled = FALSE /\ ~Partial => Encloses(chart'.axis, readings)
    <3>1. Free(chart)
      BY <2>5 DEF FitInv
    <3>2. Free(chart') /\ Free(g)
      BY <2>2, <2>3, <3>1 DEF Free
    <3>3. ASSUME labelled = FALSE, ~Partial PROVE Encloses(chart'.axis, readings)
      <4>1. Covers(chart.extent, readings)
        BY <1>1, <3>3, WholeCovers DEF Sound
      <4>2. Spans(chart'.axis, chart.extent)
        BY <2>2, <2>3, <3>1, <3>3
      <4> QED BY <1>1, <4>1, <4>2, SpansEncloses
    <3> QED BY <2>3, <3>2, <3>3
  <2>6. readings' = readings /\ labelled' = labelled /\ step' = step
    BY <2>1
  <2> HIDE DEF Partial
  <2> QED BY <1>1, <1>2, <2>3, <2>4, <2>5, <2>6, <2>7 DEF FitInv
<1>8. CASE Start
  <2>1. /\ done' = [done EXCEPT !.starts = done.starts + 1, !.again = done.again \/ timerid > 0]
        /\ UNCHANGED <<readings, labelled, step, chart>>
    BY <1>8 DEF Start
  <2>2. /\ done' \in DoneType /\ done'.zooms = done.zooms /\ done'.partly = done.partly
        /\ done'.toggles = done.toggles
    <3> DEFINE again == done.again \/ timerid > 0
    <3>1. again \in BOOLEAN /\ done.starts + 1 \in Nat
      BY <1>1 DEF DoneType
    <3>2. done' = [done EXCEPT !.starts = done.starts + 1, !.again = again]
      BY <2>1
    <3> HIDE DEF again
    <3> QED BY <1>1, <3>1, <3>2 DEF DoneType
  <2>3. Roomy(chart)' <=> Roomy(chart)
    BY <2>1 DEF Roomy, Ends
  <2> QED BY <1>2, <2>1, <2>2, <2>3 DEF FitInv
<1>9. CASE Stop
  <2>1. Roomy(chart)' <=> Roomy(chart)
    BY <1>9 DEF Stop, Roomy, Ends
  <2> QED BY <1>2, <1>9, <2>1 DEF Stop, FitInv
<1>10. CASE UNCHANGED vars
  <2>1. Roomy(chart)' <=> Roomy(chart)
    BY <1>10 DEF vars, Roomy, Ends
  <2> QED BY <1>2, <1>10, <2>1 DEF vars, FitInv
<1> QED
  BY <1>3, <1>4, <1>5, <1>6, <1>7, <1>8, <1>9, <1>10 DEF Next, ZoomIn, ZoomOut

\* Whatever is done to the chart and in whatever order, its y axis is upright, except where the
\* smallest reading is rounded to more than it is (lh/customer/meterreadings/show.jsp: minyValue).
THEOREM AxisStaysUpright == Spec => []YAxisIsUpright
<1>1. FitInv => YAxisIsUpright
  BY DEF FitInv, YAxisIsUpright, Upright, Rounded
<1>2. Init => FitInv
  BY FitInit
<1>3. FitInv /\ [Next]_vars => FitInv'
  BY FitNext
<1> QED BY <1>1, <1>2, <1>3, PTL DEF Spec

\* What a chart shows is inside its axes until the reader zooms, however animation, replays,
\* toggling and resizing follow one another; but for a resize that fits axes without a name to a
\* part of the readings.  The whole of a bar is, where every draw fits the axes and the chart was
\* not toggled (jquery.flot.js: processData, setupGrid).
THEOREM ShownIsInside == Spec => []ReadingsAreInside
<1>1. FitInv => ReadingsAreInside
  <2> SUFFICES ASSUME FitInv, done.zooms = 0, labelled \/ ~done.partly, NEW p \in Shown
               PROVE  /\ chart.axis.x.min <= p[1]
                      /\ p[1] + (IF labelled /\ done.toggles = 0 THEN RoomForBars(chart.kind) ELSE 0)
                            <= chart.axis.x.max
                      /\ p[2] <= Max({chart.axis.y.max, chart.axis.y.min})
    BY DEF ReadingsAreInside
  <2> DEFINE x == chart.axis.x
             y == chart.axis.y
             v == p[2]
  <2>1. PICK i \in DOMAIN chart.data : p = chart.data[i] /\ Len(p) = 2
    BY DEF Shown, Valued
  <2>2. p[1] \in Times(chart.data) /\ v \in Values(chart.data)
    BY <2>1 DEF Times, Values, Valued
  <2>3. HasReadings(readings) /\ Sound(chart, readings) /\ labelled \in BOOLEAN
    BY DEF FitInv
  <2>4. p[1] \in Times(readings) /\ v \in Values(readings)
    BY <2>2, <2>3 DEF Sound, Drawable
  <2>5. p[1] \in Int /\ v \in Nat
    BY <2>3, <2>4, ReadingsArePoints, FirstAndLast, LargestValue
  <2>6. /\ x.min <= p[1] /\ p[1] <= x.max
        /\ y.min \in Int /\ y.max \in Int /\ (v <= y.max \/ v <= y.min)
    <3>1. CASE labelled = TRUE
      <4>1. Spans(chart.axis, chart.extent) /\ Covers(chart.extent, chart.data)
        BY <2>3, <3>1 DEF FitInv, Sound
      <4>2. /\ x.min \in Int /\ x.max \in Int /\ x.min <= chart.extent.x[1]
            /\ chart.extent.x[2] <= x.max
            /\ y.min \in Int /\ y.max \in Int
            /\ chart.extent.y[2] <= y.max \/ chart.extent.y[2] <= y.min
        BY <4>1 DEF Spans
      <4>3. /\ chart.extent.x[1] \in Int /\ chart.extent.x[2] \in Int /\ chart.extent.y[2] \in Nat
            /\ chart.extent.x[1] <= p[1] /\ p[1] <= chart.extent.x[2] /\ v <= chart.extent.y[2]
        BY <2>2, <4>1 DEF Covers
      <4> HIDE DEF x, y, v
      <4> QED BY <2>5, <4>2, <4>3
    <3>2. CASE labelled = FALSE
      <4>1. Encloses(chart.axis, readings)
        BY <3>2 DEF FitInv
      <4> QED BY <2>4, <4>1 DEF Encloses
    <3> QED BY <2>3, <3>1, <3>2
  <2>8. labelled = TRUE /\ done.toggles = 0 => p[1] + RoomForBars(chart.kind) <= x.max
    <3> SUFFICES ASSUME labelled = TRUE, done.toggles = 0
                 PROVE  p[1] + RoomForBars(chart.kind) <= x.max
      OBVIOUS
    <3>1. Roomy(chart) /\ Spans(chart.axis, chart.extent) /\ Covers(chart.extent, chart.data)
      BY <2>3 DEF FitInv, Sound
    <3>2. p[1] + RoomForBars(chart.kind) \in Ends(chart.data, chart.kind)
      BY <2>1 DEF Ends, Valued
    <3>3. PICK z : z = p[1] + RoomForBars(chart.kind) /\ z <= chart.extent.x[2]
      BY <3>1, <3>2 DEF Roomy
    <3>4. z \in Int
      <4>1. BarWidth \in Int
        BY FitConstants
      <4> QED BY <2>5, <3>3, <4>1 DEF RoomForBars
    <3>5. chart.extent.x[2] \in Int /\ x.max \in Int /\ chart.extent.x[2] <= x.max
      BY <3>1 DEF Spans, Covers
    <3> QED BY <3>3, <3>4, <3>5
  <2> HIDE DEF y, v
  <2>7. v <= Max({y.max, y.min})
    BY <2>5, <2>6, MaxOfTwo
  <2>9. labelled = TRUE \/ labelled = FALSE
    BY <2>3
  <2>10. p[1] + 0 = p[1]
    BY <2>5
  <2> QED BY <2>6, <2>7, <2>8, <2>9, <2>10 DEF x, y, v
<1>2. Init => FitInv
  BY FitInit
<1>3. FitInv /\ [Next]_vars => FitInv'
  BY FitNext
<1> QED BY <1>1, <1>2, <1>3, PTL DEF Spec

-----------------------------------------------------------------------------
(* PanFollowsTheMouse is not inductive: that the timer pans only while the  *)
(* drag goes on rests on DragEnd's clearing it, and that a pan is as long   *)
(* as it would have been at the beginning of the drag on nothing having     *)
(* zoomed since.                                                            *)

AxisType  == [min : Int, scale : Int]
MouseType == [x : Int, at : BOOLEAN]
TimerType == {None} \cup {<<x>> : x \in Int}
DragType  == [phase : {"idle", "pressed", "dragging"}, prev : Int, timer : TimerType]
SelectionType == [first : Int, second : Int, show : BOOLEAN, active : BOOLEAN,
                  blocked : BOOLEAN]
HeldType  == [known : BOOLEAN, axis : AxisType, from : Int, to : Int]

DragInv ==
    /\ axis \in AxisType
    /\ mouse \in MouseType
    /\ drag \in DragType
    /\ held \in HeldType
    /\ selection \in SelectionType
    /\ drag.phase # "idle" => selection.active
    /\ drag.timer # None => drag.phase = "dragging"
    /\ held.known => axis.scale = held.axis.scale
    /\ PanFollowsTheMouse

\* Two pans in a row are the pan over both ways.
LEMMA PansAdd ==
    ASSUME NEW a \in Int, NEW b \in Int, NEW c \in Int, NEW s \in Int
    PROVE  (a - b) * s + (b - c) * s = (a - c) * s
  BY SMT

LEMMA ClampedIsInt == ASSUME Places, NEW x \in Int PROVE Clamped(x) \in Int
  BY DEF Clamped, Places

LEMMA UpdatedIs ==
    ASSUME Places, NEW s \in SelectionType, NEW m, m.x \in Int
    PROVE  /\ updateSelection(s, m) \in SelectionType
           /\ updateSelection(s, m).active = s.active
<1> DEFINE x    == Clamped(m.x)
           sane == selectionIsSane(s.first, x)
<1>1. x \in Int /\ sane \in BOOLEAN
  BY ClampedIsInt DEF selectionIsSane, Abs, SelectionType
<1>2. updateSelection(s, m) = [s EXCEPT !.second = x, !.show = sane]
  BY DEF updateSelection
<1> HIDE DEF x, sane
<1> QED
  BY <1>1, <1>2 DEF SelectionType

LEMMA DraggedIs ==
    ASSUME drag \in DragType, NEW m \in MouseType
    PROVE  /\ Dragged(m) \in DragType
           /\ Dragged(m).phase = IF DragBegins(Dragged(m)) THEN "dragging" ELSE drag.phase
           /\ Dragged(m).prev = IF DragBegins(Dragged(m)) THEN m.x ELSE drag.prev
           /\ Dragged(m).timer # drag.timer => Dragged(m).phase = "dragging"
           /\ DragBegins(Dragged(m)) => drag.phase = "pressed"
<1> DEFINE began == IF drag.phase = "pressed"
                    THEN [drag EXCEPT !.phase = "dragging", !.prev = m.x] ELSE drag
           d     == IF began.phase = "dragging" /\ began.timer = None
                    THEN [began EXCEPT !.timer = <<m.x>>] ELSE began
<1>1. m.x \in Int /\ <<m.x>> \in TimerType
  BY DEF MouseType, TimerType
<1>2. /\ began \in DragType
      /\ began.timer = drag.timer
      /\ \/ began = drag
         \/ drag.phase = "pressed" /\ began.phase = "dragging" /\ began.prev = m.x
  BY <1>1 DEF DragType
<1>3. Dragged(m) = d
  BY DEF Dragged
<1> HIDE DEF began
<1>4. /\ d \in DragType /\ d.phase = began.phase /\ d.prev = began.prev
      /\ d.timer # began.timer => d.phase = "dragging"
  BY <1>1, <1>2 DEF DragType
<1> HIDE DEF d
<1> QED
  BY <1>2, <1>3, <1>4 DEF DragBegins

\* The mouse moves, over the chart or beside it.
LEMMA MovedKeeps ==
    ASSUME Places, DragInv, NEW m \in MouseType, drag' = Dragged(m), mouse' = m,
           held' = IF DragBegins(Dragged(m))
                   THEN [known |-> TRUE, axis |-> axis, from |-> m.x, to |-> m.x] ELSE held,
           axis' = axis, selection'.active = selection.active,
           selection' \in SelectionType
    PROVE  DragInv'
<1> DEFINE d == Dragged(m)
<1>1. /\ d \in DragType
      /\ d.phase = IF DragBegins(d) THEN "dragging" ELSE drag.phase
      /\ d.prev = IF DragBegins(d) THEN m.x ELSE drag.prev
      /\ d.timer # drag.timer => d.phase = "dragging"
      /\ DragBegins(d) => drag.phase = "pressed"
  BY DraggedIs DEF DragInv
<1> HIDE DEF d
<1>2. drag' = d
  BY DEF d
<1>3. CASE DragBegins(d)
  <2>1. held' = [known |-> TRUE, axis |-> axis, from |-> m.x, to |-> m.x]
    BY <1>3 DEF d
  <2>2. m.x \in Int /\ axis.min \in Int /\ axis.scale \in Int
    BY DEF DragInv, MouseType, AxisType
  <2>3. (m.x - m.x) * axis.scale = 0
    BY <2>2
  <2>4. axis.min = axis.min + (m.x - m.x) * axis.scale
    BY <2>2, <2>3
  <2> QED
    BY <1>1, <1>2, <1>3, <2>1, <2>2, <2>4 DEF DragInv, PanFollowsTheMouse, HeldType
<1>4. CASE ~DragBegins(d)
  <2>1. held' = held
    BY <1>4 DEF d
  <2> QED
    BY <1>1, <1>2, <1>4, <2>1 DEF DragInv, PanFollowsTheMouse
<1> QED
  BY <1>3, <1>4

LEMMA DragInvInit == ASSUME Places, PointerInit PROVE DragInv
  BY DEF Places, PointerInit, DragInv, PanFollowsTheMouse, AxisType, MouseType, DragType, TimerType,
         HeldType, SelectionType, Away, Idle, NotHeld, None

LEMMA DragInvNext == ASSUME Places, DragInv, [PointerNext]_pointerVars PROVE DragInv'
<1>1. ASSUME NEW x \in Over, NEW at \in BOOLEAN, MouseMove([x |-> x, at |-> at]) PROVE DragInv'
  <2> DEFINE m == [x |-> x, at |-> at]
  <2>1. m \in MouseType
    BY DEF Places, MouseType
  <2>2. /\ mouse' = m /\ drag' = Dragged(m) /\ axis' = axis
        /\ held' = IF DragBegins(Dragged(m))
                   THEN [known |-> TRUE, axis |-> axis, from |-> m.x, to |-> m.x] ELSE held
    BY <1>1 DEF MouseMove
  <2>3. selection'.active = selection.active /\ selection' \in SelectionType
    <3>1. selection' = IF selection.active THEN updateSelection(selection, m) ELSE selection
      BY <1>1 DEF MouseMove
    <3> QED
      BY <2>1, <3>1, UpdatedIs DEF DragInv, MouseType
  <2> HIDE DEF m
  <2> QED
    BY <2>1, <2>2, <2>3, MovedKeeps
<1>2. ASSUME NEW x \in Beside, MouseBeside([x |-> x, at |-> FALSE]) PROVE DragInv'
  <2> DEFINE m == [x |-> x, at |-> FALSE]
  <2>1. m \in MouseType
    BY DEF Places, MouseType
  <2>2. /\ mouse' = m /\ drag' = Dragged(m) /\ axis' = axis
        /\ held' = IF DragBegins(Dragged(m))
                   THEN [known |-> TRUE, axis |-> axis, from |-> m.x, to |-> m.x] ELSE held
        /\ selection' = selection
    BY <1>2 DEF MouseBeside
  <2>3. selection' \in SelectionType /\ selection'.active = selection.active
    BY <2>2 DEF DragInv
  <2> HIDE DEF m
  <2> QED
    BY <2>1, <2>2, <2>3, MovedKeeps
<1>3. CASE MouseDown
  <2>1. drag.phase = "idle" /\ drag.timer = None
    BY <1>3 DEF MouseDown, DragInv
  <2>2. /\ drag' \in DragType /\ drag'.phase = "pressed" /\ drag'.timer = None
    <3>1. drag' = [Idle EXCEPT !.phase = "pressed"]
      BY <1>3 DEF MouseDown
    <3>2. drag' = [phase |-> "pressed", prev |-> 0, timer |-> None]
      BY <3>1 DEF Idle
    <3> QED
      BY <3>2 DEF DragType, TimerType
  <2>3. selection' \in SelectionType /\ selection'.active
    <3>1. Clamped(mouse.x) \in Int
      BY ClampedIsInt DEF DragInv, MouseType
    <3> QED
      BY <1>3, <3>1 DEF MouseDown, DragInv, SelectionType
  <2> QED
    BY <1>3, <2>1, <2>2, <2>3 DEF MouseDown, DragInv, PanFollowsTheMouse
<1>4. CASE MouseUp
  <2>0. selection' \in SelectionType
    <3> DEFINE s == [selection EXCEPT !.active = FALSE, !.blocked = FALSE]
    <3>1. s \in SelectionType /\ mouse.x \in Int
      BY DEF DragInv, SelectionType, MouseType
    <3>2. selection' = updateSelection(s, mouse)
      BY <1>4 DEF MouseUp
    <3> HIDE DEF s
    <3> QED
      BY <3>1, <3>2, UpdatedIs
  <2>1. /\ drag' = Idle /\ mouse' = mouse
        /\ Idle \in DragType /\ Idle.phase = "idle" /\ Idle.timer = None
    BY <1>4 DEF MouseUp, DragEnd, Idle, DragType, TimerType
  <2>2. CASE drag.phase = "dragging"
    <3> DEFINE p == drag.prev
               x == mouse.x
    <3>1. p \in Int /\ x \in Int /\ axis.min \in Int /\ axis.scale \in Int
      BY DEF DragInv, DragType, MouseType, AxisType
    <3>2. axis' = [axis EXCEPT !.min = @ + (p - x) * axis.scale]
      BY <1>4, <2>2 DEF MouseUp, DragEnd, pan
    <3>3. (p - x) * axis.scale \in Int
      BY <3>1
    <3>4. /\ axis' \in AxisType /\ axis'.scale = axis.scale
          /\ axis'.min = axis.min + (p - x) * axis.scale
      BY <3>2, <3>3 DEF DragInv, AxisType
    <3>5. /\ held' \in HeldType /\ held'.known = held.known /\ held'.axis = held.axis
          /\ held'.from = held.from /\ held'.to = x
      BY <1>4, <2>2, <3>1 DEF MouseUp, DragInv, HeldType
    <3> HIDE DEF p, x
    <3>6. held.known => axis'.min = held.axis.min + (held.from - x) * axis'.scale
      <4> SUFFICES ASSUME held.known
                   PROVE  axis'.min = held.axis.min + (held.from - x) * axis.scale
        BY <3>4
      <4>1. axis.min = held.axis.min + (held.from - p) * axis.scale
        BY <2>2 DEF DragInv, PanFollowsTheMouse, p
      <4>2. held.from \in Int /\ held.axis.min \in Int
        BY DEF DragInv, HeldType, AxisType
      <4>3. (held.from - p) * axis.scale + (p - x) * axis.scale = (held.from - x) * axis.scale
        BY <3>1, <4>2, PansAdd
      <4>4. (held.from - p) * axis.scale \in Int /\ (held.from - x) * axis.scale \in Int
        BY <3>1, <4>2
      <4> QED
        BY <3>3, <3>4, <4>1, <4>2, <4>3, <4>4
    <3> QED
      BY <2>0, <2>1, <3>4, <3>5, <3>6 DEF DragInv, PanFollowsTheMouse
  <2>3. CASE drag.phase # "dragging"
    <3>1. axis' = axis /\ held' = held
      BY <1>4, <2>3 DEF MouseUp, DragEnd
    <3> QED
      BY <2>0, <2>1, <2>3, <3>1 DEF DragInv, PanFollowsTheMouse
  <2> QED
    BY <2>2, <2>3
<1>5. CASE PanTimeout
  <2> DEFINE p == drag.prev
             x == drag.timer[1]
  <2>1. drag.phase = "dragging" /\ drag.timer \in TimerType /\ drag.timer # None
    BY <1>5 DEF PanTimeout, DragInv, DragType
  <2>2. p \in Int /\ x \in Int /\ axis.min \in Int /\ axis.scale \in Int
    BY <2>1 DEF DragInv, DragType, AxisType, TimerType
  <2>3. axis' = [axis EXCEPT !.min = @ + (p - x) * axis.scale]
    BY <1>5 DEF PanTimeout, pan
  <2>4. (p - x) * axis.scale \in Int
    BY <2>2
  <2>5. /\ axis' \in AxisType /\ axis'.scale = axis.scale
        /\ axis'.min = axis.min + (p - x) * axis.scale
    BY <2>3, <2>4 DEF DragInv, AxisType
  <2>6. /\ drag' \in DragType /\ drag'.phase = drag.phase /\ drag'.prev = x
        /\ drag'.timer = None
    BY <1>5, <2>2 DEF PanTimeout, DragInv, DragType, TimerType
  <2>7. held' = held /\ selection' = selection /\ mouse' = mouse
    BY <1>5 DEF PanTimeout
  <2> HIDE DEF p, x
  <2>8. held.known => axis'.min = held.axis.min + (held.from - x) * axis'.scale
    <3> SUFFICES ASSUME held.known
                 PROVE  axis'.min = held.axis.min + (held.from - x) * axis.scale
      BY <2>5
    <3>1. axis.min = held.axis.min + (held.from - p) * axis.scale
      BY <2>1 DEF DragInv, PanFollowsTheMouse, p
    <3>2. held.from \in Int /\ held.axis.min \in Int
      BY DEF DragInv, HeldType, AxisType
    <3>3. (held.from - p) * axis.scale + (p - x) * axis.scale = (held.from - x) * axis.scale
      BY <2>2, <3>2, PansAdd
    <3>4. (held.from - p) * axis.scale \in Int /\ (held.from - x) * axis.scale \in Int
      BY <2>2, <3>2
    <3> QED
      BY <2>4, <2>5, <3>1, <3>2, <3>3, <3>4
  <2> QED
    BY <2>1, <2>5, <2>6, <2>7, <2>8 DEF DragInv, PanFollowsTheMouse
<1>6. CASE DrawOverlay
  BY <1>6 DEF DrawOverlay, DragInv, PanFollowsTheMouse
<1>7. ASSUME NEW in \in BOOLEAN, MouseWheel(in) PROVE DragInv'
  <2>1. axis' = Zoomed(mouse.x, in) /\ held' = NotHeld
    BY <1>7 DEF MouseWheel
  <2>2. axis.min \in Int /\ axis.scale \in Int /\ mouse.x \in Int
    BY DEF DragInv, AxisType, MouseType
  <2>3. mouse.x * axis.scale \in Int /\ c2p(0) \in Int
    BY <2>2 DEF c2p
  <2>4. Zoomed(mouse.x, in) \in AxisType
    BY <2>2, <2>3 DEF Zoomed, AxisType
  <2>5. NotHeld \in HeldType /\ ~NotHeld.known
    BY DEF NotHeld, HeldType, AxisType, Places
  <2>6. drag' = drag /\ selection' = selection /\ mouse' = mouse
    BY <1>7 DEF MouseWheel
  <2> QED
    BY <2>1, <2>4, <2>5, <2>6 DEF DragInv, PanFollowsTheMouse
<1>8. CASE UNCHANGED pointerVars
  BY <1>8 DEF pointerVars, DragInv, PanFollowsTheMouse
<1> QED
  BY <1>1, <1>2, <1>3, <1>4, <1>5, <1>6, <1>7, <1>8 DEF PointerNext

\* The part of the axis that was under the mouse when the drag began is under it when the
\* button comes up, however the timer's pans and the last one meet, in a chart of any width
\* and scale (jquery.flot.navigate.js:139-205).
THEOREM DragsExactly == ASSUME Places PROVE PointerSpec => []PanFollowsTheMouse
<1>1. PointerInit => DragInv
  BY DragInvInit
<1>2. DragInv /\ [PointerNext]_pointerVars => DragInv'
  BY DragInvNext
<1>3. DragInv => PanFollowsTheMouse
  BY DEF DragInv
<1> QED
  BY <1>1, <1>2, <1>3, PTL DEF PointerSpec

-----------------------------------------------------------------------------
(* Zooming is exact as long as the unit of the axis divides by six once for *)
(* every turn of the wheel there may still be: each multiplies the scale by *)
(* two thirds or three halves.                                              *)

\* The powers of six, and the scale of the page is a multiple of the one it takes.
Divides(six) ==
    /\ MaxTurns \in Nat
    /\ six[0] = 1 /\ \A n \in 1..MaxTurns : six[n] \in Int /\ six[n] = 6 * six[n - 1]
    /\ \E k \in Int : Scale = k * six[MaxTurns]

ExactInv(six) ==
    /\ DragInv
    /\ zooms \in 0..MaxTurns
    /\ \E k \in Int : axis.scale = k * six[MaxTurns - zooms]

LEMMA SixthsAreInt == ASSUME NEW six, Divides(six), NEW n \in 0..MaxTurns PROVE six[n] \in Int
<1>1. CASE n = 0
  BY <1>1 DEF Divides
<1>2. CASE n # 0
  <2>1. n \in 1..MaxTurns
    BY <1>2 DEF Divides
  <2> QED BY <2>1 DEF Divides
<1> QED BY <1>1, <1>2

LEMMA ScaleDivides ==
    ASSUME NEW six, Divides(six), ExactInv(six), zooms < MaxTurns
    PROVE  \E u \in Int : axis.scale = 6 * u /\ \E k \in Int : u = k * six[MaxTurns - (zooms + 1)]
<1> DEFINE n == MaxTurns - zooms
           f == six[n - 1]
<1>1. MaxTurns \in Nat /\ zooms \in Nat /\ n \in 1..MaxTurns /\ n - 1 \in 0..MaxTurns
      /\ MaxTurns - (zooms + 1) = n - 1
  BY DEF Divides, ExactInv
<1>2. PICK k \in Int : axis.scale = k * six[n]
  BY DEF ExactInv
<1> HIDE DEF n
<1>3. six[n] = 6 * f
  BY <1>1 DEF Divides
<1>4. f \in Int
  BY <1>1, SixthsAreInt
<1> HIDE DEF f
<1>5. k * f \in Int /\ axis.scale = 6 * (k * f)
  <2>1. k * (6 * f) = 6 * (k * f) /\ k * f \in Int
    BY <1>2, <1>4
  <2> QED BY <1>2, <1>3, <2>1
<1> QED BY <1>1, <1>2, <1>5 DEF f

LEMMA SixthsDivide ==
    ASSUME NEW n \in Int
    PROVE  /\ (6 * n) \div 3 = 2 * n /\ (6 * n) \div 2 = 3 * n
           /\ (2 * (6 * n)) \div 3 = 4 * n /\ (3 * (6 * n)) \div 2 = 9 * n
<1>1. (6 * n) \div 3 = 2 * n
  OBVIOUS
<1>2. (6 * n) \div 2 = 3 * n
  OBVIOUS
<1>3. (2 * (6 * n)) \div 3 = 4 * n
  OBVIOUS
<1>4. (3 * (6 * n)) \div 2 = 9 * n
  OBVIOUS
<1> QED BY <1>1, <1>2, <1>3, <1>4

\* A turn at which the scale is a multiple of six.
LEMMA ZoomedIs ==
    ASSUME DragInv, NEW u \in Int, axis.scale = 6 * u, NEW in \in BOOLEAN
    PROVE  /\ Zoomed(mouse.x, in).scale = (IF in THEN 4 * u ELSE 9 * u)
           /\ Zoomed(mouse.x, in).min + mouse.x * Zoomed(mouse.x, in).scale = c2p(mouse.x)
<1> DEFINE x == mouse.x
           a == axis.min
<1>1. x \in Int /\ a \in Int
  BY DEF DragInv, MouseType, AxisType
<1>2. PICK w \in Int : w = x * u
  BY <1>1
<1>3. c2p(x) = a + x * (6 * u) /\ c2p(0) = a
  <2>1. 0 * axis.scale = 0
    BY DEF DragInv, AxisType
  <2> QED BY <1>1, <2>1 DEF c2p
<1>4. /\ Zoomed(x, in).min = IF in THEN c2p(0) + (x * axis.scale) \div 3
                                   ELSE c2p(0) - (x * axis.scale) \div 2
      /\ Zoomed(x, in).scale = IF in THEN (2 * axis.scale) \div 3 ELSE (3 * axis.scale) \div 2
  BY DEF Zoomed
<1> HIDE DEF x, a
<1>5. x * (6 * u) = 6 * w /\ x * (4 * u) = 4 * w /\ x * (9 * u) = 9 * w
  BY <1>1, <1>2
<1>6. /\ (6 * w) \div 3 = 2 * w /\ (6 * w) \div 2 = 3 * w
      /\ (2 * (6 * u)) \div 3 = 4 * u /\ (3 * (6 * u)) \div 2 = 9 * u
  BY <1>2, SixthsDivide
<1>7. CASE in
  <2>1. Zoomed(x, in).min = a + 2 * w /\ Zoomed(x, in).scale = 4 * u
    BY <1>3, <1>4, <1>5, <1>6, <1>7
  <2>2. Zoomed(x, in).min + x * Zoomed(x, in).scale = (a + 2 * w) + 4 * w
    BY <1>5, <2>1
  <2>3. (a + 2 * w) + 4 * w = a + 6 * w
    BY <1>1, <1>2
  <2>4. Zoomed(x, in).min + x * Zoomed(x, in).scale = c2p(x)
    BY <1>3, <1>5, <2>2, <2>3
  <2> QED BY <1>7, <2>1, <2>4 DEF x
<1>8. CASE ~in
  <2>1. Zoomed(x, in).min = a - 3 * w /\ Zoomed(x, in).scale = 9 * u
    BY <1>3, <1>4, <1>5, <1>6, <1>8
  <2>2. Zoomed(x, in).min + x * Zoomed(x, in).scale = (a - 3 * w) + 9 * w
    BY <1>5, <2>1
  <2>3. (a - 3 * w) + 9 * w = a + 6 * w
    BY <1>1, <1>2
  <2>4. Zoomed(x, in).min + x * Zoomed(x, in).scale = c2p(x)
    BY <1>3, <1>5, <2>2, <2>3
  <2> QED BY <1>8, <2>1, <2>4 DEF x
<1> QED BY <1>7, <1>8

LEMMA ExactInvInit == ASSUME Places, NEW six, Divides(six), PointerInit PROVE ExactInv(six)
<1>1. DragInv
  BY DragInvInit
<1>2. zooms = 0 /\ axis.scale = Scale
  BY DEF PointerInit
<1>3. MaxTurns \in Nat /\ MaxTurns - 0 = MaxTurns
  BY DEF Divides
<1> QED BY <1>1, <1>2, <1>3 DEF ExactInv, Divides

LEMMA ExactInvNext ==
    ASSUME Places, NEW six, Divides(six), ExactInv(six), [PointerNext]_pointerVars
    PROVE  ExactInv(six)' /\ (zooms' # zooms => PointIsKept)
<1>1. DragInv /\ DragInv'
  BY DragInvNext DEF ExactInv
<1>2. ASSUME NEW in \in BOOLEAN, MouseWheel(in)
      PROVE  ExactInv(six)' /\ (zooms' # zooms => PointIsKept)
  <2>1. zooms < MaxTurns /\ zooms' = zooms + 1 /\ axis' = Zoomed(mouse.x, in)
    BY <1>2 DEF MouseWheel
  <2>2. PICK u \in Int : axis.scale = 6 * u /\ \E k \in Int : u = k * six[MaxTurns - (zooms + 1)]
    BY <2>1, ScaleDivides
  <2>3. PICK k \in Int : u = k * six[MaxTurns - (zooms + 1)]
    BY <2>2
  <2>4. /\ axis'.scale = (IF in THEN 4 * u ELSE 9 * u)
        /\ axis'.min + mouse.x * axis'.scale = c2p(mouse.x)
    BY <1>1, <2>1, <2>2, ZoomedIs
  <2>5. zooms' \in 0..MaxTurns /\ MaxTurns - zooms' \in 0..MaxTurns
    BY <2>1 DEF ExactInv, Divides
  <2>6. \E j \in Int : axis'.scale = j * six[MaxTurns - zooms']
    <3> DEFINE f == six[MaxTurns - zooms']
    <3>1. f \in Int
      BY <2>5, SixthsAreInt
    <3>2. u = k * f
      BY <2>1, <2>3
    <3> HIDE DEF f
    <3>3. 4 * u = (4 * k) * f /\ 9 * u = (9 * k) * f /\ 4 * k \in Int /\ 9 * k \in Int
      BY <2>3, <3>1, <3>2
    <3>4. \E j \in Int : axis'.scale = j * f
      BY <2>4, <3>3
    <3> QED BY <3>4 DEF f
  <2> QED BY <1>1, <2>4, <2>5, <2>6 DEF ExactInv, PointIsKept
<1>3. ASSUME zooms' = zooms, axis'.scale = axis.scale
      PROVE  ExactInv(six)' /\ (zooms' # zooms => PointIsKept)
  BY <1>1, <1>3 DEF ExactInv
<1>4. ASSUME NEW d, pan(d) PROVE axis'.scale = axis.scale
  BY <1>1, <1>4 DEF pan, DragInv, AxisType
<1>5. CASE MouseUp
  <2>1. axis'.scale = axis.scale
    BY <1>4, <1>5 DEF MouseUp, DragEnd
  <2> QED BY <1>3, <1>5, <2>1 DEF MouseUp
<1>6. CASE PanTimeout
  <2>1. axis'.scale = axis.scale
    BY <1>4, <1>6 DEF PanTimeout
  <2> QED BY <1>3, <1>6, <2>1 DEF PanTimeout
<1>7. ASSUME NEW x, NEW at, MouseMove([x |-> x, at |-> at]) \/ MouseBeside([x |-> x, at |-> at])
      PROVE  zooms' = zooms /\ axis' = axis
  BY <1>7 DEF MouseMove, MouseBeside
<1>8. ASSUME MouseDown \/ DrawOverlay \/ UNCHANGED pointerVars PROVE zooms' = zooms /\ axis' = axis
  BY <1>8 DEF MouseDown, DrawOverlay, pointerVars
<1> QED
  BY <1>2, <1>3, <1>5, <1>6, <1>7, <1>8 DEF PointerNext

\* What is under the mouse stays under it when the wheel turns, between drags and pans and
\* however often, wherever the mouse is and however wide the plot (jquery.flot.navigate.js:
\* plot.zoom); in a unit in which the turns are exact.
THEOREM ZoomsAroundTheMouse ==
    ASSUME Places, NEW six, Divides(six)
    PROVE  PointerSpec => ZoomKeepsThePoint
<1>1. PointerInit => ExactInv(six)
  BY ExactInvInit
<1>2. ExactInv(six) /\ [PointerNext]_pointerVars => ExactInv(six)'
  BY ExactInvNext
<1>3. ExactInv(six) /\ [PointerNext]_pointerVars => [PointIsKept]_pointerVars
  BY ExactInvNext DEF PointIsKept
<1> QED
  BY <1>1, <1>2, <1>3, PTL DEF PointerSpec, ZoomKeepsThePoint

-----------------------------------------------------------------------------
(* OverlayCatchesUp is not inductive: when the button comes up without a    *)
(* selection, nothing is painted, for nothing was painted before.           *)

PaintInv ==
    /\ redraw \in BOOLEAN
    /\ selection \in SelectionType
    /\ mouse \in MouseType
    /\ ~redraw =>
          /\ overlay.lit = drawHighlights
          /\ ~selection.active => overlay.selection = drawSelection
          /\ ~selection.show => overlay.selection = {}

LEMMA PaintInvInit == ASSUME PointerInit PROVE PaintInv
<1>1. selection \in SelectionType /\ mouse \in MouseType
  BY DEF PointerInit, SelectionType, Away, MouseType
<1>2. lit = None /\ ~selection.show /\ redraw = FALSE /\ overlay = Nothing
  BY DEF PointerInit
<1> QED
  BY <1>1, <1>2 DEF PaintInv, Nothing, drawHighlights, drawSelection, Selecting

\* What is drawn is settled by these.
LEMMA SameDrawn ==
    ASSUME UNCHANGED <<lit, kind, axis>>
    PROVE  drawHighlights' = drawHighlights
  BY DEF drawHighlights, drawPointHighlight, drawBarHighlight, c2p, At

LEMMA SameSelected == ASSUME UNCHANGED selection PROVE drawSelection' = drawSelection
  BY DEF drawSelection, Selecting, selectionIsSane, Abs

LEMMA NoneSelected == ~selection.show => drawSelection = {}
  BY DEF drawSelection, Selecting

LEMMA SelectedShown == Selecting => selection.show
  BY DEF Selecting

LEMMA PaintInvNext == ASSUME Places, PaintInv, [PointerNext]_pointerVars PROVE PaintInv'
<1>1. ASSUME NEW m \in MouseType, MouseMove(m) PROVE PaintInv'
  <2> DEFINE s  == IF selection.active THEN updateSelection(selection, m) ELSE selection
             it == findNearbyItem(m)
  <2>1. /\ redraw' = (redraw \/ ~Selecting \/ Relit(it)
                             \/ (selection.active /\ Repaints(selection, s)))
        /\ selection' = s /\ lit' = it
        /\ mouse' = m
        /\ UNCHANGED <<kind, axis, overlay>>
    BY <1>1 DEF MouseMove, Hover
  <2>2. ~selection.active => selection' = selection
    BY <2>1
  <2>3. s \in SelectionType
    BY UpdatedIs DEF PaintInv, MouseType
  <2> HIDE DEF s, it
  <2>4. redraw' \in BOOLEAN /\ (~redraw' => ~redraw /\ Selecting /\ lit' = lit)
    BY <2>1 DEF Relit, PaintInv
  <2>5. selection.active => redraw'
    <3> SUFFICES ASSUME selection.active, ~redraw' PROVE FALSE
      OBVIOUS
    <3>1. ~Repaints(selection, s) /\ selection.show
      BY <2>1, <2>4, SelectedShown
    <3> QED
      BY <3>1 DEF Repaints, PaintInv, SelectionType
  <2>6. ~redraw' => drawHighlights' = drawHighlights
    BY <2>1, <2>4, SameDrawn
  <2>7. ~selection.active => drawSelection' = drawSelection
    BY <2>2, SameSelected
  <2> QED
    BY <2>1, <2>2, <2>3, <2>4, <2>5, <2>6, <2>7 DEF PaintInv
<1>2. ASSUME NEW m \in MouseType, MouseBeside(m) PROVE PaintInv'
  <2>1. /\ redraw' = (redraw \/ Relit(None) \/ cross # NoCross)
        /\ lit' = None /\ mouse' = m
        /\ UNCHANGED <<kind, axis, overlay, selection>>
    BY <1>2 DEF MouseBeside, Hover
  <2>2. redraw' \in BOOLEAN /\ (~redraw' => ~redraw /\ lit' = lit)
    BY <2>1 DEF Relit, PaintInv
  <2>3. ~redraw' => drawHighlights' = drawHighlights
    BY <2>1, <2>2, SameDrawn
  <2>4. drawSelection' = drawSelection
    BY <2>1, SameSelected
  <2> QED
    BY <2>1, <2>2, <2>3, <2>4 DEF PaintInv
<1>3. CASE MouseDown
  <2>1. /\ mouse' = mouse /\ selection'.active /\ selection'.show = selection.show
        /\ UNCHANGED <<lit, kind, axis, redraw, overlay>>
    BY <1>3 DEF MouseDown, PaintInv, SelectionType
  <2>3. selection' \in SelectionType
    <3>1. Clamped(mouse.x) \in Int
      BY ClampedIsInt DEF PaintInv, MouseType
    <3> QED
      BY <1>3, <3>1 DEF MouseDown, PaintInv, SelectionType
  <2>2. drawHighlights' = drawHighlights
    BY <2>1, SameDrawn
  <2> QED
    BY <2>1, <2>2, <2>3 DEF PaintInv
<1>4. CASE MouseUp
  <2> DEFINE up == [selection EXCEPT !.active = FALSE, !.blocked = FALSE]
             s  == updateSelection(up, mouse)
  <2>1. up \in SelectionType
    BY DEF PaintInv, SelectionType
  <2>2. s \in SelectionType
    <3> HIDE DEF up
    <3> QED
      BY <2>1, UpdatedIs DEF PaintInv, MouseType
  <2>3. /\ selection' = s
        /\ redraw' = (redraw \/ Repaints(selection, s) \/ drag.phase = "dragging")
        /\ UNCHANGED <<lit, kind, overlay, mouse>>
        /\ drag.phase # "dragging" => UNCHANGED axis
    BY <1>4 DEF MouseUp, DragEnd
  <2> HIDE DEF up, s
  <2>4. redraw' \in BOOLEAN
    BY <2>2, <2>3 DEF Repaints, PaintInv, SelectionType
  <2>5. ~redraw' => ~redraw /\ ~s.show /\ ~selection.show /\ UNCHANGED axis
    BY <2>2, <2>3 DEF Repaints, PaintInv, SelectionType
  <2>6. ~redraw' => drawHighlights' = drawHighlights
    BY <2>3, <2>5, SameDrawn
  <2>7. ~redraw' => drawSelection' = {}
    BY <2>3, <2>5 DEF drawSelection, Selecting
  <2> QED
    BY <2>2, <2>3, <2>4, <2>5, <2>6, <2>7 DEF PaintInv
<1>5. ASSUME redraw' = TRUE, UNCHANGED <<selection, mouse>> PROVE PaintInv'
  BY <1>5 DEF PaintInv
<1>6. CASE DrawOverlay
  <2>1. /\ UNCHANGED <<lit, kind, axis, selection, mouse>> /\ redraw' = FALSE
        /\ overlay' = [lit |-> drawHighlights, cross |-> cross, selection |-> drawSelection]
    BY <1>6 DEF DrawOverlay
  <2>2. drawHighlights' = drawHighlights /\ drawSelection' = drawSelection
    BY <2>1, SameDrawn, SameSelected
  <2>3. overlay'.lit = drawHighlights /\ overlay'.selection = drawSelection
    BY <2>1
  <2> QED
    BY <2>1, <2>2, <2>3, NoneSelected DEF PaintInv
<1>7. CASE UNCHANGED pointerVars
  <2>1. UNCHANGED <<lit, kind, axis, selection, mouse, redraw, overlay>>
    BY <1>7 DEF pointerVars
  <2>2. drawHighlights' = drawHighlights /\ drawSelection' = drawSelection
    BY <2>1, SameDrawn, SameSelected
  <2> QED
    BY <2>1, <2>2 DEF PaintInv
<1>8. CASE PanTimeout
  BY <1>5, <1>8 DEF PanTimeout
<1>9. ASSUME NEW in \in BOOLEAN, MouseWheel(in) PROVE PaintInv'
  BY <1>5, <1>9 DEF MouseWheel
<1>10. /\ \A x \in Over, at \in BOOLEAN : [x |-> x, at |-> at] \in MouseType
       /\ \A x \in Beside : [x |-> x, at |-> FALSE] \in MouseType
  BY DEF Places, MouseType
<1> QED
  BY <1>1, <1>2, <1>3, <1>4, <1>6, <1>7, <1>8, <1>9, <1>10 DEF PointerNext

\* When no redraw is due, the overlay shows the highlight where its reading is and the selection
\* as it is, whatever was hovered, dragged, panned and zoomed in between: each handler that
\* changes what is shown asks for a redraw (triggerRedrawOverlay, jquery.flot.js:2846-2854).
THEOREM OverlayIsCurrent == ASSUME Places PROVE PointerSpec => []OverlayCatchesUp
<1>1. PointerInit => PaintInv
  BY PaintInvInit
<1>2. PaintInv /\ [PointerNext]_pointerVars => PaintInv'
  BY PaintInvNext
<1>3. PaintInv => OverlayCatchesUp
  BY DEF PaintInv, OverlayCatchesUp
<1> QED
  BY <1>1, <1>2, <1>3, PTL DEF PointerSpec

-----------------------------------------------------------------------------
(* The tooltip is inside the window wherever the chart is, for what is before *)
(* the mouse when there is no room behind it ends where the mouse is.         *)

LEMMA BeforeFits ==
    ASSUME NEW pos \in Int, NEW size \in Int, NEW shift \in Int, NEW end \in Int, pos <= end
    PROVE  Before(pos, size, shift, end) + shift + size <= end
  BY DEF Before

LEMMA HoveredFits ==
    ASSUME Inside, NEW x \in Over, NEW at, NEW item, Hover(item, [x |-> x, at |-> at])
    PROVE  TooltipIsOnThePage'
<1> DEFINE m    == [x |-> x, at |-> at]
           here == updateTooltipPosition(m)
           tip  == [text |-> stringFormat(item[1]), at |-> here]
<1>1. lit' = item /\ tooltip' = IF item = None THEN Hidden ELSE <<tip>>
  BY DEF Hover, plothover
<1>2. CASE item = None
  BY <1>1, <1>2 DEF TooltipIsOnThePage, None, Hidden
<1>3. CASE item # None
  <2>1. m.x = x
    OBVIOUS
  <2>2. /\ here.left = Before(x, Tip.w, Shift.x, Page.w) + Shift.x
        /\ here.top = Before(ReadingsY, Tip.h, Shift.y, Page.h) + Shift.y
    BY DEF updateTooltipPosition
  <2>3. here.left + Tip.w <= Page.w
    BY <2>2, BeforeFits DEF Inside
  <2>4. here.top + Tip.h <= Page.h
    BY <2>2, BeforeFits DEF Inside
  <2> HIDE DEF here, m
  <2>5. tip.text = stringFormat(item[1]) /\ tip.at = here
    OBVIOUS
  <2> HIDE DEF tip
  <2>6. tooltip' = <<tip>> /\ tooltip' # Hidden /\ tooltip'[1] = tip
    BY <1>1, <1>3 DEF Hidden
  <2> QED
    BY <1>1, <1>3, <2>3, <2>4, <2>5, <2>6 DEF TooltipIsOnThePage
<1> QED
  BY <1>2, <1>3

LEMMA TooltipNext ==
    ASSUME Inside, TooltipIsOnThePage, [PointerNext]_pointerVars PROVE TooltipIsOnThePage'
<1>1. ASSUME NEW x \in Over, NEW at \in BOOLEAN, MouseMove([x |-> x, at |-> at])
      PROVE  TooltipIsOnThePage'
  <2> DEFINE m == [x |-> x, at |-> at]
  <2>1. Hover(findNearbyItem(m), m)
    BY <1>1 DEF MouseMove
  <2> QED
    BY <2>1, HoveredFits
<1>2. ASSUME NEW x \in Beside, MouseBeside([x |-> x, at |-> FALSE]) PROVE TooltipIsOnThePage'
  BY <1>2 DEF MouseBeside, Hover, plothover, TooltipIsOnThePage, None, Hidden
<1>3. CASE UNCHANGED <<lit, tooltip>>
  BY <1>3 DEF TooltipIsOnThePage
<1> QED
  BY <1>1, <1>2, <1>3 DEF PointerNext, MouseDown, MouseUp, PanTimeout, DrawOverlay, MouseWheel, pointerVars

\* The tooltip tells of the reading that is highlighted and is inside the window, in any window
\* that the plot is in and for a tooltip of any size (jquery.flot.tooltip.js:62-133).
THEOREM TooltipFits == ASSUME Inside PROVE PointerSpec => []TooltipIsOnThePage
<1>1. PointerInit => TooltipIsOnThePage
  BY DEF PointerInit, TooltipIsOnThePage, Hidden, None
<1>2. TooltipIsOnThePage /\ [PointerNext]_pointerVars => TooltipIsOnThePage'
  BY TooltipNext
<1> QED
  BY <1>1, <1>2, PTL DEF PointerSpec
====================================================================================
