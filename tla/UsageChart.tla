-------------------------------- MODULE UsageChart --------------------------------
(***************************************************************************)
(* The usage chart of a meter reading (lh/customer/meterreadings/show.jsp): *)
(* it grows from the left when the page opens (jquery.flot.animator.js),    *)
(* is replayed from its first reading by start and stop, is zoomed, toggled *)
(* between bars and lines and fitted to a resized window.  The axes are     *)
(* fitted by setupGrid (jquery.flot.js), which an axis with a label does    *)
(* once more in every draw (jquery.flot.axislabels.js).                     *)
(*                                                                          *)
(* A reading is <<x, y>>: its time and its value in thousandths; a point    *)
(* of a time without a value is <<x>>.                                      *)
(***************************************************************************)
EXTENDS ChartAxes

CONSTANTS ReadingSets,   \* what a page may show: sequences of readings in the order of time
          BarsUpTo,      \* so many readings are shown as bars, more as lines
          Steps,         \* of the animation
          Window,        \* readings a replay keeps
          BarWidth, LabelWidth, YTicks,
          MaxStarts, MaxZooms, MaxToggles      \* bounds

VARIABLES readings, labelled,   \* of the page: its readings, and whether the y axis has a name
          step,                 \* of the animation
          chart,                \* data, extent, kind, opts, axis, room, named: see Fitted
          timerid, intervals, slicedata, curridx,
          done                  \* bounds, and what happened: starts, zooms, toggles, again, partly

vars == <<readings, labelled, step, chart, timerid, intervals, slicedata, curridx, done>>

First(s) == s[1]

\* A page has readings, in the order of time.
ASSUME PageAssumption ==
    /\ \A rs \in ReadingSets : rs \in Seq(Int \X Nat) /\ rs # <<>> /\ First(rs)[1] <= Last(rs)[1]
    /\ Steps \in Nat \ {0} /\ Window \in Nat \ {0} /\ BarWidth \in Nat /\ LabelWidth \in Int

Valued(points) == {p \in {points[i] : i \in DOMAIN points} : Len(p) = 2}
Values(points) == {p[2] : p \in Valued(points)}
Times(points)  == {points[i][1] : i \in DOMAIN points}

\* Mutant of minyValue: the smallest itself is rounded.
minyValueOfLeast(least) == 1000 * ((least + 500) \div 1000)

\* The least value that the y axis shows: four fifths of the smallest, rounded to a unit.
minyValue(least) == 1000 * ((8 * least + 5000) \div 10000)

-----------------------------------------------------------------------------
(* The plot.  extent is the range of the processed data, opts what was set *)
(* for the axes, opts.room and room the width for the labels of the y axis, *)
(* named says that its name has been placed.                               *)

\* The page sets the least value of the y axis, and nothing else that an axis is fitted by.
parseOptions(rs) ==
    [x |-> [min |-> Unset, max |-> Unset],
     y |-> [min |-> <<minyValue(Min(Values(rs)))>>, max |-> Unset],
     room |-> Unset]

\* What the page's options say of a series: bars, or lines.
PageSeries(rs) == IF Len(rs) <= BarsUpTo THEN [bars |-> <<TRUE>>, lines |-> Unset]
                                         ELSE [bars |-> Unset, lines |-> <<TRUE>>]

\* Bars are off by default; lines are turned on where nothing else is shown.
fillInSeriesOptions(series) ==
    LET bars == Given(series.bars, FALSE)
    IN  [bars |-> bars, lines |-> Given(series.lines, ~bars)]

\* Mutant of processData: points without value do not count.
processDataOfValues(points, kind) ==
    LET xs == {p[1] : p \in Valued(points)}
    IN  [x |-> <<Min(xs), Max(xs) + BarWidth>>, y |-> <<0, Max(Values(points) \cup {0})>>]

\* Aligned to the left, a bar needs room at the right.
RoomForBars(kind) == IF kind.bars THEN BarWidth ELSE 0
Ends(points, kind) == {p[1] + RoomForBars(kind) : p \in Valued(points)}

\* The time range takes the times of points without value, and the whole of each bar.
processData(points, kind) ==
    [x |-> <<Min(Times(points)), Max(Times(points) \cup Ends(points, kind))>>,
     y |-> <<0, Max(Values(points) \cup {0})>>]

\* Two decimals: as wide as the digits before them.
labelWidth(ticks) ==
    Max({0} \cup {IF ticks[i] >= 10000 THEN 5 ELSE 4 : i \in DOMAIN ticks})

setupGrid(c) ==
    LET y     == setRange(c.opts.y, c.extent.y, 2, 1000)
        ticks == tickGenerator(y, tickSize(y.max - y.min, YTicks, 10))
    IN  [c EXCEPT !.axis = [x |-> setRange(c.opts.x, c.extent.x, 0, 1000),
                            y |-> snapRangeToTicks(y, c.opts.y, ticks)],
                  !.room = IF c.opts.room # Unset THEN c.opts.room[1] ELSE labelWidth(ticks)]

\* Mutant of draw: the room of the name is added to what has it already.
drawAdding(c, named) ==
    IF named THEN setupGrid([c EXCEPT !.opts.room = <<c.room + LabelWidth>>, !.named = TRUE]) ELSE c

\* A name needs room beside the tick labels: what it took before is given back, what it takes
\* is added, and the axes are fitted again.
draw(c, named) ==
    IF ~named THEN c
    ELSE LET ticks == IF c.named THEN c.room - LabelWidth ELSE c.room
         IN  setupGrid([c EXCEPT !.opts.room = <<ticks + LabelWidth>>, !.named = TRUE])

\* The options of the page give a series what it does not have itself.
setData(c, points, series) ==
    LET kind == fillInSeriesOptions(series)
    IN  [c EXCEPT !.data = points, !.kind = kind, !.extent = processData(points, kind)]

\* The series of the plot as getData hands it out.
getData(c) == [bars |-> <<c.kind.bars>>, lines |-> <<c.kind.lines>>]

\* The points the chart is made with: the largest and the smallest value at the first time,
\* then every time.
pInit(rs) ==
    << <<First(rs)[1], Max(Values(rs))>>, <<First(rs)[1]>>, <<First(rs)[1], Min(Values(rs))>> >>
        \o [i \in DOMAIN rs |-> <<rs[i][1]>>]

Fitted(rs, named) ==
    LET new == [data |-> <<>>, kind |-> [bars |-> FALSE, lines |-> FALSE],
                extent |-> [x |-> <<0, 0>>, y |-> <<0, 0>>], opts |-> parseOptions(rs),
                axis |-> [x |-> [min |-> 0, max |-> 0], y |-> [min |-> 0, max |-> 0]],
                room |-> 0, named |-> FALSE]
    IN  draw(setupGrid(setData(new, pInit(rs), PageSeries(rs))), named)

Partial == processData(readings, [bars |-> FALSE, lines |-> TRUE]).x[2] > chart.extent.x[2]
           \/ processData(readings, chart.kind).x[1] < chart.extent.x[1]
           \/ processData(readings, chart.kind).y[2] > chart.extent.y[2]

Init ==
    /\ readings \in ReadingSets /\ labelled \in BOOLEAN
    /\ step = 0
    /\ chart = Fitted(readings, labelled)
    /\ timerid = 0 /\ intervals = {} /\ slicedata = <<>> /\ curridx = 0
    /\ done = [starts |-> 0, zooms |-> 0, toggles |-> 0, again |-> FALSE, partly |-> FALSE]

-----------------------------------------------------------------------------
(* The animation. *)

\* Up to the time of the step, which is one behind; at the last step all.
Grown(s) ==
    LET si == First(readings)[1]
        fi == Last(readings)[1]
        n  == Cardinality({i \in DOMAIN readings : (readings[i][1] - si) * Steps <= (s - 1) * (fi - si)})
    IN  IF s < Steps THEN SubSeq(readings, 1, n) ELSE readings

\* plotData starts from the options of the page: what was toggled is lost.
Frame ==
    /\ step < Steps
    /\ step' = step + 1
    /\ chart' = draw(setData(chart, Grown(step + 1), PageSeries(readings)), labelled)
    /\ UNCHANGED <<readings, labelled, timerid, intervals, slicedata, curridx, done>>

-----------------------------------------------------------------------------
(* The replay. *)

\* Mutant of Start: the place of the last replay is kept.
StartFromPlace ==
    /\ done.starts < MaxStarts
    /\ slicedata' = <<>> /\ curridx' = curridx
    /\ timerid' = done.starts + 1
    /\ intervals' = intervals \cup {timerid'}
    /\ done' = [done EXCEPT !.starts = @ + 1, !.again = @ \/ timerid > 0]
    /\ UNCHANGED <<readings, labelled, step, chart>>

\* A second start makes another interval and forgets the first.
Start ==
    /\ done.starts < MaxStarts
    /\ slicedata' = <<>> /\ curridx' = 0
    /\ timerid' = done.starts + 1
    /\ intervals' = intervals \cup {timerid'}
    /\ done' = [done EXCEPT !.starts = @ + 1, !.again = @ \/ timerid > 0]
    /\ UNCHANGED <<readings, labelled, step, chart>>

\* Shared by all intervals: they change the same variables.
updateRandom ==
    /\ intervals # {}
    /\ LET kept == IF Len(slicedata) > Window THEN Tail(slicedata) ELSE slicedata
           more == curridx < Len(readings)
       IN  /\ slicedata' = IF more THEN Append(kept, readings[curridx + 1]) ELSE kept
           /\ curridx' = IF more THEN curridx + 1 ELSE curridx
    /\ chart' = draw(setData(chart, slicedata', getData(chart)), labelled)
    /\ UNCHANGED <<readings, labelled, step, timerid, intervals, done>>

\* Mutant of Stop: the interval is forgotten and runs on.
StopForgets ==
    /\ timerid > 0
    /\ timerid' = 0
    /\ UNCHANGED <<readings, labelled, step, chart, intervals, slicedata, curridx, done>>

Stop ==
    /\ timerid > 0
    /\ intervals' = intervals \ {timerid}
    /\ timerid' = 0
    /\ UNCHANGED <<readings, labelled, step, chart, slicedata, curridx, done>>

-----------------------------------------------------------------------------
(* What else the reader does. *)

\* No new extent: the data are not processed.
ToggleChart ==
    /\ done.toggles < MaxToggles
    /\ chart' = draw([chart EXCEPT !.kind = [bars |-> ~@.bars, lines |-> ~@.lines]], labelled)
    /\ done' = [done EXCEPT !.toggles = @ + 1]
    /\ UNCHANGED <<readings, labelled, step, timerid, intervals, slicedata, curridx>>

\* About the middle; the y axis has no zoomRange.  4 * quarters of the range on each side.
zoom(quarters) ==
    /\ done.zooms < MaxZooms
    /\ LET x == chart.axis.x
           d == ((x.max - x.min) * quarters) \div 4
           c == [chart EXCEPT !.opts.x = [min |-> <<x.min + d>>, max |-> <<x.max - d>>]]
       IN  chart' = draw(setupGrid(c), labelled)
    /\ done' = [done EXCEPT !.zooms = @ + 1, !.partly = Partial]
    /\ UNCHANGED <<readings, labelled, step, timerid, intervals, slicedata, curridx>>

ZoomIn  == zoom(1)
ZoomOut == zoom(-1)

onResize ==
    /\ chart' = draw(setupGrid(chart), labelled)
    /\ done' = [done EXCEPT !.partly = Partial]
    /\ UNCHANGED <<readings, labelled, step, timerid, intervals, slicedata, curridx>>

Next == \/ Frame \/ Start \/ updateRandom \/ Stop
        \/ ToggleChart \/ ZoomIn \/ ZoomOut \/ onResize

Spec == Init /\ [][Next]_vars

-----------------------------------------------------------------------------

Shown == Valued(chart.data)

\* After stop nothing moves the chart any more, unless start was pressed while a replay ran
\* (show.jsp: the first interval's id is overwritten).
StopStops == timerid = 0 /\ ~done.again => intervals = {}

\* A replay holds the readings up to its place without a gap, and as many as the window
\* takes (show.jsp: updateRandom cuts before it appends).
ReplayShowsTheLatest ==
    /\ Len(slicedata) <= curridx
    /\ slicedata = SubSeq(readings, curridx - Len(slicedata) + 1, curridx)
    /\ Len(slicedata) >= Min({curridx, Window})

\* What is shown is inside the axes until the reader zooms, although only some draws fit the
\* axes; unless a resize fitted axes without a name to a part of the readings.  Where the y axis
\* has a name the whole of a bar is inside, until the chart is toggled; without one the axes are
\* fitted to times that have no value yet, and have no room for the last bar (processData).
ReadingsAreInside ==
    done.zooms = 0 /\ (labelled \/ ~done.partly) =>
        LET room == IF labelled /\ done.toggles = 0 THEN RoomForBars(chart.kind) ELSE 0
        IN  \A p \in Shown : /\ chart.axis.x.min <= p[1] /\ p[1] + room <= chart.axis.x.max
                             /\ p[2] <= Max({chart.axis.y.max, chart.axis.y.min})

\* The y axis is upright, except where four fifths of the smallest reading are rounded to
\* more than it is: from 0.625 to 1 and from 1.875 to 2.
YAxisIsUpright ==
    LET m == Min(Values(readings))
    IN  ~(m \in 625..999 \/ m \in 1875..1999) => chart.axis.y.min < chart.axis.y.max

\* However often the chart is drawn, the plot does not drift: what axislabels.js adds to the room
\* of a named axis it has taken off before.
RoomIsKept       == labelled => chart'.room = chart.room
PlotDoesNotDrift == [][RoomIsKept]_vars

===================================================================================
