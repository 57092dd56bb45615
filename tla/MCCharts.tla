--------------------------------- MODULE MCCharts ---------------------------------
(* ChartPages with few readings.  The data: one reading, some that are shown as bars and some *)
(* that are shown as lines, with values below and above one and ten and in the gaps of the y  *)
(* axis.  The drawing: charts of a few readings around March 2014 in the zone of New York,    *)
(* drawn whole, zoomed, panned and panned away, over both changes of its clock, below and     *)
(* above the base line, as they are before the first step of their animation, and toggled.    *)
(* The mouse: two readings an hour apart, the mouse on the labels beside the plot, at both    *)
(* ends of it, a step and two steps apart, and pressed twice.                                 *)
EXTENDS ChartPages, TLC

C == INSTANCE Calendar

MCReadingSets ==
    { << <<0, 700>> >>,
      << <<0, 2600>>, <<16, 2700>>, <<32, 2900>> >>,
      << <<0, 9000>>, <<16, 9500>>, <<48, 12050>>, <<64, 8000>> >>,
      << <<0, 2000>>, <<32, 500>>, <<48, 0>> >> }

-----------------------------------------------------------------------------
Switch(m, d, hour) == 24 * C!UTCDate(2014, m, d) + hour
MCZone    == [standard |-> -5, summers |-> {[from |-> Switch(2, 9, 7), to |-> Switch(10, 2, 6)]}]
MCSurface == [w |-> 1500, h |-> 600]
MCXLabel  == [w |-> 120, h |-> 30]
MCYLabel  == [w |-> 60, h |-> 30]
MCName    == [w |-> 240, h |-> 36]

Day1 == 24 * C!UTCDate(2014, 1, 27)
Axis(from, to) == [min |-> Day1 + from, max |-> Day1 + to]
Reading(hour, y)    == <<Day1 + hour, y>>

Year2014 == [min |-> 24 * C!UTCDate(2014, 0, 1) + 5, max |-> 24 * C!UTCDate(2015, 0, 1) + 5]

Above == [min |-> 0, max |-> 10]
Part  == [min |-> 2, max |-> 10]        \* the least reading is below the axis
Below == [min |-> -4, max |-> 6]

Views(y) == {[x |-> Axis(0, 120), y |-> y], [x |-> Axis(30, 90), y |-> y],
             [x |-> Axis(-30, 30), y |-> y], [x |-> Axis(150, 270), y |-> y]}

Figure(options, drawn, bare, points, views) ==
    [page |-> options, kind |-> drawn, bare |-> bare, points |-> points, views |-> views]

MCFigures ==
    { Figure("lines", "lines", FALSE, <<Reading(0, 4), Reading(60, 10), Reading(120, 2)>>, Views(Above)),
      Figure("lines", "lines", FALSE, <<Reading(0, 0), Reading(60, 8), Reading(120, 0)>>, Views(Part)),
      Figure("lines", "lines", FALSE, <<Reading(0, 0), Reading(60, -6), Reading(120, 6)>>, Views(Below)),
      Figure("lines", "lines", FALSE, <<Reading(0, 8), <<>>, Reading(0, 2), <<>>, <<>> >>,
             Views(Above) \cup {[x |-> Axis(-24 * 30, 24 * 170), y |-> Above],
                                [x |-> Axis(-24 * 10, 24 * 15), y |-> Above],
                                [x |-> Axis(24 * 246, 24 * 252), y |-> Above],
                                [x |-> Axis(-6, 30), y |-> Above]}),
      Figure("lines", "lines", FALSE, <<Reading(0, 8)>>, {[x |-> Year2014, y |-> Above]}),
      Figure("bars", "bars", FALSE, <<Reading(0, 0), Reading(24, -6), Reading(30, 6)>>, Views(Below)),
      Figure("lines", "bars", TRUE, <<Reading(0, 4), Reading(60, 8)>>, Views(Part)),
      Figure("bars", "lines", TRUE, <<Reading(0, 4), Reading(60, 8)>>, Views(Part)) }

-----------------------------------------------------------------------------
MCOver  == {-1, 0, 1, 3}
MCUsage == (0 :> 1234) @@ (36 :> 1239)
MCPage  == [w |-> 4, h |-> 20]
MCTip   == [w |-> 13, h |-> 8]
MCShift == [x |-> -10, y |-> 4]

ASSUME ChartAssumptions == Places /\ Inside
===================================================================================
