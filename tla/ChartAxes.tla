-------------------------------- MODULE ChartAxes --------------------------------
(***************************************************************************)
(* The axes of the usage chart: their ranges, ticks and places             *)
(* (jquery.flot.js), their time ticks and the labels of those              *)
(* (jquery.flot.time.js), and the weekends that are shaded                 *)
(* (lh/customer/meterreadings/show.jsp).                                   *)
(*                                                                         *)
(* A value on an axis is an integer; on the y axis a thousandth, on a time *)
(* axis an hour since 1 January 1970.                                      *)
(***************************************************************************)
EXTENDS Calendar, SequencesExt

Unset == <<>>
Given(option, value) == IF option = Unset THEN value ELSE option[1]

\* Round to nearby lower multiple of base.
floorInBase(n, base) == base * (n \div base)

Ceiling(n, d) == -((-n) \div d)

-----------------------------------------------------------------------------
(* Ranges. *)

Widen(max, one) == IF max = 0 THEN one ELSE one \div 100

\* opts has what was set for the axis; data is its smallest and its largest value, one the
\* number 1 in the axis's unit, and margin the room for what is not set, in hundredths.
setRange(opts, data, margin, one) ==
    LET min   == Given(opts.min, data[1])
        max   == Given(opts.max, data[2])
        delta == max - min
        low   == min - (delta * margin) \div 100
        high  == max + (delta * margin) \div 100
    IN  IF delta = 0
        THEN [min |-> IF opts.min = Unset THEN min - Widen(max, one) ELSE min,
              max |-> IF opts.max = Unset \/ opts.min # Unset THEN max + Widen(max, one) ELSE max]
        ELSE [min |-> IF opts.min # Unset THEN min
                      ELSE IF margin > 0 /\ low < 0 /\ data[1] >= 0 THEN 0 ELSE low,
              max |-> IF opts.max # Unset THEN max
                      ELSE IF margin > 0 /\ high > 0 /\ data[2] <= 0 THEN 0 ELSE high]

-----------------------------------------------------------------------------
(* Ticks. *)

Powers == {1, 10, 100, 1000, 10000, 100000, 1000000}

\* Of the sizes 1, 2, 2.5, 5 and 10 times a power of ten the one for about n ticks; least is
\* the last digit that tickDecimals shows.
tickSize(range, n, least) ==
    LET magn == Max({least} \cup {p \in Powers : p > least /\ p * n <= range})
    IN  CASE 2 * range < 3 * n * magn                            -> magn
          [] 2 * range >= 3 * n * magn /\ range < 3 * n * magn   ->
                IF 4 * range > 9 * n * magn /\ magn > least THEN (5 * magn) \div 2 ELSE 2 * magn
          [] range >= 3 * n * magn /\ 2 * range < 15 * n * magn  -> 5 * magn
          [] OTHER                                               -> 10 * magn

\* From the multiple of the size at or below the least value, up to the first at or above
\* the greatest one.  Where the range is upside down the logarithm of its length is not a
\* number, nor is any tick.
tickGenerator(axis, size) ==
    LET start == floorInBase(axis.min, size)
        more  == IF start >= axis.max THEN 0 ELSE Ceiling(axis.max - start, size)
    IN  IF axis.max < axis.min THEN <<>> ELSE [i \in 1..(more + 1) |-> start + (i - 1) * size]

\* An axis with a margin grows to its outer ticks where its range is not set.
snapRangeToTicks(axis, opts, ticks) ==
    IF ticks = <<>> THEN axis
    ELSE [min |-> IF opts.min = Unset THEN Min({axis.min, ticks[1]}) ELSE axis.min,
          max |-> IF opts.max = Unset /\ Len(ticks) > 1
                  THEN Max({axis.max, ticks[Len(ticks)]}) ELSE axis.max]

-----------------------------------------------------------------------------
(* Time ticks.  A size is a number of quarters of its unit. *)

Hours == [hour |-> 1, day |-> 24, month |-> 720]
Spec4 == << <<4, "hour">>, <<8, "hour">>, <<16, "hour">>, <<32, "hour">>, <<48, "hour">>,
            <<4, "day">>, <<8, "day">>, <<12, "day">>,
            <<1, "month">>, <<2, "month">>, <<4, "month">>, <<8, "month">>,
            <<12, "month">>, <<24, "month">> >>

Length(spec) == (spec[1] * Hours[spec[2]]) \div 4

\* The first size that is at least an hour and nearest to the room for a tick; six months if
\* none is (a chart of many years is not modelled).
timeTickSize(range, n) ==
    LET fits == {i \in 1..(Len(Spec4) - 1) :
                    2 * range < n * (Length(Spec4[i]) + Length(Spec4[i + 1]))}
    IN  Spec4[IF fits = {} THEN Len(Spec4) ELSE Min(fits)]

\* The browser's zone: its standard offset from UTC, and the summers in which its clock is an hour
\* ahead.  The clock is changed by night, but neither at midnight nor in the hour before.
Zones == {z \in [standard : Int, summers : SUBSET [from : Int, to : Int]] :
            \A s \in z.summers : {(s.from + z.standard) % 24, (s.to + z.standard) % 24} \subseteq 1..22}

Summer(t, zone) == \E s \in zone.summers : s.from <= t /\ t < s.to
Offset(t, zone) == zone.standard + IF Summer(t, zone) THEN 1 ELSE 0

\* The local day and hour of a time, and the time of a local day and hour: of an hour that is
\* skipped or comes twice, by the offset before the change.
LocalDay(t, zone)    == (t + Offset(t, zone)) \div 24
LocalHour(t, zone)   == (t + Offset(t, zone)) % 24
Local(day, h, zone)  == LET t == 24 * day + h - zone.standard
                        IN  IF Summer(t - 1, zone) THEN t - 1 ELSE t

\* The time the ticks start from: local, with what is smaller than the step taken off.  A month
\* that has no such day runs over into the next.
FirstTick(t, size, zone) ==
    LET day   == LocalDay(t, zone)
        step  == Length(size)
        n     == size[1] \div 4
        hour  == IF size[2] = "hour" THEN floorInBase(LocalHour(t, zone), n) ELSE LocalHour(t, zone)
        month == IF size[2] = "month" /\ n >= 1
                 THEN UTCDate(Year(day), floorInBase(Month(day), n), Day(day)) ELSE day
        first == IF step >= 4 * 24 THEN UTCDate(Year(month), Month(month), 1) ELSE month
        third == IF step >= 2 * 720
                 THEN UTCDate(Year(first), floorInBase(Month(first), IF step >= 6 * 720 THEN 6 ELSE 3), 1)
                 ELSE first
    IN  Local(third, IF step >= 24 THEN 0 ELSE hour, zone)

\* The tick after v, and what is carried over, in quarters of an hour: hours and days are added
\* as they are, whatever the clock shows; part of a month ends in the first hour of a day, of which
\* a tick keeps the quarters (ticks are rounded down to hours).
NextTick(v, carry, size, zone) ==
    LET day   == LocalDay(v, zone)
        hour  == LocalHour(v, zone)
        first == UTCDate(Year(day), Month(day), 1)
        start == Local(first, hour, zone)
        end   == Local(UTCDate(Year(day), Month(day) + 1, 1), hour, zone)
        part  == 4 * v + carry + (end - start) * size[1]
        t     == part \div 4
    IN  CASE size[2] # "month" -> <<v + Length(size), carry>>
          [] size[2] = "month" /\ size[1] >= 4 ->
                <<Local(UTCDate(Year(day), Month(day) + size[1] \div 4, day - first + 1), hour, zone), carry>>
          [] OTHER -> <<Local(LocalDay(t, zone), 0, zone), 4 * LocalHour(t, zone) + (part % 4)>>

\* Up to the first tick that is not before the greatest value.
timeTicks(axis, size, zone) ==
    LET start == FirstTick(axis.min, size, zone)
        most  == (2 * (axis.max - start)) \div Length(size) + 2
        ticks[n \in 0..most] ==
            IF n = 0 THEN << <<start>>, 0>>
            ELSE LET before == ticks[n - 1]
                     v      == before[1][Len(before[1])]
                     next   == NextTick(v, before[2], size, zone)
                 IN  IF v >= axis.max THEN before ELSE <<Append(before[1], next[1]), next[2]>>
    IN  ticks[most][1]

\* A time as a format writes it: month, day, hour and year.
formatDate(t, fmt, zone) ==
    LET day  == LocalDay(t, zone)
        part == [b |-> Month(day), d |-> Day(day), H |-> LocalHour(t, zone), Y |-> Year(day)]
    IN  [i \in DOMAIN fmt |-> part[fmt[i]]]

\* What a label tells of its time, by the size of the ticks and the span of the axis.
tickFormat(size, span) ==
    CASE Length(size) < 24 /\ span < 48                -> <<"H">>
      [] Length(size) < 24 /\ span >= 48               -> <<"b", "d", "H">>
      [] Length(size) >= 24 /\ Length(size) < 720      -> <<"b", "d">>
      [] Length(size) >= 720 /\ span < 8766            -> <<"b">>
      [] OTHER                                         -> <<"b", "Y">>

-----------------------------------------------------------------------------
(* Weekends: from the Saturday at or before the least value, every seven days of 24 hours. *)

\* Mutant of weekendAreas: from the Sunday.
weekendAreasOfSundays(axis, zone) ==
    LET day == LocalDay(axis.min, zone)
        i   == Local(day - WeekDay(day), 0, zone)
        n   == IF i >= axis.max THEN 1 ELSE 1 + (axis.max - i - 1) \div (7 * 24)
    IN  [k \in 1..n |-> [from |-> i + (k - 1) * 7 * 24, to |-> i + (k - 1) * 7 * 24 + 2 * 24]]

weekendAreas(axis, zone) ==
    LET day == LocalDay(axis.min, zone)
        i   == Local(day - ((WeekDay(day) + 1) % 7), 0, zone)
        n   == IF i >= axis.max THEN 1 ELSE 1 + (axis.max - i - 1) \div (7 * 24)
    IN  [k \in 1..n |-> [from |-> i + (k - 1) * 7 * 24, to |-> i + (k - 1) * 7 * 24 + 2 * 24]]

\* A marking is clipped to the axis, or not drawn.
Shaded(axis, zone) ==
    {[from |-> Max({m.from, axis.min}), to |-> Min({m.to, axis.max})] :
        m \in {x \in {weekendAreas(axis, zone)[k] : k \in DOMAIN weekendAreas(axis, zone)} :
                  x.to >= axis.min /\ x.from <= axis.max}}

-----------------------------------------------------------------------------
(* Where the plot and the boxes of its axes are.  There is one axis at the  *)
(* bottom and one at the left, each with the size of its labels; each is    *)
(* the innermost and the outermost of its side.  Lengths are half pixels.   *)

LabelMargin == 10
TickLength  == 12            \* of the x axis; the y axis's ticks cross the plot
MinMargin   == 16            \* twice the radius of a point with half its line
Border      == [left |-> 2, right |-> 0, top |-> 0, bottom |-> 2]

\* First the boxes take their room, then what sticks out.
plotOffset(x, y) ==
    [left   |-> Max({MinMargin, x.w \div 2, Border.left + y.w + LabelMargin}),
     right  |-> Max({MinMargin, x.w \div 2, Border.right}),
     top    |-> Max({MinMargin, y.h \div 2, Border.top}),
     bottom |-> Max({MinMargin, y.h \div 2, Border.bottom + x.h + LabelMargin + TickLength})]

boxes(x, y, surface) ==
    LET o == plotOffset(x, y)
    IN  [x |-> [top |-> surface.h - (Border.bottom + x.h + LabelMargin + TickLength),
                height |-> x.h + LabelMargin + TickLength,
                left |-> o.left - x.w \div 2, width |-> surface.w - o.left - o.right + x.w],
         y |-> [left |-> Border.left, width |-> y.w + LabelMargin,
                top |-> o.top - y.h \div 2, height |-> surface.h - o.bottom - o.top + y.h]]

\* How far the plot and, across it, the label of a tick at a place along an axis reach.
plotSize(x, y, surface) ==
    LET o == plotOffset(x, y)
    IN  [w |-> surface.w - o.left - o.right, h |-> surface.h - o.top - o.bottom]
Reach(before, at, size) == <<before + at - size \div 2, before + at + size \div 2>>
===================================================================================
