------------------------------ MODULE DrawingPromises ------------------------------
(* What a drawing of ChartDrawing promises, told by the data instead of by the path the code   *)
(* takes.                                                                                      *)
EXTENDS ChartDrawing

-----------------------------------------------------------------------------
(* What the data show at an hour, in sixtieths of the unit: two readings in a row are sixty    *)
(* hours apart.                                                                                *)

Segments == {i \in 1..(Len(figure.points) - 1) :
                figure.points[i] # <<>> /\ figure.points[i + 1] # <<>>}
Value(i, x) == 60 * figure.points[i][2]
               + (x - figure.points[i][1]) * (figure.points[i + 1][2] - figure.points[i][2])
Data == UNION {{<<x, Value(i, x)>> : x \in Max({figure.points[i][1], view.x.min})
                                           ..Min({figure.points[i + 1][1], view.x.max})} : i \in Segments}
InPlot(g) == 60 * view.y.min <= g[2] /\ g[2] <= 60 * view.y.max

\* The hours of a path, a piece at a time: from p to q.
Piece(p, q) ==
    IF p[1] = q[1] THEN {<<p[1], 60 * p[2]>>, <<q[1], 60 * q[2]>>}
    ELSE {<<x, 60 * p[2] + Quotient(60 * (q[2] - p[2]), q[1] - p[1]) * (x - p[1])>> :
            x \in Min({p[1], q[1]})..Max({p[1], q[1]})}
Drawn(s) == UNION {Piece(s[i], s[i + 1]) :
                    i \in {j \in 1..(Len(s) - 1) : s[j] # <<>> /\ s[j + 1] # <<>>}}

Clamped == {<<g[1], Max({Min({g[2], 60 * view.y.max}), 60 * view.y.min})>> : g \in Data}
Base    == {<<g[1], Max({Min({0, 60 * view.y.max}), 60 * view.y.min})>> : g \in Data}

Bars == [i \in {j \in DOMAIN figure.points : figure.points[j] # <<>>} |->
            LET p == figure.points[i]
            IN  {c \in ((p[1] + BarLeft)..(p[1] + BarLeft + BarWidth)) \X (Min({p[2], 0})..Max({p[2], 0})) :
                    Inside(c[1], view.x) /\ Inside(c[2], view.y)}]

-----------------------------------------------------------------------------

\* Of the bars what is inside the plot, an outline at both ends only where the bar is whole, and none
\* after a toggle.
ShowsTheBars ==
    /\ {c \in (view.x.min..view.x.max) \X (view.y.min..view.y.max) :
            \E i \in DOMAIN strokes.rects : /\ c[1] >= strokes.rects[i].left
                                            /\ c[1] <= strokes.rects[i].right
                                            /\ c[2] >= strokes.rects[i].bottom
                                            /\ c[2] <= strokes.rects[i].top}
        = UNION {Bars[i] : i \in DOMAIN Bars}
    /\ \A i \in DOMAIN strokes.rects : strokes.rects[i].edges # {} => ~figure.bare
    /\ \A i \in DOMAIN strokes.rects :
            {"left", "right"} \subseteq strokes.rects[i].edges
            => strokes.rects[i].right - strokes.rects[i].left = BarWidth

\* A finished drawing shows the data and nothing else, as far as they lie in the plot: the line
\* where it is inside, unless a toggle took it away, the area between the values and the base line
\* and along the edges of the plot, filled once, each bar where it is inside (plotLine,
\* plotLineArea, drawBar).
ShowsTheDataInThePlot ==
    phase = "drawn" =>
        IF figure.kind = "lines"
        THEN /\ Drawn(strokes.lines) = IF figure.bare THEN {} ELSE {g \in Data : InPlot(g)}
             /\ Len(strokes.fills) = IF Data = {} THEN 0 ELSE 1
             /\ Data # {} => Drawn(strokes.fills[1]) = Clamped \cup Base
        ELSE ShowsTheBars

\* No switch of the clock between so many days before the axis and its end.
Steady(days) == \A s \in Zone.summers :
                    \A t \in {s.from, s.to} : ~(view.x.min - 24 * days < t /\ t <= view.x.max)

\* How far off the clock hours that are counted in days of 24 may be.
Astray(steady) == IF steady THEN {0} ELSE {-1, 0, 1}

\* The grid tells the time: the hours of Saturdays and Sundays are shaded and no others, and ticks
\* of days are at midnight, both to the hour where the clock is not changed in the week before or on
\* the axis, else an hour off at most; ticks of months are at midnight always.  None between the
\* first and the last is left out.  Two ticks of the page of lines with the same label are of
\* different days where it tells the hour alone, which it does on an axis of less than two days, else
\* a year apart, and then it tells no year; with ticks of hours and days again where the clock is
\* not changed (weekendAreas, flot.time's tickGenerator and tickFormatter).
GridTellsTheTime ==
    phase = "drawn" =>
        LET size == XSize(figure, view.x)
            span == view.x.max - view.x.min
            ticks == strokes.ticks
            even == size[2] = "month" \/ Steady(1)
        IN  /\ \A h \in view.x.min..(view.x.max - 1) : \E o \in Astray(Steady(7)) :
                  (WeekDay(LocalDay(h + o, Zone)) \in {0, 6})
                  <=> \E m \in strokes.shaded : m.from <= h /\ h < m.to
            /\ \A i \in DOMAIN ticks : Length(size) >= 24 =>
                  \E o \in Astray(even) : (LocalHour(ticks[i], Zone) + o) % 24 = 0
            /\ \A i, j \in DOMAIN ticks : i < j =>
                  /\ ticks[i] < ticks[j]
                  /\ even /\ figure.page = "lines" /\ Label(ticks[i], figure, view.x) = Label(ticks[j], figure, view.x) =>
                        LET days == LocalDay(ticks[j], Zone) - LocalDay(ticks[i], Zone)
                        IN  IF Length(size) < 24 /\ span < 48 THEN days >= 1
                            ELSE days >= 365 /\ tickFormat(size, span) # <<"b", "Y">>
            /\ size[2] = "month" /\ size[1] = 4 =>
                  \A h \in view.x.min..view.x.max :
                      Day(LocalDay(h, Zone)) = 1 /\ LocalHour(h, Zone) = 0 => h \in ToSet(ticks)
            /\ size[2] # "month" =>
                  \A i \in DOMAIN ticks : i > 1 => ticks[i] - ticks[i - 1] = Length(size)

\* After rendering the page shows exactly the labels of the axes as they are, each at its place on
\* the chart and no element twice, whatever was shown before and however often the labels were
\* placed; no label of one axis lies in the box of the other.  The name of the y axis, if it has
\* one, is there once, inside the chart and not over its labels (addText, render, axislabels).
PageShowsTheLabels ==
    phase = "idle" =>
        \A labels \in {Labels(view, ylabel)} :
            /\ {<<e.text, e.at>> : e \in dom} = {<<labels[i].text, labels[i].at>> : i \in DOMAIN labels}
            /\ \A d, e \in dom : d # e => ~(d.text = e.text /\ (d.at = e.at \/ (d.original /\ e.original)))
            /\ \A e \in dom :
                  LET o == plotOffset(XLabel, ylabel)
                      x == Reach(o.left, e.at, XLabel.w)
                      y == Reach(o.top, e.at, ylabel.h)
                      b == boxes(XLabel, ylabel, Surface)
                  IN  IF e.text[1] = "x"
                      THEN 0 <= x[1] /\ x[2] <= Surface.w /\ b.x.left <= x[1] /\ x[2] <= b.x.left + b.x.width
                      ELSE /\ 0 <= y[1] /\ y[2] <= Surface.h /\ b.y.top <= y[1] /\ y[2] <= b.y.top + b.y.height
                           /\ y[2] <= b.x.top + b.x.height /\ b.y.left + b.y.width <= o.left
            /\ Cardinality(names) = IF named THEN 1 ELSE 0
            /\ \A n \in names :
                  LET place == transforms(n)
                      box   == boxes(XLabel, ylabel, Surface).y
                  IN  /\ 0 <= place.left /\ place.right <= box.left + box.width - LabelMargin - YLabel.w
                      /\ 0 <= place.top /\ place.bottom <= Surface.h
==================================================================================
