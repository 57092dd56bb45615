------------------------------- MODULE ChartDrawing -------------------------------
(***************************************************************************)
(* How the usage chart is drawn (jquery.flot.js): setupGrid places the     *)
(* labels of the ticks, draw paints grid, area, line or bars piece by      *)
(* piece, clipped to the plot, and render brings the text on the page.     *)
(* The text is cached: a label stays where it is, is moved, cloned or      *)
(* taken away.  The name of the y axis (jquery.flot.axislabels.js) is an   *)
(* element of its own, for which every draw is done twice; what the first  *)
(* of them paints is cleared by the second and left out.                   *)
(*                                                                         *)
(* A point is <<x, y>>, in hours and in the units of the y axis, or <<>>   *)
(* where a point without a value stood.  Paths are on the axes.            *)
(***************************************************************************)
EXTENDS ChartAxes

CONSTANTS Figures,           \* what may be shown: points, the page's options and what is drawn, views
          BarWidth, Zone,
          XTicks, YTicks,    \* the number of ticks the plot has room for
          Surface,           \* [w, h] of the chart
          XLabel, YLabel,    \* [w, h] of the tick labels of the time axis, and of the y axis
          Name               \* [w, h] of the name of the y axis, as it is written

\* The room for the name of the y axis, which is turned to read upwards.
Padding       == 4
calculateSize == Name.h + Padding

\* The page has the options of lines or of bars and draws its kind, until this is toggled.  A toggle
\* leaves the kind bare, without the width of its lines and the alignment of its bars, until the
\* next step of a replay merges the page's options again.  What is drawn has points, with gaps, and
\* views that are not empty; the plot has room for a tick, and for less than six months between two.
\* The chart is large enough for what stands beside the plot and for the name, and the labels of both
\* axes are about as high.
Lengths == [w : Nat, h : Nat]
Ranges  == {r \in [min : Int, max : Int] : r.min < r.max}
CanBeDrawn ==
    /\ \A f \in Figures :
          /\ {f.page, f.kind} \subseteq {"lines", "bars"} /\ f.bare \in BOOLEAN
          /\ f.points \in Seq({<<>>} \cup (Int \X Int))
          /\ \A v \in f.views : /\ v.x \in Ranges /\ v.y \in Ranges
                                /\ 2 * (v.x.max - v.x.min) < XTicks * (180 + 365) * 24
    /\ Zone \in Zones /\ BarWidth \in Nat /\ XTicks \in Nat \ {0} /\ YTicks \in Nat \ {0}
    /\ {Surface, XLabel, YLabel, Name} \subseteq Lengths
    /\ LET y == [YLabel EXCEPT !.w = @ + calculateSize]
       IN  /\ plotSize(XLabel, y, Surface).w >= 0 /\ plotSize(XLabel, y, Surface).h >= 0
           /\ Name.w + Name.h + plotOffset(XLabel, y).bottom <= Surface.h
    /\ YLabel.h \div 2 <= XLabel.h + LabelMargin + TickLength

-----------------------------------------------------------------------------
VARIABLES figure,            \* of Figures
          view,              \* [x, y]: the ranges of the axes
          named, sized,      \* whether the y axis has a name; whether its AxisLabel is made
          secondPass,        \* of axislabels' draw hook
          ylabel,            \* [w, h] of what the y axis has room for beside the plot
          names,             \* the elements of the name on the page, with their places
          phase,             \* "made", "fitted", "area", "line", "bars", "drawn", "idle"
          sweep,             \* of the area: [i, dir, open, start, end]; of the others: [i]
          path, strokes,     \* the path that is open, what has been painted
          cache, dom         \* positions of text; the elements on the page

name == <<named, sized, secondPass, ylabel, names>>
vars == <<figure, view, named, sized, secondPass, ylabel, names, phase, sweep, path, strokes, cache, dom>>

-----------------------------------------------------------------------------
(* Text.  A position is of a text, at a place, and has the text's original *)
(* element or a clone of it.                                               *)

removeText(texts) == {[p EXCEPT !.active = FALSE] : p \in texts}

\* A label that has been at its place is kept, one that comes twice is placed once.  The first new
\* position of a text that has none takes the original element, any other a clone.
addText(texts, labels) ==
    LET Same(p, l) == p.text = l.text /\ p.at = l.at
        kept  == {p \in texts : \E i \in DOMAIN labels : Same(p, labels[i])}
        added == {i \in DOMAIN labels : /\ \A p \in texts : ~Same(p, labels[i])
                                       /\ \A j \in 1..(i - 1) : ~Same(labels[j], labels[i])}
        First(i) == /\ \A p \in texts : p.text # labels[i].text
                    /\ \A j \in 1..(i - 1) : labels[j].text # labels[i].text
    IN  (texts \ kept) \cup {[p EXCEPT !.active = TRUE] : p \in kept}
        \cup {[text |-> labels[i].text, at |-> labels[i].at, original |-> First(i),
               active |-> TRUE, rendered |-> FALSE] : i \in added}

Element(p) == [text |-> p.text, at |-> p.at, original |-> p.original]

\* The positions that are no longer active are forgotten, their elements taken off the page.
renderedText(texts) == {[p EXCEPT !.rendered = TRUE] : p \in {q \in texts : q.active}}
\* Mutant of renderedPage: elements stay on the page.
renderedOver(page, texts) == page \cup {Element(p) : p \in {q \in texts : q.active /\ ~q.rendered}}

renderedPage(page, texts) ==
    (page \ {Element(p) : p \in {q \in texts : ~q.active /\ q.rendered}})
        \cup {Element(p) : p \in {q \in texts : q.active /\ ~q.rendered}}

-----------------------------------------------------------------------------
(* Ticks and their labels. *)

\* The page of bars has a tick every three hours, with the hour as its label.
XSize(f, axis) == IF f.page = "lines" THEN timeTickSize(axis.max - axis.min, XTicks) ELSE <<12, "hour">>

Inside(v, axis) == axis.min <= v /\ v <= axis.max

\* Only the ticks that are inside the axis are drawn and labelled.
ticksInside(ticks, axis) ==
    LET kept[n \in 0..Len(ticks)] ==
            IF n = 0 THEN <<>>
            ELSE IF Inside(ticks[n], axis) THEN Append(kept[n - 1], ticks[n]) ELSE kept[n - 1]
    IN  kept[Len(ticks)]

\* The ticks of the time axis of each figure and view.
Ticks == [f \in Figures |-> [v \in f.views |->
            ticksInside(timeTicks(v.x, XSize(f, v.x), Zone), v.x)]]

Along(v, axis, length) == ((v - axis.min) * length) \div (axis.max - axis.min)

Label(v, f, axis) ==
    formatDate(v, IF f.page = "lines" THEN tickFormat(XSize(f, axis), axis.max - axis.min) ELSE <<"H">>,
               Zone)

\* The labels of the ticks inside the axes and their places: from the left of the plot, and from
\* its top.
Labels(axes, y) ==
    LET size   == plotSize(XLabel, y, Surface)
        xticks == Ticks[figure][axes]
        yticks == ticksInside(tickGenerator(axes.y, tickSize(axes.y.max - axes.y.min, YTicks, 1)),
                              axes.y)
    IN  [i \in DOMAIN xticks |-> [text |-> <<"x", Label(xticks[i], figure, axes.x)>>,
                                  at |-> Along(xticks[i], axes.x, size.w)]]
        \o [i \in DOMAIN yticks |-> [text |-> <<"y", yticks[i]>>,
                                     at |-> size.h - Along(yticks[i], axes.y, size.h)]]

drawAxisLabels(texts, labels) == addText(removeText(texts), labels)

Nothing == [shaded |-> {}, ticks |-> <<>>, lines |-> <<>>, fills |-> <<>>, rects |-> <<>>]

Init ==
    /\ figure \in Figures
    /\ view \in figure.views
    /\ named \in BOOLEAN /\ sized = FALSE /\ secondPass = FALSE
    /\ ylabel = YLabel /\ names = {}
    /\ phase = "made"
    /\ sweep = [i |-> 0] /\ path = <<>> /\ strokes = Nothing
    /\ cache = {} /\ dom = {}

-----------------------------------------------------------------------------
(* The name of the y axis, turned to read upwards.  Lengths are half       *)
(* pixels.                                                                 *)

calculateOffsets(box) == [x |-> box.left - Name.w \div 2 + Name.h \div 2,
                          y |-> box.top + box.height \div 2]

\* Where an element that is moved there and then turned about its middle is.
transforms(at) ==
    LET x == at.x + Name.w \div 2
        y == at.y + Name.h \div 2
    IN  [left |-> x - Name.h \div 2, right  |-> x + Name.h \div 2,
         top  |-> y - Name.w \div 2, bottom |-> y + Name.w \div 2]

\* The axes are fitted to another view.  The room beside the plot is an option of the axis once
\* it has a name.
Fitted == /\ phase \in {"made", "idle"}
          /\ view' \in figure.views
          /\ UNCHANGED name

\* First pass: what the name took before is given back and its element removed; a new one asks for
\* its room, and the grid is set up and drawn again.
firstPass ==
    /\ phase = "fitted" /\ named /\ ~secondPass
    /\ LET ticks == IF sized THEN ylabel.w - calculateSize ELSE ylabel.w
       IN  ylabel' = [ylabel EXCEPT !.w = ticks + calculateSize]
    /\ names' = {}
    /\ sized' = TRUE /\ secondPass' = TRUE
    /\ UNCHANGED <<view, named>>

setupGrid ==
    /\ Fitted \/ firstPass
    /\ \E labels \in {Labels(view', ylabel')} : cache' = drawAxisLabels(cache, labels)
    /\ phase' = "fitted"
    /\ strokes' = Nothing
    /\ UNCHANGED <<figure, sweep, path, dom>>

\* Second pass, once the data are drawn.
drawName == IF named THEN {calculateOffsets(boxes(XLabel, ylabel, Surface).y)} ELSE names

-----------------------------------------------------------------------------
(* draw.  The grid is below the data. *)

drawGrid ==
    /\ phase = "fitted" /\ (named => secondPass)
    /\ strokes' = [Nothing EXCEPT !.shaded = Shaded(view.x, Zone), !.ticks = Ticks[figure][view]]
    /\ phase' = IF figure.kind = "lines" THEN "area" ELSE "bars"
    /\ sweep' = IF figure.kind = "lines"
                THEN [i |-> 0, dir |-> 1, open |-> FALSE, start |-> 0, end |-> 0] ELSE [i |-> 0]
    /\ UNCHANGED <<figure, view, name, path, cache, dom>>

\* Points are counted from 0, as in the code; outside the series there is none.
Point(i) == IF i \in 0..(Len(figure.points) - 1) THEN figure.points[i + 1] ELSE <<>>

\* Rounded down, for a divisor of either sign.
Quotient(a, d) == IF d < 0 THEN (-a) \div (-d) ELSE a \div d

\* Where the line through p and q has v as its k-th coordinate.
Cross(p, q, k, v) ==
    LET o == 3 - k
        w == p[o] + Quotient((v - p[k]) * (q[o] - p[o]), q[k] - p[k])
    IN  IF k = 1 THEN <<v, w>> ELSE <<w, v>>

\* A segment without what is beyond v in its k-th coordinate: below it, or above it.
Cut(seg, k, v, below) ==
    IF seg = <<>> THEN <<>>
    ELSE LET p == seg[1]
             q == seg[2]
             Out(r) == IF below THEN r[k] < v ELSE r[k] > v
         IN  CASE Out(p) /\ Out(q)   -> <<>>
               [] Out(p) /\ ~Out(q)  -> <<Cross(p, q, k, v), q>>
               [] ~Out(p) /\ Out(q)  -> <<p, Cross(p, q, k, v)>>
               [] OTHER              -> seg

CutX(seg) == Cut(Cut(seg, 1, view.x.min, TRUE), 1, view.x.max, FALSE)
CutY(seg) == Cut(Cut(seg, 2, view.y.min, TRUE), 2, view.y.max, FALSE)

-----------------------------------------------------------------------------
(* plotLineArea: along the values of a run of points, then back along the  *)
(* bottom.                                                                 *)

Clamp(y)   == Min({Max({y, view.y.min}), view.y.max})
\* Mutant of bottom: the base line is not clipped.
bottomAtZero == 0

bottom     == Clamp(0)
Height(i)  == IF sweep.dir = 1 THEN Point(i) ELSE <<Point(i)[1], 0>>

\* A piece of the outline: what is beyond the plot runs along its edge.
Outline(seg) ==
    LET p == seg[1]
        q == seg[2]
        c == CutY(seg)
    IN  CASE p[2] >= view.y.max /\ q[2] >= view.y.max ->
                << <<p[1], view.y.max>>, <<q[1], view.y.max>> >>
          [] p[2] <= view.y.min /\ q[2] <= view.y.min ->
                << <<p[1], view.y.min>>, <<q[1], view.y.min>> >>
          [] OTHER ->
                (IF c[1][1] # p[1] THEN << <<p[1], c[1][2]>> >> ELSE <<>>)
                \o c
                \o (IF c[2][1] # q[1] THEN << c[2], <<q[1], c[2][2]>> >> ELSE <<>>)

NextI      == sweep.i + sweep.dir
Sweeping   == phase = "area" /\ ~(sweep.dir = 1 /\ sweep.i > Len(figure.points) + 1)
AtEnd      == sweep.open /\ sweep.dir = 1 /\ Point(sweep.i) # <<>> /\ Point(NextI) = <<>>
Back       == sweep.open /\ sweep.dir = -1 /\ NextI = sweep.start - 1

Turn ==
    /\ Sweeping /\ AtEnd
    /\ sweep' = [sweep EXCEPT !.i = NextI, !.end = NextI, !.dir = -1]
    /\ UNCHANGED <<figure, view, name, phase, path, strokes, cache, dom>>

Fill ==
    /\ Sweeping /\ ~AtEnd /\ Back
    /\ strokes' = [strokes EXCEPT !.fills = Append(@, path)]
    /\ path' = <<>>
    /\ sweep' = [i |-> sweep.end + 1, dir |-> 1, open |-> FALSE,
                 start |-> sweep.end + 1, end |-> sweep.end]
    /\ UNCHANGED <<figure, view, name, phase, cache, dom>>

Sketch ==
    /\ Sweeping /\ ~AtEnd /\ ~Back
    /\ LET whole == Point(sweep.i) # <<>> /\ Point(NextI) # <<>>
           seg   == IF whole THEN CutX(<<Height(sweep.i), Height(NextI)>>) ELSE <<>>
       IN  IF seg = <<>> THEN sweep' = [sweep EXCEPT !.i = NextI] /\ path' = path
           ELSE /\ sweep' = [sweep EXCEPT !.i = NextI, !.open = TRUE]
                /\ path' = (IF sweep.open THEN path ELSE << <<seg[1][1], bottom>> >>) \o Outline(seg)
    /\ UNCHANGED <<figure, view, name, phase, strokes, cache, dom>>

AreaDone ==
    /\ phase = "area" /\ ~Sweeping
    /\ phase' = "line" /\ sweep' = [i |-> 1]
    /\ UNCHANGED <<figure, view, name, path, strokes, cache, dom>>

-----------------------------------------------------------------------------
(* plotLine and plotBars.  Where lines have no width none is drawn, nor the *)
(* outline of a bar.                                                        *)

Before == IF path = <<>> THEN <<>> ELSE path[Len(path)]

\* A piece goes on from where the last one ended, or is moved to.
plotLine ==
    /\ phase = "line" /\ ~figure.bare /\ sweep.i < Len(figure.points)
    /\ LET whole == Point(sweep.i - 1) # <<>> /\ Point(sweep.i) # <<>>
           seg   == IF whole THEN CutX(CutY(<<Point(sweep.i - 1), Point(sweep.i)>>)) ELSE <<>>
       IN  /\ path' = IF seg = <<>> THEN path ELSE <<seg[1], seg[2]>>
           /\ strokes' = IF seg = <<>> THEN strokes
                         ELSE [strokes EXCEPT !.lines =
                                 IF Before = seg[1] THEN Append(@, seg[2])
                                 ELSE @ \o << <<>>, seg[1], seg[2] >>]
    /\ sweep' = [i |-> sweep.i + 1]
    /\ UNCHANGED <<figure, view, name, phase, cache, dom>>

LineDone ==
    /\ phase = "line" /\ (figure.bare \/ sweep.i >= Len(figure.points))
    /\ phase' = "drawn" /\ path' = <<>> /\ sweep' = [i |-> 0]
    /\ UNCHANGED <<figure, view, name, strokes, cache, dom>>

\* The rectangle between the base line and the value, and which of its edges have an outline.
\* Bars without alignment are centred.
drawBar(p, barLeft) ==
    LET left   == p[1] + barLeft
        right  == left + BarWidth
        top    == Max({p[2], 0})
        low    == Min({p[2], 0})
        gone   == right < view.x.min \/ left > view.x.max \/ top < view.y.min \/ low > view.y.max
        whole  == (IF left >= view.x.min THEN {"left"} ELSE {})
                  \cup (IF right <= view.x.max THEN {"right"} ELSE {})
                  \cup (IF p[2] < 0 /\ low >= view.y.min THEN {"bottom"} ELSE {})
                  \cup (IF p[2] >= 0 /\ top <= view.y.max THEN {"top"} ELSE {})
    IN  IF gone THEN <<>>
        ELSE << [left |-> Max({left, view.x.min}), right |-> Min({right, view.x.max}),
                 bottom |-> Max({low, view.y.min}), top |-> Min({top, view.y.max}),
                 edges |-> IF figure.bare THEN {} ELSE whole] >>

BarLeft == IF figure.bare THEN -(BarWidth \div 2) ELSE 0

plotBars ==
    /\ phase = "bars" /\ sweep.i < Len(figure.points)
    /\ strokes' = [strokes EXCEPT !.rects =
                     @ \o (IF Point(sweep.i) = <<>> THEN <<>> ELSE drawBar(Point(sweep.i), BarLeft))]
    /\ sweep' = [i |-> sweep.i + 1]
    /\ UNCHANGED <<figure, view, name, phase, path, cache, dom>>

BarsDone ==
    /\ phase = "bars" /\ sweep.i >= Len(figure.points)
    /\ phase' = "drawn" /\ sweep' = [i |-> 0]
    /\ UNCHANGED <<figure, view, name, path, strokes, cache, dom>>

render ==
    /\ phase = "drawn"
    /\ dom' = renderedPage(dom, cache)
    /\ cache' = renderedText(cache)
    /\ phase' = "idle"
    /\ names' = drawName /\ secondPass' = FALSE
    /\ UNCHANGED <<figure, view, named, sized, ylabel, sweep, path, strokes>>

Next == \/ setupGrid \/ drawGrid
        \/ Turn \/ Fill \/ Sketch \/ AreaDone
        \/ plotLine \/ LineDone \/ plotBars \/ BarsDone \/ render

Spec == Init /\ [][Next]_vars
===================================================================================
