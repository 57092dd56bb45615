------------------------------ MODULE ChartPointer -------------------------------
(***************************************************************************)
(* The mouse over the chart of a meter reading (jquery.flot.js and its     *)
(* plugins tooltip, crosshair, selection and navigate): hovering,          *)
(* selecting a range, panning, and zooming with the wheel.                 *)
(*                                                                         *)
(* All of them listen to the same events of the overlay, in the order the  *)
(* plugins are loaded in; jquery.event.drag and the end of a selection     *)
(* listen to the document.  What they paint on the overlay is painted      *)
(* later, by one timer for all.                                            *)
(*                                                                         *)
(* The mouse is measured in steps of 6 pixels: a selection of one step is  *)
(* wide enough (minSize 5), and a reading is near within one               *)
(* (mouseActiveRadius 10).  A drag begins with the first move: the distance *)
(* of 10 pixels is given to dragstart, which has no use for it.  The y axis *)
(* neither zooms nor pans, so that a height is at the readings or above.   *)
(***************************************************************************)
EXTENDS Integers, FiniteSets

CONSTANTS
    Width,        \* of the plot, in steps
    Over,         \* where over the chart the mouse may be, its labels included, in steps
    Beside,       \* where it may be beside the chart
    Usage,        \* of each place on the x axis where a reading is, its value in thousandths
    DayLength,    \* how long a day is on it
    PointedBarWidth, \* how wide a reading's bar is on it
    Scale,        \* how much of the axis is in a step when the page is loaded
    Page,         \* [w, h] of the window, from the corner of the plot
    Tip,          \* [w, h] of the tooltip
    Shift,        \* [x, y] from the mouse to the tooltip
    ReadingsY,    \* the readings' height
    MaxPresses,   \* bound: how often the button is pressed
    MaxTurns,     \* bound: how often the wheel turns
    MaxMoves      \* bound: how often the mouse is moved

(* What the constants have to be for the plot to be a part of the window: assumed by the  *)
(* theorems and checked of the constants of a run.                                        *)

\* The places of the mouse are whole steps.
Places == /\ Over \subseteq Int /\ Beside \subseteq Int
          /\ Scale \in Int /\ Width \in Int

\* The window holds the plot.
Inside == /\ \A n \in {Page.w, Page.h, Tip.w, Tip.h, Shift.x, Shift.y, ReadingsY} : n \in Int
          /\ \A x \in Over : x \in Int /\ x <= Page.w
          /\ ReadingsY <= Page.h

VARIABLES
    kind,         \* "lines" or "bars"
    axis,         \* its x axis: where it begins, and how much of it is in a step
    mouse,        \* the mouse: its place, and whether it is at the readings' height
    lit,          \* the reading that is highlighted
    tooltip,      \* the tooltip, or Hidden
    cross,        \* where the crosshair is, or NoCross
    selection,    \* as in the plugin; blocked: document.onselectstart is the plugin's
    drag,         \* the drag plugin's state with onDrag's prevPageX and panTimeout
    redraw,       \* redrawTimeout is set
    overlay,      \* what is painted on the overlay
    held,         \* of the last drag: axis and place where it began, and where it ended; not
                  \* known if the chart was zoomed since
    presses, zooms, moves

pointerVars == <<kind, axis, mouse, lit, tooltip, cross, selection, drag, redraw, overlay, held,
                 presses, zooms, moves>>

NoCross == -1
None    == <<>>
Away    == [x |-> -100, at |-> FALSE]

Readings == DOMAIN Usage
Abs(n)      == IF n < 0 THEN -n ELSE n
Clamped(x)  == IF x < 0 THEN 0 ELSE IF x > Width THEN Width ELSE x
c2p(x)      == axis.min + x * axis.scale

-----------------------------------------------------------------------------
(* Hovering. *)

\* On lines the nearest reading within the radius, the first of two; in bars the last whose
\* bar holds the mouse.
findNearbyItem(m) ==
    LET off(v) == Abs(v - c2p(m.x))
        near   == {v \in Readings : 6 * off(v) <= 10 * axis.scale /\ m.at}
        within == {v \in Readings : v <= c2p(m.x) /\ c2p(m.x) <= v + PointedBarWidth /\ m.at}
    IN  CASE kind = "lines" /\ near # {} ->
                 <<CHOOSE v \in near : \A u \in near : off(v) < off(u) \/ (off(v) = off(u) /\ v <= u)>>
          [] kind = "bars" /\ within # {} -> <<CHOOSE v \in within : \A u \in within : u <= v>>
          [] OTHER -> None

\* The tooltip is made hidden.
Hidden == <<>>

\* It tells the time of day, not the day, and the value as on the y axis, to a hundredth.
timestampToDate(v)  == v % DayLength
tickFormatter(y)    == (y + 5) \div 10
stringFormat(v)     == [x |-> timestampToDate(v), y |-> tickFormatter(Usage[v])]

\* Mutant of Before: the window is not looked at.
BeforeNever(pos, size, shift, end) == pos

\* Before the mouse where there is no room for it behind.
Before(pos, size, shift, end) == IF pos > end - (size + shift) THEN pos - (size + shift) ELSE pos

updateTooltipPosition(m) == [left |-> Before(m.x, Tip.w, Shift.x, Page.w) + Shift.x,
                             top  |-> Before(ReadingsY, Tip.h, Shift.y, Page.h) + Shift.y]

plothover(item, m) == IF item = None THEN Hidden
                      ELSE <<[text |-> stringFormat(item[1]), at |-> updateTooltipPosition(m)]>>

\* triggerClickHoverEvent: unhighlights another reading, highlights this one and tells the
\* tooltip.  mousemove is told the series, mouseleave none.
Hover(item, m) == lit' = item /\ tooltip' = plothover(item, m)

\* highlight and unhighlight ask for a redraw if they change anything.
Relit(item) == item # lit

selectionIsSane(first, second) == Abs(second - first) >= 1

\* getSelection(), which the crosshair asks for.
Selecting == selection.show /\ selectionIsSane(selection.first, selection.second)

\* The crosshair's onMouseMove: hides without a redraw while something is selected.
CrossAt(m)       == IF Selecting THEN NoCross ELSE Clamped(m.x)

updateSelection(s, m) ==
    LET second == Clamped(m.x)
    IN  [s EXCEPT !.second = second, !.show = selectionIsSane(s.first, second)]

\* Mutant of Repaints: what is cleared is not painted over.
RepaintsShown(s, t) == t.show

\* A selection that is shown, or was, is painted anew.
Repaints(s, t) == t.show \/ s.show # t.show

-----------------------------------------------------------------------------
(* Dragging. *)

Idle == [phase |-> "idle", prev |-> 0, timer |-> None]

pan(d) == axis' = [axis EXCEPT !.min = @ + d * axis.scale]

\* On the document: onDragStart at the first move, then onDrag, which sets the timer unless it
\* is set.
Dragged(m) ==
    LET began == IF drag.phase = "pressed" THEN [drag EXCEPT !.phase = "dragging", !.prev = m.x]
                                           ELSE drag
    IN  IF began.phase = "dragging" /\ began.timer = None THEN [began EXCEPT !.timer = <<m.x>>]
                                                          ELSE began

DragBegins(d) == drag.phase = "pressed" /\ d.phase = "dragging"

-----------------------------------------------------------------------------
NotHeld == [known |-> FALSE, axis |-> [min |-> 0, scale |-> Scale], from |-> 0, to |-> 0]
Nothing == [lit |-> None, cross |-> NoCross, selection |-> {}]

PointerInit ==
    /\ kind \in {"lines", "bars"}
    /\ axis = [min |-> 0, scale |-> Scale]
    /\ mouse = Away
    /\ lit = None /\ tooltip = Hidden /\ cross = NoCross
    /\ selection = [first |-> -1, second |-> -1, show |-> FALSE, active |-> FALSE,
                    blocked |-> FALSE]
    /\ drag = Idle
    /\ redraw = FALSE /\ overlay = Nothing
    /\ held = NotHeld
    /\ presses = 0 /\ zooms = 0 /\ moves = 0

\* The mouse is over the chart: plothover, the tooltip's, the crosshair's and the selection's
\* handlers on the overlay, then the drag's on the document.
MouseMove(m) ==
    LET s == IF selection.active THEN updateSelection(selection, m) ELSE selection
        d == Dragged(m)
        item == findNearbyItem(m)
    IN  /\ m # mouse
        /\ moves < MaxMoves /\ moves' = moves + 1
        /\ mouse' = m
        /\ Hover(item, m)
        /\ cross' = CrossAt(m)
        /\ selection' = s
        /\ redraw' = (redraw \/ ~Selecting \/ Relit(item)
                             \/ (selection.active /\ Repaints(selection, s)))
        /\ drag' = d
        /\ held' = IF DragBegins(d) THEN [known |-> TRUE, axis |-> axis, from |-> m.x, to |-> m.x]
                                    ELSE held
        /\ UNCHANGED <<kind, axis, overlay, presses, zooms>>

\* The mouse is beside the chart: mouseleave and mouseout if it was over it, and the drag's.
MouseBeside(m) ==
    LET d == Dragged(m)
    IN  /\ m # mouse /\ moves < MaxMoves
        /\ moves' = moves + 1
        /\ mouse' = m
        /\ Hover(None, m)
        /\ cross' = NoCross
        /\ redraw' = (redraw \/ Relit(None) \/ cross # NoCross)
        /\ drag' = d
        /\ held' = IF DragBegins(d) THEN [known |-> TRUE, axis |-> axis, from |-> m.x, to |-> m.x]
                                    ELSE held
        /\ UNCHANGED <<kind, axis, selection, overlay, presses, zooms>>

\* The left button goes down over the chart: the selection's handler, then the drag's.
MouseDown ==
    /\ mouse.x \in Over /\ ~selection.active /\ presses < MaxPresses
    /\ presses' = presses + 1
    /\ selection' = [selection EXCEPT !.first = Clamped(mouse.x), !.active = TRUE,
                                      !.blocked = TRUE]
    /\ drag' = [Idle EXCEPT !.phase = "pressed"]
    /\ UNCHANGED <<kind, axis, mouse, lit, tooltip, cross, redraw, overlay, held, zooms, moves>>

\* Mutant of DragEnd: panTimeout is not cleared.
DragEndUncleared ==
    IF drag.phase = "dragging"
    THEN pan(drag.prev - mouse.x) /\ drag' = [Idle EXCEPT !.prev = drag.prev, !.timer = drag.timer]
    ELSE drag' = Idle /\ UNCHANGED axis

\* onDragEnd, if a drag began: no more panning by the timer, the rest of the way at once.
DragEnd == /\ drag' = Idle
           /\ IF drag.phase = "dragging" THEN pan(drag.prev - mouse.x) ELSE UNCHANGED axis

\* It comes up, anywhere: the end of the selection, then that of the drag.
MouseUp ==
    LET s == updateSelection([selection EXCEPT !.active = FALSE, !.blocked = FALSE], mouse)
    IN  /\ selection.active
        /\ selection' = s
        /\ DragEnd
        /\ redraw' = (redraw \/ Repaints(selection, s) \/ drag.phase = "dragging")
        /\ held' = IF drag.phase = "dragging" THEN [held EXCEPT !.to = mouse.x] ELSE held
        /\ UNCHANGED <<kind, mouse, lit, tooltip, cross, overlay, presses, zooms, moves>>

\* The timer of onDrag pans to where the mouse was when it was set.
PanTimeout ==
    /\ drag.timer # None
    /\ pan(drag.prev - drag.timer[1])
    /\ drag' = [drag EXCEPT !.prev = drag.timer[1], !.timer = None]
    /\ redraw' = TRUE
    /\ UNCHANGED <<kind, mouse, lit, tooltip, cross, selection, overlay, held,
                   presses, zooms, moves>>

\* Mutant of Zoomed: around the middle, wherever the mouse is.
ZoomedInTheMiddle(x, in) ==
    [min   |-> axis.min + (IF in THEN (Width * axis.scale) \div 6 ELSE -((Width * axis.scale) \div 4)),
     scale |-> IF in THEN (2 * axis.scale) \div 3 ELSE (3 * axis.scale) \div 2]

\* plot.zoom with amount 3/2, or 2/3, and the mouse as its centre: from c2p(x - x / amount),
\* as wide as the plot divided by amount.
Zoomed(x, in) ==
    [min   |-> IF in THEN c2p(0) + (x * axis.scale) \div 3 ELSE c2p(0) - (x * axis.scale) \div 2,
     scale |-> IF in THEN (2 * axis.scale) \div 3 ELSE (3 * axis.scale) \div 2]

\* The wheel turns, or (for in) the chart is clicked twice.
MouseWheel(in) ==
    /\ mouse.x \in Over /\ zooms < MaxTurns
    /\ zooms' = zooms + 1
    /\ axis' = Zoomed(mouse.x, in)
    /\ redraw' = TRUE
    /\ held' = NotHeld
    /\ UNCHANGED <<kind, mouse, lit, tooltip, cross, selection, drag, overlay, presses, moves>>

\* What drawOverlay paints: the highlight where its reading is now, if that is in the plot (a
\* bar, if some of it is), the crosshair and the selection.
At(v) == <<v - axis.min, axis.scale>>
drawPointHighlight(v) == IF axis.min <= v /\ v <= c2p(Width) THEN At(v) ELSE None
drawBarHighlight(v)   == IF axis.min <= v + PointedBarWidth /\ v <= c2p(Width) THEN At(v) ELSE None

drawHighlights == IF lit = None THEN None
                  ELSE IF kind = "bars" THEN drawBarHighlight(lit[1]) ELSE drawPointHighlight(lit[1])
drawSelection  == IF Selecting THEN {selection.first, selection.second} ELSE {}

DrawOverlay ==
    /\ redraw
    /\ redraw' = FALSE
    /\ overlay' = [lit |-> drawHighlights, cross |-> cross, selection |-> drawSelection]
    /\ UNCHANGED <<kind, axis, mouse, lit, tooltip, cross, selection, drag, held,
                   presses, zooms, moves>>

PointerNext ==
    \/ \E x \in Over, at \in BOOLEAN : MouseMove([x |-> x, at |-> at])
    \/ \E x \in Beside : MouseBeside([x |-> x, at |-> FALSE])
    \/ MouseDown \/ MouseUp \/ PanTimeout \/ DrawOverlay
    \/ \E in \in BOOLEAN : MouseWheel(in)

PointerSpec == PointerInit /\ [][PointerNext]_pointerVars

-----------------------------------------------------------------------------
\* Panning follows the mouse: the part of the axis that was under it when the drag began is
\* under it again when the button comes up, and is where the last pan put it in between,
\* however the timer's pans and the last one meet.
PanFollowsTheMouse ==
    held.known =>
        LET at == IF drag.phase = "dragging" THEN drag.prev ELSE held.to
        IN  axis.min = held.axis.min + (held.from - at) * axis.scale

\* The overlay catches up: when no redraw is due, it shows the highlight where its reading
\* is, and the selection, however the axis was moved since they were set.
OverlayCatchesUp ==
    ~redraw /\ ~selection.active =>
        /\ overlay.lit = drawHighlights
        /\ overlay.selection = drawSelection

\* The tooltip tells of the reading that is highlighted, neither of another nor of one the mouse
\* has left, and is inside the window at its right and at its bottom, where the mouse may be
\* close to the end.
TooltipIsOnThePage ==
    /\ (tooltip = Hidden) = (lit = None)
    /\ tooltip # Hidden =>
          /\ tooltip[1].text = stringFormat(lit[1])
          /\ tooltip[1].at.left + Tip.w <= Page.w
          /\ tooltip[1].at.top + Tip.h <= Page.h

\* Zooming keeps what is under the mouse under the mouse.
PointIsKept       == zooms' # zooms => axis'.min + mouse.x * axis'.scale = c2p(mouse.x)
ZoomKeepsThePoint == [][PointIsKept]_pointerVars

\* "hide the crosshair while selecting": a crosshair that is hidden is not painted once no
\* redraw is due.  (It is: the handler that hides it asks for no redraw.)
HiddenCrosshairIsGone == cross = NoCross /\ ~redraw => overlay.cross = NoCross
=================================================================================
