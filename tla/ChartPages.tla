-------------------------------- MODULE ChartPages --------------------------------
(***************************************************************************)
(* The page with the chart of a meter reading, seen from one side at a     *)
(* time: which data the chart has and how its axes are fitted to them      *)
(* (UsageChart), how one figure is drawn (ChartDrawing, DrawingPromises),  *)
(* and the mouse over it (ChartPointer).  The sides have no variable in    *)
(* common: what one decides is open in the others (which figure is shown,  *)
(* where the axis begins), so that behaviours of two sides at once would   *)
(* show no more.                                                           *)
(***************************************************************************)
EXTENDS UsageChart, ChartPointer

CONSTANTS Figures, DrawnBarWidth, Zone, XTicks, DrawnYTicks, Surface, XLabel, YLabel, Name

VARIABLES
    side,                                                       \* which is looked at
    figure, view, named, sized, secondPass, ylabel, names,
    phase, sweep, path, strokes, cache, dom                     \* of ChartDrawing

Drawing == INSTANCE DrawingPromises WITH BarWidth <- DrawnBarWidth, YTicks <- DrawnYTicks

ASSUME DrawingAssumption == Drawing!CanBeDrawn

drawingVars == <<figure, view, named, sized, secondPass, ylabel, names, phase, sweep, path,
                 strokes, cache, dom>>

sideVars == <<side, vars, drawingVars, pointerVars>>

\* A side that is not looked at is as the page was loaded; a drawing has not begun.
ReplayAtRest  == Init /\ readings = (CHOOSE rs \in ReadingSets : TRUE) /\ ~labelled
PointerAtRest == PointerInit /\ kind = "lines"
NoDrawing == /\ figure = {} /\ view = {} /\ named = {} /\ sized = {} /\ secondPass = {}
             /\ ylabel = {} /\ names = {} /\ phase = {} /\ sweep = {} /\ path = {}
             /\ strokes = {} /\ cache = {} /\ dom = {}

SideInit ==
    \/ side = "replay" /\ Init /\ NoDrawing /\ PointerAtRest
    \/ side = "drawing" /\ Drawing!Init /\ ReplayAtRest /\ PointerAtRest
    \/ side = "pointer" /\ PointerInit /\ ReplayAtRest /\ NoDrawing

OnReplay  == side = "replay" /\ Next /\ UNCHANGED <<side, drawingVars, pointerVars>>
OnDrawing == side = "drawing" /\ Drawing!Next /\ UNCHANGED <<side, vars, pointerVars>>
OnPointer == side = "pointer" /\ PointerNext /\ UNCHANGED <<side, vars, drawingVars>>

SideNext == OnReplay \/ OnDrawing \/ OnPointer

SideSpec == SideInit /\ [][SideNext]_sideVars
-----------------------------------------------------------------------------
On(s, property) == side = s => property

\* A finished drawing shows the data and nothing else, as far as they lie in the plot.
ShowsTheDataInThePlot == On("drawing", Drawing!ShowsTheDataInThePlot)

\* The grid's shades and ticks tell the time.
GridTellsTheTime == On("drawing", Drawing!GridTellsTheTime)

\* After rendering the page shows exactly the labels of the axes as they are.
PageShowsTheLabels == On("drawing", Drawing!PageShowsTheLabels)
===================================================================================
