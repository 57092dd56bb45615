SPECIFICATION SideSpec
CONSTANTS
    ReadingSets <- MCReadingSets
    BarsUpTo = 3
    Steps = 3
    Window = 2
    BarWidth = 8
    LabelWidth = 3
    YTicks = 3
    MaxStarts = 2
    MaxZooms = 1
    MaxToggles = 1
    Figures <- MCFigures
    DrawnBarWidth = 12
    Zone <- MCZone
    XTicks = 6
    DrawnYTicks = 3
    Surface <- MCSurface
    XLabel <- MCXLabel
    YLabel <- MCYLabel
    Name <- MCName
    Width = 4
    Over <- MCOver
    Beside = {7}
    Usage <- MCUsage
    DayLength = 864
    PointedBarWidth = 36
    Scale = 36
    Page <- MCPage
    Tip <- MCTip
    Shift <- MCShift
    ReadingsY = 10
    MaxPresses = 2
    MaxMoves = 3
    MaxTurns = 1
INVARIANTS
    StopStops ReplayShowsTheLatest ReadingsAreInside YAxisIsUpright
    ShowsTheDataInThePlot GridTellsTheTime PageShowsTheLabels
    PanFollowsTheMouse OverlayCatchesUp TooltipIsOnThePage
PROPERTIES
    PlotDoesNotDrift ZoomKeepsThePoint
CHECK_DEADLOCK FALSE
