CONSTANTS
    Buttons = {authorize, revoke}
    Centres = {30, 60}
    Widths = {40, 80}
    Heights = {20, 40}
    Top = 100
    MaxDismiss = 2
    Points = {p1, p2}
    Items = 2
    Tabs = {all, account, service}
    FirstTab = all
    Apps = {a1}
    MaxStar = 2
    Pages = {k1}
    MaxSent = 3
    Instants <- MCInstants
    Fields = {"validUntil", "usage-max"}
    Offset = 5
    Typed <- MCTyped
    InitialDates <- MCInitial
    FirstDay <- MCFirst
    LastDay <- MCLast
    Clicked <- MCClicked
    MaxWritten = 2
    MaxKeys = 2
SPECIFICATION PortalSpec
INVARIANTS
    OneAtATime QuestionIsAboveItsButton
    DialogLeavesNothing LinkIsForTheOpened
    LastClickIsKept
    MouseStaysInRange MouseKeepsTheDate
    FieldShowsTheDate LinkFollowsTheField
CHECK_DEADLOCK FALSE
