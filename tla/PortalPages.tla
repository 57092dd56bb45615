------------------------------- MODULE PortalPages -------------------------------
(***************************************************************************)
(* The pages of the portal whose scripts keep state, one at a time: the    *)
(* custodian's authorizations (ConfirmedAction), "Download My Data" and    *)
(* the access confirmation (DownloadDialog), "Connect My Data"             *)
(* (ApplicationFeedback), and the pages with a date picker (DatePicker).   *)
(* A page's scripts end with the page.                                     *)
(***************************************************************************)
EXTENDS ApplicationFeedback, Sequences

CONSTANTS Buttons, Centres, Widths, Heights, Top, MaxDismiss,
          Points, Items, Tabs, FirstTab,
          Fields, Instants, Offset, Typed, InitialDates,
          FirstDay, LastDay, Clicked, MaxWritten, MaxKeys

ASSUME PortalAssumption ==
    /\ MaxStar \in Nat
    /\ Centres \subseteq Int /\ Widths \subseteq Int /\ Heights \subseteq Int /\ Top \in Int
    /\ Items \in Nat \ {0} /\ FirstTab \in Tabs
    /\ Fields \subseteq {"validUntil", "usage-min", "usage-max"}
    /\ Instants \subseteq Int /\ Offset \in Int /\ InitialDates \subseteq Int
    /\ \A text \in Typed : /\ text.kind \in {"written", "plain", "garbage"}
                           /\ text.dates \in Seq(Int)
                           /\ text.typed = <<>> \/ text.typed \in Int \X Int \X Int

VARIABLES
    shown,                                                  \* the page that is
    tip, request,                                           \* of ConfirmedAction
    s,                                                      \* of DownloadDialog
    now, field, o, p, origin, keys                          \* of DatePicker

Confirmed == INSTANCE ConfirmedAction
Download  == INSTANCE DownloadDialog
Dates     == INSTANCE DatePicker

confirmedVars == <<tip, request>>
downloadVars  == <<s>>
datesVars     == <<now, field, o, p, origin, keys>>

portalVars == <<shown, vars, confirmedVars, downloadVars, datesVars>>

\* The scripts of a page that is not shown have no state; ratings are as when it was loaded.
NoConfirmed    == tip = {} /\ request = {}
NoDownload     == s = {}
NoDates        == now = {} /\ field = {} /\ o = {} /\ p = {} /\ origin = {} /\ keys = {}
FeedbackAtRest == Init /\ \A a \in Apps : server[a].rating = NoStar

PortalInit ==
    \/ shown = "confirmed" /\ Confirmed!Init /\ NoDownload /\ FeedbackAtRest /\ NoDates
    \/ shown = "download" /\ Download!Init /\ NoConfirmed /\ FeedbackAtRest /\ NoDates
    \/ shown = "feedback" /\ Init /\ NoConfirmed /\ NoDownload /\ NoDates
    \/ shown = "dates" /\ Dates!Init /\ NoConfirmed /\ NoDownload /\ FeedbackAtRest

OnConfirmed == /\ shown = "confirmed" /\ Confirmed!Next
               /\ UNCHANGED <<shown, downloadVars, vars, datesVars>>
OnDownload  == /\ shown = "download" /\ Download!Next
               /\ UNCHANGED <<shown, confirmedVars, vars, datesVars>>
OnFeedback  == /\ shown = "feedback" /\ Next
               /\ UNCHANGED <<shown, confirmedVars, downloadVars, datesVars>>
OnDates     == /\ shown = "dates" /\ Dates!Next
               /\ UNCHANGED <<shown, confirmedVars, downloadVars, vars>>

PortalNext == OnConfirmed \/ OnDownload \/ OnFeedback \/ OnDates

PortalSpec == PortalInit /\ [][PortalNext]_portalVars
-----------------------------------------------------------------------------
On(name, property) == shown = name => property

\* A page shows at most one question and one menu, and one pane: a Yes is one answer to the
\* one question on the page.
OneAtATime == /\ On("confirmed", Confirmed!OneQuestion)
              /\ On("download", Download!OneMenu /\ Download!OnePane)

\* A question ends where the button it is about begins.
QuestionIsAboveItsButton == On("confirmed", Confirmed!QuestionIsAboveItsButton)

\* A dialog has one backdrop and one handler of each kind, leaves none behind, and nothing
\* behind it has the focus.
DialogLeavesNothing == On("download", Download!DialogLeavesNothing)

\* The dialog's link is for the usage point whose menu opened it.
LinkIsForTheOpened == On("download", Download!LinkIsForTheOpened)

\* Without the keyboard no date out of range is selected.
MouseStaysInRange == On("dates", Dates!MouseStaysInRange)

\* Without the keyboard, looking at other months leaves the selected date alone.
MouseKeepsTheDate == On("dates", Dates!MouseKeepsTheDate)

\* What the form submits is the date that was chosen.
FieldShowsTheDate == On("dates", Dates!FieldShowsTheDate)

\* The link of "Download My Data" asks for the day its field shows.
LinkFollowsTheField == On("dates", Dates!LinkFollowsTheField)
=================================================================================
