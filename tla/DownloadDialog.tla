----------------------------- MODULE DownloadDialog ------------------------------
(***************************************************************************)
(* "Download My Data" (dmd/index.jsp) as a page of bootstrap-dropdown.js,  *)
(* bootstrap-tab.js and bootstrap-modal.js: a menu of downloads for every  *)
(* usage point, whose last item opens the one dialog "Select Period", and  *)
(* tabs that group the usage points.  On the page that confirms an access  *)
(* (access_confirmation.jsp) a plain link opens a dialog like it.  The     *)
(* browser does no transitions: a dialog is shown and hidden at once.      *)
(*                                                                         *)
(* A handler is the composition of the calls it makes, as operators on     *)
(* the page s; at the document jQuery runs delegated handlers before the   *)
(* others, and none after one that stops the event.                        *)
(***************************************************************************)
EXTENDS Integers, FiniteSets, Sequences

CONSTANTS
    Points,      \* usage points, each with a menu on the page
    Items,       \* how many items a menu has; the last opens the dialog
    Tabs,        \* the groupings
    FirstTab     \* the one shown when the page is loaded

VARIABLE s

vars == <<s>>

NoPoint == "none"

\* What may have the focus.
Body      == <<"body">>
Button(u) == <<"button", u>>
Link(u, i) == <<"link", u, i>>
Dialog    == <<"dialog">>
Field     == <<"field">>       \* the date field in the dialog
InDialog  == {Dialog, Field}

Visible(t, e) == CASE e[1] = "link"   -> e[2] \in t.open \/ ~t.menus
                   [] e[1] = "button" -> t.menus
                   [] e \in InDialog  -> t.displayed
                   [] OTHER           -> TRUE

\* elem.focus(): nothing for an element that is not displayed.  While a dialog enforces the
\* focus, what is outside it loses it to the dialog at once.
focus(t, e) == IF ~Visible(t, e) THEN t
               ELSE [t EXCEPT !.focus = IF t.focusin > 0 /\ e \notin InDialog THEN Dialog ELSE e]

\* The browser takes the focus from what is no longer displayed.
Blurred(t) == IF Visible(t, t.focus) THEN t ELSE [t EXCEPT !.focus = Body]

-----------------------------------------------------------------------------
(* The menus. *)

clearMenus(t) == [t EXCEPT !.open = {}]

\* A click on a menu's button.  It stops the event: the document's own clearMenus, which
\* any other click runs, does not close the menu again.
toggle(t, u) ==
    LET isActive == u \in t.open
        cleared  == clearMenus(t)
    IN  focus(Blurred([cleared EXCEPT !.open = IF isActive THEN @ ELSE @ \cup {u}]), Button(u))

\* The key goes down on the button or on an item of its menu.
keyEscape(t, u) ==
    IF u \notin t.open THEN toggle(focus(t, Button(u)), u)
    ELSE LET f == focus(t, Button(u))
         IN  IF t.focus = Button(u) THEN toggle(f, u) ELSE Blurred(clearMenus(f))

keyMove(t, u, dir) ==
    LET at == IF t.focus[1] = "link" /\ t.focus[2] = u THEN t.focus[3] ELSE 0
        to == CASE dir = -1 /\ at > 1     -> at - 1
                [] dir = 1 /\ at < Items  -> at + 1
                [] OTHER                  -> at
    IN  IF u \notin t.open THEN toggle(t, u)
        ELSE focus(t, Link(u, IF to = 0 THEN 1 ELSE to))

-----------------------------------------------------------------------------
(* The dialog. *)

escape(t) == [t EXCEPT !.keyup = IF t.isShown THEN @ + 1 ELSE 0]

backdrop(t)       == IF t.isShown THEN [t EXCEPT !.backdrops = @ + 1] ELSE t
removeBackdrop(t) == [t EXCEPT !.backdrops = IF @ > 0 THEN @ - 1 ELSE 0]

enforceFocus(t) == [t EXCEPT !.focusin = @ + 1]

\* 'hide' on the dialog, its own or one that comes up from a date picker in it: every opener
\* that waits for it takes the focus, and waits no longer.
Hide(t) == LET u == CHOOSE x \in t.waiting : TRUE
           IN  IF t.waiting = {} THEN t
               ELSE focus([t EXCEPT !.waiting = {}], Link(u, Items))

show(t) ==
    IF t.isShown THEN t
    ELSE LET e == backdrop(escape([t EXCEPT !.isShown = TRUE]))
         IN  focus(enforceFocus([e EXCEPT !.displayed = TRUE]), Dialog)

\* Mutant of hideModal: the backdrop stays.
hideModalOnly(t) == Blurred([t EXCEPT !.displayed = FALSE])

hideModal(t) == removeBackdrop(Blurred([t EXCEPT !.displayed = FALSE]))

hide(t) ==
    LET h == Hide(t)
    IN  IF ~h.isShown THEN h
        ELSE hideModal([escape([h EXCEPT !.isShown = FALSE]) EXCEPT !.focusin = 0])

\* The first click makes the Modal and shows it, a later one toggles it; then its opener
\* waits for 'hide'.
modal(t, u) ==
    LET m == IF ~t.made \/ ~t.isShown THEN show([t EXCEPT !.made = TRUE]) ELSE hide(t)
    IN  [m EXCEPT !.waiting = @ \cup {u}]

\* The handler of dmd/index.jsp on the link itself runs before those at the document.
buildUrl(t)  == [t EXCEPT !.href = t.usagePointId]
\* Mutant of aModal: the link is made before the usage point is remembered.
aModalLate(t, u) == IF t.menus THEN [buildUrl(t) EXCEPT !.usagePointId = u] ELSE t

aModal(t, u) == IF t.menus THEN buildUrl([t EXCEPT !.usagePointId = u]) ELSE t

-----------------------------------------------------------------------------
(* The tabs. *)

\* The page marks every pane as active; then the document's handler takes that away from
\* all that are, and gives it to the one the tab names.
pageTab(t, p)  == [t EXCEPT !.badges = {p}, !.active = Tabs]
activate(t, p) == [t EXCEPT !.active = (@ \ t.active) \cup {p}]

-----------------------------------------------------------------------------
Init ==
  \E menus \in BOOLEAN :
    s = [menus |-> menus, open |-> {}, focus |-> Body,
         made |-> FALSE, isShown |-> FALSE, displayed |-> FALSE, backdrops |-> 0,
         keyup |-> 0, focusin |-> 0, waiting |-> {}, picker |-> "hidden",
         usagePointId |-> NoPoint, href |-> NoPoint, openedFor |-> NoPoint,
         badges |-> {FirstTab}, active |-> {FirstTab}]

\* The backdrop covers the page.
Reachable == s.backdrops = 0

ClickButton(u) == s.menus /\ Reachable /\ s' = toggle(focus(s, Button(u)), u)

\* The press gives the link the focus; the menus are closed after the dialog is shown.
ClickPeriod(u) ==
    /\ Reachable
    /\ Visible(s, Link(u, Items))
    /\ s' = [Blurred(clearMenus(modal(aModal(focus(s, Link(u, Items)), u), u)))
                EXCEPT !.openedFor = u]

\* The keys are handled on the buttons and in the menus.
OnMenu(u) == s.menus /\ (s.focus = Button(u) \/ \E i \in 1..Items : s.focus = Link(u, i))

KeyEscapeMenu(u)    == OnMenu(u) /\ s' = keyEscape(s, u)

KeyMoveMenu(u, dir) == OnMenu(u) /\ s' = keyMove(s, u, dir)

ClickElsewhere == Reachable /\ s' = Blurred(clearMenus([s EXCEPT !.focus = Body]))

ClickTab(p) == /\ s.menus /\ Reachable
               /\ s' = Blurred(clearMenus(activate(pageTab(s, p), p)))

\* A click into the dialog bubbles to the document too.  The field's focus shows its picker.
ClickField == /\ s.displayed /\ s.picker = "hidden"
              /\ s' = clearMenus([focus(s, Field) EXCEPT !.picker = "shown"])

\* An arrow key in the field moves the picker's own focus.
KeyArrow == /\ s.focus = Field /\ s.picker # "hidden"
            /\ s' = [s EXCEPT !.picker = "browsed"]

\* The date picker hides, and its 'hide' comes up to the dialog, shown or not.
PickerHides(t) == IF t.picker = "hidden" THEN t ELSE Hide([t EXCEPT !.picker = "hidden"])

\* A day is clicked: the picker is not in the dialog, but the press on it takes the focus
\* from the field and gives it to nothing.
ClickDay == s.picker # "hidden" /\ s' = PickerHides([s EXCEPT !.focus = Body])

\* Enter in the field, or the Tab key, which goes on to the next thing in the dialog.
KeyEnter == /\ s.focus = Field /\ s.picker # "hidden"
            /\ \E e \in InDialog : s' = focus(PickerHides(s), e)

\* Close, the cross or the backdrop.  The press has hidden an open date picker first.
Dismiss == s.displayed /\ s' = clearMenus(hide(PickerHides([s EXCEPT !.focus = Dialog])))

\* Escape goes down for the date picker, which hides or takes its own focus back, and comes
\* up for the dialog, which hides either way.
KeyEscapeDialog ==
    /\ s.displayed /\ s.focus \in InDialog /\ s.keyup > 0
    /\ s' = hide(IF s.focus = Field /\ s.picker = "browsed" THEN [s EXCEPT !.picker = "shown"]
                 ELSE IF s.focus = Field THEN PickerHides(s) ELSE s)

\* A press anywhere else hides a picker that was left open without its dialog.
ClickAway == /\ ~s.displayed /\ s.picker # "hidden"
             /\ s' = PickerHides(s)

\* The Tab key elsewhere: to anything on the page that can have the focus.
KeyTab == \E e \in {Body} \cup {Button(u) : u \in Points}
                   \cup {Link(u, i) : u \in Points, i \in 1..Items} :
             /\ Visible(s, e) /\ s.focus # Field
             /\ s' = focus(s, e)

Next == \/ \E u \in Points : ClickButton(u) \/ ClickPeriod(u) \/ KeyEscapeMenu(u)
        \/ \E u \in Points, dir \in {-1, 1} : KeyMoveMenu(u, dir)
        \/ ClickElsewhere \/ \E p \in Tabs : ClickTab(p)
        \/ ClickField \/ KeyArrow \/ ClickDay \/ KeyEnter \/ Dismiss \/ KeyEscapeDialog
        \/ ClickAway \/ KeyTab

Spec == Init /\ [][Next]_vars

-----------------------------------------------------------------------------
\* However it was opened and closed, a dialog has one backdrop and one handler of each kind
\* while it is shown, and leaves none behind when it is hidden.  Nothing behind a dialog has
\* the focus: neither the Tab key, nor the opener that a date picker's 'hide' calls for,
\* takes it there.
DialogLeavesNothing ==
    /\ s.displayed = s.isShown
    /\ s.isShown => s.focus \in InDialog \cup {Body}
    /\ \A n \in {s.backdrops, s.keyup, s.focusin} : n = IF s.isShown THEN 1 ELSE 0

\* The dialog's Download link is for the usage point whose menu opened the dialog, whichever
\* were opened before.
LinkIsForTheOpened == s.menus /\ s.isShown => s.href = s.openedFor

\* At most one menu is open, and none while the dialog is shown.
OneMenu == Cardinality(s.open) <= 1 /\ (s.isShown => s.open = {})

\* The badge that is marked is the one pane's that is shown, though the page's own handler
\* marks every pane.
OnePane == s.active = s.badges /\ Cardinality(s.active) = 1
=================================================================================
