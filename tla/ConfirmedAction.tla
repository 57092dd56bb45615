----------------------------- MODULE ConfirmedAction -----------------------------
(***************************************************************************)
(* The question "Are you sure?" beside the buttons that authorize and      *)
(* revoke an application (bootstrap-confirmation.js, which extends         *)
(* bootstrap-tooltip.js).  The page asks for singletons: showing one       *)
(* question hides the others.  The browser does no transitions             *)
(* ($.support.transition is undefined), no page asks for a delay, and none *)
(* for a pop-out.                                                          *)
(*                                                                         *)
(* tip[b] is the question of button b; lengths are in pixels.         *)
(***************************************************************************)
EXTENDS Integers, FiniteSets

CONSTANTS
    Buttons,       \* the elements with data-toggle="confirmation"
    Centres,       \* where the middle of a button may be, from the left of the page
    Widths,        \* how wide a question may be where it is made
    Heights,       \* how high it may be
    Top,           \* how far below the page's top the buttons are
    MaxDismiss     \* bound: dismissals bound to one question

VARIABLES
    tip,           \* the questions
    request        \* the button whose data-href was followed, or NoRequest

vars == <<tip, request>>

NoRequest == "none"

-----------------------------------------------------------------------------
(* The tooltip. *)

\* Not yet made: $tip comes with the first tip().
NoTip == [attached |-> FALSE, in |-> FALSE, href |-> NoRequest, ok |-> 0, dismiss |-> 0,
          left |-> 0, top |-> 0, height |-> 0, moved |-> FALSE]

\* Mutant of applyPlacement: the height it has where it is put is not asked for.
applyPlacementOnce(t, centre, w, h) ==
    LET left  == centre - w \div 2
        moved == left < 0
    IN  [t EXCEPT !.in = TRUE, !.moved = moved,
                  !.left = IF moved THEN 0 ELSE left,
                  !.top = Top - h[1],
                  !.height = h[IF moved THEN 3 ELSE 2]]

\* Placed above its button.  w is its width before it is put at its offset; h its height
\* then, there, and once it is moved onto the page: its text is wrapped by the room there is.
\* (Its arrow stays in the middle: arrow() looks for .tooltip-arrow, and a question has none.)
applyPlacement(t, centre, w, h) ==
    LET left  == centre - w \div 2
        moved == left < 0
    IN  [t EXCEPT !.in = TRUE, !.moved = moved,
                  !.left = IF moved THEN 0 ELSE left,
                  !.top = Top - h[1] + (h[1] - h[2]),
                  !.height = h[IF moved THEN 3 ELSE 2]]

\* The label, the link and one click handler for each answer; Yes has the button's data-href.
setContent(b, t) == [t EXCEPT !.href = b, !.ok = @ + 1, !.in = FALSE]

\* tooltip's hide, then off('click') on both answers.  Where it was is of no more use.
hide(t) == [NoTip EXCEPT !.href = t.href, !.dismiss = t.dismiss]

\* Mutant of Hidden: the other questions stay.
HiddenNone(tips, others) == tips

\* Listeners to 'show' hide the other questions, shown or not.
Hidden(tips, others) == [b \in Buttons |-> IF b \in others THEN hide(tips[b]) ELSE tips[b]]

\* 'show', then tip, setContent, detach, insertAfter, applyPlacement, then 'shown', whose
\* listener binds one more dismissal to the question.
show(tips, b, centre, w, h) ==
    LET alone  == Hidden(tips, Buttons \ {b})
        placed == applyPlacement([setContent(b, alone[b]) EXCEPT !.attached = TRUE], centre, w, h)
    IN  [alone EXCEPT ![b] = [placed EXCEPT !.dismiss = @ + 1]]

-----------------------------------------------------------------------------

Init == /\ tip = [b \in Buttons |-> NoTip]
        /\ request = NoRequest

\* A click on a button: toggle.
ClickShow(b) ==
    /\ request = NoRequest
    /\ ~tip[b].in
    /\ tip[b].dismiss < MaxDismiss
    /\ \E centre \in Centres, w \in Widths, h \in [1..3 -> Heights] :
          tip' = show(tip, b, centre, w, h)
    /\ UNCHANGED request

ClickHide(b) ==
    /\ request = NoRequest
    /\ tip[b].in
    /\ tip' = [tip EXCEPT ![b] = hide(@)]
    /\ UNCHANGED request

\* A click on No: every dismissal bound since the last one runs, once.
ClickNo(b) ==
    /\ request = NoRequest
    /\ tip[b].attached
    /\ tip' = [tip EXCEPT ![b] = [hide(@) EXCEPT !.dismiss = 0]]
    /\ UNCHANGED request

\* A click on Yes follows the link; the page goes away.
ClickYes(b) ==
    /\ request = NoRequest
    /\ tip[b].attached
    /\ request' = tip[b].href
    /\ UNCHANGED tip

Next == \E b \in Buttons : ClickShow(b) \/ ClickHide(b) \/ ClickNo(b) \/ ClickYes(b)

Spec == Init /\ [][Next]_vars

-----------------------------------------------------------------------------
\* Never two questions at a time, and each answer's click handler is bound once, while its
\* question is shown, however often and by whatever way the question was hidden before: a
\* Yes is one answer to the one question on the page.
OneQuestion ==
    /\ Cardinality({b \in Buttons : tip[b].attached}) <= 1
    /\ \A b \in Buttons : tip[b].ok = IF tip[b].attached THEN 1 ELSE 0

\* A question is on the page, and ends where its button begins, also when it is wrapped
\* anew where it was put; unless it was moved, its height is not asked for again after that.
QuestionIsAboveItsButton ==
    \A b \in Buttons : tip[b].attached =>
        /\ tip[b].left >= 0
        /\ ~tip[b].moved => tip[b].top + tip[b].height = Top
=================================================================================
