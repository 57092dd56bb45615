------------------------------- MODULE DatePicker -------------------------------
(***************************************************************************)
(* The date picker of the customers' pages (eternicode/                    *)
(* bootstrap-datepicker.js): the field of an authorization's end date and  *)
(* the two fields of "Download My Data", whose page keeps the last date it *)
(* was told in the link it downloads from.                                 *)
(*                                                                         *)
(* p is one Datepicker object with its text field.  Every method of the    *)
(* object is an operator from p to p, and a handler is the composition of  *)
(* the calls it makes, in their order.  Date objects are instants, in      *)
(* hours; a name in p.shared says that it refers to the same object as     *)
(* viewDate, so what is done to that object in place is done to it too.    *)
(***************************************************************************)
EXTENDS Calendar, Sequences, SequencesExt

CONSTANTS
    Fields,       \* the fields served, of "validUntil", "usage-min" and "usage-max"
    Instants,     \* the instants at which the customer acts, in hours
    Offset,       \* getTimezoneOffset(), in hours
    Typed,        \* texts a customer may type
    InitialDates, \* end dates the page of an authorization may show
    FirstDay, LastDay, \* bound: the days the calendar may be moved to
    Clicked,      \* bound: the days that may be clicked
    MaxWritten,   \* bound: how many dates the field may hold
    MaxKeys       \* bound: how many keys the picker handles

VARIABLES
    now,      \* new Date(), in hours
    field,    \* which field the picker serves
    o,        \* its options startDate and endDate
    p,        \* the picker
    origin,   \* what changed the selected dates last, or the text after that
    keys      \* how many keys the picker has handled

vars == <<now, field, o, p, origin, keys>>

NoDate  == -1
Forever == 1000000000
Hours   == 24

DayOf(t) == t \div Hours
At(d)    == d * Hours

\* The day it is in the customer's zone, and in UTC.
LocalToday == DayOf(now - Offset)
UTCToday   == At(LocalToday)      \* the local day, at midnight UTC
ZeroDay    == At(DayOf(now))      \* '+0d'

-----------------------------------------------------------------------------
(* What is written in the field: dates as formatDate writes them, a date  *)
(* typed without the comma, or something that is no date.                  *)
Written(dates) == [kind |-> "written", dates |-> dates, typed |-> <<>>]
Plain(y, m, d) == [kind |-> "plain", dates |-> <<>>, typed |-> <<y, m, d>>]
Garbage        == [kind |-> "garbage", dates |-> <<>>, typed |-> <<>>]
Blank          == Written(<<>>)

\* The text is split at every comma, and format 'MM dd, yyyy' has one: a date as the picker
\* writes it is two pieces.  A piece with fewer parts than the format is read as today.
Pieces(text) == CASE text.kind = "written" -> [i \in 1..(2 * Len(text.dates)) |-> <<>>]
                  [] text.kind = "plain"   -> <<text.typed>>
                  [] text.kind = "garbage" -> <<<<>>>>

\* A month that is no month's name is month 0, which counts as December.
parseDate(piece) == IF piece = <<>> THEN UTCToday
                    ELSE At(UTCDate(piece[1], (piece[2] - 1) % 12, piece[3]))

dateWithinRange(date) == date >= o.startDate /\ date <= o.endDate

last(dates) == IF dates = <<>> THEN NoDate ELSE dates[Len(dates)]
Or(date, other) == IF date = NoDate THEN other ELSE date
-----------------------------------------------------------------------------
(* The methods. *)

\* In the days' view the arrows compare years and months one by one.
updateNavArrows(q) ==
    LET v == DayOf(q.viewDate)
        NotAfter(a, b) == Year(a) <= Year(b) /\ (q.viewMode = 0 => Month(a) <= Month(b))
    IN  [q EXCEPT !.prev = ~(o.startDate # -Forever /\ NotAfter(v, DayOf(o.startDate))),
                  !.next = ~(o.endDate # Forever /\ NotAfter(DayOf(o.endDate), v))]

\* Mutant of DayDisabled: the days before startDate are forgotten.
DayDisabledLate(t)  == t > o.endDate

\* What fill() shows as disabled.
DayDisabled(t)      == ~dateWithinRange(t)
MonthDisabled(y, m) == At(UTCDate(y, m + 1, 1)) <= o.startDate \/ At(UTCDate(y, m, 1)) > o.endDate
YearDisabled(y)     == At(UTCDate(y + 1, 0, 1)) <= o.startDate \/ At(UTCDate(y, 0, 1)) > o.endDate

\* The six weeks fill() shows: the first of them holds the last day before the month.
GridStart(v) == LET before == UTCDate(Year(v), Month(v), 0) IN before - WeekDay(before)
Grid(v)      == GridStart(v)..(GridStart(v) + 41)

fill(q) == updateNavArrows(q)

setValue(q) == [q EXCEPT !.text = Written(q.dates)]

showMode(q, dir) ==
    LET up == IF q.viewMode + dir > 2 THEN 2 ELSE q.viewMode + dir
    IN  updateNavArrows([q EXCEPT !.viewMode = IF up < 0 THEN 0 ELSE up])

\* The listeners of "Download My Data" keep the day they are told: from midnight EST, or to
\* the last second of the local day.  Told no date they throw, and the handler ends there.
Listens  == field # "validUntil"
Usage(t) == IF field = "usage-max" THEN At(DayOf(t)) + Offset + Hours ELSE At(DayOf(t)) + 5
Throws(q)  == Listens /\ q.dates = <<>>
trigger(q) == IF Listens /\ q.dates # <<>> THEN [q EXCEPT !.usage = Usage(last(q.dates))]
                                          ELSE q

\* Mutant of hide: the field is left as it is.
hideWithoutValue(q) ==
    IF ~q.visible THEN q
    ELSE showMode([q EXCEPT !.focusDate = NoDate, !.visible = FALSE, !.shared = @ \ {"focusDate"},
                            !.viewMode = 0], 0)

hide(q) ==
    IF ~q.visible THEN q
    ELSE LET h == showMode([q EXCEPT !.focusDate = NoDate, !.visible = FALSE,
                                     !.shared = @ \ {"focusDate"}, !.viewMode = 0], 0)
         IN  IF h.text = Blank THEN h ELSE setValue(h)

show(q) == [q EXCEPT !.visible = TRUE]

\* The dates that are in range, in their order.
grep(dates) ==
    LET kept[n \in 0..Len(dates)] ==
            IF n = 0 THEN <<>>
            ELSE IF dateWithinRange(dates[n]) THEN Append(kept[n - 1], dates[n]) ELSE kept[n - 1]
    IN  kept[Len(dates)]

\* What update() makes of the dates it has read.
Replace(q, dates) ==
    LET kept  == grep(dates)
        moved == kept # <<>> \/ ~dateWithinRange(q.viewDate)
    IN  [q EXCEPT !.dates = kept,
                  !.shared = IF moved THEN {} ELSE @ \ {"date"},
                  !.viewDate = IF kept # <<>> THEN last(kept)
                               ELSE IF @ < o.startDate THEN o.startDate
                               ELSE IF @ > o.endDate THEN o.endDate ELSE @]

updateFromText(q) ==
    LET pieces == Pieces(q.text)
        r      == Replace(q, [i \in 1..Len(pieces) |-> parseDate(pieces[i])])
        told   == IF r.dates # <<>> /\ r.dates # q.dates THEN trigger(r) ELSE r
    IN  fill(told)

updateFromDate(q, date) == fill(setValue(Replace(q, <<date>>)))

\* multidate is 1: a new date pushes the others out, the selected one is taken out.
toggle_multidate(q, date) ==
    LET at  == {i \in 1..Len(q.dates) : q.dates[i] = date}
        out == CHOOSE i \in at : \A j \in at : i <= j
        new == IF at # {} THEN RemoveAt(q.dates, out) ELSE Append(q.dates, date)
    IN  [q EXCEPT !.dates = IF Len(new) > 1 THEN <<last(new)>> ELSE new,
                  !.shared = IF at = {} \/ out = Len(q.dates) THEN @ \ {"date"} ELSE @]

\* Mutant of setDate: the selected date and viewDate are one Date.
setDateShared(q, date, which) ==
    LET t == IF which = "view" THEN q ELSE toggle_multidate(q, date)
        v == [t EXCEPT !.viewDate = date, !.shared = {"date"}]
        c == trigger(setValue(fill(v)))
    IN  IF which = "view" \/ Throws(c) THEN c ELSE hide(c)

\* Both _toggle_multidate and the new viewDate get copies.  which is "both" or "view".
setDate(q, date, which) ==
    LET t == IF which = "view" THEN q ELSE toggle_multidate(q, date)
        v == [t EXCEPT !.viewDate = date, !.shared = {}]
        c == trigger(setValue(fill(v)))
    IN  IF which = "view" \/ Throws(c) THEN c ELSE hide(c)

\* viewDate becomes the selected date itself, where there is one.
viewSelected(q) == IF q.dates = <<>> THEN [q EXCEPT !.shared = @ \ {"focusDate"}]
                   ELSE [q EXCEPT !.viewDate = last(q.dates), !.shared = {"date"}]

\* Something done in place to the object viewDate refers to.
Mutate(q, date) ==
    [q EXCEPT !.viewDate = date,
              !.focusDate = IF "focusDate" \in q.shared THEN date ELSE @,
              !.dates = IF "date" \in q.shared THEN ReplaceAt(@, Len(@), date) ELSE @]
-----------------------------------------------------------------------------
(* The picker is made when the page is ready. *)

Options(f) == IF f = "validUntil" THEN [startDate |-> ZeroDay, endDate |-> Forever]
              ELSE [startDate |-> At(moveMonth(DayOf(now), -24)), endDate |-> ZeroDay]

Made(text) ==
    updateFromText([dates |-> <<>>, viewDate |-> UTCToday, focusDate |-> NoDate, shared |-> {},
                    viewMode |-> 0, visible |-> FALSE, text |-> text,
                    prev |-> TRUE, next |-> TRUE, usage |-> NoDate])

\* "Download My Data" hands over the ends of today, each with its time of day.
Today == Usage(UTCToday)
Downloads == [updateFromDate(Made(Blank), Today - Offset
                                 - (IF field = "usage-max" THEN 1 ELSE 0))
                 EXCEPT !.usage = Today]

Init ==
    /\ now \in Instants
    /\ field \in Fields
    /\ o = Options(field)
    /\ IF field = "validUntil" THEN p \in {Made(Written(<<At(d)>>)) : d \in InitialDates}
                               ELSE p = Downloads
    /\ origin = "page"
    /\ keys = 0

-----------------------------------------------------------------------------
(* The handlers. *)

Becomes(q, how, byKey) ==
    /\ DayOf(q.viewDate) \in FirstDay..LastDay
    /\ p' = q
    /\ origin' = IF q.dates # p.dates THEN how
                 ELSE IF how # "typed" THEN origin
                 ELSE IF origin \in {"browse", "retyped"} THEN "retyped" ELSE "typed"
    /\ keys' = IF byKey THEN keys + 1 ELSE keys
    /\ keys' <= MaxKeys
    /\ UNCHANGED <<now, field, o>>

\* The field gets the focus, or the button beside it is clicked.
Show == ~p.visible /\ Becomes(show(p), "page", FALSE)

\* A click anywhere else, as the one on the form's button.
ClickOutside == p.visible /\ Becomes(hide(p), "page", FALSE)

\* A key goes up that the picker has no use for: it reads the field.
Type(text) == text # p.text /\ Becomes(updateFromText([p EXCEPT !.text = text]), "typed", FALSE)
OtherKey   == /\ 2 * Len(p.text.dates) <= MaxWritten
              /\ Becomes(updateFromText(p), "typed", FALSE)

KeyEscape ==
    LET back == viewSelected([p EXCEPT !.focusDate = NoDate])
    IN  Becomes(IF ~p.visible THEN show(p)
                ELSE IF p.focusDate # NoDate THEN fill(back) ELSE hide(p), "enter", TRUE)

\* An arrow key: the day checked is the one beside the selected date, the day moved to the
\* one beside the focus.
Moved(t, unit, dir) ==
    LET d == CASE unit = "day"   -> DayOf(t) + dir
               [] unit = "week"  -> DayOf(t) + 7 * dir
               [] unit = "month" -> moveMonth(DayOf(t), dir)
               [] unit = "year"  -> moveMonth(DayOf(t), 12 * dir)
    IN  At(d) + (t % Hours)

KeyArrow(unit, dir) ==
    LET newDate     == Moved(Or(last(p.dates), UTCToday), unit, dir)
        newViewDate == Moved(Or(p.focusDate, p.viewDate), unit, dir)
    IN  /\ p.visible
        /\ dateWithinRange(newDate)
        /\ Becomes(fill(setValue([p EXCEPT !.focusDate = newViewDate, !.viewDate = newViewDate,
                                           !.shared = {"focusDate"}])), "enter", TRUE)

\* Mutant of KeyEnter: nobody is told of the date.
KeyEnterSilent ==
    LET date   == Or(p.focusDate, Or(last(p.dates), p.viewDate))
        chosen == viewSelected([toggle_multidate(p, date) EXCEPT !.focusDate = NoDate])
    IN  p.visible /\ Becomes(hide(fill(setValue(chosen))), "enter", TRUE)

KeyEnter ==
    LET date   == Or(p.focusDate, Or(last(p.dates), p.viewDate))
        chosen == viewSelected([toggle_multidate(p, date) EXCEPT !.focusDate = NoDate])
    IN  p.visible /\ Becomes(trigger(hide(fill(setValue(chosen)))), "enter", TRUE)

KeyTab == /\ p.visible
          /\ Becomes(hide(fill(viewSelected([p EXCEPT !.focusDate = NoDate]))), "enter", TRUE)

\* click(): the title, the arrows beside it, Today, a month, a year, a day.
ClickSwitch == p.visible /\ Becomes(showMode(p, 1), "browse", FALSE)

ClickArrow(dir) ==
    LET months == <<1, 12, 120>>[p.viewMode + 1]
        date   == At(moveMonth(DayOf(p.viewDate), dir * months)) + (p.viewDate % Hours)
    IN  /\ p.visible
        /\ IF dir < 0 THEN p.prev ELSE p.next
        /\ Becomes(fill([p EXCEPT !.viewDate = date, !.shared = {}]), "browse", FALSE)

ClickToday == /\ p.visible
              /\ Becomes(setDate(showMode(p, -2), UTCToday, "view"), "browse", FALSE)

\* A month or a year that is not wholly out of range.  viewDate is set in place.
Browse(y, m) ==
    LET first == At(UTCDate(y, m, 1)) + (p.viewDate % Hours)
    IN  Becomes(fill(showMode(Mutate(p, first), -1)), "browse", FALSE)

ClickMonth(m) ==
    LET y == Year(DayOf(p.viewDate))
    IN  /\ p.visible /\ p.viewMode = 1
        /\ ~MonthDisabled(y, m)
        /\ Browse(y, m)

ClickYear(y) ==
    LET decade == (Year(DayOf(p.viewDate)) \div 10) * 10
    IN  /\ p.visible /\ p.viewMode = 2
        /\ y \in (decade - 1)..(decade + 10)
        /\ ~YearDisabled(y)
        /\ Browse(y, Month(DayOf(p.viewDate)))

\* The date clicked is put together from the number in the cell and its class.
CellDate(v, n) ==
    LET first == UTCDate(Year(v), Month(v), 1)
        shift == IF n < first THEN -1 ELSE IF n < UTCDate(Year(v), Month(v) + 1, 1) THEN 0 ELSE 1
    IN  UTCDate(Year(v), Month(v) + shift, Day(n))

ClickDay(n) ==
    /\ p.visible /\ p.viewMode = 0
    /\ n \in Grid(DayOf(p.viewDate))
    /\ ~DayDisabled(At(n))
    /\ Becomes(setDate(p, At(CellDate(DayOf(p.viewDate), n)), "both"), "click", FALSE)

Tick == /\ \E t \in Instants : t > now /\ now' = t
        /\ UNCHANGED <<field, o, p, origin, keys>>

Next ==
    \/ Show \/ ClickOutside \/ OtherKey \/ KeyEscape \/ KeyEnter \/ KeyTab
    \/ \E text \in Typed : Type(text)
    \/ \E unit \in {"day", "week", "month", "year"}, dir \in {-1, 1} : KeyArrow(unit, dir)
    \/ ClickSwitch \/ ClickToday \/ \E dir \in {-1, 1} : ClickArrow(dir)
    \/ \E m \in 0..11 : ClickMonth(m)
    \/ \E y \in Year(FirstDay)..Year(LastDay) : ClickYear(y)
    \/ \E n \in Clicked : ClickDay(n)
    \/ Tick

Spec == Init /\ [][Next]_vars

-----------------------------------------------------------------------------
\* Without the keyboard no date outside startDate..endDate is ever selected.  (With it one
\* is: the arrow keys check the day beside the selected date, not the one they move to, and
\* Enter checks nothing.)
MouseStaysInRange == keys = 0 => \A i \in 1..Len(p.dates) : dateWithinRange(p.dates[i])

\* Without the keyboard, looking at other months and years leaves the selected date alone.
\* (Enter, Escape and Tab leave viewDate the selected Date itself, and a click on a month or
\* on a year then sets that Date to the first of it.)
MouseKeepsTheDate == keys = 0 => origin # "browse"

\* While the picker is closed the field shows the selected date, unless the customer has
\* typed since: what the form submits is what was chosen.
FieldShowsTheDate ==
    ~p.visible /\ origin \in {"click", "enter", "browse"} => p.text = Written(p.dates)

\* The link of "Download My Data" asks for the day its field shows, if it shows one that
\* browsing has not changed.  (Nobody is told of what browsing changes, nor when that very
\* date is then typed: to update() it is the date there was.)
LinkFollowsTheField ==
    Listens /\ p.dates # <<>> /\ origin \notin {"browse", "retyped"}
        => p.usage = Usage(last(p.dates))

================================================================================
