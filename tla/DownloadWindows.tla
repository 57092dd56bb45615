----------------------------- MODULE DownloadWindows -----------------------------
(***************************************************************************)
(* The windows that the menus of "Download My Data" (dmd/index.jsp) offer, *)
(* as DateController computes them when the page is rendered: from the     *)
(* beginning of a day, a week or a month until now.  Its calendar is in    *)
(* EST, which has no summer time; instants are seconds since the epoch.    *)
(***************************************************************************)
EXTENDS Calendar

CONSTANT Instants      \* at which the page may be rendered

VARIABLES now,
          offered      \* the windows of the page that is shown, each [min, max]

vars == <<now, offered>>

hour == 3600
est  == 5 * hour
halfday == 12 * hour

\* What a java.util.Calendar holds: the day, the half of it, and the seconds of the half.
EstCalendar(t) == [day    |-> (t - est) \div (2 * halfday),
                   pm     |-> (((t - est) % (2 * halfday)) >= halfday),
                   second |-> (t - est) % halfday]
TimeOf(c) == 2 * halfday * c.day + (IF c.pm THEN halfday ELSE 0) + c.second + est

\* set(HOUR, 0) and set(MINUTE, 0): the hour of the half day that it is, and the second as it is.
Begun(c) == [c EXCEPT !.second = @ % 60]

\* set(DAY_OF_WEEK, 0) is the Saturday of the same week, from Sunday to Saturday.
SetDayOfWeek0(c) == [c EXCEPT !.day = @ + (6 - WeekDay(@))]

SetDayOfMonth(c, d) == [c EXCEPT !.day = UTCDate(Year(@), Month(@), d)]
AddMonths(c, n)     == [c EXCEPT !.day = moveMonth(@, n)]

dayBegin(c)         == Begun(c)
previousdayBegin(c) == Begun(SetDayOfMonth(c, Day(c.day) - 1))
weekBegin(c)        == Begun(SetDayOfWeek0(c))
monthBegin(c)       == Begun(SetDayOfMonth(c, 1))
monthsBegin(c, n)   == Begun(AddMonths(c, -n))

Window(c, t) == [min |-> TimeOf(c), max |-> t]

Offered(t) ==
    LET c == EstCalendar(t)
    IN  [today     |-> Window(dayBegin(c), t),
         yesterday |-> Window(previousdayBegin(c), t),
         week      |-> Window(weekBegin(c), t),
         month     |-> Window(monthBegin(c), t),
         three     |-> Window(monthsBegin(c, 3), t),
         six       |-> Window(monthsBegin(c, 6), t),
         year      |-> Window(monthsBegin(c, 12), t)]

-----------------------------------------------------------------------------
Init == now \in Instants /\ offered = Offered(now)

\* The page stays as it was rendered, whatever the time.
Tick == /\ \E t \in Instants : t > now /\ now' = t
        /\ UNCHANGED offered

Render == offered' = Offered(now) /\ UNCHANGED now

Next == Tick \/ Render

Spec == Init /\ [][Next]_vars

-----------------------------------------------------------------------------
\* dmd/index.jsp:232, "Today's Usage": the window begins with the day (EST) that it ends in, to
\* the minute.  (After noon it begins at noon: Calendar.HOUR is the hour of the half day.)
TodayIsTheDay ==
    offered.today.min \div 60 = TimeOf([day |-> EstCalendar(offered.today.max).day,
                                        pm |-> FALSE, second |-> 0]) \div 60

\* dmd/index.jsp:238, "Current Week's Usage": the window has begun when the page is rendered.
\* (But on Saturdays it has not: 0 is no day of the week, and stands for the last.)
WeekHasBegun == offered.week.min <= offered.week.max
==================================================================================
