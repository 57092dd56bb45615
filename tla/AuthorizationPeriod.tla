-------------------------- MODULE AuthorizationPeriod --------------------------
(***************************************************************************)
(* The dates of one authorization: the end date the customer confirms, the *)
(* period the token enhancer computes from it, the one a later change      *)
(* computes, the dates the pages show and the instants at which the        *)
(* resource filter answers.  Instants are seconds since the epoch (UTC),   *)
(* dates are days since then; the customers' pages show dates in EST.      *)
(***************************************************************************)
EXTENDS Integers

CONSTANTS
    Instants,    \* instants at which something happens
    Dates,       \* dates a customer may pick
    ServerWest   \* how far west of UTC the server's own time zone is, in seconds

daysec       == 24 * 3600
estoffsetsec == 5 * 3600
minutesec    == 60

ASSUME InstantAssumption == Instants \subseteq Nat /\ Dates \subseteq Nat
ASSUME ZoneAssumption == ServerWest \in 0..(daysec - 1)

NoDate == -1

VARIABLES
    now,        \* System.currentTimeMillis() / 1000
    endDate,    \* the authorizationEndDate extension of the request, an instant or NoDate
    start,      \* authorizedPeriod.start
    duration,   \* authorizedPeriod.duration
    origin,     \* what computed the period: "none", "grant" or "change"
    picked,     \* the date the customer last picked, or NoDate
    promised    \* the date the confirmation page showed last, or NoDate

period == <<start, duration, origin>>
vars   == <<now, endDate, start, duration, origin, picked, promised>>

-----------------------------------------------------------------------------
Midnight(t)   == (t \div daysec) * daysec
\* A date is parsed as midnight in the server's time zone.
Parsed(d)     == d * daysec + ServerWest
EstDate(t)    == (t - estoffsetsec) \div daysec
ServerDate(t) == (t - ServerWest) \div daysec

Until(s, dur) == s + dur
ShownUntil    == EstDate(Until(start, duration))

\* The page's date picker starts today (startDate : '+0d').
Offered(d) == d >= EstDate(now)

GrantStart(t) == Midnight(t) + estoffsetsec

\* Mutant of GrantPeriod: the last day is not counted.
GrantPeriodToMidnight(t, e) ==
    LET asked == IF e = NoDate THEN 365 * daysec ELSE Midnight(e) - GrantStart(t) - minutesec
    IN  IF asked < daysec THEN daysec ELSE asked

\* Mutant of GrantPeriod: it may be shorter than a day.
GrantPeriodNoMinimum(t, e) ==
    IF e = NoDate THEN 365 * daysec ELSE Midnight(e) - GrantStart(t) + daysec - minutesec

GrantPeriod(t, e) ==
    LET asked == IF e = NoDate THEN 365 * daysec
                 ELSE Midnight(e) - GrantStart(t) + daysec - minutesec
    IN  IF asked < daysec THEN daysec ELSE asked

\* Mutant of ChangedPeriod: the parsed instant is not cut to a whole day.
ChangedPeriodUncut(d) == Parsed(d) + estoffsetsec - start + daysec - minutesec

ChangedPeriod(d) == Midnight(Parsed(d)) + estoffsetsec - start + daysec - minutesec

\* Mutant of InForce: a period is over when its last day begins.
InForceUntilMidnight(t) == Midnight(Until(start, duration)) >= t

InForce(t) == Until(start, duration) = 0 \/ Until(start, duration) >= t

-----------------------------------------------------------------------------
Init ==
    /\ now \in Instants
    /\ endDate = NoDate /\ origin = "none" /\ picked = NoDate /\ promised = NoDate
    /\ start = 0 /\ duration = 0

\* The confirmation page with a usage point selected and no date chosen yet.
GetAccessConfirmation ==
    /\ origin = "none" /\ endDate = NoDate
    /\ endDate' = now + 365 * daysec
    /\ promised' = ServerDate(now + 365 * daysec)
    /\ UNCHANGED <<now, period, picked>>

SetDate(d) ==
    /\ origin = "none"
    /\ Offered(d)
    /\ endDate' = Parsed(d)
    /\ picked' = d
    /\ promised' = ServerDate(Parsed(d))
    /\ UNCHANGED <<now, period>>

\* EspiTokenEnhancer.enhance, when the code is exchanged.
Grant ==
    /\ origin = "none"
    /\ start' = GrantStart(now)
    /\ duration' = GrantPeriod(now, endDate)
    /\ origin' = "grant"
    /\ UNCHANGED <<now, endDate, picked, promised>>

\* Mutant of ChangeEnd: a date before the period's start is not refused.
ChangeEndUnchecked(d) ==
    /\ origin # "none"
    /\ Offered(d) \/ d = ShownUntil
    /\ duration' = ChangedPeriod(d)
    /\ origin' = "change"
    /\ picked' = d
    /\ UNCHANGED <<now, endDate, start, promised>>

ChangeEnd(d) ==
    /\ origin # "none"
    /\ Offered(d) \/ d = ShownUntil          \* the field holds the date shown
    /\ ChangedPeriod(d) > 0
    /\ duration' = ChangedPeriod(d)
    /\ origin' = "change"
    /\ picked' = d
    /\ UNCHANGED <<now, endDate, start, promised>>

Save == ChangeEnd(ShownUntil)

Tick ==
    /\ \E t \in Instants : t > now /\ now' = t
    /\ UNCHANGED <<endDate, period, picked, promised>>

Next ==
    \/ GetAccessConfirmation
    \/ \E d \in Dates : SetDate(d) \/ ChangeEnd(d)
    \/ Grant \/ Save \/ Tick

Spec == Init /\ [][Next]_vars

-----------------------------------------------------------------------------
TypeOK ==
    /\ now \in Nat /\ start \in Nat /\ duration \in Nat
    /\ endDate \in Nat \cup {NoDate}
    /\ picked \in Nat \cup {NoDate} /\ promised \in Int
    /\ origin \in {"none", "grant", "change"}

\* A picked date decides the period unless it is not later than the (UTC) day of the grant.
Decides == picked # NoDate /\ (origin = "grant" => picked > start \div daysec) /\ origin # "none"

\* The page shows as "Valid Until" the date the customer picked, wherever west of UTC the
\* server is and whatever the hour, although parsing, truncation, the EST offset and the
\* display each move it.
ShownUntilIsPicked == Decides => ShownUntil = picked

\* A third party is answered until the picked date begins, and not once it is over (EST).
AnsweredUntilPicked ==
    Decides => /\ EstDate(now) < picked => InForce(now)
               /\ EstDate(now) > picked => ~InForce(now)

\* A new authorization is in force for the next five hours at least, whatever was picked.
GrantIsInForce ==
    [][origin' = "grant" /\ origin = "none" => Until(start', duration') >= now + estoffsetsec]_vars

\* Saving the form with the date it shows never cuts the period short, and does nothing to
\* one that a change computed: repeated saves do not drift.
SavingKeepsThePeriod ==
    [][picked' = ShownUntil /\ origin # "none" /\ origin' = "change"
       => /\ Until(start', duration') >= Until(start, duration)
          /\ origin = "change" => duration' = duration]_vars

(* What the confirmation page says of the period, and the computation refutes. *)

\* lh/access_confirmation.jsp:120-121, "... the service shown below until": nobody
\* is answered after that date as long as the customer has not changed it.
NotAnsweredAfterPromised ==
    origin = "grant" /\ promised # NoDate /\ InForce(now) => EstDate(now) <= promised
=============================================================================
