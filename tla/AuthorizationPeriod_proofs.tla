---------------------- MODULE AuthorizationPeriod_proofs ----------------------
(***************************************************************************)
(* For all instants, all dates and every time zone west of UTC: the end    *)
(* date a customer picks is the one shown and the one enforced.            *)
(***************************************************************************)
EXTENDS AuthorizationPeriod, TLAPS

\* What the period is: a grant ends at the last minute of the picked (UTC) day, a change at
\* the last minute of the picked day in EST.
PeriodInv ==
    /\ now \in Nat /\ start \in Nat /\ duration \in Nat
    /\ endDate \in Nat \cup {NoDate}
    /\ picked \in Nat \cup {NoDate} /\ promised \in Int
    /\ origin \in {"none", "grant", "change"}
    /\ origin # "none" => start >= estoffsetsec
    /\ origin = "none" /\ picked # NoDate => endDate = Parsed(picked)
    /\ origin = "grant" /\ Decides => Until(start, duration) = picked * daysec + daysec - minutesec
    /\ origin = "change" =>
          /\ picked # NoDate
          /\ Until(start, duration) = picked * daysec + estoffsetsec + daysec - minutesec

-----------------------------------------------------------------------------
(* Arithmetic of days. *)

LEMMA Seconds == daysec = 86400 /\ estoffsetsec = 18000 /\ minutesec = 60 /\ NoDate = -1
  BY DEF daysec, estoffsetsec, minutesec, NoDate

LEMMA Zone == ServerWest \in Int /\ 0 <= ServerWest /\ ServerWest < 86400
  BY ZoneAssumption DEF ZoneAssumption, daysec

\* Every instant of day d has day d.
LEMMA DayOf ==
    ASSUME NEW d \in Int, NEW r \in Int, 0 <= r, r < 86400
    PROVE  (d * daysec + r) \div daysec = d
  BY Seconds

\* Whatever the server's zone, a parsed date truncates to that date's midnight.
LEMMA ParsedMidnight ==
    ASSUME NEW d \in Int
    PROVE  /\ Parsed(d) \in Int /\ Midnight(Parsed(d)) = d * daysec
           /\ d >= 0 => Parsed(d) >= 0
  <1>1. (d * daysec + ServerWest) \div daysec = d BY Zone, DayOf
  <1> QED BY <1>1, Zone, Seconds DEF Parsed, Midnight

\* An instant lies in the day that follows its midnight.
LEMMA MidnightBounds ==
    ASSUME NEW t \in Int
    PROVE  /\ Midnight(t) \in Int /\ t \div daysec \in Int
           /\ Midnight(t) = (t \div daysec) * daysec
           /\ Midnight(t) <= t /\ t < Midnight(t) + daysec
           /\ t >= 0 => Midnight(t) >= 0 /\ t \div daysec >= 0
  BY Seconds DEF Midnight

\* The day an instant lies in does not decrease with the instant.
LEMMA DayMonotone ==
    ASSUME NEW s \in Int, NEW t \in Int, s <= t
    PROVE  s \div daysec <= t \div daysec
  BY Seconds

-----------------------------------------------------------------------------
(* The invariant. *)

LEMMA InitPeriod == Init => PeriodInv
  BY InstantAssumption, Seconds DEF InstantAssumption, Init, PeriodInv, Decides

LEMMA NextPeriod == PeriodInv /\ [Next]_vars => PeriodInv'
  <1> SUFFICES ASSUME PeriodInv, [Next]_vars PROVE PeriodInv'
      OBVIOUS
  <1> USE Seconds DEF PeriodInv
  <1>1. CASE GetAccessConfirmation
    <2>1. promised' \in Int
      <3>1. ServerWest \in Int BY Zone
      <3> QED BY <1>1, <3>1 DEF GetAccessConfirmation, ServerDate
    <2>2. picked = NoDate
      <3>1. picked \in Nat => Parsed(picked) >= 0 BY ParsedMidnight
      <3> QED BY <1>1, <3>1 DEF GetAccessConfirmation
    <2> QED BY <1>1, <2>1, <2>2 DEF GetAccessConfirmation, period, Decides
  <1>2. ASSUME NEW d \in Dates, SetDate(d) PROVE PeriodInv'
    <2>1. d \in Nat BY InstantAssumption DEF InstantAssumption
    <2>2. ServerWest \in Int BY Zone
    <2>3. Parsed(d) \in Nat BY <2>1, ParsedMidnight
    <2>4. promised' \in Int BY <1>2, <2>2, <2>3 DEF SetDate, ServerDate
    <2> QED BY <1>2, <2>1, <2>3, <2>4 DEF SetDate, period, Decides, Parsed
  <1>3. CASE Grant
    <2>1. Midnight(now) \in Nat BY MidnightBounds
    <2>2. start' \in Nat /\ start' = Midnight(now) + estoffsetsec
      BY <1>3, <2>1 DEF Grant, GrantStart
    <2>3. start' \div daysec = now \div daysec
      <3>1. now \div daysec \in Int BY MidnightBounds
      <3>2. ((now \div daysec) * daysec + estoffsetsec) \div daysec = now \div daysec
        BY <3>1, DayOf
      <3> QED BY <2>2, <3>2 DEF Midnight
    <2>4. duration' \in Nat /\ duration' = GrantPeriod(now, endDate)
      <3>1. endDate # NoDate => Midnight(endDate) \in Nat BY MidnightBounds
      <3> QED BY <1>3, <2>1, <3>1 DEF Grant, GrantStart, GrantPeriod
    <2>5. ASSUME Decides'
          PROVE  Until(start, duration)' = picked' * daysec + daysec - minutesec
      <3>1. picked \in Nat /\ picked > now \div daysec
        BY <1>3, <2>3, <2>5 DEF Grant, Decides
      <3>2. endDate = Parsed(picked) BY <1>3, <3>1 DEF Grant
      <3>3. endDate # NoDate BY <3>1, <3>2, Zone, Seconds DEF Parsed
      <3>4. Midnight(endDate) = picked * daysec BY <3>1, <3>2, ParsedMidnight
      <3>5. Midnight(now) + daysec <= picked * daysec
        BY <3>1, MidnightBounds
      <3>6. duration' = picked * daysec - start' + daysec - minutesec
        BY <2>1, <2>2, <2>4, <3>1, <3>3, <3>4, <3>5 DEF GrantPeriod, GrantStart
      <3> QED BY <1>3, <2>2, <3>1, <3>6 DEF Until, Grant
    <2> QED BY <1>3, <2>1, <2>2, <2>4, <2>5 DEF Grant
  <1>4. ASSUME NEW d \in Int, ChangeEnd(d), d \in Nat PROVE PeriodInv'
    <2>1. duration' = d * daysec + estoffsetsec - start + daysec - minutesec /\ duration' > 0
      BY <1>4, ParsedMidnight DEF ChangeEnd, ChangedPeriod
    <2> QED BY <1>4, <2>1 DEF ChangeEnd, Decides, Until
  <1>5. CASE Save
    <2>1. origin # "none" BY <1>5 DEF Save, ChangeEnd
    <2>2. start + duration - estoffsetsec \in Nat BY <2>1
    <2>3. ShownUntil \in Nat BY <2>2, MidnightBounds DEF ShownUntil, EstDate, Until
    <2> QED BY <1>4, <1>5, <2>3 DEF Save
  <1>6. CASE Tick
    <2>1. now' \in Nat BY <1>6, InstantAssumption DEF Tick, InstantAssumption
    <2> QED BY <1>6, <2>1 DEF Tick, period, Decides, Until, Parsed
  <1>7. CASE UNCHANGED vars
    BY <1>7 DEF vars, period, Decides, Until, Parsed
  <1>8. ASSUME NEW d \in Dates, ChangeEnd(d) PROVE PeriodInv'
    <2>1. d \in Nat BY InstantAssumption DEF InstantAssumption
    <2> QED BY <1>4, <1>8, <2>1
  <1> QED BY <1>1, <1>2, <1>3, <1>5, <1>6, <1>7, <1>8 DEF Next

LEMMA PeriodInvariant == Spec => []PeriodInv
  BY InitPeriod, NextPeriod, PTL DEF Spec

\* Every number of the period stays an integer of its kind: no duration is negative, though
\* durations are differences (AccessConfirmationController.java:279-291,
\* AuthorizedThirdPartyController.java:166-216).
THEOREM PeriodIsTyped == Spec => []TypeOK
  <1>1. PeriodInv => TypeOK BY DEF PeriodInv, TypeOK
  <1> QED BY <1>1, PeriodInvariant, PTL

-----------------------------------------------------------------------------
(* What follows. *)

\* An instant of day d in EST, in the terms of the shown date.
LEMMA EstDay ==
    ASSUME NEW d \in Int, NEW r \in Int, 0 <= r, r < 86400
    PROVE  EstDate(d * daysec + r + estoffsetsec) = d
  <1>1. (d * daysec + r) \div daysec = d BY DayOf
  <1>2. d * daysec + r + estoffsetsec - estoffsetsec = d * daysec + r BY Seconds
  <1> QED BY <1>1, <1>2, Seconds DEF EstDate

LEMMA DecidedEnd ==
    ASSUME PeriodInv, Decides
    PROVE  /\ picked \in Nat
           /\ \E r \in Int : /\ 68340 <= r /\ r <= 86340
                             /\ Until(start, duration) = picked * daysec + r + estoffsetsec
  <1>1. picked \in Nat /\ origin \in {"grant", "change"} BY Seconds DEF PeriodInv, Decides
  <1>2. CASE origin = "grant"
    <2>1. Until(start, duration) = picked * daysec + 68340 + estoffsetsec
      BY <1>1, <1>2, Seconds DEF PeriodInv
    <2> QED BY <1>1, <2>1
  <1>3. CASE origin = "change"
    <2>1. Until(start, duration) = picked * daysec + 86340 + estoffsetsec
      BY <1>1, <1>3, Seconds DEF PeriodInv
    <2> QED BY <1>1, <2>1
  <1> QED BY <1>1, <1>2, <1>3

\* Whatever the hour, the zone and the order of grants and changes, the page shows the date
\* the customer picked.
THEOREM PickedIsShown == Spec => []ShownUntilIsPicked
  <1>1. PeriodInv => ShownUntilIsPicked
    <2> SUFFICES ASSUME PeriodInv, Decides PROVE ShownUntil = picked
        BY DEF ShownUntilIsPicked
    <2>1. PICK r \in Int : /\ 68340 <= r /\ r <= 86340
                           /\ Until(start, duration) = picked * daysec + r + estoffsetsec
      BY DecidedEnd
    <2>2. picked \in Int BY DecidedEnd
    <2>3. EstDate(picked * daysec + r + estoffsetsec) = picked BY <2>1, <2>2, EstDay
    <2> QED BY <2>1, <2>3 DEF ShownUntil
  <1> QED BY <1>1, PeriodInvariant, PTL

\* ... and the resource filter answers until that date begins and not when it is over.
THEOREM PickedIsEnforced == Spec => []AnsweredUntilPicked
  <1>1. PeriodInv => AnsweredUntilPicked
    <2> SUFFICES ASSUME PeriodInv, Decides
                 PROVE  /\ EstDate(now) < picked => InForce(now)
                        /\ EstDate(now) > picked => ~InForce(now)
        BY DEF AnsweredUntilPicked
    <2>1. PICK r \in Int : /\ 68340 <= r /\ r <= 86340
                           /\ Until(start, duration) = picked * daysec + r + estoffsetsec
      BY DecidedEnd
    <2>2. picked \in Nat /\ now \in Nat BY DecidedEnd DEF PeriodInv
    <2>3. Until(start, duration) # 0 BY <2>1, <2>2, Seconds
    <2>4. EstDate(picked * daysec + r + estoffsetsec) = picked BY <2>1, <2>2, EstDay
    <2>5. /\ Until(start, duration) \in Int /\ EstDate(now) \in Int
          /\ EstDate(Until(start, duration)) = picked
      BY <2>1, <2>2, <2>4, Seconds DEF EstDate
    <2>6. ASSUME EstDate(now) < picked PROVE Until(start, duration) >= now
      BY <2>2, <2>5, <2>6, Seconds DEF EstDate
    <2>7. ASSUME EstDate(now) > picked PROVE ~(Until(start, duration) >= now)
      BY <2>2, <2>5, <2>7, Seconds DEF EstDate
    <2> QED BY <2>3, <2>6, <2>7 DEF InForce
  <1> QED BY <1>1, PeriodInvariant, PTL

\* A grant is in force for five hours at least.
THEOREM NewGrantInForce == Spec => GrantIsInForce
  <1>1. PeriodInv /\ [Next]_vars
        => [origin' = "grant" /\ origin = "none"
            => Until(start', duration') >= now + estoffsetsec]_vars
    <2> SUFFICES ASSUME PeriodInv, Next, origin' = "grant", origin = "none"
                 PROVE  Until(start', duration') >= now + estoffsetsec
        OBVIOUS
    <2>1. Grant
      BY DEF Next, GetAccessConfirmation, SetDate, ChangeEnd, Save, Tick, period
    <2>2. now \in Nat /\ endDate \in Nat \cup {NoDate} BY DEF PeriodInv
    <2>3. Midnight(now) \in Nat /\ now < Midnight(now) + daysec BY <2>2, MidnightBounds
    <2>4. duration' \in Int /\ duration' >= daysec
      <3>1. endDate # NoDate => Midnight(endDate) \in Nat BY <2>2, MidnightBounds
      <3> QED BY <2>1, <2>2, <2>3, <3>1, Seconds DEF Grant, GrantPeriod, GrantStart
    <2> QED BY <2>1, <2>2, <2>3, <2>4, Seconds DEF Grant, GrantStart, Until
  <1> QED BY <1>1, PeriodInvariant, PTL DEF Spec, GrantIsInForce

-----------------------------------------------------------------------------
(* Saving the form. *)

\* A granted period ends five hours into a day or in the last minute of one.
EndsOn(k) == \/ Until(start, duration) = k * daysec + estoffsetsec
             \/ Until(start, duration) = k * daysec + daysec - minutesec

SavedInv == PeriodInv /\ (origin = "grant" => \E k \in Int : EndsOn(k))

LEMMA InitSaved == Init => SavedInv
  BY InitPeriod DEF Init, SavedInv

LEMMA NextSaved == ASSUME SavedInv, [Next]_vars PROVE SavedInv'
  <1>1. PeriodInv' BY NextPeriod DEF SavedInv
  <1>2. CASE Grant
    <2>1. now \in Int /\ (endDate # NoDate => endDate \in Int)
      BY Seconds DEF SavedInv, PeriodInv
    <2>2. start' = Midnight(now) + estoffsetsec /\ duration' = GrantPeriod(now, endDate)
      BY <1>2 DEF Grant, GrantStart
    <2>3. PICK m \in Int : Midnight(now) = m * daysec
      BY <2>1, MidnightBounds
    <2>4. CASE duration' = daysec
      <3>1. Until(start', duration') = (m + 1) * daysec + estoffsetsec
        BY <2>2, <2>3, <2>4, Seconds DEF Until
      <3>2. EndsOn(m + 1)' BY <3>1 DEF EndsOn
      <3> QED BY <1>1, <2>3, <3>2 DEF SavedInv
    <2>5. CASE duration' = 365 * daysec
      <3>1. Until(start', duration') = (m + 365) * daysec + estoffsetsec
        BY <2>2, <2>3, <2>5, Seconds DEF Until
      <3>2. EndsOn(m + 365)' BY <3>1 DEF EndsOn
      <3> QED BY <1>1, <2>3, <3>2 DEF SavedInv
    <2>6. CASE /\ endDate # NoDate
               /\ duration' = Midnight(endDate) - GrantStart(now) + daysec - minutesec
      <3>1. PICK k \in Int : Midnight(endDate) = k * daysec
        BY <2>1, <2>6, MidnightBounds
      <3>2. Until(start', duration') = k * daysec + daysec - minutesec
        BY <2>2, <2>3, <2>6, <3>1, Seconds DEF Until, GrantStart
      <3>3. EndsOn(k)' BY <3>2 DEF EndsOn
      <3> QED BY <1>1, <3>3 DEF SavedInv
    <2> QED BY <2>2, <2>4, <2>5, <2>6 DEF GrantPeriod
  <1>3. CASE origin' # "grant"
    BY <1>1, <1>3 DEF SavedInv
  <1>4. CASE UNCHANGED period
    BY <1>1, <1>4 DEF SavedInv, EndsOn, period
  <1> QED BY <1>2, <1>3, <1>4 DEF Next, GetAccessConfirmation, SetDate, ChangeEnd, Save, Tick, vars, period

\* The end of a period and the date it is shown with.
LEMMA ShownEnd ==
    ASSUME SavedInv, origin # "none"
    PROVE  /\ ShownUntil \in Int
           /\ Until(start, duration) <= ShownUntil * daysec + estoffsetsec + daysec - minutesec
           /\ origin = "change" =>
                 Until(start, duration) = ShownUntil * daysec + estoffsetsec + daysec - minutesec
  <1>1. CASE origin = "change"
    <2>1. picked \in Int
      BY <1>1, Seconds DEF SavedInv, PeriodInv
    <2>2. Until(start, duration) = picked * daysec + 86340 + estoffsetsec
      BY <1>1, <2>1, Seconds DEF SavedInv, PeriodInv
    <2>3. ShownUntil = picked
      BY <2>1, <2>2, EstDay DEF ShownUntil
    <2> QED BY <2>1, <2>2, <2>3, Seconds
  <1>2. CASE origin = "grant"
    <2>1. PICK k \in Int : EndsOn(k)
      BY <1>2 DEF SavedInv
    <2>2. PICK r \in {0, 68340} : Until(start, duration) = k * daysec + r + estoffsetsec
      BY <2>1, Seconds DEF EndsOn
    <2>3. ShownUntil = k
      BY <2>1, <2>2, EstDay DEF ShownUntil
    <2> QED BY <1>2, <2>1, <2>2, <2>3, Seconds
  <1> QED BY <1>1, <1>2 DEF SavedInv, PeriodInv

\* Saving the form with the date it shows never cuts a period short, and changes nothing the
\* second time, whatever was granted and changed before.
THEOREM SavingIsHarmless == Spec => SavingKeepsThePeriod
  <1>1. ASSUME SavedInv, [Next]_vars,
               picked' = ShownUntil, origin # "none", origin' = "change"
        PROVE  /\ Until(start', duration') >= Until(start, duration)
               /\ origin = "change" => duration' = duration
    <2>1. /\ ShownUntil \in Int /\ start \in Int /\ duration \in Int
          /\ Until(start, duration) <= ShownUntil * daysec + estoffsetsec + daysec - minutesec
          /\ origin = "change" =>
                Until(start, duration) = ShownUntil * daysec + estoffsetsec + daysec - minutesec
      BY <1>1, ShownEnd DEF SavedInv, PeriodInv
    <2>2. CASE UNCHANGED <<start, duration>>
      BY <2>1, <2>2 DEF Until
    <2>3. ASSUME NEW d, ChangeEnd(d) PROVE start' = start /\ duration' = ChangedPeriod(ShownUntil)
      BY <1>1, <2>3 DEF ChangeEnd
    <2>4. CASE start' = start /\ duration' = ChangedPeriod(ShownUntil)
      <3>1. Until(start', duration') = ShownUntil * daysec + estoffsetsec + daysec - minutesec
        BY <2>1, <2>4, ParsedMidnight, Seconds DEF ChangedPeriod, Until
      <3>2. Until(start, duration) \in Int /\ Until(start', duration') \in Int
        BY <2>1, <3>1, Seconds DEF Until
      <3> QED BY <2>1, <2>4, <3>1, <3>2, Seconds DEF Until, ChangedPeriod
    <2> QED BY <1>1, <2>2, <2>3, <2>4
            DEF Next, GetAccessConfirmation, SetDate, Grant, Save, Tick, vars, period
  <1>2. SavedInv /\ [Next]_vars => SavedInv' BY NextSaved
  <1>3. SavedInv /\ [Next]_vars
          => [picked' = ShownUntil /\ origin # "none" /\ origin' = "change"
              => /\ Until(start', duration') >= Until(start, duration)
                 /\ origin = "change" => duration' = duration]_vars
    BY <1>1
  <1> QED BY <1>2, <1>3, InitSaved, PTL DEF Spec, SavingKeepsThePeriod
=============================================================================
