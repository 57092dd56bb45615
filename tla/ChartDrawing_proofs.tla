--------------------------- MODULE ChartDrawing_proofs ---------------------------
(***************************************************************************)
(* Proofs about the drawing side of ChartPages.                            *)
(*                                                                         *)
(* GridIsTrue: what timeTicks, ticksInside, weekendAreas and the formats   *)
(* of the labels return for every axis, zone and figure tells the time,    *)
(* and it is what is painted when a drawing is finished.                   *)
(*                                                                         *)
(* LabelsAreShown: the cache of the text and the name of the y axis follow *)
(* the axes from one view to the next, so that the page shows their labels *)
(* as they are.                                                            *)
(*                                                                         *)
(* BarsAreShown, LineIsShown: bars and pieces of the line are painted      *)
(* where they are inside the plot, and nothing else is; LinesStayInside:   *)
(* no line and no area leaves it.                                          *)
(***************************************************************************)
EXTENDS ChartPages_proofs

-----------------------------------------------------------------------------
(* The calendar: years, months and days. *)

\* The first of January of the years, to the day.
LEMMA YearStartBounds ==
    ASSUME NEW y \in Int
    PROVE  /\ Drawing!YearStart(y) \in Int
           /\ 400 * Drawing!YearStart(y) >= 146097 * (y - 1970) - 500
           /\ 400 * Drawing!YearStart(y) <= 146097 * (y - 1970) + 500
  BY DEF Drawing!YearStart

LEMMA YearLength ==
    ASSUME NEW y \in Int
    PROVE  Drawing!YearStart(y + 1) = Drawing!YearStart(y) + (IF Drawing!isLeapYear(y) THEN 366 ELSE 365)
  BY DEF Drawing!YearStart, Drawing!isLeapYear

LEMMA YearsInOrder ==
    ASSUME NEW y \in Int, NEW z \in Int, y < z
    PROVE  Drawing!YearStart(y + 1) <= Drawing!YearStart(z)
  BY DEF Drawing!YearStart

LEMMA YearOfDay ==
    ASSUME NEW n \in Int
    PROVE  /\ Drawing!Year(n) \in Int
           /\ Drawing!YearStart(Drawing!Year(n)) <= n /\ n < Drawing!YearStart(Drawing!Year(n) + 1)
<1> DEFINE y == 1970 + (400 * n) \div 146097
<1>1. y \in Int /\ 146097 * (y - 1970) <= 400 * n /\ 400 * n < 146097 * (y - 1970) + 146097
  OBVIOUS
<1> HIDE DEF y
<1>2. Drawing!YearStart(y - 1) <= n /\ n < Drawing!YearStart(y + 2)
  BY <1>1, YearStartBounds
<1> DEFINE z == Drawing!Year(n)
<1>3. z = IF n < Drawing!YearStart(y) THEN y - 1 ELSE IF Drawing!YearStart(y + 1) <= n THEN y + 1 ELSE y
  BY DEF Drawing!Year, y, z
<1> HIDE DEF z
<1>4. z \in Int
  BY <1>1, <1>3
<1>5. (y - 1) + 1 = y /\ (y + 1) + 1 = y + 2
  BY <1>1
<1>6. Drawing!YearStart(z) <= n /\ n < Drawing!YearStart(z + 1)
  <2>1. CASE n < Drawing!YearStart(y)
    BY <1>1, <1>2, <1>3, <1>5, <2>1
  <2>2. CASE Drawing!YearStart(y + 1) <= n /\ ~(n < Drawing!YearStart(y))
    BY <1>1, <1>2, <1>3, <1>5, <2>2
  <2>3. CASE ~(Drawing!YearStart(y + 1) <= n) /\ ~(n < Drawing!YearStart(y))
    <3>1. Drawing!YearStart(y) \in Int /\ Drawing!YearStart(y + 1) \in Int /\ z = y
      BY <1>1, <1>3, <2>3, YearStartBounds
    <3> QED BY <2>3, <3>1
  <2> QED BY <2>1, <2>2, <2>3
<1> QED
  BY <1>4, <1>6 DEF z

LEMMA MonthsOfAYear ==
    ASSUME NEW y \in Int, NEW m \in 0..11
    PROVE  /\ Drawing!MonthStart(y, m) \in Int
           /\ m = 0 => Drawing!MonthStart(y, m) = Drawing!YearStart(y)
           /\ m < 11 => /\ Drawing!MonthStart(y, m) + 28 <= Drawing!MonthStart(y, m + 1)
                        /\ Drawing!MonthStart(y, m + 1) <= Drawing!MonthStart(y, m) + 31
           /\ m = 11 => Drawing!MonthStart(y, m) + 31 = Drawing!YearStart(y + 1)
           /\ Drawing!YearStart(y) + 31 * (m - 1) <= Drawing!MonthStart(y, m)
           /\ Drawing!MonthStart(y, m) <= Drawing!YearStart(y) + 31 * m
<1> DEFINE leap == IF Drawing!isLeapYear(y) THEN 1 ELSE 0
<1>1. PICK b \in Int : b = Drawing!YearStart(y)
  BY YearStartBounds
<1>2. leap \in 0..1 /\ Drawing!YearStart(y + 1) = b + 365 + leap
  BY <1>1, YearLength
<1>3. \A k \in 0..11 : Drawing!MonthStart(y, k) =
           b + <<0, 31, 59, 90, 120, 151, 181, 212, 243, 273, 304, 334>>[k + 1]
             + IF k > 1 THEN leap ELSE 0
  BY <1>1 DEF Drawing!MonthStart
<1> HIDE DEF leap
<1>4. /\ Drawing!MonthStart(y, 0) = b /\ Drawing!MonthStart(y, 1) = b + 31
      /\ Drawing!MonthStart(y, 2) = b + 59 + leap /\ Drawing!MonthStart(y, 3) = b + 90 + leap
      /\ Drawing!MonthStart(y, 4) = b + 120 + leap /\ Drawing!MonthStart(y, 5) = b + 151 + leap
      /\ Drawing!MonthStart(y, 6) = b + 181 + leap /\ Drawing!MonthStart(y, 7) = b + 212 + leap
      /\ Drawing!MonthStart(y, 8) = b + 243 + leap /\ Drawing!MonthStart(y, 9) = b + 273 + leap
      /\ Drawing!MonthStart(y, 10) = b + 304 + leap /\ Drawing!MonthStart(y, 11) = b + 334 + leap
  BY <1>1, <1>2, <1>3
<1>5. \/ m = 0 \/ m = 1 \/ m = 2 \/ m = 3 \/ m = 4 \/ m = 5 \/ m = 6 \/ m = 7 \/ m = 8
      \/ m = 9 \/ m = 10 \/ m = 11
  OBVIOUS
<1> QED
  BY <1>1, <1>2, <1>4, <1>5

LEMMA MonthOfAYear == ASSUME NEW n \in Int PROVE Drawing!Month(n) \in 0..11
<1>1. PICK y \in Int : y = Drawing!Year(n) /\ Drawing!YearStart(y) <= n /\ n < Drawing!YearStart(y + 1)
  BY YearOfDay
<1>2. PICK b \in Int : b = Drawing!YearStart(y)
  BY YearStartBounds
<1>3. n < b + 366
  <2>1. Drawing!YearStart(y + 1) = b + 366 \/ Drawing!YearStart(y + 1) = b + 365
    BY <1>2, YearLength
  <2> QED BY <1>1, <1>2, <2>1
<1> DEFINE k == (n - b) \div 31
<1>4. k \in 0..11
  <2>1. PICK d \in Int : d = n - b /\ 0 <= d /\ d < 366
    BY <1>1, <1>2, <1>3
  <2>2. d \div 31 \in 0..11
    BY <2>1
  <2> QED BY <2>1, <2>2
<1>5. Drawing!Month(n) = IF k < 11 /\ Drawing!MonthStart(y, k + 1) <= n THEN k + 1 ELSE k
  BY <1>1, <1>2 DEF Drawing!Month
<1> HIDE DEF k
<1> QED
  BY <1>4, <1>5

-----------------------------------------------------------------------------
(* Months counted through: the month m of year y is month 12 * y + m, and  *)
(* FirstOf is its first day.                                               *)

FirstOf(q) == Drawing!MonthStart(q \div 12, q % 12)
MonthOf(n) == 12 * Drawing!Year(n) + Drawing!Month(n)

LEMMA MonthParts ==
    ASSUME NEW q \in Int
    PROVE  /\ q \div 12 \in Int /\ q % 12 \in 0..11
           /\ q % 12 = 11 => (q + 1) \div 12 = q \div 12 + 1 /\ (q + 1) % 12 = 0
           /\ q % 12 # 11 => (q + 1) \div 12 = q \div 12 /\ (q + 1) % 12 = (q % 12) + 1
<1>1. q \div 12 \in Int /\ q % 12 \in 0..11
  OBVIOUS
<1>2. q % 12 = 11 => (q + 1) \div 12 = q \div 12 + 1 /\ (q + 1) % 12 = 0
  OBVIOUS
<1>3. q % 12 # 11 => (q + 1) \div 12 = q \div 12 /\ (q + 1) % 12 = (q % 12) + 1
  OBVIOUS
<1> QED BY <1>1, <1>2, <1>3

LEMMA DateOfMonth ==
    ASSUME NEW y \in Int, NEW m \in Int, NEW d \in Int
    PROVE  Drawing!UTCDate(y, m, d) = FirstOf(12 * y + m) + d - 1
<1>1. (12 * y + m) \div 12 = y + m \div 12 /\ (12 * y + m) % 12 = m % 12
  OBVIOUS
<1> QED BY <1>1 DEF Drawing!UTCDate, FirstOf

\* A month has 28 to 31 days.
LEMMA MonthDays ==
    ASSUME NEW q \in Int
    PROVE  /\ FirstOf(q) \in Int
           /\ FirstOf(q) + 28 <= FirstOf(q + 1) /\ FirstOf(q + 1) <= FirstOf(q) + 31
<1>1. PICK y \in Int, m \in 0..11 : y = q \div 12 /\ m = q % 12
  BY MonthParts
<1>2. PICK f \in Int : f = Drawing!MonthStart(y, m)
  BY MonthsOfAYear
<1>3. FirstOf(q) = f
  BY <1>1, <1>2 DEF FirstOf
<1>4. CASE m = 11
  <2>1. (q + 1) \div 12 = y + 1 /\ (q + 1) % 12 = 0
    BY <1>1, <1>4, MonthParts
  <2>2. FirstOf(q + 1) = Drawing!MonthStart(y + 1, 0)
    BY <2>1 DEF FirstOf
  <2>3. Drawing!MonthStart(y + 1, 0) = Drawing!YearStart(y + 1)
    BY MonthsOfAYear
  <2>4. f + 31 = Drawing!YearStart(y + 1)
    BY <1>2, <1>4, MonthsOfAYear
  <2> QED BY <1>2, <1>3, <2>2, <2>3, <2>4
<1>5. CASE m # 11
  <2>1. (q + 1) \div 12 = y /\ (q + 1) % 12 = m + 1 /\ m + 1 \in 0..11 /\ m < 11
    BY <1>1, <1>5, MonthParts
  <2>2. FirstOf(q + 1) = Drawing!MonthStart(y, m + 1)
    BY <2>1 DEF FirstOf
  <2>3. PICK g \in Int : g = Drawing!MonthStart(y, m + 1)
    BY <2>1, MonthsOfAYear
  <2>4. f + 28 <= g /\ g <= f + 31
    BY <1>2, <2>1, <2>3, MonthsOfAYear
  <2> QED BY <1>3, <2>2, <2>3, <2>4
<1> QED BY <1>4, <1>5

LEMMA MonthsLater ==
    ASSUME NEW q \in Int, NEW k \in Nat
    PROVE  FirstOf(q) + 28 * k <= FirstOf(q + k)
<1> DEFINE Done == {n \in Nat : FirstOf(q) + 28 * n <= FirstOf(q + n)}
<1>1. 0 \in Done
  <2>1. PICK a \in Int : a = FirstOf(q)
    BY MonthDays
  <2>2. q + 0 = q
    OBVIOUS
  <2> QED BY <2>1, <2>2
<1>2. ASSUME NEW n \in Nat, n \in Done PROVE n + 1 \in Done
  <2>1. PICK p \in Int : p = q + n /\ q + (n + 1) = p + 1
    OBVIOUS
  <2>2. PICK a \in Int : a = FirstOf(q)
    BY MonthDays
  <2>20. PICK b \in Int : b = FirstOf(p) /\ b + 28 <= FirstOf(p + 1)
    BY MonthDays
  <2>21. PICK c \in Int : c = FirstOf(p + 1)
    <3>1. p + 1 \in Int
      OBVIOUS
    <3> QED BY <3>1, MonthDays
  <2>3. a + 28 * n <= b
    BY <1>2, <2>1, <2>2, <2>20
  <2>4. a + 28 * (n + 1) <= c
    BY <2>20, <2>21, <2>3
  <2> QED BY <2>1, <2>2, <2>21, <2>4
<1> HIDE DEF Done
<1>3. Nat \subseteq Done
  BY <1>1, <1>2, Induction
<1> QED
  BY <1>3 DEF Done

\* The month of a day is the one it lies in.
LEMMA DayInMonth ==
    ASSUME NEW n \in Int
    PROVE  /\ MonthOf(n) \in Int
           /\ FirstOf(MonthOf(n)) <= n /\ n < FirstOf(MonthOf(n) + 1)
           /\ FirstOf(MonthOf(n)) = Drawing!MonthStart(Drawing!Year(n), Drawing!Month(n))
           /\ Drawing!Day(n) = n - FirstOf(MonthOf(n)) + 1
<1>1. PICK y \in Int, m \in 0..11 : y = Drawing!Year(n) /\ m = Drawing!Month(n)
  BY YearOfDay, MonthOfAYear
<1>2. PICK q \in Int : q = MonthOf(n) /\ q = 12 * y + m
  BY <1>1 DEF MonthOf
<1>3. q \div 12 = y /\ q % 12 = m
  BY <1>2
<1>4. PICK f \in Int : f = Drawing!MonthStart(y, m)
  BY MonthsOfAYear
<1>5. FirstOf(q) = f
  BY <1>3, <1>4 DEF FirstOf
<1>6. Drawing!Day(n) = n - f + 1
  BY <1>1, <1>4 DEF Drawing!Day
<1>70. PICK b \in Int : b = Drawing!YearStart(y) /\ b <= n
  BY <1>1, YearStartBounds, YearOfDay
<1>7. PICK c \in Int :
         b = Drawing!YearStart(y) /\ c = Drawing!YearStart(y + 1) /\ b <= n /\ n < c
  <2>1. y + 1 \in Int
    BY <1>1
  <2> QED BY <1>1, <1>70, <2>1, YearStartBounds, YearOfDay
<1> DEFINE k == (n - b) \div 31
<1>8. m = IF k < 11 /\ Drawing!MonthStart(y, k + 1) <= n THEN k + 1 ELSE k
  BY <1>1, <1>7 DEF Drawing!Month
<1>9. k \in Int /\ 31 * k <= n - b /\ n - b < 31 * k + 31 /\ 0 <= k
  BY <1>7
<1> HIDE DEF k
<1>10. f <= n
  <2>1. CASE k < 11 /\ Drawing!MonthStart(y, k + 1) <= n
    BY <1>4, <1>8, <2>1
  <2>2. CASE ~(k < 11 /\ Drawing!MonthStart(y, k + 1) <= n)
    <3>1. m = k
      BY <1>8, <2>2
    <3>2. f <= b + 31 * m
      BY <1>4, <1>7, MonthsOfAYear
    <3> QED BY <1>4, <1>7, <1>9, <3>1, <3>2
  <2> QED BY <2>1, <2>2
<1>11. n < FirstOf(q + 1)
  <2>1. CASE m = 11
    <3>1. f + 31 = c
      BY <1>4, <1>7, <2>1, MonthsOfAYear
    <3>2. (q + 1) \div 12 = y + 1 /\ (q + 1) % 12 = 0
      BY <1>3, <2>1, MonthParts
    <3>3. FirstOf(q + 1) = Drawing!MonthStart(y + 1, 0)
      BY <3>2 DEF FirstOf
    <3>4. y + 1 \in Int /\ 0 \in 0..11
      OBVIOUS
    <3>5. Drawing!MonthStart(y + 1, 0) = Drawing!YearStart(y + 1)
      BY <3>4, MonthsOfAYear
    <3> QED BY <1>7, <3>3, <3>5
  <2>2. CASE m # 11
    <3>1. (q + 1) \div 12 = y /\ (q + 1) % 12 = m + 1 /\ m + 1 \in 0..11
      BY <1>3, <2>2, MonthParts
    <3>2. PICK g \in Int : g = Drawing!MonthStart(y, m + 1) /\ b + 31 * m <= g
      <4>1. PICK g \in Int : g = Drawing!MonthStart(y, m + 1)
        BY <3>1, MonthsOfAYear
      <4>2. b + 31 * ((m + 1) - 1) <= Drawing!MonthStart(y, m + 1)
        BY <1>7, <3>1, MonthsOfAYear
      <4> QED BY <4>1, <4>2
    <3>3. FirstOf(q + 1) = g
      BY <3>1, <3>2 DEF FirstOf
    <3>4. CASE m = k
      <4>1. ~(Drawing!MonthStart(y, k + 1) <= n)
        BY <1>8, <1>9, <2>2, <3>1, <3>4
      <4> QED BY <3>2, <3>3, <3>4, <4>1
    <3>5. CASE m = k + 1
      BY <1>7, <1>9, <3>2, <3>3, <3>5
    <3> QED BY <1>8, <3>4, <3>5
  <2> QED BY <2>1, <2>2
<1> QED
  BY <1>1, <1>2, <1>4, <1>5, <1>6, <1>10, <1>11

LEMMA MonthFromFirst ==
    ASSUME NEW q \in Int, NEW n \in Int, FirstOf(q) <= n, n < FirstOf(q + 1)
    PROVE  MonthOf(n) = q
<1>1. PICK p \in Int : p = MonthOf(n) /\ FirstOf(p) <= n /\ n < FirstOf(p + 1)
  BY DayInMonth
<1>2. FirstOf(p) \in Int /\ FirstOf(q) \in Int /\ FirstOf(p + 1) \in Int /\ FirstOf(q + 1) \in Int
  BY <1>1, MonthDays
<1>3. ~(p < q)
  <2> SUFFICES ASSUME p < q PROVE FALSE
    OBVIOUS
  <2>1. PICK k \in Nat : q = (p + 1) + k
    <3>1. q - (p + 1) \in Nat /\ q = (p + 1) + (q - (p + 1))
      BY <1>1
    <3> QED BY <3>1
  <2>2. FirstOf(p + 1) + 28 * k <= FirstOf(q)
    BY <2>1, MonthsLater
  <2> QED BY <1>1, <1>2, <2>2
<1>4. ~(q < p)
  <2> SUFFICES ASSUME q < p PROVE FALSE
    OBVIOUS
  <2>1. PICK k \in Nat : p = (q + 1) + k
    <3>1. p - (q + 1) \in Nat /\ p = (q + 1) + (p - (q + 1))
      BY <1>1
    <3> QED BY <3>1
  <2>2. FirstOf(q + 1) + 28 * k <= FirstOf(p)
    BY <2>1, MonthsLater
  <2> QED BY <1>1, <1>2, <2>2
<1> QED BY <1>1, <1>3, <1>4

-----------------------------------------------------------------------------
(* Time ticks.  The sizes of the ticks of a chart of lines, and of bars.   *)

Sizes == {Drawing!Spec4[i] : i \in 1..14} \cup {<<12, "hour">>}

LEMMA SizeKinds ==
    ASSUME NEW size \in Sizes
    PROVE  \/ /\ size[2] = "hour" /\ size[1] \in {4, 8, 12, 16, 32, 48}
              /\ Drawing!Length(size) = size[1] \div 4
           \/ /\ size[2] = "day" /\ size[1] \in {4, 8, 12}
              /\ Drawing!Length(size) = 6 * size[1]
           \/ /\ size[2] = "month" /\ size[1] \in {1, 2, 4, 8, 12, 24}
              /\ Drawing!Length(size) = 180 * size[1]
<1>1. size \in {<<4, "hour">>, <<8, "hour">>, <<16, "hour">>, <<32, "hour">>, <<48, "hour">>,
                <<12, "hour">>, <<4, "day">>, <<8, "day">>, <<12, "day">>, <<1, "month">>,
                <<2, "month">>, <<4, "month">>, <<8, "month">>, <<12, "month">>, <<24, "month">>}
  BY DEF Sizes, Drawing!Spec4
<1>2. Drawing!Hours["hour"] = 1 /\ Drawing!Hours["day"] = 24 /\ Drawing!Hours["month"] = 720
  BY DEF Drawing!Hours
<1>3. CASE size[2] = "hour"
  <2>1. size[1] \in {4, 8, 12, 16, 32, 48}
    BY <1>1, <1>3
  <2>2. Drawing!Length(size) = (size[1] * 1) \div 4
    BY <1>2, <1>3 DEF Drawing!Length
  <2> QED BY <1>3, <2>1, <2>2
<1>4. CASE size[2] = "day"
  <2>1. size[1] \in {4, 8, 12}
    BY <1>1, <1>4
  <2>2. Drawing!Length(size) = (size[1] * 24) \div 4
    BY <1>2, <1>4 DEF Drawing!Length
  <2> QED BY <1>4, <2>1, <2>2
<1>5. CASE size[2] = "month"
  <2>1. size[1] \in {1, 2, 4, 8, 12, 24}
    BY <1>1, <1>5
  <2>2. Drawing!Length(size) = (size[1] * 720) \div 4
    BY <1>2, <1>5 DEF Drawing!Length
  <2> QED BY <1>5, <2>1, <2>2
<1> QED BY <1>1, <1>3, <1>4, <1>5

LEMMA SizeLength ==
    ASSUME NEW size \in Sizes
    PROVE  /\ Drawing!Length(size) \in Nat \ {0} /\ size[1] \in Nat \ {0}
           /\ size[2] = "hour" <=> Drawing!Length(size) < 24
           /\ size[2] = "month" <=> Drawing!Length(size) >= 4 * 24
           /\ size[2] = "month" /\ size[1] = 4 => Drawing!Length(size) = 720
           /\ size[2] = "month" /\ size[1] < 4 <=> Drawing!Length(size) \in {180, 360}
  BY SizeKinds

\* The offset of a zone is its standard one, or an hour more in summer.
LEMMA Offsets ==
    ASSUME NEW zone \in Drawing!Zones, NEW t \in Int
    PROVE  /\ zone.standard \in Int
           /\ Drawing!Offset(t, zone) = IF Drawing!Summer(t, zone) THEN zone.standard + 1 ELSE zone.standard
<1>1. zone \in [standard : Int, summers : SUBSET [from : Int, to : Int]]
  BY DEF Drawing!Zones
<1>2. PICK s \in Int : s = zone.standard
  BY <1>1
<1>3. Drawing!Offset(t, zone) = s + IF Drawing!Summer(t, zone) THEN 1 ELSE 0
  BY <1>2 DEF Drawing!Offset
<1> QED BY <1>2, <1>3

\* A change of the clock, to summer or from it.
ChangesAt(t, zone) == \E s \in zone.summers : t = s.from \/ t = s.to

LEMMA Changes ==
    ASSUME NEW zone \in Drawing!Zones
    PROVE  /\ \A t \in Int : ChangesAt(t, zone) => (t + zone.standard) % 24 \in 1..22
           /\ \A s \in zone.summers : s.from \in Int /\ s.to \in Int
<1>1. /\ zone \in [standard : Int, summers : SUBSET [from : Int, to : Int]]
      /\ \A s \in zone.summers :
            (s.from + zone.standard) % 24 \in 1..22 /\ (s.to + zone.standard) % 24 \in 1..22
  BY DEF Drawing!Zones
<1>2. \A s \in zone.summers : s \in [from : Int, to : Int]
  BY <1>1
<1> QED BY <1>1, <1>2 DEF ChangesAt

\* Where the clock is not changed after a, up to b, it stays as it is at a.
Still(a, b, zone) == \A s \in zone.summers : \A t \in {s.from, s.to} : ~(a < t /\ t <= b)

LEMMA StillTime ==
    ASSUME NEW zone \in Drawing!Zones, NEW u \in Int, NEW v \in Int, u <= v,
           \A t \in Int : u < t /\ t <= v => ~ChangesAt(t, zone)
    PROVE  /\ Drawing!Summer(u, zone) <=> Drawing!Summer(v, zone)
           /\ Drawing!Offset(u, zone) = Drawing!Offset(v, zone)
<1>1. ASSUME Drawing!Summer(u, zone) PROVE Drawing!Summer(v, zone)
  <2>1. PICK s \in zone.summers : s.from <= u /\ u < s.to
    BY <1>1 DEF Drawing!Summer
  <2>2. s.from \in Int /\ s.to \in Int
    BY Changes
  <2>3. ~(s.to <= v)
    BY <2>1, <2>2 DEF ChangesAt
  <2>4. s.from <= v /\ v < s.to
    BY <2>1, <2>2, <2>3
  <2> QED BY <2>4 DEF Drawing!Summer
<1>2. ASSUME Drawing!Summer(v, zone) PROVE Drawing!Summer(u, zone)
  <2>1. PICK s \in zone.summers : s.from <= v /\ v < s.to
    BY <1>2 DEF Drawing!Summer
  <2>2. s.from \in Int /\ s.to \in Int
    BY Changes
  <2>3. ~(u < s.from)
    BY <2>1, <2>2 DEF ChangesAt
  <2>4. s.from <= u /\ u < s.to
    BY <2>1, <2>2, <2>3
  <2> QED BY <2>4 DEF Drawing!Summer
<1> QED BY <1>1, <1>2 DEF Drawing!Offset

LEMMA StillOffset ==
    ASSUME NEW zone \in Drawing!Zones, NEW a \in Int, NEW b \in Int, Still(a, b, zone),
           NEW u \in Int, NEW v \in Int, a <= u, u <= b, a <= v, v <= b
    PROVE  Drawing!Offset(u, zone) = Drawing!Offset(v, zone)
<1>1. \A t \in Int : a < t /\ t <= b => ~ChangesAt(t, zone)
  BY DEF Still, ChangesAt
<1>2. CASE u <= v
  <2>1. \A t \in Int : u < t /\ t <= v => ~ChangesAt(t, zone)
    BY <1>1
  <2> QED BY <1>2, <2>1, StillTime
<1>3. CASE v <= u
  <2>1. \A t \in Int : v < t /\ t <= u => ~ChangesAt(t, zone)
    BY <1>1
  <2> QED BY <1>3, <2>1, StillTime
<1> QED BY <1>2, <1>3

\* A time is its local day and hour.
LEMMA LocalParts ==
    ASSUME NEW zone \in Drawing!Zones, NEW t \in Int
    PROVE  /\ Drawing!LocalDay(t, zone) \in Int /\ Drawing!LocalHour(t, zone) \in 0..23
           /\ Drawing!Offset(t, zone) \in Int
           /\ t = 24 * Drawing!LocalDay(t, zone) + Drawing!LocalHour(t, zone) - Drawing!Offset(t, zone)
<1>0. PICK o \in Int : o = Drawing!Offset(t, zone)
  BY Offsets
<1>1. PICK s \in Int : s = t + o
  OBVIOUS
<1>2. PICK a \in Int : a = s \div 24 /\ 24 * a <= s /\ s < 24 * a + 24
  OBVIOUS
<1>3. PICK r \in 0..23 : r = s - 24 * a
  BY <1>2
<1>4. s = 24 * a + r
  BY <1>2, <1>3
<1>5. s % 24 = r
  BY <1>4
<1>6. Drawing!LocalDay(t, zone) = a /\ Drawing!LocalHour(t, zone) = r
  BY <1>0, <1>1, <1>2, <1>5 DEF Drawing!LocalDay, Drawing!LocalHour
<1>7. t = 24 * a + r - o
  BY <1>1, <1>4
<1> QED BY <1>0, <1>6, <1>7

\* The parts of a time from its sum with the offset.
LEMMA PartsOf ==
    ASSUME NEW zone, NEW t \in Int, NEW o \in Int, o = Drawing!Offset(t, zone),
           NEW d \in Int, NEW h \in 0..23, t + o = 24 * d + h
    PROVE  Drawing!LocalDay(t, zone) = d /\ Drawing!LocalHour(t, zone) = h
<1>1. PICK s \in Int : s = t + o /\ s = 24 * d + h
  OBVIOUS
<1>2. s \div 24 = d /\ s % 24 = h
  BY <1>1
<1> QED BY <1>1, <1>2 DEF Drawing!LocalDay, Drawing!LocalHour

LEMMA LocalOf ==
    ASSUME NEW zone \in Drawing!Zones, NEW d \in Int, NEW h \in Int
    PROVE  /\ Drawing!Local(d, h, zone) \in Int /\ zone.standard \in Int
           /\ Drawing!Local(d, h, zone) = IF Drawing!Summer(24 * d + h - zone.standard - 1, zone)
                                          THEN 24 * d + h - zone.standard - 1
                                          ELSE 24 * d + h - zone.standard
           /\ 24 * d + h - zone.standard - 1 <= Drawing!Local(d, h, zone)
           /\ Drawing!Local(d, h, zone) <= 24 * d + h - zone.standard
<1>1. PICK s \in Int : s = zone.standard
  BY DEF Drawing!Zones
<1>2. PICK x \in Int : x = 24 * d + h - s
  OBVIOUS
<1>3. Drawing!Local(d, h, zone) = IF Drawing!Summer(x - 1, zone) THEN x - 1 ELSE x
  BY <1>1, <1>2 DEF Drawing!Local
<1> QED BY <1>1, <1>2, <1>3

\* Every day has a midnight, and one.
LEMMA LocalMidnight ==
    ASSUME NEW zone \in Drawing!Zones, NEW d \in Int
    PROVE  /\ Drawing!LocalDay(Drawing!Local(d, 0, zone), zone) = d
           /\ Drawing!LocalHour(Drawing!Local(d, 0, zone), zone) = 0
<1>1. PICK s \in Int : s = zone.standard
  BY Offsets
<1>2. PICK x \in Int : x = 24 * d + 0 - s
  OBVIOUS
<1>3. Drawing!Local(d, 0, zone) = IF Drawing!Summer(x - 1, zone) THEN x - 1 ELSE x
  BY <1>1, <1>2, LocalOf
<1>4. CASE Drawing!Summer(x - 1, zone)
  <2>1. PICK t \in Int : t = x - 1
    OBVIOUS
  <2>2. Drawing!Offset(t, zone) = s + 1
    BY <1>1, <1>4, <2>1, Offsets
  <2>3. t + (s + 1) = 24 * d + 0
    BY <1>2, <2>1
  <2>4. Drawing!LocalDay(t, zone) = d /\ Drawing!LocalHour(t, zone) = 0
    BY <2>2, <2>3, PartsOf
  <2> QED BY <1>3, <1>4, <2>1, <2>4
<1>5. CASE ~Drawing!Summer(x - 1, zone)
  <2>1. (x + s) % 24 = 0
    BY <1>2
  <2>2. ~ChangesAt(x, zone)
    BY <1>1, <2>1, Changes
  <2>3. PICK u \in Int : u = x - 1 /\ u <= x /\ \A t \in Int : u < t /\ t <= x => t = x
    OBVIOUS
  <2>4. ~Drawing!Summer(x, zone)
    BY <1>5, <2>2, <2>3, StillTime
  <2>5. Drawing!Offset(x, zone) = s
    BY <1>1, <2>4, Offsets
  <2>6. x + s = 24 * d + 0
    BY <1>2
  <2>7. Drawing!LocalDay(x, zone) = d /\ Drawing!LocalHour(x, zone) = 0
    BY <2>5, <2>6, PartsOf
  <2> QED BY <1>3, <1>5, <2>7
<1> QED BY <1>4, <1>5

LEMMA MidnightIs ==
    ASSUME NEW zone \in Drawing!Zones, NEW t \in Int, Drawing!LocalHour(t, zone) = 0
    PROVE  t = Drawing!Local(Drawing!LocalDay(t, zone), 0, zone)
<1>1. PICK s \in Int : s = zone.standard
  BY Offsets
<1>2. PICK d \in Int, o \in Int :
         d = Drawing!LocalDay(t, zone) /\ o = Drawing!Offset(t, zone) /\ t = 24 * d + 0 - o
  BY LocalParts
<1>3. PICK x \in Int : x = 24 * d + 0 - s
  OBVIOUS
<1>4. Drawing!Local(d, 0, zone) = IF Drawing!Summer(x - 1, zone) THEN x - 1 ELSE x
  BY <1>1, <1>3, LocalOf
<1>5. CASE Drawing!Summer(t, zone)
  <2>1. o = s + 1
    BY <1>1, <1>2, <1>5, Offsets
  <2>20. t = 24 * d + 0 - o /\ x = 24 * d + 0 - s
    BY <1>2, <1>3
  <2>2. t = x - 1
    BY <2>1, <2>20
  <2> QED BY <1>2, <1>4, <1>5, <2>2
<1>6. CASE ~Drawing!Summer(t, zone)
  <2>1. o = s
    BY <1>1, <1>2, <1>6, Offsets
  <2>2. t = x
    BY <1>2, <1>3, <2>1
  <2>3. (x + s) % 24 = 0
    BY <1>3
  <2>4. ~ChangesAt(x, zone)
    BY <1>1, <2>3, Changes
  <2>5. PICK u \in Int : u = x - 1 /\ u <= x /\ \A y \in Int : u < y /\ y <= x => y = x
    OBVIOUS
  <2>6. ~Drawing!Summer(x - 1, zone)
    BY <1>6, <2>2, <2>4, <2>5, StillTime
  <2> QED BY <1>2, <1>4, <2>2, <2>6
<1> QED BY <1>5, <1>6

\* A local day and hour that is not after a time's is not after the time.
LEMMA LocalNotAfter ==
    ASSUME NEW zone \in Drawing!Zones, NEW t \in Int, NEW d \in Int, NEW h \in Int,
           24 * d + h <= 24 * Drawing!LocalDay(t, zone) + Drawing!LocalHour(t, zone)
    PROVE  Drawing!Local(d, h, zone) <= t
<1>1. PICK s \in Int : s = zone.standard
  BY Offsets
<1>2. PICK x \in Int : x = 24 * d + h - s
  OBVIOUS
<1>3. Drawing!Local(d, h, zone) = IF Drawing!Summer(x - 1, zone) THEN x - 1 ELSE x
  BY <1>1, <1>2, LocalOf
<1>4. PICK a \in Int, b \in Int, o \in Int :
         /\ a = Drawing!LocalDay(t, zone) /\ b = Drawing!LocalHour(t, zone)
         /\ o = Drawing!Offset(t, zone) /\ t = 24 * a + b - o
  <2>1. /\ Drawing!LocalDay(t, zone) \in Int /\ Drawing!LocalHour(t, zone) \in 0..23
        /\ Drawing!Offset(t, zone) \in Int
        /\ t = 24 * Drawing!LocalDay(t, zone) + Drawing!LocalHour(t, zone) - Drawing!Offset(t, zone)
    BY LocalParts
  <2>2. Drawing!LocalHour(t, zone) \in Int
    BY <2>1
  <2> QED BY <2>1, <2>2
<1>5. 24 * d + h <= t + o
  BY <1>4
<1>6. CASE Drawing!Summer(t, zone)
  <2>1. o = s + 1
    BY <1>1, <1>4, <1>6, Offsets
  <2>2. x - 1 <= t
    BY <1>2, <1>5, <2>1
  <2>3. t = x - 1 \/ x <= t
    BY <2>2
  <2> QED BY <1>3, <1>6, <2>2, <2>3
<1>7. CASE ~Drawing!Summer(t, zone)
  <2>1. o = s
    BY <1>1, <1>4, <1>7, Offsets
  <2>2. x <= t
    BY <1>2, <1>5, <2>1
  <2> QED BY <1>3, <2>2
<1> QED BY <1>6, <1>7

\* Midnights follow the days.
LEMMA MidnightsInOrder ==
    ASSUME NEW zone \in Drawing!Zones, NEW d \in Int, NEW e \in Int
    PROVE  /\ Drawing!Local(d, 0, zone) \in Int /\ Drawing!Local(e, 0, zone) \in Int
           /\ Drawing!Local(d, 0, zone) + 24 * (e - d) - 1 <= Drawing!Local(e, 0, zone)
           /\ Drawing!Local(d, 0, zone) <= Drawing!Local(e, 0, zone) => d <= e
<1>1. PICK s \in Int : s = zone.standard
  BY Offsets
<1>2. PICK u \in Int : u = Drawing!Local(d, 0, zone) /\ 24 * d + 0 - s - 1 <= u /\ u <= 24 * d + 0 - s
  BY <1>1, LocalOf
<1>3. PICK v \in Int : v = Drawing!Local(e, 0, zone) /\ 24 * e + 0 - s - 1 <= v /\ v <= 24 * e + 0 - s
  BY <1>1, LocalOf
<1>4. u + 24 * (e - d) - 1 <= v
  BY <1>2, <1>3
<1>5. u <= v => d <= e
  BY <1>2, <1>3
<1> QED BY <1>2, <1>3, <1>4, <1>5

\* Hours that are counted in days of 24 stay on the hour of the clock, or go astray by one.
NearMidnight(h) == \E o \in {-1, 0, 1} : (h + o) % 24 = 0

LEMMA DaysOnTheClock ==
    ASSUME NEW zone \in Drawing!Zones, NEW v \in Int, Drawing!LocalHour(v, zone) = 0,
           NEW k \in Int, NEW w \in Int, w = v + 24 * k
    PROVE  /\ NearMidnight(Drawing!LocalHour(w, zone))
           /\ Drawing!Offset(v, zone) = Drawing!Offset(w, zone) => Drawing!LocalHour(w, zone) = 0
<1>1. PICK s \in Int : s = zone.standard
  BY Offsets
<1>2. PICK a \in Int, p \in {s, s + 1} : p = Drawing!Offset(v, zone) /\ v = 24 * a + 0 - p
  <2>1. Drawing!Offset(v, zone) \in {s, s + 1}
    BY <1>1, Offsets
  <2> QED BY <2>1, LocalParts
<1>3. PICK b \in Int, h \in 0..23, q \in {s, s + 1} :
         q = Drawing!Offset(w, zone) /\ h = Drawing!LocalHour(w, zone) /\ w = 24 * b + h - q
  <2>1. Drawing!Offset(w, zone) \in {s, s + 1}
    BY <1>1, Offsets
  <2>2. /\ Drawing!LocalDay(w, zone) \in Int /\ Drawing!LocalHour(w, zone) \in 0..23
        /\ w = 24 * Drawing!LocalDay(w, zone) + Drawing!LocalHour(w, zone) - Drawing!Offset(w, zone)
    BY LocalParts
  <2> QED BY <2>1, <2>2
<1>4. PICK o \in {-1, 0, 1} : o = p - q /\ (p = q => o = 0)
  BY <1>1
<1>5. h + o = 24 * (a + k - b)
  <2>1. p \in Int /\ q \in Int /\ h \in Int /\ o = p - q
    BY <1>1, <1>3, <1>4
  <2>2. PICK x \in Int, y \in Int, z \in Int : x = 24 * a /\ y = 24 * b /\ z = 24 * k
    OBVIOUS
  <2>30. v = x + 0 - p
    BY <1>2, <2>2
  <2>31. w = y + h - q
    BY <1>3, <2>2
  <2>32. w = v + z
    BY <2>2
  <2>4. h + (p - q) = x + z - y
    BY <2>1, <2>30, <2>31, <2>32
  <2>5. 24 * (a + k - b) = x + z - y
    BY <2>2
  <2> QED BY <2>1, <2>4, <2>5
<1>6. PICK c \in Int : c = a + k - b
  OBVIOUS
<1>7. (h + o) % 24 = 0
  BY <1>3, <1>4, <1>5, <1>6
<1>8. p = q => h = 0
  BY <1>3, <1>4, <1>5, <1>6
<1>9. NearMidnight(h)
  BY <1>4, <1>7 DEF NearMidnight
<1> QED BY <1>2, <1>3, <1>8, <1>9

LEMMA FirstsInOrder ==
    ASSUME NEW p \in Int, NEW q \in Int, p <= q
    PROVE  FirstOf(p) \in Int /\ FirstOf(q) \in Int /\ FirstOf(p) + 28 * (q - p) <= FirstOf(q)
<1>1. PICK k \in Nat : k = q - p /\ q = p + k
  <2>1. q - p \in Nat /\ q = p + (q - p)
    OBVIOUS
  <2> QED BY <2>1
<1> QED BY <1>1, MonthDays, MonthsLater

LEMMA FloorsBelow ==
    ASSUME NEW n \in Int, NEW b \in Nat \ {0}
    PROVE  /\ Drawing!floorInBase(n, b) \in Int /\ Drawing!floorInBase(n, b) <= n
           /\ n < Drawing!floorInBase(n, b) + b
           /\ b = 1 => Drawing!floorInBase(n, b) = n
<1>1. PICK a \in Int : a = n \div b /\ b * a <= n /\ n < b * a + b
  OBVIOUS
<1>2. PICK p \in Int : p = b * a
  BY <1>1
<1>3. p <= n /\ n < p + b
  BY <1>1, <1>2
<1>4. b = 1 => p = n
  BY <1>3
<1>5. Drawing!floorInBase(n, b) = p
  BY <1>1, <1>2 DEF Drawing!floorInBase
<1> QED BY <1>2, <1>3, <1>4, <1>5

\* A month that is rounded down to a multiple of b is not a later one.
LEMMA FloorsMonth ==
    ASSUME NEW n \in Int, NEW b \in Nat \ {0}
    PROVE  \E q \in Int :
              /\ q <= MonthOf(n)
              /\ b = 1 => q = MonthOf(n)
              /\ FirstOf(q) \in Int /\ FirstOf(q) <= FirstOf(MonthOf(n))
              /\ \A d \in Int : Drawing!UTCDate(Drawing!Year(n), Drawing!floorInBase(Drawing!Month(n), b), d)
                                   = FirstOf(q) + d - 1
<1>1. PICK y \in Int, m \in 0..11 : y = Drawing!Year(n) /\ m = Drawing!Month(n)
  BY YearOfDay, MonthOfAYear
<1>2. PICK f \in Int : f = Drawing!floorInBase(m, b)
  BY FloorsBelow
<1>3. PICK p \in Int : p = MonthOf(n) /\ p = 12 * y + m
  BY <1>1 DEF MonthOf
<1>4. PICK q \in Int : q = 12 * y + f
  OBVIOUS
<1>5. f <= m /\ (b = 1 => f = m)
  BY <1>1, FloorsBelow, <1>2
<1>6. q <= p /\ (b = 1 => q = p)
  BY <1>3, <1>4, <1>5
<1>7. FirstOf(q) \in Int /\ FirstOf(q) <= FirstOf(p)
  <2>1. FirstOf(q) \in Int /\ FirstOf(p) \in Int /\ FirstOf(q) + 28 * (p - q) <= FirstOf(p)
    BY <1>6, FirstsInOrder
  <2> QED BY <1>6, <2>1
<1>8. \A d \in Int : Drawing!UTCDate(y, f, d) = FirstOf(q) + d - 1
  BY <1>4, DateOfMonth
<1> QED BY <1>1, <1>2, <1>3, <1>6, <1>7, <1>8

\* The ticks start at or before the least value: with days at midnight, with months, or parts of
\* them, on the first of a month; with single months in the month of the least value.
LEMMA FirstTickIs ==
    ASSUME NEW zone \in Drawing!Zones, NEW t \in Int, NEW size \in Sizes
    PROVE  \E f \in Int :
              /\ f = Drawing!FirstTick(t, size, zone) /\ f <= t
              /\ Drawing!Length(size) >= 24 => Drawing!LocalHour(f, zone) = 0
              /\ size[2] = "day" => t - 24 <= f
              /\ size[2] = "month" => \E q \in Int :
                    /\ Drawing!LocalDay(f, zone) = FirstOf(q)
                    /\ size[1] = 4 => q = MonthOf(Drawing!LocalDay(t, zone))
<1> DEFINE day   == Drawing!LocalDay(t, zone)
           len  == Drawing!Length(size)
           n     == size[1] \div 4
           hour  == IF size[2] = "hour" THEN Drawing!floorInBase(Drawing!LocalHour(t, zone), n)
                    ELSE Drawing!LocalHour(t, zone)
           month == IF size[2] = "month" /\ n >= 1
                    THEN Drawing!UTCDate(Drawing!Year(day), Drawing!floorInBase(Drawing!Month(day), n),
                                         Drawing!Day(day)) ELSE day
           first == IF len >= 4 * 24
                    THEN Drawing!UTCDate(Drawing!Year(month), Drawing!Month(month), 1) ELSE month
           third == IF len >= 2 * 720
                    THEN Drawing!UTCDate(Drawing!Year(first),
                            Drawing!floorInBase(Drawing!Month(first), IF len >= 6 * 720 THEN 6 ELSE 3), 1)
                    ELSE first
<1>1. Drawing!FirstTick(t, size, zone) = Drawing!Local(third, IF len >= 24 THEN 0 ELSE hour, zone)
  BY DEF Drawing!FirstTick
<1>2. len \in Nat \ {0} /\ size[1] \in Nat \ {0}
  BY SizeLength
<1>3. PICK d \in Int, h \in 0..23 : d = day /\ h = Drawing!LocalHour(t, zone) /\ d = Drawing!LocalDay(t, zone)
  <2>1. Drawing!LocalDay(t, zone) \in Int /\ Drawing!LocalHour(t, zone) \in 0..23
    BY LocalParts
  <2> QED BY <2>1
<1>31. ASSUME NEW e \in Int, NEW k \in Int, 24 * e + k <= 24 * d + h
       PROVE  Drawing!Local(e, k, zone) <= t
  <2>1. 24 * e + k <= 24 * Drawing!LocalDay(t, zone) + Drawing!LocalHour(t, zone)
    BY <1>3, <1>31
  <2> QED BY <2>1, LocalNotAfter
<1>30. Drawing!Length(size) = len
  OBVIOUS
<1> HIDE DEF day, len, n, hour, month, first, third
<1>4. CASE size[2] = "hour"
  <2>1. len < 24 /\ size[1] \in {4, 8, 12, 16, 32, 48}
    BY <1>4, SizeKinds DEF len
  <2>20. month = d
    BY <1>3, <1>4 DEF month
  <2>21. first = d
    BY <2>1, <2>20, <1>2 DEF first
  <2>2. third = d
    BY <2>1, <2>21, <1>2 DEF third
  <2>3. n \in Nat \ {0}
    BY <2>1 DEF n
  <2>40. hour = Drawing!floorInBase(h, n)
    BY <1>3, <1>4 DEF hour
  <2>4. PICK k \in Int : k = hour /\ k <= h /\ h < k + n
    <3>1. h \in Int
      BY <1>3
    <3>2. PICK k \in Int : k = Drawing!floorInBase(h, n)
      BY <2>3, <3>1, FloorsBelow
    <3> QED BY <2>3, <2>40, <3>1, <3>2, FloorsBelow
  <2>5. 0 <= k
    <3>1. k = n * (h \div n)
      BY <2>4, <2>40 DEF Drawing!floorInBase
    <3>2. h \div n >= 0
      BY <1>3, <2>3
    <3>3. PICK e \in Nat : e = h \div n
      BY <1>3, <2>3, <3>2
    <3>4. n * e >= 0
      BY <2>3, <3>3
    <3> QED BY <3>1, <3>3, <3>4
  <2>6. k \in 0..23
    BY <1>3, <2>4, <2>5
  <2>7. Drawing!FirstTick(t, size, zone) = Drawing!Local(d, k, zone)
    BY <1>1, <1>2, <2>1, <2>2, <2>4
  <2>8. PICK f \in Int : f = Drawing!Local(d, k, zone)
    BY <2>4, LocalOf
  <2>9. f <= t
    <3>1. 24 * d + k <= 24 * d + h
      BY <1>3, <2>4
    <3> QED BY <1>31, <2>8, <3>1
  <2>10. ~(len >= 24) /\ size[2] # "month" /\ size[2] # "day"
    BY <1>2, <1>4, <2>1
  <2> QED BY <1>30, <2>7, <2>8, <2>9, <2>10
<1>5. CASE size[2] = "day"
  <2>1. len \in {24, 48, 72}
    BY <1>5, SizeKinds DEF len
  <2>20. month = d
    BY <1>3, <1>5 DEF month
  <2>21. first = d
    BY <2>1, <2>20 DEF first
  <2>2. third = d
    BY <2>1, <2>21 DEF third
  <2>3. Drawing!FirstTick(t, size, zone) = Drawing!Local(d, 0, zone)
    BY <1>1, <2>1, <2>2
  <2>4. PICK f \in Int : f = Drawing!Local(d, 0, zone) /\ Drawing!LocalHour(f, zone) = 0
    <3>1. Drawing!Local(d, 0, zone) \in Int
      BY LocalOf
    <3>2. Drawing!LocalHour(Drawing!Local(d, 0, zone), zone) = 0
      BY LocalMidnight
    <3> QED BY <3>1, <3>2
  <2>5. f <= t
    <3>1. 24 * d + 0 <= 24 * d + h
      BY <1>3
    <3> QED BY <1>31, <2>4, <3>1
  <2>6. t - 24 <= f
    <3>1. PICK s \in Int : s = zone.standard
      BY Offsets
    <3>2. PICK o \in {s, s + 1} : o = Drawing!Offset(t, zone)
      BY <3>1, Offsets
    <3>3. t = 24 * d + h - o
      BY <1>3, <3>2, LocalParts
    <3>4. 24 * d + 0 - s - 1 <= f
      BY <2>4, <3>1, LocalOf
    <3> QED BY <1>3, <2>4, <3>2, <3>3, <3>4
  <2> QED BY <1>5, <2>3, <2>4, <2>5, <2>6
<1>6. CASE size[2] = "month"
  <2>1. len \in Nat /\ len >= 180 /\ n \in Nat /\ (size[1] = 4 => n = 1 /\ len = 720)
    <3>1. size[1] \in {1, 2, 4, 8, 12, 24} /\ len = 180 * size[1]
      BY <1>6, SizeKinds DEF len
    <3>2. \A x \in {1, 2, 4, 8, 12, 24} :
             180 * x \in Nat /\ 180 * x >= 180 /\ x \div 4 \in Nat /\ 4 \div 4 = 1 /\ 180 * 4 = 720
      OBVIOUS
    <3> QED BY <3>1, <3>2 DEF n
  <2>2. PICK p \in Int : p = MonthOf(d) /\ FirstOf(p) \in Int /\ FirstOf(p) <= d
    <3>1. MonthOf(d) \in Int /\ FirstOf(MonthOf(d)) <= d
      BY DayInMonth
    <3> QED BY <3>1, MonthDays
  <2>3. PICK e \in Int : e = month /\ e <= d /\ (n = 1 => e = d)
    <3>1. CASE n >= 1
      <4>1. n \in Nat \ {0}
        BY <2>1, <3>1
      <4>2. PICK q \in Int :
              /\ q <= MonthOf(d)
              /\ n = 1 => q = MonthOf(d)
              /\ FirstOf(q) \in Int /\ FirstOf(q) <= FirstOf(MonthOf(d))
              /\ \A x \in Int : Drawing!UTCDate(Drawing!Year(d), Drawing!floorInBase(Drawing!Month(d), n), x)
                                   = FirstOf(q) + x - 1
        BY <4>1, FloorsMonth
      <4>3. PICK x \in Int : x = Drawing!Day(d) /\ x = d - FirstOf(p) + 1
        BY <2>2, DayInMonth
      <4>4. month = FirstOf(q) + x - 1
        BY <1>3, <1>6, <3>1, <4>2, <4>3 DEF month
      <4>5. PICK a \in Int, b \in Int : a = FirstOf(q) /\ b = FirstOf(p) /\ a <= b /\ (n = 1 => a = b)
        BY <2>2, <4>2
      <4>6. a + x - 1 \in Int /\ a + x - 1 <= d /\ (n = 1 => a + x - 1 = d)
        BY <4>3, <4>5
      <4> QED BY <4>4, <4>5, <4>6
    <3>2. CASE ~(n >= 1)
      <4>1. month = d /\ n # 1
        BY <1>3, <3>2, <2>1 DEF month
      <4> QED BY <4>1
    <3> QED BY <3>1, <3>2
  <2>4. PICK q \in Int, f \in Int :
           /\ f = first /\ f = FirstOf(q) /\ f <= d /\ q = MonthOf(e)
    <3>1. PICK q \in Int, f \in Int : q = MonthOf(e) /\ f = FirstOf(q) /\ f <= e
      <4>1. MonthOf(e) \in Int /\ FirstOf(MonthOf(e)) <= e
        BY DayInMonth
      <4> QED BY <4>1, MonthDays
    <3>2. PICK y \in Int, m \in 0..11 : y = Drawing!Year(e) /\ m = Drawing!Month(e)
      BY YearOfDay, MonthOfAYear
    <3>3. Drawing!UTCDate(y, m, 1) = FirstOf(12 * y + m) + 1 - 1
      BY <3>2, DateOfMonth
    <3>4. 12 * y + m = q
      BY <3>1, <3>2 DEF MonthOf
    <3>50. first = Drawing!UTCDate(y, m, 1)
      BY <2>1, <2>3, <3>2 DEF first
    <3>5. first = f
      BY <3>1, <3>3, <3>4, <3>50
    <3>6. f <= d
      BY <2>3, <3>1
    <3> QED BY <3>1, <3>5, <3>6
  <2>5. PICK r \in Int, g \in Int :
           /\ g = third /\ g = FirstOf(r) /\ g <= d /\ (size[1] = 4 => r = q)
    <3>1. CASE len >= 2 * 720
      <4>1. size[1] # 4
        BY <2>1, <3>1
      <4> DEFINE b == IF len >= 6 * 720 THEN 6 ELSE 3
      <4>2. b \in Nat \ {0}
        OBVIOUS
      <4>3. third = Drawing!UTCDate(Drawing!Year(f), Drawing!floorInBase(Drawing!Month(f), b), 1)
        BY <2>4, <3>1 DEF third
      <4> HIDE DEF b
      <4>4. PICK r \in Int :
              /\ FirstOf(r) \in Int /\ FirstOf(r) <= FirstOf(MonthOf(f))
              /\ \A x \in Int : Drawing!UTCDate(Drawing!Year(f), Drawing!floorInBase(Drawing!Month(f), b), x)
                                   = FirstOf(r) + x - 1
        BY <4>2, FloorsMonth
      <4>5. third = FirstOf(r) + 1 - 1
        BY <4>3, <4>4
      <4>6. PICK g \in Int, c \in Int : g = FirstOf(r) /\ c = FirstOf(MonthOf(f)) /\ g <= c /\ c <= f
        <5>1. MonthOf(f) \in Int /\ FirstOf(MonthOf(f)) <= f
          BY DayInMonth
        <5> QED BY <4>4, <5>1, MonthDays
      <4>7. g <= d
        BY <2>4, <4>6
      <4> QED BY <4>1, <4>5, <4>6, <4>7
    <3>2. CASE ~(len >= 2 * 720)
      BY <2>4, <3>2 DEF third
    <3> QED BY <3>1, <3>2
  <2>6. Drawing!FirstTick(t, size, zone) = Drawing!Local(g, 0, zone)
    BY <1>1, <2>1, <2>5
  <2>7. PICK f0 \in Int : /\ f0 = Drawing!Local(g, 0, zone)
                          /\ Drawing!LocalHour(f0, zone) = 0 /\ Drawing!LocalDay(f0, zone) = g
    <3>1. Drawing!Local(g, 0, zone) \in Int
      BY LocalOf
    <3>2. /\ Drawing!LocalHour(Drawing!Local(g, 0, zone), zone) = 0
          /\ Drawing!LocalDay(Drawing!Local(g, 0, zone), zone) = g
      BY LocalMidnight
    <3> QED BY <3>1, <3>2
  <2>8. f0 <= t
    <3>1. 24 * g + 0 <= 24 * d + h
      BY <1>3, <2>5
    <3> QED BY <1>31, <2>7, <3>1
  <2>9. size[1] = 4 => r = MonthOf(d)
    BY <2>1, <2>3, <2>4, <2>5
  <2>10. d = Drawing!LocalDay(t, zone)
    BY <1>3
  <2>11. \E x \in Int : /\ Drawing!LocalDay(f0, zone) = FirstOf(x)
                        /\ size[1] = 4 => x = MonthOf(Drawing!LocalDay(t, zone))
    BY <2>5, <2>7, <2>9, <2>10
  <2>12. f0 = Drawing!FirstTick(t, size, zone)
    BY <2>6, <2>7
  <2>13. size[2] # "day"
    BY <1>6
  <2> QED BY <2>7, <2>8, <2>11, <2>12, <2>13
<1> QED BY <1>4, <1>5, <1>6, SizeKinds

\* Each tick is later than the one before: by the size, where it is hours or days; with months, or
\* parts of them, at a midnight after a midnight, and with whole months on the first of a later one.
TickAfter(v, w, size, zone) ==
    /\ v < w
    /\ size[2] # "month" => w = v + Drawing!Length(size)
    /\ size[2] = "month" /\ Drawing!LocalHour(v, zone) = 0 =>
          /\ Drawing!LocalHour(w, zone) = 0
          /\ size[1] >= 4 => \A q \in Int : Drawing!LocalDay(v, zone) = FirstOf(q)
                                 => Drawing!LocalDay(w, zone) = FirstOf(q + size[1] \div 4)

LEMMA NextTickIs ==
    ASSUME NEW zone \in Drawing!Zones, NEW v \in Int, NEW c \in 0..95, NEW size \in Sizes
    PROVE  \E w \in Int, e \in 0..95 :
              Drawing!NextTick(v, c, size, zone) = <<w, e>> /\ TickAfter(v, w, size, zone)
<1>1. PICK d \in Int, h \in 0..23 : d = Drawing!LocalDay(v, zone) /\ h = Drawing!LocalHour(v, zone)
  <2>1. Drawing!LocalDay(v, zone) \in Int /\ Drawing!LocalHour(v, zone) \in 0..23
    BY LocalParts
  <2> QED BY <2>1
<1>10. zone.standard \in Int /\ v <= 24 * d + h - zone.standard /\ 24 * d + h - zone.standard - 1 <= v
  <2>1. PICK s \in Int : s = zone.standard
    BY Offsets
  <2>2. PICK o \in {s, s + 1} : o = Drawing!Offset(v, zone)
    BY <2>1, Offsets
  <2>3. v = 24 * d + h - o
    BY <1>1, <2>2, LocalParts
  <2> QED BY <1>1, <2>1, <2>2, <2>3
<1>2. CASE size[2] # "month"
  <2>1. Drawing!NextTick(v, c, size, zone) = <<v + Drawing!Length(size), c>>
    BY <1>2 DEF Drawing!NextTick
  <2>2. PICK l \in Nat \ {0} : l = Drawing!Length(size)
    BY SizeLength
  <2>3. PICK w \in Int : w = v + l /\ v < w
    BY <2>2
  <2>5. TickAfter(v, w, size, zone)
    BY <1>2, <2>2, <2>3 DEF TickAfter
  <2> QED BY <2>1, <2>2, <2>3, <2>5
<1>3. CASE size[2] = "month"
  <2>1. PICK p \in Int : p = MonthOf(d)
    BY DayInMonth
  <2>2. PICK y0 \in Int, m \in 0..11 : y0 = Drawing!Year(d) /\ m = Drawing!Month(d)
    BY YearOfDay, MonthOfAYear
  <2>3. 12 * y0 + m = p
    BY <2>1, <2>2 DEF MonthOf
  <2>4. PICK a \in Int : a = FirstOf(p) /\ a <= d
    BY <2>1, DayInMonth, MonthDays
  <2>5. PICK b \in Int : b = FirstOf(p + 1) /\ a + 28 <= b
    <3>1. p + 1 \in Int
      OBVIOUS
    <3> QED BY <2>4, <3>1, MonthDays
  <2>6. Drawing!UTCDate(y0, m, 1) = a
    <3>1. Drawing!UTCDate(y0, m, 1) = FirstOf(12 * y0 + m) + 1 - 1
      BY <2>2, DateOfMonth
    <3> QED BY <2>3, <2>4, <3>1
  <2>7. CASE size[1] >= 4
    <3>1. PICK k \in Nat \ {0} : k = size[1] \div 4
      <4>1. size[1] \in {1, 2, 4, 8, 12, 24}
        BY <1>3, SizeKinds
      <4> QED BY <2>7, <4>1
    <3>2. Drawing!NextTick(v, c, size, zone)
             = <<Drawing!Local(Drawing!UTCDate(y0, m + k, d - a + 1), h, zone), c>>
      BY <1>1, <1>3, <2>2, <2>6, <2>7, <3>1 DEF Drawing!NextTick
    <3>3. PICK x \in Int : x = d - a + 1
      OBVIOUS
    <3>4. PICK g \in Int : g = FirstOf(p + k) /\ a + 28 * k <= g
      <4>1. p + k \in Int
        OBVIOUS
      <4> QED BY <2>4, <4>1, MonthDays, MonthsLater
    <3>5. Drawing!UTCDate(y0, m + k, x) = g + x - 1
      <4>1. m + k \in Int /\ 12 * y0 + (m + k) = p + k
        BY <2>3
      <4>2. Drawing!UTCDate(y0, m + k, x) = FirstOf(12 * y0 + (m + k)) + x - 1
        BY <4>1, DateOfMonth
      <4> QED BY <3>4, <4>1, <4>2
    <3>6. PICK i \in Int : i = g + x - 1
      OBVIOUS
    <3>7. PICK w \in Int : w = Drawing!Local(i, h, zone) /\ 24 * i + h - zone.standard - 1 <= w
      BY <1>1, <3>6, LocalOf
    <3>8. Drawing!NextTick(v, c, size, zone) = <<w, c>>
      BY <3>2, <3>3, <3>5, <3>6, <3>7
    <3>9. d < i
      BY <3>1, <3>3, <3>4, <3>6
    <3>10. v < w
      <4>1. PICK s \in Int : s = zone.standard
        BY <1>10
      <4>2. d + 1 <= i /\ v <= 24 * d + h - s /\ 24 * i + h - s - 1 <= w
        BY <1>10, <3>6, <3>7, <3>9, <4>1
      <4> QED BY <1>1, <3>6, <4>1, <4>2
    <3>11. ASSUME NEW q \in Int, d = FirstOf(q) PROVE i = FirstOf(q + k)
      <4>1. FirstOf(q) <= d /\ d < FirstOf(q + 1)
        BY <3>11, MonthDays
      <4>2. q = p
        BY <2>1, <4>1, MonthFromFirst
      <4>3. x = 1
        BY <2>4, <3>3, <3>11, <4>2
      <4>4. i = g
        BY <3>6, <4>3
      <4> QED BY <3>4, <4>2, <4>4
    <3>12. ASSUME h = 0
           PROVE  /\ Drawing!LocalHour(w, zone) = 0
                  /\ \A q \in Int : Drawing!LocalDay(v, zone) = FirstOf(q)
                                    => Drawing!LocalDay(w, zone) = FirstOf(q + size[1] \div 4)
      <4>1. w = Drawing!Local(i, 0, zone)
        BY <3>7, <3>12
      <4>2. Drawing!LocalDay(w, zone) = i /\ Drawing!LocalHour(w, zone) = 0
        BY <3>6, <4>1, LocalMidnight
      <4> QED BY <1>1, <3>1, <3>11, <4>2
    <3>13. TickAfter(v, w, size, zone)
      BY <1>1, <1>3, <3>7, <3>10, <3>12 DEF TickAfter
    <3>14. c \in 0..95
      OBVIOUS
    <3> QED BY <3>7, <3>8, <3>13, <3>14
  <2>8. CASE ~(size[1] >= 4)
    <3>1. size[1] = 1 \/ size[1] = 2
      BY <1>3, <2>8, SizeKinds
    <3>2. Drawing!UTCDate(y0, m + 1, 1) = b
      <4>1. m + 1 \in Int /\ 12 * y0 + (m + 1) = p + 1
        BY <2>3
      <4>2. Drawing!UTCDate(y0, m + 1, 1) = FirstOf(12 * y0 + (m + 1)) + 1 - 1
        BY <4>1, DateOfMonth
      <4> QED BY <2>5, <4>1, <4>2
    <3>3. PICK x \in Int, y \in Int :
             x = Drawing!Local(a, h, zone) /\ y = Drawing!Local(b, h, zone) /\ x + 671 <= y
      <4>1. PICK s \in Int : s = zone.standard
        BY <1>10
      <4>2. PICK x \in Int : x = Drawing!Local(a, h, zone) /\ x <= 24 * a + h - s
        BY <1>1, <2>4, <4>1, LocalOf
      <4>3. PICK y \in Int : y = Drawing!Local(b, h, zone) /\ 24 * b + h - s - 1 <= y
        BY <1>1, <2>5, <4>1, LocalOf
      <4>4. x + 671 <= y
        BY <1>1, <2>4, <2>5, <4>1, <4>2, <4>3
      <4> QED BY <4>2, <4>3, <4>4
    <3>4. PICK p0 \in Int : p0 = 4 * v + c + (y - x) * size[1] /\ 4 * v + 671 <= p0
      <4>1. PICK n \in {1, 2} : n = size[1]
        BY <3>1
      <4>2. (y - x) * n \in Int /\ 671 <= (y - x) * n
        BY <3>3, <4>1
      <4>3. PICK z \in Int : z = (y - x) * n /\ 671 <= z
        BY <4>2
      <4>4. 4 * v + c + z \in Int /\ 4 * v + 671 <= 4 * v + c + z
        BY <4>3
      <4> QED BY <4>1, <4>3, <4>4
    <3>5. PICK t \in Int : t = p0 \div 4 /\ v + 167 <= t
      BY <3>4
    <3>6. PICK i \in Int, f \in 0..23 : i = Drawing!LocalDay(t, zone) /\ f = Drawing!LocalHour(t, zone)
      <4>1. Drawing!LocalDay(t, zone) \in Int /\ Drawing!LocalHour(t, zone) \in 0..23
        BY LocalParts
      <4> QED BY <4>1
    <3>7. PICK w \in Int : w = Drawing!Local(i, 0, zone) /\ t - 24 <= w
      <4>1. PICK s \in Int : s = zone.standard
        BY <1>10
      <4>2. PICK w \in Int : w = Drawing!Local(i, 0, zone) /\ 24 * i + 0 - s - 1 <= w
        BY <3>6, <4>1, LocalOf
      <4>3. PICK o \in {s, s + 1} : o = Drawing!Offset(t, zone)
        BY <4>1, Offsets
      <4>4. t = 24 * i + f - o
        BY <3>6, <4>3, LocalParts
      <4>5. t - 24 <= w
        BY <3>6, <4>2, <4>3, <4>4
      <4> QED BY <4>2, <4>5
    <3>8. v < w
      BY <3>5, <3>7
    <3>9. PICK e \in 0..95 : e = 4 * f + (p0 % 4)
      BY <3>4, <3>6
    <3>90. Drawing!NextTick(v, c, size, zone) = <<w, e>>
      <4>1. size[2] = "month" /\ ~(size[2] # "month") /\ ~(size[2] = "month" /\ size[1] >= 4)
        BY <1>3, <2>8
      <4>2. /\ Drawing!LocalDay(v, zone) = d /\ Drawing!LocalHour(v, zone) = h
            /\ Drawing!Year(d) = y0 /\ Drawing!Month(d) = m
            /\ Drawing!UTCDate(y0, m, 1) = a /\ Drawing!UTCDate(y0, m + 1, 1) = b
        BY <1>1, <2>2, <2>6, <3>2
      <4>3. Drawing!NextTick(v, c, size, zone)
               = <<Drawing!Local(Drawing!LocalDay(t, zone), 0, zone), 4 * Drawing!LocalHour(t, zone) + (p0 % 4)>>
        BY <3>3, <3>4, <3>5, <4>1, <4>2 DEF Drawing!NextTick
      <4> QED BY <3>6, <3>7, <3>9, <4>3
    <3>10. Drawing!LocalHour(w, zone) = 0
      BY <3>6, <3>7, LocalMidnight
    <3>11. TickAfter(v, w, size, zone)
      BY <1>3, <2>8, <3>7, <3>8, <3>10 DEF TickAfter
    <3> QED BY <3>7, <3>9, <3>90, <3>11
  <2> QED BY <2>7, <2>8
<1> QED BY <1>2, <1>3

-----------------------------------------------------------------------------
(* Sequences that are made a step at a time. *)

StepsOf(N, S) == [1..N -> [S -> S]]

Iterated(f, s0, step0, N, S) ==
    f \in [0..N -> S] /\ f[0] = s0 /\ \A n \in 1..N : f[n] = step0[n][f[n - 1]]

\* A function that is defined by recursion on the numbers up to N exists.
LEMMA Iterates ==
    ASSUME NEW S, NEW s0 \in S, NEW N \in Nat, NEW step0 \in StepsOf(N, S)
    PROVE  \E f : Iterated(f, s0, step0, N, S)
<1> DEFINE Is(f, m) == f = [n \in 0..m |-> IF n = 0 THEN s0 ELSE step0[n][f[n - 1]]]
           Has(m) == \E f \in [0..m -> S] : Is(f, m)
           Done == {m \in Nat : m <= N => Has(m)}
<1>0. step0 \in [1..N -> [S -> S]]
  BY DEF StepsOf
<1>1. Has(0)
  <2>1. Is([n \in 0..0 |-> s0], 0) /\ [n \in 0..0 |-> s0] \in [0..0 -> S]
    OBVIOUS
  <2> QED BY <2>1
<1>2. ASSUME NEW m \in Nat, Has(m), m + 1 <= N PROVE Has(m + 1)
  <2>1. PICK f \in [0..m -> S] : Is(f, m)
    BY <1>2
  <2> DEFINE g == [n \in 0..(m + 1) |-> IF n = m + 1 THEN step0[m + 1][f[m]] ELSE f[n]]
  <2>2. \A n \in 0..m : f[n] = (IF n = 0 THEN s0 ELSE step0[n][f[n - 1]]) /\ f[n] \in S
    BY <2>1
  <2>3. \A n \in 0..m : g[n] = f[n]
    OBVIOUS
  <2>4. g[m + 1] = step0[m + 1][f[m]] /\ g = [n \in 0..(m + 1) |-> g[n]]
    OBVIOUS
  <2>5. step0[m + 1][f[m]] \in S
    <3>1. m + 1 \in 1..N /\ m \in 0..m
      BY <1>2
    <3>2. step0[m + 1] \in [S -> S] /\ f[m] \in S
      BY <1>0, <2>2, <3>1
    <3> QED BY <3>2
  <2> HIDE DEF g
  <2>6. ASSUME NEW n \in 0..(m + 1)
        PROVE  g[n] = (IF n = 0 THEN s0 ELSE step0[n][g[n - 1]]) /\ g[n] \in S
    <3>1. CASE n = m + 1
      <4>1. n # 0 /\ n - 1 = m /\ m \in 0..m
        BY <3>1
      <4>2. g[m] = f[m]
        BY <2>3, <4>1
      <4> QED BY <2>4, <2>5, <3>1, <4>1, <4>2
    <3>2. CASE n = 0
      <4>1. 0 \in 0..m
        OBVIOUS
      <4> QED BY <2>2, <2>3, <3>2, <4>1
    <3>3. CASE n \in 1..m
      <4>1. n \in 0..m /\ n - 1 \in 0..m /\ n # 0
        BY <3>3
      <4> QED BY <2>2, <2>3, <4>1
    <3> QED BY <3>1, <3>2, <3>3
  <2>7. g \in [0..(m + 1) -> S]
    BY <2>4, <2>6
  <2>8. Is(g, m + 1)
    BY <2>4, <2>6
  <2> QED BY <2>7, <2>8
<1> HIDE DEF Has
<1>3. 0 \in Done /\ \A m \in Nat : m \in Done => m + 1 \in Done
  <2>1. ASSUME NEW m \in Nat, m \in Done PROVE m + 1 \in Done
    BY <1>2, <2>1
  <2> QED BY <1>1, <2>1
<1> HIDE DEF Done
<1>4. Nat \subseteq Done
  BY <1>3, Induction
<1>5. Has(N)
  BY <1>4 DEF Done
<1>6. PICK f \in [0..N -> S] : Is(f, N)
  BY <1>5 DEF Has
<1>7. f[0] = s0
  BY <1>6
<1>8. \A n \in 1..N : f[n] = step0[n][f[n - 1]]
  BY <1>6
<1> QED
  BY <1>6, <1>7, <1>8 DEF Iterated

\* The ticks of the time axis start at the first tick, follow one another, and end at or after the
\* greatest value, or when there are more than the axis has room for.
Follows(s, size, zone) ==
    \A i \in 1..(Len(s) - 1) : \E c \in 0..95 : s[i + 1] = Drawing!NextTick(s[i], c, size, zone)[1]

Most(axis1, size, zone) ==
    (2 * (axis1.max - Drawing!FirstTick(axis1.min, size, zone))) \div Drawing!Length(size) + 2

LEMMA AppendsOne ==
    ASSUME NEW s \in Seq(Int), NEW w \in Int
    PROVE  /\ Append(s, w) \in Seq(Int) /\ Append(s, w) # <<>> /\ Len(Append(s, w)) = Len(s) + 1
           /\ \A i \in 1..Len(s) : Append(s, w)[i] = s[i]
           /\ Append(s, w)[Len(s) + 1] = w
  BY AppendProperties

LEMMA TimeTicksAre ==
    ASSUME NEW zone \in Drawing!Zones, NEW r \in Drawing!Ranges, NEW size \in Sizes
    PROVE  \E s \in Seq(Int) :
              /\ s = Drawing!timeTicks(r, size, zone) /\ Len(s) >= 1
              /\ s[1] = Drawing!FirstTick(r.min, size, zone)
              /\ Follows(s, size, zone)
              /\ s[Len(s)] >= r.max \/ Len(s) = Most(r, size, zone) + 1
<1> DEFINE start == Drawing!FirstTick(r.min, size, zone)
           most  == (2 * (r.max - start)) \div Drawing!Length(size) + 2
           Step(before) ==
              LET v == before[1][Len(before[1])]
                  next == Drawing!NextTick(v, before[2], size, zone)
              IN  IF v >= r.max THEN before ELSE <<Append(before[1], next[1]), next[2]>>
           Is(f, m) == f = [n \in 0..m |-> IF n = 0 THEN << <<start>>, 0>> ELSE Step(f[n - 1])]
           ticks == CHOOSE f : Is(f, most)
           Made(s) == s # <<>> /\ s[1] = start /\ Follows(s, size, zone)
           S == {p \in Seq(Int) \X (0..95) : Made(p[1])}
<1>1. Drawing!timeTicks(r, size, zone) = ticks[most][1]
  BY DEF Drawing!timeTicks
<1>2. r.min \in Int /\ r.max \in Int /\ r.min < r.max
  BY DEF Drawing!Ranges
<1>3. start \in Int /\ start <= r.min
  BY <1>2, FirstTickIs
<1>4. most \in Nat
  <2>1. PICK l \in Nat \ {0} : l = Drawing!Length(size)
    BY SizeLength
  <2>2. PICK d \in Nat : d = 2 * (r.max - start)
    BY <1>2, <1>3
  <2>3. d \div l \in Nat
    BY <2>2, <2>1
  <2> QED BY <2>1, <2>2, <2>3
<1>5. most = Most(r, size, zone)
  BY DEF Most
<1> HIDE DEF start, most
<1>6. << <<start>>, 0>> \in S
  <2>1. <<start>> \in Seq(Int) /\ <<start>> # <<>> /\ <<start>>[1] = start /\ Len(<<start>>) = 1
    BY <1>3
  <2>2. Follows(<<start>>, size, zone)
    BY <2>1 DEF Follows
  <2> QED BY <2>1, <2>2
<1>7. ASSUME NEW p \in S
      PROVE  /\ Step(p) \in S
             /\ p[1][Len(p[1])] >= r.max => Step(p) = p
             /\ ~(p[1][Len(p[1])] >= r.max) => Len(Step(p)[1]) = Len(p[1]) + 1
  <2>1. PICK s \in Seq(Int), c \in 0..95 : p = <<s, c>>
    OBVIOUS
  <2>2. p[1] = s /\ p[2] = c /\ Made(s)
    BY <2>1
  <2>3. PICK k \in Nat \ {0} : k = Len(s)
    <3>1. Len(s) \in Nat /\ Len(s) # 0
      BY <2>2
    <3> QED BY <3>1
  <2>4. s[k] \in Int /\ k \in DOMAIN s
    BY <2>3
  <2>5. PICK w \in Int, e \in 0..95 : Drawing!NextTick(s[k], c, size, zone) = <<w, e>>
    <3>1. PICK x \in Int : x = s[k]
      BY <2>4
    <3>2. c \in 0..95
      BY <2>1
    <3>3. \E w \in Int, e \in 0..95 :
             Drawing!NextTick(x, c, size, zone) = <<w, e>> /\ TickAfter(x, w, size, zone)
      BY <3>1, <3>2, NextTickIs
    <3> QED BY <3>1, <3>3
  <2> DEFINE v == p[1][Len(p[1])]
             next == Drawing!NextTick(v, p[2], size, zone)
  <2>50. Step(p) = IF v >= r.max THEN p ELSE <<Append(p[1], next[1]), next[2]>>
    OBVIOUS
  <2>51. v = s[k] /\ next = <<w, e>> /\ next[1] = w /\ next[2] = e
    BY <2>2, <2>3, <2>5
  <2> HIDE DEF v, next, Step
  <2>6. CASE s[k] >= r.max
    <3>1. Step(p) = p
      BY <2>50, <2>51, <2>6
    <3>2. p \in S
      OBVIOUS
    <3> HIDE DEF S
    <3> QED BY <2>2, <2>3, <2>6, <3>1, <3>2
  <2>7. CASE ~(s[k] >= r.max)
    <3> DEFINE t == Append(s, w)
    <3>1. /\ t \in Seq(Int) /\ Len(t) = k + 1 /\ t # <<>> /\ t[k + 1] = w
          /\ \A i \in 1..k : t[i] = s[i]
      <4>1. s \in Seq(Int) /\ w \in Int
        BY <2>1, <2>5
      <4>2. /\ t \in Seq(Int) /\ t # <<>> /\ Len(t) = Len(s) + 1
            /\ \A i \in 1..Len(s) : t[i] = s[i]
            /\ t[Len(s) + 1] = w
        BY <4>1, AppendsOne
      <4> HIDE DEF t
      <4> QED BY <2>3, <4>2
    <3>2. Step(p) = <<t, e>>
      <4>1. ~(v >= r.max)
        BY <2>51, <2>7
      <4>2. Step(p) = <<Append(p[1], next[1]), next[2]>>
        BY <2>50, <4>1
      <4>3. Append(p[1], next[1]) = t /\ next[2] = e
        BY <2>2, <2>51
      <4> QED BY <4>2, <4>3
    <3> HIDE DEF t
    <3>3. t[1] = start
      <4>1. 1 \in 1..k /\ s[1] = start
        BY <2>2, <2>3
      <4> QED BY <3>1, <4>1
    <3>4. Follows(t, size, zone)
      <4>1. ASSUME NEW i \in 1..(Len(t) - 1)
            PROVE  \E x \in 0..95 : t[i + 1] = Drawing!NextTick(t[i], x, size, zone)[1]
        <5>1. i \in 1..k
          BY <2>3, <3>1
        <5>2. CASE i = k
          <6>1. t[i] = s[k] /\ t[i + 1] = w /\ Drawing!NextTick(s[k], c, size, zone)[1] = w
            BY <2>5, <3>1, <5>1, <5>2
          <6> QED BY <2>1, <6>1
        <5>3. CASE i # k
          <6>1. i \in 1..(Len(s) - 1) /\ i + 1 \in 1..k
            BY <2>3, <5>1, <5>3
          <6>2. PICK x \in 0..95 : s[i + 1] = Drawing!NextTick(s[i], x, size, zone)[1]
            BY <2>2, <6>1 DEF Follows
          <6> QED BY <3>1, <5>1, <6>1, <6>2
        <5> QED BY <5>2, <5>3
      <4> QED BY <4>1 DEF Follows
    <3>5. <<t, e>> \in S
      BY <2>5, <3>1, <3>3, <3>4
    <3>6. Len(Step(p)[1]) = Len(p[1]) + 1
      BY <2>2, <2>3, <3>1, <3>2
    <3> QED BY <2>2, <2>3, <2>7, <3>2, <3>5, <3>6
  <2> QED BY <2>6, <2>7
<1> HIDE DEF Step, S
<1>8. PICK f \in [0..most -> S] : Is(f, most)
  <2> DEFINE step0 == [n \in 1..most |-> [p \in S |-> Step(p)]]
  <2>1. step0 \in StepsOf(most, S)
    BY <1>7 DEF StepsOf
  <2>2. \A n \in 1..most : \A p \in S : step0[n][p] = Step(p)
    OBVIOUS
  <2> HIDE DEF step0
  <2>3. PICK f : Iterated(f, << <<start>>, 0>>, step0, most, S)
    BY <1>4, <1>6, <2>1, Iterates
  <2>30. /\ f \in [0..most -> S] /\ f[0] = << <<start>>, 0>>
         /\ \A n \in 1..most : f[n] = step0[n][f[n - 1]]
    BY <2>3 DEF Iterated
  <2>4. \A n \in 0..most : f[n] = IF n = 0 THEN << <<start>>, 0>> ELSE Step(f[n - 1])
    <3>1. ASSUME NEW n \in 0..most, n # 0 PROVE f[n] = Step(f[n - 1])
      <4>1. n \in 1..most /\ n - 1 \in 0..most
        BY <1>4, <3>1
      <4>2. f[n] = step0[n][f[n - 1]] /\ f[n - 1] \in S
        BY <2>30, <4>1
      <4> QED BY <2>2, <4>1, <4>2
    <3> QED BY <2>30, <3>1
  <2>5. f = [n \in 0..most |-> f[n]]
    BY <2>30
  <2> QED BY <2>30, <2>4, <2>5
<1>9. Is(ticks, most)
  BY <1>8
<1> HIDE DEF ticks
<1>10. ticks \in [0..most -> S]
  <2> DEFINE Done == {m \in Nat : m <= most => ticks[m] \in S}
  <2>1. \A n \in 0..most : ticks[n] = IF n = 0 THEN << <<start>>, 0>> ELSE Step(ticks[n - 1])
    BY <1>9
  <2>2. 0 \in Done
    BY <1>4, <1>6, <2>1
  <2>3. ASSUME NEW m \in Nat, m \in Done PROVE m + 1 \in Done
    <3>1. CASE m + 1 <= most
      <4>1. m + 1 \in 0..most /\ m + 1 # 0 /\ (m + 1) - 1 = m /\ m <= most
        BY <1>4, <3>1
      <4>2. ticks[m + 1] = Step(ticks[m]) /\ ticks[m] \in S
        BY <2>1, <2>3, <4>1
      <4> QED BY <1>7, <4>2
    <3> QED BY <3>1
  <2> HIDE DEF Done
  <2>4. Nat \subseteq Done
    BY <2>2, <2>3, Induction
  <2>5. \A n \in 0..most : ticks[n] \in S
    BY <1>4, <2>4 DEF Done
  <2>6. ticks = [n \in 0..most |-> ticks[n]]
    BY <1>9
  <2> QED BY <2>5, <2>6
<1> DEFINE Long(n) == ticks[n][1][Len(ticks[n][1])] >= r.max \/ Len(ticks[n][1]) = n + 1
<1>11. Long(most)
  <2> DEFINE Done == {m \in Nat : m <= most => Long(m)}
  <2>1. \A n \in 0..most : ticks[n] = IF n = 0 THEN << <<start>>, 0>> ELSE Step(ticks[n - 1])
    BY <1>9
  <2>2. 0 \in Done
    <3>1. ticks[0] = << <<start>>, 0>>
      BY <1>4, <2>1
    <3>2. Len(ticks[0][1]) = 0 + 1
      BY <3>1
    <3> QED BY <3>2
  <2>3. ASSUME NEW m \in Nat, m \in Done PROVE m + 1 \in Done
    <3>1. CASE m + 1 <= most
      <4>1. m + 1 \in 0..most /\ m + 1 # 0 /\ (m + 1) - 1 = m /\ m <= most /\ m \in 0..most
        BY <1>4, <3>1
      <4>2. ticks[m + 1] = Step(ticks[m]) /\ ticks[m] \in S
        BY <2>1, <1>10, <4>1
      <4>3. CASE ticks[m][1][Len(ticks[m][1])] >= r.max
        BY <1>7, <4>2, <4>3
      <4>4. CASE ~(ticks[m][1][Len(ticks[m][1])] >= r.max)
        <5>1. Len(ticks[m][1]) = m + 1
          BY <2>3, <4>1, <4>4
        <5>2. Len(ticks[m + 1][1]) = (m + 1) + 1
          BY <1>7, <4>2, <4>4, <5>1
        <5> QED BY <5>2
      <4> QED BY <4>3, <4>4
    <3> QED BY <3>1
  <2> HIDE DEF Done
  <2>4. Nat \subseteq Done
    BY <2>2, <2>3, Induction
  <2> HIDE DEF Long
  <2> QED
    BY <1>4, <2>4 DEF Done
<1>12. PICK s : s = ticks[most][1]
  OBVIOUS
<1>13. s \in Seq(Int) /\ Made(s)
  <2>1. ticks[most] \in S
    BY <1>4, <1>10
  <2> QED BY <1>12, <2>1 DEF S
<1>14. Len(s) >= 1
  BY <1>13
<1>15. s[Len(s)] >= r.max \/ Len(s) = most + 1
  BY <1>11, <1>12
<1>16. s[1] = Drawing!FirstTick(r.min, size, zone)
  BY <1>13 DEF start
<1> QED
  BY <1>1, <1>5, <1>12, <1>13, <1>14, <1>15, <1>16

InOrder(s) == \A i, j \in 1..Len(s) : i < j => s[i] < s[j]

\* The ticks that are inside are the ticks of the whole that are, in the same order.
KeptOf(t, s, n, r) ==
    /\ InOrder(t)
    /\ \A i \in 1..Len(t) : \E k \in 1..n : t[i] = s[k] /\ Drawing!Inside(s[k], r)
    /\ \A k \in 1..n : Drawing!Inside(s[k], r) => \E i \in 1..Len(t) : t[i] = s[k]

LEMMA KeptGrows ==
    ASSUME NEW s \in Seq(Int), InOrder(s), NEW r, NEW n \in 1..Len(s),
           NEW t \in Seq(Int), KeptOf(t, s, n - 1, r)
    PROVE  KeptOf(IF Drawing!Inside(s[n], r) THEN Append(t, s[n]) ELSE t, s, n, r)
<1>1. PICK x \in Int : x = s[n]
  OBVIOUS
<1>2. n - 1 \in Nat /\ (\A k \in 1..n : k = n \/ k \in 1..(n - 1)) /\ (\A k \in 1..(n - 1) : k \in 1..n)
  OBVIOUS
<1>3. /\ \A i \in 1..Len(t) : \E k \in 1..(n - 1) : t[i] = s[k] /\ Drawing!Inside(s[k], r)
      /\ \A k \in 1..(n - 1) : Drawing!Inside(s[k], r) => \E i \in 1..Len(t) : t[i] = s[k]
      /\ \A i, j \in 1..Len(t) : i < j => t[i] < t[j]
  BY DEF KeptOf, InOrder
<1>4. CASE ~Drawing!Inside(s[n], r)
  <2>1. \A i \in 1..Len(t) : \E k \in 1..n : t[i] = s[k] /\ Drawing!Inside(s[k], r)
    BY <1>2, <1>3
  <2>2. \A k \in 1..n : Drawing!Inside(s[k], r) => \E i \in 1..Len(t) : t[i] = s[k]
    BY <1>2, <1>3, <1>4
  <2>3. KeptOf(t, s, n, r)
    BY <2>1, <2>2 DEF KeptOf
  <2> QED BY <1>4, <2>3
<1>5. CASE Drawing!Inside(s[n], r)
  <2>1. PICK m \in Nat : m = Len(t)
    OBVIOUS
  <2>2. PICK u \in Seq(Int) : u = Append(t, s[n])
    BY <1>1, AppendsOne
  <2>3. Len(u) = m + 1 /\ u[m + 1] = x /\ \A i \in 1..m : u[i] = t[i]
    BY <1>1, <2>1, <2>2, AppendsOne
  <2>4. \A i \in 1..(m + 1) : i = m + 1 \/ i \in 1..m
    BY <2>1
  <2>5. \A i \in 1..m : t[i] < x
    <3>1. TAKE i \in 1..m
    <3>2. PICK k \in 1..(n - 1) : t[i] = s[k]
      BY <1>3, <2>1
    <3>3. k \in 1..Len(s) /\ n \in 1..Len(s) /\ k < n
      OBVIOUS
    <3>4. s[k] < s[n]
      BY <3>3 DEF InOrder
    <3> QED BY <1>1, <3>2, <3>4
  <2>6. \A i, j \in 1..(m + 1) : i < j => u[i] < u[j]
    <3>1. TAKE i, j \in 1..(m + 1)
    <3>2. HAVE i < j
    <3>3. i \in 1..m
      BY <2>1, <3>2
    <3>4. CASE j = m + 1
      BY <2>3, <2>5, <3>3, <3>4
    <3>5. CASE j \in 1..m
      BY <1>3, <2>1, <2>3, <3>2, <3>3, <3>5
    <3> QED BY <2>4, <3>4, <3>5
  <2>7. \A i \in 1..(m + 1) : \E k \in 1..n : u[i] = s[k] /\ Drawing!Inside(s[k], r)
    <3>1. TAKE i \in 1..(m + 1)
    <3>2. CASE i = m + 1
      BY <1>1, <1>5, <2>3, <3>2
    <3>3. CASE i \in 1..m
      BY <1>2, <1>3, <2>1, <2>3, <3>3
    <3> QED BY <2>4, <3>2, <3>3
  <2>8. \A k \in 1..n : Drawing!Inside(s[k], r) => \E i \in 1..(m + 1) : u[i] = s[k]
    <3>1. TAKE k \in 1..n
    <3>2. HAVE Drawing!Inside(s[k], r)
    <3>3. CASE k = n
      <4>1. m + 1 \in 1..(m + 1)
        BY <2>1
      <4> QED BY <1>1, <2>3, <3>3, <4>1
    <3>4. CASE k \in 1..(n - 1)
      <4>1. PICK i \in 1..m : t[i] = s[k]
        BY <1>3, <2>1, <3>2, <3>4
      <4>2. i \in 1..(m + 1) /\ u[i] = t[i]
        BY <2>1, <2>3
      <4> QED BY <4>1, <4>2
    <3> QED BY <1>2, <3>3, <3>4
  <2>9. KeptOf(u, s, n, r)
    BY <2>3, <2>6, <2>7, <2>8 DEF KeptOf, InOrder
  <2> QED BY <1>5, <2>2, <2>9
<1> QED BY <1>4, <1>5

LEMMA TicksInsideAre ==
    ASSUME NEW s \in Seq(Int), InOrder(s), NEW r
    PROVE  \E t \in Seq(Int) : t = Drawing!ticksInside(s, r) /\ KeptOf(t, s, Len(s), r)
<1> DEFINE Next1(t, n) == IF Drawing!Inside(s[n], r) THEN Append(t, s[n]) ELSE t
           Is(f) == f = [n \in 0..Len(s) |-> IF n = 0 THEN <<>> ELSE Next1(f[n - 1], n)]
           kept == CHOOSE f : Is(f)
           step0 == [n \in 1..Len(s) |-> [t \in Seq(Int) |-> Next1(t, n)]]
<1>1. Drawing!ticksInside(s, r) = kept[Len(s)]
  BY DEF Drawing!ticksInside
<1>2. PICK N \in Nat : N = Len(s)
  OBVIOUS
<1>3. <<>> \in Seq(Int)
  OBVIOUS
<1>4. \A n \in 1..N : \A t \in Seq(Int) : Next1(t, n) \in Seq(Int)
  <2>1. TAKE n \in 1..N
  <2>2. TAKE t \in Seq(Int)
  <2>3. s[n] \in Int
    BY <1>2
  <2> QED BY <2>3, AppendsOne
<1> HIDE DEF Next1
<1>5. step0 \in StepsOf(N, Seq(Int)) /\ \A n \in 1..N : \A t \in Seq(Int) : step0[n][t] = Next1(t, n)
  BY <1>2, <1>4 DEF StepsOf
<1> HIDE DEF step0
<1>6. \E f : Is(f)
  <2>1. PICK f : Iterated(f, <<>>, step0, N, Seq(Int))
    BY <1>3, <1>5, Iterates
  <2>2. /\ f \in [0..N -> Seq(Int)] /\ f[0] = <<>>
        /\ \A n \in 1..N : f[n] = step0[n][f[n - 1]]
    BY <2>1 DEF Iterated
  <2>3. ASSUME NEW n \in 0..N PROVE f[n] = IF n = 0 THEN <<>> ELSE Next1(f[n - 1], n)
    <3>1. CASE n # 0
      <4>1. n \in 1..N /\ n - 1 \in 0..N
        BY <3>1
      <4>2. f[n] = step0[n][f[n - 1]] /\ f[n - 1] \in Seq(Int)
        BY <2>2, <4>1
      <4> QED BY <1>5, <3>1, <4>1, <4>2
    <3> QED BY <2>2, <3>1
  <2>4. f = [n \in 0..N |-> f[n]]
    BY <2>2
  <2>5. Is(f)
    BY <1>2, <2>3, <2>4
  <2> QED BY <2>5
<1>7. Is(kept)
  BY <1>6
<1> HIDE DEF kept
<1>8. kept[0] = <<>> /\ \A n \in 1..N : kept[n] = Next1(kept[n - 1], n)
  <2>1. \A n \in 0..N : kept[n] = IF n = 0 THEN <<>> ELSE Next1(kept[n - 1], n)
    BY <1>2, <1>7
  <2> QED BY <2>1
<1> DEFINE Done == {n \in Nat : n <= N => kept[n] \in Seq(Int) /\ KeptOf(kept[n], s, n, r)}
<1>9. 0 \in Done
  <2>1. KeptOf(<<>>, s, 0, r)
    BY DEF KeptOf, InOrder
  <2> QED BY <1>3, <1>8, <2>1
<1>10. ASSUME NEW m \in Nat, m \in Done PROVE m + 1 \in Done
  <2>1. CASE m + 1 <= N
    <3>1. m + 1 \in 1..N /\ (m + 1) - 1 = m /\ m <= N
      BY <2>1
    <3>2. PICK t \in Seq(Int) : t = kept[m] /\ KeptOf(t, s, m, r)
      BY <1>10, <3>1
    <3>3. kept[m + 1] = Next1(t, m + 1)
      BY <1>8, <3>1, <3>2
    <3>4. Next1(t, m + 1) \in Seq(Int)
      BY <1>4, <3>1
    <3>5. KeptOf(Next1(t, m + 1), s, m + 1, r)
      <4>1. PICK n \in 1..Len(s) : n = m + 1
        BY <1>2, <3>1
      <4>2. n - 1 = m
        BY <4>1
      <4>3. KeptOf(t, s, n - 1, r)
        BY <3>2, <4>2
      <4>4. KeptOf(Next1(t, n), s, n, r)
        BY <4>3, KeptGrows DEF Next1
      <4> QED BY <4>1, <4>4
    <3> QED BY <3>3, <3>4, <3>5
  <2> QED BY <2>1
<1> HIDE DEF Done
<1>11. N \in Done
  BY <1>9, <1>10, Induction
<1>12. kept[N] \in Seq(Int) /\ KeptOf(kept[N], s, N, r)
  BY <1>11 DEF Done
<1> QED
  BY <1>1, <1>2, <1>12

\* What a walk of ticks keeps from one to the next.
StepsBy(s, size, zone) == \A i \in 1..(Len(s) - 1) : TickAfter(s[i], s[i + 1], size, zone)

LEMMA StepsAreBy ==
    ASSUME NEW zone \in Drawing!Zones, NEW size \in Sizes, NEW s \in Seq(Int), Follows(s, size, zone)
    PROVE  StepsBy(s, size, zone)
<1> SUFFICES ASSUME NEW i \in 1..(Len(s) - 1)
             PROVE  TickAfter(s[i], s[i + 1], size, zone)
  BY DEF StepsBy
<1>1. PICK v \in Int : v = s[i]
  OBVIOUS
<1>2. PICK c \in 0..95 : s[i + 1] = Drawing!NextTick(v, c, size, zone)[1]
  BY <1>1 DEF Follows
<1>3. PICK w \in Int, e \in 0..95 :
         Drawing!NextTick(v, c, size, zone) = <<w, e>> /\ TickAfter(v, w, size, zone)
  BY <1>1, <1>2, NextTickIs
<1>4. s[i + 1] = w
  BY <1>2, <1>3
<1> QED BY <1>1, <1>3, <1>4

LEMMA StepsInOrder ==
    ASSUME NEW s \in Seq(Int), \A i \in 1..(Len(s) - 1) : s[i] < s[i + 1]
    PROVE  InOrder(s)
<1>0. PICK N \in Nat : N = Len(s)
  OBVIOUS
<1> DEFINE Done == {n \in Nat : \A i, j \in 1..N : i < j /\ j <= n => s[i] < s[j]}
<1>1. 0 \in Done
  OBVIOUS
<1>2. ASSUME NEW n \in Nat, n \in Done PROVE n + 1 \in Done
  <2>1. ASSUME NEW i \in 1..N, NEW j \in 1..N, i < j, j <= n + 1 PROVE s[i] < s[j]
    <3>1. CASE j <= n
      BY <1>2, <2>1, <3>1
    <3>2. CASE j = n + 1 /\ i = n
      BY <1>0, <2>1, <3>2
    <3>3. CASE j = n + 1 /\ i < n
      <4>1. n \in 1..N /\ n \in 1..(N - 1)
        BY <2>1, <3>3
      <4>2. s[i] < s[n] /\ s[n] < s[n + 1]
        BY <1>0, <1>2, <2>1, <3>3, <4>1
      <4>3. s[i] \in Int /\ s[n] \in Int /\ s[n + 1] \in Int
        BY <1>0, <2>1, <3>3, <4>1
      <4> QED BY <3>3, <4>2, <4>3
    <3> QED BY <2>1, <3>1, <3>2, <3>3
  <2> QED BY <2>1
<1> HIDE DEF Done
<1>3. N \in Done
  BY <1>1, <1>2, Induction
<1> QED BY <1>0, <1>3 DEF Done, InOrder

LEMMA StepsAtMidnight ==
    ASSUME NEW zone \in Drawing!Zones, NEW size \in Sizes, NEW s \in Seq(Int), StepsBy(s, size, zone),
           size[2] = "month", Drawing!LocalHour(s[1], zone) = 0
    PROVE  \A i \in 1..Len(s) : Drawing!LocalHour(s[i], zone) = 0
<1> DEFINE Done == {n \in Nat : n + 1 <= Len(s) => Drawing!LocalHour(s[n + 1], zone) = 0}
<1>1. 0 \in Done
  OBVIOUS
<1>2. ASSUME NEW n \in Nat, n \in Done PROVE n + 1 \in Done
  <2>1. CASE (n + 1) + 1 <= Len(s)
    <3>1. n + 1 \in 1..(Len(s) - 1) /\ n + 1 <= Len(s)
      BY <2>1
    <3>2. TickAfter(s[n + 1], s[(n + 1) + 1], size, zone)
      BY <3>1 DEF StepsBy
    <3> QED BY <1>2, <3>1, <3>2 DEF TickAfter
  <2> QED BY <2>1
<1>3. Nat \subseteq Done
  <2> HIDE DEF Done
  <2> QED BY <1>1, <1>2, Induction
<1>4. ASSUME NEW i \in 1..Len(s) PROVE Drawing!LocalHour(s[i], zone) = 0
  <2>1. PICK n \in Nat : i = n + 1
    <3>1. i - 1 \in Nat /\ i = (i - 1) + 1
      OBVIOUS
    <3> QED BY <3>1
  <2> QED BY <1>3, <2>1
<1> QED BY <1>4

\* Ticks of days are days of 24 hours after the first.
DaysAfter(u, v) == \E k \in Nat : v = u + 24 * k

LEMMA StepsByDays ==
    ASSUME NEW zone \in Drawing!Zones, NEW size \in Sizes, NEW s \in Seq(Int), StepsBy(s, size, zone),
           size[2] = "day"
    PROVE  \A i \in 1..Len(s) : DaysAfter(s[1], s[i])
<1>0. PICK l \in {1, 2, 3} : Drawing!Length(size) = 24 * l
  BY SizeKinds
<1> DEFINE Done == {n \in Nat : n + 1 <= Len(s) => DaysAfter(s[1], s[n + 1])}
<1>1. 0 \in Done
  <2>1. ASSUME 0 + 1 <= Len(s) PROVE DaysAfter(s[1], s[0 + 1])
    <3>1. PICK u \in Int : u = s[1] /\ u = s[0 + 1]
      BY <2>1
    <3>2. u = u + 24 * 0
      OBVIOUS
    <3> QED BY <3>1, <3>2 DEF DaysAfter
  <2> QED BY <2>1
<1>2. ASSUME NEW n \in Nat, n \in Done PROVE n + 1 \in Done
  <2>1. CASE (n + 1) + 1 <= Len(s)
    <3>1. n + 1 \in 1..(Len(s) - 1) /\ n + 1 <= Len(s)
      BY <2>1
    <3>2. TickAfter(s[n + 1], s[(n + 1) + 1], size, zone)
      BY <3>1 DEF StepsBy
    <3>3. PICK u \in Int, v \in Int : u = s[1] /\ v = s[n + 1]
      BY <3>1
    <3>4. s[(n + 1) + 1] = v + 24 * l
      BY <1>0, <3>2, <3>3 DEF TickAfter
    <3>5. PICK k \in Nat : v = u + 24 * k
      BY <1>2, <3>1, <3>3 DEF DaysAfter
    <3>6. PICK j \in Nat : j = k + l
      OBVIOUS
    <3>7. v + 24 * l = u + 24 * j
      BY <3>3, <3>5, <3>6
    <3>8. PICK w \in Int : w = s[(n + 1) + 1] /\ w = u + 24 * j
      BY <3>3, <3>4, <3>7
    <3>9. DaysAfter(u, w)
      BY <3>6, <3>8 DEF DaysAfter
    <3>10. DaysAfter(s[1], s[(n + 1) + 1])
      BY <3>3, <3>8, <3>9
    <3> QED BY <3>10
  <2> QED BY <2>1
<1>3. Nat \subseteq Done
  <2> HIDE DEF Done
  <2> QED BY <1>1, <1>2, Induction
<1>4. ASSUME NEW i \in 1..Len(s) PROVE DaysAfter(s[1], s[i])
  <2>1. PICK n \in Nat : i = n + 1
    <3>1. i - 1 \in Nat /\ i = (i - 1) + 1
      OBVIOUS
    <3> QED BY <3>1
  <2> QED BY <1>3, <2>1
<1> QED BY <1>4

OnFirstDays(s, size, q, zone) ==
    \A i \in 1..Len(s) :
       /\ \E p \in Int : Drawing!LocalDay(s[i], zone) = FirstOf(p)
       /\ size[1] = 4 => Drawing!LocalDay(s[i], zone) = FirstOf(q + i - 1)

LEMMA StepsOnFirsts ==
    ASSUME NEW zone \in Drawing!Zones, NEW size \in Sizes, NEW s \in Seq(Int), StepsBy(s, size, zone),
           size[2] = "month", size[1] >= 4, \A i \in 1..Len(s) : Drawing!LocalHour(s[i], zone) = 0,
           NEW q \in Int, Drawing!LocalDay(s[1], zone) = FirstOf(q)
    PROVE  OnFirstDays(s, size, q, zone)
<1> DEFINE OnFirst(n) == /\ \E p \in Int : Drawing!LocalDay(s[n + 1], zone) = FirstOf(p)
                         /\ size[1] = 4 => Drawing!LocalDay(s[n + 1], zone) = FirstOf(q + n)
           Done == {n \in Nat : n + 1 <= Len(s) => OnFirst(n)}
<1>1. 0 \in Done
  <2>1. q + 0 = q
    OBVIOUS
  <2> QED BY <2>1
<1>2. ASSUME NEW n \in Nat, n \in Done PROVE n + 1 \in Done
  <2>1. CASE (n + 1) + 1 <= Len(s)
    <3>1. n + 1 \in 1..(Len(s) - 1) /\ n + 1 <= Len(s)
      BY <2>1
    <3>2. TickAfter(s[n + 1], s[(n + 1) + 1], size, zone)
      BY <3>1 DEF StepsBy
    <3>3. \A p \in Int : Drawing!LocalDay(s[n + 1], zone) = FirstOf(p)
                         => Drawing!LocalDay(s[(n + 1) + 1], zone) = FirstOf(p + size[1] \div 4)
      <4>1. n + 1 \in 1..Len(s)
        BY <3>1
      <4>2. Drawing!LocalHour(s[n + 1], zone) = 0
        BY <4>1
      <4> QED BY <3>2, <4>2 DEF TickAfter
    <3>4. OnFirst(n)
      BY <1>2, <3>1
    <3>5. PICK p \in Int : Drawing!LocalDay(s[n + 1], zone) = FirstOf(p)
      BY <3>4
    <3>6. PICK k \in Nat : k = size[1] \div 4 /\ (size[1] = 4 => k = 1)
      BY SizeLength
    <3>7. p + k \in Int /\ Drawing!LocalDay(s[(n + 1) + 1], zone) = FirstOf(p + k)
      BY <3>3, <3>5, <3>6
    <3>8. ASSUME size[1] = 4 PROVE Drawing!LocalDay(s[(n + 1) + 1], zone) = FirstOf(q + (n + 1))
      <4>1. q + n \in Int /\ (q + n) + 1 = q + (n + 1)
        OBVIOUS
      <4>2. Drawing!LocalDay(s[n + 1], zone) = FirstOf(q + n)
        BY <3>4, <3>8
      <4>3. Drawing!LocalDay(s[(n + 1) + 1], zone) = FirstOf((q + n) + k)
        BY <3>3, <3>6, <4>1, <4>2
      <4> QED BY <3>6, <3>8, <4>1, <4>3
    <3> QED BY <3>7, <3>8
  <2> QED BY <2>1
<1>3. Nat \subseteq Done
  <2> HIDE DEF Done
  <2> QED BY <1>1, <1>2, Induction
<1>4. ASSUME NEW i \in 1..Len(s)
      PROVE  /\ \E p \in Int : Drawing!LocalDay(s[i], zone) = FirstOf(p)
             /\ size[1] = 4 => Drawing!LocalDay(s[i], zone) = FirstOf(q + i - 1)
  <2>1. PICK n \in Nat : i = n + 1 /\ q + i - 1 = q + n
    <3>1. i - 1 \in Nat /\ i = (i - 1) + 1 /\ q + i - 1 = q + (i - 1)
      OBVIOUS
    <3> QED BY <3>1
  <2>2. OnFirst(n)
    BY <1>3, <2>1
  <2> QED BY <2>1, <2>2
<1> QED BY <1>4 DEF OnFirstDays

OnFirsts(s, n, q, zone) ==
    \A i \in 1..n, p \in Int :
        p = q + (i - 1) => FirstOf(p) \in Int /\ s[i] = Drawing!Local(FirstOf(p), 0, zone)

LEMMA OnFirstsAre ==
    ASSUME NEW zone \in Drawing!Zones, NEW s, NEW n \in Nat, NEW q \in Int,
           \A i \in 1..n : /\ s[i] \in Int /\ Drawing!LocalHour(s[i], zone) = 0
                           /\ Drawing!LocalDay(s[i], zone) = FirstOf(q + i - 1)
    PROVE  OnFirsts(s, n, q, zone)
<1> SUFFICES ASSUME NEW i \in 1..n, NEW p \in Int, p = q + (i - 1)
             PROVE  FirstOf(p) \in Int /\ s[i] = Drawing!Local(FirstOf(p), 0, zone)
  BY DEF OnFirsts
<1>1. PICK v \in Int : v = s[i]
  OBVIOUS
<1>2. p = q + i - 1
  OBVIOUS
<1>3. Drawing!LocalHour(v, zone) = 0 /\ Drawing!LocalDay(v, zone) = FirstOf(p)
  BY <1>1, <1>2
<1>4. PICK f \in Int : f = FirstOf(p)
  BY MonthDays
<1>5. v = Drawing!Local(f, 0, zone)
  BY <1>3, <1>4, MidnightIs
<1> QED BY <1>1, <1>4, <1>5

\* Ticks of every month reach the greatest value: there is room for twice as many months.
Enough(n, max, a) == 720 * (n - 1) > 2 * (max - a)

LEMMA MonthsReach ==
    ASSUME NEW zone \in Drawing!Zones, NEW max \in Int, NEW s, NEW q \in Int, NEW n \in Nat \ {0},
           OnFirsts(s, n, q, zone), NEW a \in Int, a = s[1], NEW b \in Int, b = s[n],
           Enough(n, max, a)
    PROVE  b >= max
<1>1. PICK k \in Nat : k = n - 1
  OBVIOUS
<1>2. PICK f \in Int : f = FirstOf(q) /\ a = Drawing!Local(f, 0, zone)
  <2>1. PICK i \in 1..n : i = 1
    OBVIOUS
  <2>2. q = q + (i - 1)
    BY <2>1
  <2>3. FirstOf(q) \in Int /\ s[i] = Drawing!Local(FirstOf(q), 0, zone)
    BY <2>1, <2>2 DEF OnFirsts
  <2> QED BY <2>1, <2>3
<1>3. PICK p \in Int : p = q + k
  OBVIOUS
<1>4. PICK g \in Int : g = FirstOf(p) /\ b = Drawing!Local(g, 0, zone)
  <2>1. PICK i \in 1..n : i = n
    OBVIOUS
  <2>2. p = q + (i - 1)
    BY <1>1, <1>3, <2>1
  <2>3. FirstOf(p) \in Int /\ s[i] = Drawing!Local(FirstOf(p), 0, zone)
    BY <1>3, <2>1, <2>2 DEF OnFirsts
  <2> QED BY <2>1, <2>3
<1>5. f + 28 * k <= g
  <2>1. q <= p /\ p - q = k
    BY <1>1, <1>3
  <2>2. FirstOf(q) + 28 * (p - q) <= FirstOf(p)
    BY <1>3, <2>1, FirstsInOrder
  <2> QED BY <1>1, <1>2, <1>4, <2>1, <2>2
<1>6. b - a >= 672 * k - 1
  <2>1. a + 24 * (g - f) - 1 <= b
    BY <1>2, <1>4, MidnightsInOrder
  <2> QED BY <1>1, <1>2, <1>4, <1>5, <2>1
<1>7. 720 * k > 2 * (max - a)
  BY <1>1 DEF Enough
<1>8. CASE k = 0
  BY <1>1, <1>3, <1>4, <1>2, <1>7, <1>8
<1>9. CASE k >= 1
  BY <1>1, <1>6, <1>7, <1>9
<1> QED BY <1>1, <1>8, <1>9

\* A tick of days or months is at midnight, or, after a change of the clock, an hour off.
OnTheClock(v, r, size, zone) ==
    /\ NearMidnight(Drawing!LocalHour(v, zone))
    /\ size[2] = "month" \/ Still(r.min - 24, r.max, zone) => Drawing!LocalHour(v, zone) = 0

\* What the ticks of a time axis are.
TicksTell(t, r, size, zone) ==
    /\ InOrder(t)
    /\ \A i \in 1..Len(t) :
          /\ Drawing!Inside(t[i], r)
          /\ Drawing!Length(size) >= 24 => OnTheClock(t[i], r, size, zone)
          /\ size[2] = "month" /\ size[1] >= 4 => \E p \in Int : Drawing!LocalDay(t[i], zone) = FirstOf(p)
    /\ size[2] = "month" /\ size[1] = 4 =>
          \A h \in r.min..r.max :
              Drawing!Day(Drawing!LocalDay(h, zone)) = 1 /\ Drawing!LocalHour(h, zone) = 0
              => \E i \in 1..Len(t) : t[i] = h
    /\ size[2] # "month" =>
          \A i \in 1..Len(t) : i > 1 => t[i] - t[i - 1] = Drawing!Length(size)

LEMMA FirstDays ==
    ASSUME NEW d \in Int, Drawing!Day(d) = 1
    PROVE  MonthOf(d) \in Int /\ d = FirstOf(MonthOf(d))
<1>1. PICK p \in Int : p = MonthOf(d)
  BY DayInMonth
<1>2. PICK f \in Int : f = FirstOf(p)
  BY <1>1, MonthDays
<1>3. Drawing!Day(d) = d - f + 1
  BY <1>1, <1>2, DayInMonth
<1>4. d = f
  BY <1>2, <1>3
<1> QED BY <1>1, <1>2, <1>4

LEMMA FirstsNotAfter ==
    ASSUME NEW p \in Int, NEW m \in Int, NEW d \in Int, d >= FirstOf(p), d < FirstOf(m + 1)
    PROVE  p <= m
<1> SUFFICES ASSUME m + 1 <= p PROVE FALSE
  OBVIOUS
<1>1. PICK x \in Int : x = m + 1
  OBVIOUS
<1>2. FirstOf(x) \in Int /\ FirstOf(p) \in Int /\ FirstOf(x) + 28 * (p - x) <= FirstOf(p)
  BY <1>1, FirstsInOrder
<1> QED BY <1>1, <1>2

LEMMA FirstOnAxis ==
    ASSUME NEW zone \in Drawing!Zones, NEW min \in Int, NEW h \in Int, min <= h,
           Drawing!Day(Drawing!LocalDay(h, zone)) = 1, Drawing!LocalHour(h, zone) = 0
    PROVE  \E p \in Int : /\ MonthOf(Drawing!LocalDay(min, zone)) <= p
                          /\ FirstOf(p) \in Int /\ h = Drawing!Local(FirstOf(p), 0, zone)
<1>1. Drawing!LocalDay(h, zone) \in Int /\ Drawing!LocalDay(min, zone) \in Int
      /\ Drawing!LocalHour(min, zone) \in 0..23
  BY LocalParts
<1>2. PICK d \in Int, e \in Int : d = Drawing!LocalDay(h, zone) /\ e = Drawing!LocalDay(min, zone)
  BY <1>1
<1>3. h = Drawing!Local(d, 0, zone)
  BY <1>2, MidnightIs
<1>4. PICK m \in Int : m = Drawing!Local(e, 0, zone) /\ m <= min
  <2>1. PICK y \in 0..23 : y = Drawing!LocalHour(min, zone)
    BY <1>1
  <2>2. 24 * e + 0 <= 24 * Drawing!LocalDay(min, zone) + Drawing!LocalHour(min, zone)
    BY <1>2, <2>1
  <2>3. Drawing!Local(e, 0, zone) <= min
    BY <1>2, <2>2, LocalNotAfter
  <2> QED BY <1>2, <2>3, LocalOf
<1>5. e <= d
  <2>1. m <= h
    BY <1>4
  <2> QED BY <1>2, <1>3, <1>4, <2>1, MidnightsInOrder
<1>7. PICK p \in Int : p = MonthOf(d) /\ d = FirstOf(p)
  BY <1>2, FirstDays
<1>8. PICK q \in Int, g \in Int : q = MonthOf(e) /\ g = FirstOf(q) /\ g <= e
  <2>1. PICK q \in Int : q = MonthOf(e) /\ FirstOf(q) <= e
    BY <1>2, DayInMonth
  <2>2. PICK g \in Int : g = FirstOf(q)
    BY <2>1, MonthDays
  <2> QED BY <2>1, <2>2
<1>9. PICK z \in Int : z = FirstOf(p + 1) /\ d < z
  <2>1. PICK x \in Int : x = p + 1
    BY <1>7
  <2>2. PICK z \in Int : z = FirstOf(x)
    BY <2>1, MonthDays
  <2>3. d + 28 <= z
    BY <1>7, <2>1, <2>2, MonthDays
  <2>4. d < z
    BY <1>2, <2>2, <2>3
  <2> QED BY <2>1, <2>2, <2>4
<1>10. g <= d
  BY <1>2, <1>5, <1>8
<1>11. q <= p
  <2>1. d >= FirstOf(q) /\ d < FirstOf(p + 1)
    BY <1>8, <1>9, <1>10
  <2> QED BY <1>2, <1>7, <1>8, <2>1, FirstsNotAfter
<1> QED BY <1>2, <1>3, <1>7, <1>8, <1>11

\* The first of a month that is on the axis has a tick.
TimeOf(p, zone) == Drawing!Local(FirstOf(p), 0, zone)

LEMMA FirstsAreTicks ==
    ASSUME NEW zone \in Drawing!Zones, NEW s, NEW q \in Int, NEW n \in Nat \ {0}, OnFirsts(s, n, q, zone),
           NEW p \in Int, q <= p, TimeOf(p, zone) <= s[n]
    PROVE  \E i \in 1..n : s[i] = TimeOf(p, zone)
<1>1. PICK m \in Int : m = q + (n - 1)
  OBVIOUS
<1>2. PICK g \in Int : g = FirstOf(m) /\ s[n] = Drawing!Local(g, 0, zone)
  <2>1. n \in 1..n
    OBVIOUS
  <2>2. FirstOf(m) \in Int /\ s[n] = Drawing!Local(FirstOf(m), 0, zone)
    BY <1>1, <2>1 DEF OnFirsts
  <2> QED BY <2>2
<1>3. PICK f \in Int : f = FirstOf(p)
  BY MonthDays
<1>4. f <= g
  <2>1. Drawing!Local(f, 0, zone) <= Drawing!Local(g, 0, zone)
    BY <1>2, <1>3 DEF TimeOf
  <2> QED BY <1>2, <1>3, <2>1, MidnightsInOrder
<1>5. PICK z \in Int : z = FirstOf(m + 1) /\ g < z
  BY <1>1, <1>2, MonthDays
<1>6. p <= m
  <2>1. g >= FirstOf(p) /\ g < FirstOf(m + 1)
    BY <1>2, <1>3, <1>4, <1>5
  <2> QED BY <1>1, <1>2, <2>1, FirstsNotAfter
<1>7. PICK i \in Int : i = p - q + 1
  OBVIOUS
<1>8. 1 <= i /\ i <= n /\ p = q + (i - 1)
  BY <1>1, <1>6, <1>7
<1>9. i \in 1..n
  BY <1>7, <1>8
<1>10. s[i] = Drawing!Local(FirstOf(p), 0, zone)
  BY <1>8, <1>9 DEF OnFirsts
<1> QED BY <1>9, <1>10 DEF TimeOf

\* A rising sequence of numbers, one that keeps what is inside of it, and one with even steps.
Rising(s, n) == /\ \A i \in 1..n : s[i] \in Int
                /\ \A i, j \in 1..n : i < j => s[i] < s[j]
Keeps(t, m, s, n, r) ==
    /\ \A i \in 1..m : \E k \in 1..n : t[i] = s[k] /\ Drawing!Inside(s[k], r)
    /\ \A k \in 1..n : Drawing!Inside(s[k], r) => \E i \in 1..m : t[i] = s[k]
Even(s, n, l) == \A i \in 1..n : i > 1 => s[i] - s[i - 1] = l

\* What is kept of even steps is even.
LEMMA KeptIsEven ==
    ASSUME NEW s, NEW n \in Nat, Rising(s, n), NEW t, NEW m \in Nat, Rising(t, m),
           NEW r \in Drawing!Ranges, Keeps(t, m, s, n, r), NEW l \in Nat \ {0}, Even(s, n, l)
    PROVE  Even(t, m, l)
<1> SUFFICES ASSUME NEW i \in 1..m, i > 1 PROVE t[i] - t[i - 1] = l
  BY DEF Even
<1>1. PICK j \in 1..m : j = i - 1 /\ j < i
  OBVIOUS
<1>2. PICK u \in Int, v \in Int : u = t[j] /\ v = t[i] /\ u < v
  BY <1>1 DEF Rising
<1>3. PICK a \in 1..n : u = s[a] /\ Drawing!Inside(u, r)
  BY <1>1, <1>2 DEF Keeps
<1>4. PICK b \in 1..n : v = s[b] /\ Drawing!Inside(v, r)
  BY <1>2 DEF Keeps
<1>5. a < b
  <2>1. ~(b < a) /\ a # b
    BY <1>2, <1>3, <1>4 DEF Rising
  <2> QED BY <1>3, <1>4, <2>1
<1>6. PICK c \in 1..n : c = a + 1 /\ c > 1 /\ c - 1 = a
  BY <1>3, <1>4, <1>5
<1>7. PICK w \in Int : w = s[c] /\ w = u + l
  <2>1. PICK w \in Int : w = s[c]
    BY <1>6 DEF Rising
  <2>2. w - u = l
    BY <1>3, <1>6, <2>1 DEF Even
  <2>3. w = u + l
    BY <1>2, <2>1, <2>2
  <2> QED BY <2>1, <2>3
<1>8. c = b
  <2>1. ASSUME c < b PROVE FALSE
    <3>1. w < v
      BY <1>4, <1>6, <1>7, <2>1 DEF Rising
    <3>2. Drawing!Inside(w, r)
      <4>1. PICK min \in Int, max \in Int : min = r.min /\ max = r.max
        BY DEF Drawing!Ranges
      <4>2. min <= u /\ v <= max
        BY <1>3, <1>4, <4>1 DEF Drawing!Inside
      <4>3. min <= w /\ w <= max
        BY <1>2, <1>7, <3>1, <4>1, <4>2
      <4> QED BY <4>1, <4>3 DEF Drawing!Inside
    <3>3. PICK k \in 1..m : t[k] = w
      BY <1>6, <1>7, <3>2 DEF Keeps
    <3>4. u < w
      BY <1>2, <1>7
    <3>5. ~(k < j) /\ k # j
      <4>1. ~(w < u) /\ w # u
        BY <1>2, <1>7, <3>4
      <4> QED BY <1>1, <1>2, <3>3, <4>1 DEF Rising
    <3>6. ~(i < k) /\ k # i
      <4>1. ~(v < w) /\ w # v
        BY <1>2, <1>7, <3>1
      <4> QED BY <1>2, <3>3, <4>1 DEF Rising
    <3>7. j < k /\ k < i
      BY <1>1, <3>3, <3>5, <3>6
    <3> QED BY <1>1, <3>3, <3>7
  <2> QED BY <1>4, <1>5, <1>6, <2>1
<1>9. v - u = l
  <2>1. v = w
    BY <1>4, <1>7, <1>8
  <2> QED BY <1>2, <1>7, <2>1
<1> QED BY <1>1, <1>2, <1>9

LEMMA TicksAreTold ==
    ASSUME NEW zone \in Drawing!Zones, NEW r \in Drawing!Ranges, NEW size \in Sizes
    PROVE  \E t \in Seq(Int) :
              /\ t = Drawing!ticksInside(Drawing!timeTicks(r, size, zone), r)
              /\ TicksTell(t, r, size, zone)
<1>1. PICK s \in Seq(Int) :
              /\ s = Drawing!timeTicks(r, size, zone) /\ Len(s) >= 1
              /\ s[1] = Drawing!FirstTick(r.min, size, zone)
              /\ Follows(s, size, zone)
              /\ s[Len(s)] >= r.max \/ Len(s) = Most(r, size, zone) + 1
  BY TimeTicksAre
<1>2. StepsBy(s, size, zone)
  BY <1>1, StepsAreBy
<1>3. InOrder(s)
  <2>1. \A i \in 1..(Len(s) - 1) : s[i] < s[i + 1]
    BY <1>2 DEF StepsBy, TickAfter
  <2> QED BY <1>1, <2>1, StepsInOrder
<1>4. PICK t \in Seq(Int) : t = Drawing!ticksInside(s, r) /\ KeptOf(t, s, Len(s), r)
  BY <1>1, <1>3, TicksInsideAre
<1>5. PICK n \in Nat \ {0}, m \in Nat : n = Len(s) /\ m = Len(t)
  BY <1>1, <1>4
<1>6. PICK min \in Int, max \in Int : min = r.min /\ max = r.max /\ min < max
  BY DEF Drawing!Ranges
<1>7. PICK l \in Nat \ {0} : l = Drawing!Length(size)
  BY SizeLength
<1>8. Rising(s, n) /\ Rising(t, m) /\ Keeps(t, m, s, n, r)
  <2>1. InOrder(t)
    BY <1>4 DEF KeptOf
  <2>2. (\A i \in 1..n : s[i] \in Int) /\ (\A i \in 1..m : t[i] \in Int)
    BY <1>1, <1>4, <1>5
  <2> QED BY <1>3, <1>4, <1>5, <2>1, <2>2 DEF InOrder, Rising, Keeps, KeptOf
<1>9. PICK f \in Int : /\ f = s[1] /\ f = Drawing!FirstTick(min, size, zone) /\ f <= min
                       /\ l >= 24 => Drawing!LocalHour(f, zone) = 0
                       /\ size[2] = "day" => min - 24 <= f
                       /\ size[2] = "month" => \E q \in Int :
                             /\ Drawing!LocalDay(f, zone) = FirstOf(q)
                             /\ size[1] = 4 => q = MonthOf(Drawing!LocalDay(min, zone))
  <2>1. PICK f \in Int :
              /\ f = Drawing!FirstTick(min, size, zone) /\ f <= min
              /\ Drawing!Length(size) >= 24 => Drawing!LocalHour(f, zone) = 0
              /\ size[2] = "day" => min - 24 <= f
              /\ size[2] = "month" => \E q \in Int :
                    /\ Drawing!LocalDay(f, zone) = FirstOf(q)
                    /\ size[1] = 4 => q = MonthOf(Drawing!LocalDay(min, zone))
    BY <1>6, FirstTickIs
  <2>2. f = s[1]
    BY <1>1, <1>6, <2>1
  <2> QED BY <1>7, <2>1, <2>2
<1>10. ASSUME size[2] = "month"
       PROVE  \A k \in 1..n : Drawing!LocalHour(s[k], zone) = 0
  <2>1. l >= 24
    BY <1>7, <1>10, SizeLength
  <2> QED BY <1>1, <1>2, <1>5, <1>9, <1>10, <2>1, StepsAtMidnight
<1>11. ASSUME size[2] = "month", size[1] >= 4,
              NEW q \in Int, Drawing!LocalDay(f, zone) = FirstOf(q)
       PROVE  \A k \in 1..n : /\ \E p \in Int : Drawing!LocalDay(s[k], zone) = FirstOf(p)
                              /\ size[1] = 4 => Drawing!LocalDay(s[k], zone) = FirstOf(q + k - 1)
  <2>1. Drawing!LocalDay(s[1], zone) = FirstOf(q)
    BY <1>9, <1>11
  <2>2. OnFirstDays(s, size, q, zone)
    BY <1>1, <1>2, <1>5, <1>10, <1>11, <2>1, StepsOnFirsts
  <2> QED BY <1>5, <2>2 DEF OnFirstDays
<1>12. ASSUME size[2] = "month", size[1] = 4, NEW h \in Int, min <= h, h <= max,
              Drawing!Day(Drawing!LocalDay(h, zone)) = 1, Drawing!LocalHour(h, zone) = 0
       PROVE  \E i \in 1..m : t[i] = h
  <2>1. PICK q \in Int : Drawing!LocalDay(f, zone) = FirstOf(q) /\ q = MonthOf(Drawing!LocalDay(min, zone))
    BY <1>9, <1>12
  <2>2. l = 720
    BY <1>7, <1>12, SizeLength
  <2>3. OnFirsts(s, n, q, zone)
    <3>1. \A k \in 1..n : s[k] \in Int
      BY <1>8 DEF Rising
    <3>2. \A k \in 1..n : Drawing!LocalHour(s[k], zone) = 0
      BY <1>10, <1>12
    <3>3. \A k \in 1..n : Drawing!LocalDay(s[k], zone) = FirstOf(q + k - 1)
      BY <1>11, <1>12, <2>1
    <3> QED BY <1>5, <2>1, <3>1, <3>2, <3>3, OnFirstsAre
  <2>4. PICK b \in Int : b = s[n]
    BY <1>5, <1>8 DEF Rising
  <2>5. b >= max
    <3>1. CASE n = Most(r, size, zone) + 1
      <4>1. PICK d \in Int : d = 2 * (max - f)
        BY <1>6, <1>9
      <4>2. PICK c \in Int : c = d \div 720 /\ 720 * c + 720 > d
        BY <4>1
      <4>3. Most(r, size, zone) = c + 2
        BY <1>6, <1>7, <1>9, <2>2, <4>1, <4>2 DEF Most
      <4>4. 720 * (n - 1) > d
        BY <1>5, <3>1, <4>1, <4>2, <4>3
      <4>5. Enough(n, max, f)
        BY <4>1, <4>4 DEF Enough
      <4> QED BY <1>5, <1>6, <1>9, <2>1, <2>3, <2>4, <4>5, MonthsReach
    <3>2. CASE s[n] >= r.max
      BY <1>6, <2>4, <3>2
    <3> QED BY <1>1, <1>5, <3>1, <3>2
  <2>6. PICK p \in Int : q <= p /\ h = TimeOf(p, zone)
    <3>1. \E p \in Int : /\ MonthOf(Drawing!LocalDay(min, zone)) <= p
                         /\ FirstOf(p) \in Int /\ h = Drawing!Local(FirstOf(p), 0, zone)
      BY <1>6, <1>12, FirstOnAxis
    <3> QED BY <2>1, <3>1 DEF TimeOf
  <2>7. h <= b
    BY <1>6, <1>12, <2>4, <2>5
  <2>8. PICK k \in 1..n : s[k] = h
    <3>1. TimeOf(p, zone) <= s[n]
      BY <2>4, <2>6, <2>7
    <3>2. q <= p
      BY <2>6
    <3>3. \E k \in 1..n : s[k] = TimeOf(p, zone)
      BY <2>3, <3>1, <3>2, FirstsAreTicks
    <3> QED BY <2>6, <3>3
  <2>9. Drawing!Inside(s[k], r)
    BY <1>6, <1>12, <2>8 DEF Drawing!Inside
  <2> QED BY <1>8, <2>8, <2>9 DEF Keeps
<1>13. ASSUME size[2] # "month" PROVE Even(t, m, l)
  <2>1. Even(s, n, l)
    <3> SUFFICES ASSUME NEW i \in 1..n, i > 1 PROVE s[i] - s[i - 1] = l
      BY DEF Even
    <3>1. PICK j \in 1..n : j = i - 1 /\ j + 1 = i
      BY <1>5
    <3>2. PICK u \in Int, v \in Int : u = s[j] /\ v = s[i]
      BY <1>8, <3>1 DEF Rising
    <3>3. TickAfter(u, v, size, zone)
      <4>1. j \in 1..(Len(s) - 1)
        BY <1>5, <3>1
      <4>2. TickAfter(s[j], s[j + 1], size, zone)
        BY <1>2, <4>1 DEF StepsBy
      <4> QED BY <3>1, <3>2, <4>2
    <3>4. v = u + l
      BY <1>7, <1>13, <3>3 DEF TickAfter
    <3>5. v - u = l
      BY <1>7, <3>2, <3>4
    <3> QED BY <3>1, <3>2, <3>5
  <2> QED BY <1>5, <1>7, <1>8, <2>1, KeptIsEven
<1>14. ASSUME NEW i \in 1..m
       PROVE  /\ Drawing!Inside(t[i], r)
              /\ l >= 24 => OnTheClock(t[i], r, size, zone)
              /\ size[2] = "month" /\ size[1] >= 4 => \E p \in Int : Drawing!LocalDay(t[i], zone) = FirstOf(p)
  <2>1. PICK k \in 1..n : t[i] = s[k] /\ Drawing!Inside(s[k], r)
    BY <1>8 DEF Keeps
  <2>2. ASSUME size[2] = "month", size[1] >= 4
        PROVE  \E p \in Int : Drawing!LocalDay(t[i], zone) = FirstOf(p)
    <3>1. PICK q \in Int : Drawing!LocalDay(f, zone) = FirstOf(q)
      BY <1>9, <2>2
    <3> QED BY <1>11, <2>1, <2>2, <3>1
  <2>3. ASSUME size[2] = "month" PROVE OnTheClock(t[i], r, size, zone)
    <3>1. Drawing!LocalHour(t[i], zone) = 0
      BY <1>10, <2>1, <2>3
    <3>2. (0 + 0) % 24 = 0 /\ 0 \in {-1, 0, 1}
      OBVIOUS
    <3>3. NearMidnight(Drawing!LocalHour(t[i], zone))
      BY <3>1, <3>2 DEF NearMidnight
    <3> QED BY <3>1, <3>3 DEF OnTheClock
  <2>4. ASSUME size[2] = "day" PROVE OnTheClock(t[i], r, size, zone)
    <3>1. l >= 24
      BY <1>7, <2>4, SizeLength
    <3>2. DaysAfter(f, s[k])
      BY <1>1, <1>2, <1>5, <1>9, <2>1, <2>4, StepsByDays
    <3>3. PICK w \in Int : w = t[i] /\ w = s[k] /\ min <= w /\ w <= max
      <4>1. PICK w \in Int : w = s[k]
        BY <1>8 DEF Rising
      <4>2. min <= w /\ w <= max
        BY <1>6, <2>1, <4>1 DEF Drawing!Inside
      <4> QED BY <2>1, <4>1, <4>2
    <3>4. PICK j \in Nat : w = f + 24 * j
      BY <3>2, <3>3 DEF DaysAfter
    <3>5. Drawing!LocalHour(f, zone) = 0 /\ min - 24 <= f /\ f <= min
      BY <1>9, <2>4, <3>1
    <3>6. /\ NearMidnight(Drawing!LocalHour(w, zone))
          /\ Drawing!Offset(f, zone) = Drawing!Offset(w, zone) => Drawing!LocalHour(w, zone) = 0
      <4>1. Drawing!LocalHour(f, zone) = 0 /\ j \in Int
        BY <3>5
      <4> QED BY <3>4, <4>1, DaysOnTheClock
    <3>7. ASSUME Still(min - 24, max, zone) PROVE Drawing!Offset(f, zone) = Drawing!Offset(w, zone)
      <4>1. min - 24 \in Int /\ f <= max /\ min - 24 <= w
        BY <1>6, <3>3, <3>5
      <4> QED BY <1>6, <3>3, <3>5, <3>7, <4>1, StillOffset
    <3>8. size[2] # "month"
      BY <2>4
    <3> QED BY <1>6, <3>3, <3>6, <3>7, <3>8 DEF OnTheClock
  <2>5. l >= 24 => size[2] = "month" \/ size[2] = "day"
    BY <1>7, SizeLength, SizeKinds
  <2> QED BY <2>1, <2>2, <2>3, <2>4, <2>5
<1>15. TicksTell(t, r, size, zone)
  <2>1. InOrder(t)
    BY <1>4 DEF KeptOf
  <2>2. \A h \in r.min..r.max : h \in Int /\ min <= h /\ h <= max
    BY <1>6
  <2>3. size[2] = "month" /\ size[1] = 4 =>
          \A h \in r.min..r.max :
              Drawing!Day(Drawing!LocalDay(h, zone)) = 1 /\ Drawing!LocalHour(h, zone) = 0
              => \E i \in 1..Len(t) : t[i] = h
    BY <1>5, <1>12, <2>2
  <2>4. size[2] # "month" =>
          \A i \in 1..Len(t) : i > 1 => t[i] - t[i - 1] = Drawing!Length(size)
    BY <1>5, <1>7, <1>13 DEF Even
  <2> QED BY <1>5, <1>7, <1>14, <2>1, <2>3, <2>4 DEF TicksTell
<1> QED BY <1>1, <1>4, <1>15

-----------------------------------------------------------------------------
(* Weekends. *)

\* The Saturday at or before a day.
LEMMA SaturdayBefore ==
    ASSUME NEW d \in Int
    PROVE  \E c \in Int : /\ d - ((Drawing!WeekDay(d) + 1) % 7) = 7 * c + 2
                          /\ 7 * c + 2 <= d /\ d - 6 <= 7 * c + 2
<1>1. PICK a \in Int, e \in 0..6 : d + 4 = 7 * a + e
  <2>1. PICK s \in Int : s = d + 4
    OBVIOUS
  <2>2. PICK a \in Int : a = s \div 7 /\ 7 * a <= s /\ s < 7 * a + 7
    BY <2>1
  <2>3. PICK e \in 0..6 : e = s - 7 * a
    BY <2>1, <2>2
  <2> QED BY <2>1, <2>2, <2>3
<1>2. Drawing!WeekDay(d) = e
  <2>1. PICK s \in Int : s = d + 4 /\ s = 7 * a + e
    BY <1>1
  <2>2. s % 7 = e
    BY <1>1, <2>1
  <2> QED BY <2>1, <2>2 DEF Drawing!WeekDay
<1>3. CASE e = 6
  <2>1. (e + 1) % 7 = 0
    BY <1>3
  <2>2. d - 0 = 7 * a + 2 /\ 7 * a + 2 <= d /\ d - 6 <= 7 * a + 2
    BY <1>1, <1>3
  <2> QED BY <1>2, <2>1, <2>2, <1>1
<1>4. CASE e < 6
  <2>1. (e + 1) % 7 = e + 1
    BY <1>1, <1>4
  <2>2. PICK c \in Int : c = a - 1
    BY <1>1
  <2>3. d - (e + 1) = 7 * c + 2 /\ 7 * c + 2 <= d /\ d - 6 <= 7 * c + 2
    BY <1>1, <1>4, <2>2
  <2>4. d - ((Drawing!WeekDay(d) + 1) % 7) = d - (e + 1)
    BY <1>2, <2>1
  <2> QED BY <2>2, <2>3, <2>4
<1> QED BY <1>1, <1>3, <1>4

\* A day on or after a Saturday is of a weekend, if it is of the two days from some Saturday.
LEMMA DaysOfWeekends ==
    ASSUME NEW c \in Int, NEW d \in Int, 7 * c + 2 <= d
    PROVE  Drawing!WeekDay(d) \in {0, 6}
           <=> \E j \in Nat : 7 * (c + j) + 2 <= d /\ d <= 7 * (c + j) + 3
<1>1. PICK x \in Nat : x = d - (7 * c + 2)
  OBVIOUS
<1>2. PICK a \in Nat, e \in 0..6 : x = 7 * a + e
  <2>1. PICK a \in Nat : a = x \div 7 /\ 7 * a <= x /\ x < 7 * a + 7
    BY <1>1
  <2>2. PICK e \in 0..6 : e = x - 7 * a
    BY <1>1, <2>1
  <2> QED BY <1>1, <2>1, <2>2
<1>3. PICK s \in Int : s = d + 4
  OBVIOUS
<1>4. s = 7 * (c + a) + 6 + e
  BY <1>1, <1>2, <1>3
<1>5. CASE e = 0
  <2>1. s % 7 = 6
    BY <1>2, <1>4, <1>5
  <2>2. 7 * (c + a) + 2 <= d /\ d <= 7 * (c + a) + 3
    BY <1>2, <1>3, <1>4, <1>5
  <2> QED BY <1>2, <1>3, <2>1, <2>2 DEF Drawing!WeekDay
<1>6. CASE e = 1
  <2>1. s % 7 = 0
    BY <1>2, <1>4, <1>6
  <2>2. 7 * (c + a) + 2 <= d /\ d <= 7 * (c + a) + 3
    BY <1>2, <1>3, <1>4, <1>6
  <2> QED BY <1>2, <1>3, <2>1, <2>2 DEF Drawing!WeekDay
<1>7. CASE e >= 2
  <2>1. PICK b \in Int : b = c + a + 1
    BY <1>2
  <2>2. s = 7 * b + (e - 1) /\ e - 1 \in 1..5
    BY <1>2, <1>4, <1>7, <2>1
  <2>3. s % 7 = e - 1
    BY <1>3, <2>1, <2>2
  <2>4. Drawing!WeekDay(d) \notin {0, 6}
    BY <1>3, <2>2, <2>3 DEF Drawing!WeekDay
  <2>5. ASSUME NEW j \in Nat, 7 * (c + j) + 2 <= d, d <= 7 * (c + j) + 3 PROVE FALSE
    <3>1. 7 * j <= x /\ x <= 7 * j + 1
      BY <1>1, <2>5
    <3>2. j = a
      BY <1>2, <3>1
    <3> QED BY <1>2, <1>7, <3>1, <3>2
  <2> QED BY <2>4, <2>5
<1> QED BY <1>2, <1>5, <1>6, <1>7

\* An hour's day by the offset of another time: its own day, or that of an hour beside it.
DayNear(h, d, zone) == \E o \in {-1, 0, 1} : Drawing!LocalDay(h + o, zone) = d

LEMMA AnHourOff ==
    ASSUME NEW zone \in Drawing!Zones, NEW h \in Int, NEW p \in {zone.standard, zone.standard + 1},
           NEW d \in Int, NEW x \in 0..23, h + p = 24 * d + x
    PROVE  /\ DayNear(h, d, zone)
           /\ p = Drawing!Offset(h, zone) => Drawing!LocalDay(h, zone) = d
<1>1. PICK s \in Int : s = zone.standard
  BY Offsets
<1>2. PICK q \in {s, s + 1} : q = Drawing!Offset(h, zone)
  BY <1>1, Offsets
<1>3. p \in {s, s + 1} /\ p \in Int
  BY <1>1
<1>4. p = q => Drawing!LocalDay(h, zone) = d
  <2>1. ASSUME p = q PROVE Drawing!LocalDay(h, zone) = d
    <3>1. q \in Int /\ h + q = 24 * d + x
      BY <1>1, <2>1
    <3> QED BY <1>2, <3>1, PartsOf
  <2> QED BY <2>1
<1>5. h + 0 = h
  OBVIOUS
<1>6. CASE p = q
  BY <1>4, <1>5, <1>6 DEF DayNear
<1>7. CASE p = s + 1 /\ q = s
  <2>1. PICK u \in Int : u = h + 1
    OBVIOUS
  <2>2. CASE Drawing!Offset(u, zone) = s
    <3>1. u + s = 24 * d + x
      BY <1>7, <2>1
    <3>2. Drawing!LocalDay(u, zone) = d
      BY <2>2, <3>1, PartsOf
    <3> QED BY <1>2, <1>7, <2>1, <3>2 DEF DayNear
  <2>3. CASE Drawing!Offset(u, zone) # s
    <3>1. ChangesAt(u, zone)
      <4>1. ASSUME ~ChangesAt(u, zone) PROVE FALSE
        <5>1. h <= u /\ \A t \in Int : h < t /\ t <= u => t = u
          BY <2>1
        <5>2. Drawing!Offset(h, zone) = Drawing!Offset(u, zone)
          BY <4>1, <5>1, StillTime
        <5> QED BY <1>2, <1>7, <2>3, <5>2
      <4> QED BY <4>1
    <3>2. (u + s) % 24 \in 1..22
      BY <1>1, <3>1, Changes
    <3>3. PICK y \in Int : y = u + s /\ y = 24 * d + x
      BY <1>7, <2>1
    <3>4. y % 24 = x
      BY <3>3
    <3>5. x \in 1..22
      BY <3>2, <3>3, <3>4
    <3>6. PICK z \in 0..23 : z = x - 1
      BY <3>5
    <3>7. h + s = 24 * d + z
      BY <1>7, <3>6
    <3>8. Drawing!LocalDay(h, zone) = d
      <4>1. s = Drawing!Offset(h, zone)
        BY <1>2, <1>7
      <4> QED BY <3>7, <4>1, PartsOf
    <3> QED BY <1>2, <1>5, <1>7, <3>8 DEF DayNear
  <2> QED BY <2>2, <2>3
<1>8. CASE p = s /\ q = s + 1
  <2>1. PICK u \in Int : u = h + (-1) /\ u = h - 1
    OBVIOUS
  <2>2. CASE Drawing!Offset(u, zone) = s + 1
    <3>1. u + (s + 1) = 24 * d + x
      BY <1>8, <2>1
    <3>2. Drawing!LocalDay(u, zone) = d
      BY <2>2, <3>1, PartsOf
    <3> QED BY <1>2, <1>8, <2>1, <3>2 DEF DayNear
  <2>3. CASE Drawing!Offset(u, zone) # s + 1
    <3>1. ChangesAt(h, zone)
      <4>1. ASSUME ~ChangesAt(h, zone) PROVE FALSE
        <5>1. u <= h /\ \A t \in Int : u < t /\ t <= h => t = h
          BY <2>1
        <5>2. Drawing!Offset(h, zone) = Drawing!Offset(u, zone)
          BY <4>1, <5>1, StillTime
        <5> QED BY <1>2, <1>8, <2>3, <5>2
      <4> QED BY <4>1
    <3>2. (h + s) % 24 \in 1..22
      BY <1>1, <3>1, Changes
    <3>3. PICK y \in Int : y = h + s /\ y = 24 * d + x
      BY <1>8
    <3>4. y % 24 = x
      BY <3>3
    <3>5. x \in 1..22
      BY <3>2, <3>3, <3>4
    <3>6. PICK z \in 0..23 : z = x + 1
      BY <3>5
    <3>7. PICK y1 \in Int : y1 = s + 1 /\ y1 = Drawing!Offset(h, zone)
      BY <1>2, <1>8
    <3>70. h + y1 = 24 * d + z
      BY <1>8, <3>6, <3>7
    <3>8. Drawing!LocalDay(h, zone) = d
      BY <3>7, <3>70, PartsOf
    <3> QED BY <1>2, <1>5, <1>8, <3>8 DEF DayNear
  <2> QED BY <2>2, <2>3
<1>9. (p = q) \/ (p = s + 1 /\ q = s) \/ (p = s /\ q = s + 1)
  BY <1>1, <1>2, <1>3
<1> QED BY <1>2, <1>4, <1>6, <1>7, <1>8, <1>9

WeekendFrom(i, k) == i + (k - 1) * 7 * 24
Weekends(i, n) == [k \in 1..n |-> [from |-> WeekendFrom(i, k), to |-> WeekendFrom(i, k) + 2 * 24]]

\* The weekends start at the midnight of the Saturday at or before the least value.
LEMMA WeekendAreasAre ==
    ASSUME NEW zone \in Drawing!Zones, NEW r \in Drawing!Ranges
    PROVE  \E c \in Int, i \in Int, n \in Nat \ {0} :
              /\ Drawing!weekendAreas(r, zone) = Weekends(i, n)
              /\ i + Drawing!Offset(i, zone) = 24 * (7 * c + 2) /\ i <= r.min /\ r.min - 168 <= i
              /\ \A k \in Nat \ {0} : WeekendFrom(i, k) < r.max => k \in 1..n
<1>1. PICK min \in Int, max \in Int : min = r.min /\ max = r.max
  BY DEF Drawing!Ranges
<1>2. PICK day \in Int, x \in 0..23 : day = Drawing!LocalDay(min, zone) /\ x = Drawing!LocalHour(min, zone)
  <2>1. Drawing!LocalDay(min, zone) \in Int /\ Drawing!LocalHour(min, zone) \in 0..23
    BY <1>1, LocalParts
  <2> QED BY <2>1
<1>3. PICK c \in Int : /\ day - ((Drawing!WeekDay(day) + 1) % 7) = 7 * c + 2
                       /\ 7 * c + 2 <= day /\ day - 6 <= 7 * c + 2
  BY <1>2, SaturdayBefore
<1>4. PICK sat \in Int : sat = 7 * c + 2
  OBVIOUS
<1>5. PICK i \in Int : i = Drawing!Local(sat, 0, zone)
  BY LocalOf
<1>50. i + Drawing!Offset(i, zone) = 24 * (7 * c + 2)
  <2>1. Drawing!LocalDay(i, zone) = sat /\ Drawing!LocalHour(i, zone) = 0
    BY <1>5, LocalMidnight
  <2>2. PICK o \in Int : o = Drawing!Offset(i, zone)
    BY LocalParts
  <2>3. i = 24 * sat + 0 - o
    BY <2>1, <2>2, LocalParts
  <2> QED BY <1>4, <2>2, <2>3
<1>51. i <= min
  <2>1. 24 * sat + 0 <= 24 * day + x
    BY <1>3, <1>4
  <2> QED BY <1>1, <1>2, <1>5, <2>1, LocalNotAfter
<1>52. min - 168 <= i
  <2>1. PICK s \in Int : s = zone.standard
    BY Offsets
  <2>2. PICK o \in {s, s + 1} : o = Drawing!Offset(min, zone)
    BY <2>1, Offsets
  <2>3. min = 24 * day + x - o
    BY <1>2, <2>2, LocalParts
  <2>4. 24 * sat + 0 - s - 1 <= i
    BY <1>5, <2>1, LocalOf
  <2>5. day - 6 <= sat
    BY <1>3, <1>4
  <2> QED BY <2>2, <2>3, <2>4, <2>5
<1>6. PICK n : n = IF i >= max THEN 1 ELSE 1 + (max - i - 1) \div (7 * 24)
  OBVIOUS
<1>7. n \in Nat \ {0} /\ \A k \in Nat \ {0} : WeekendFrom(i, k) < max => k \in 1..n
  <2>1. CASE i >= max
    <3>1. n = 1
      BY <1>6, <2>1
    <3>2. ASSUME NEW k \in Nat \ {0}, WeekendFrom(i, k) < max PROVE FALSE
      <4>1. i + (k - 1) * 7 * 24 < max
        BY <3>2 DEF WeekendFrom
      <4> QED BY <1>1, <2>1, <4>1
    <3> QED BY <3>1, <3>2
  <2>2. CASE i < max
    <3>1. PICK y \in Nat : y = max - i - 1
      BY <1>1, <2>2
    <3>2. PICK a \in Nat : a = y \div 168 /\ 168 * a <= y /\ y < 168 * a + 168
      BY <3>1
    <3>3. n = 1 + a
      <4>1. ~(i >= max) /\ 7 * 24 = 168
        BY <1>1, <2>2
      <4> QED BY <1>6, <3>1, <3>2, <4>1
    <3>4. ASSUME NEW k \in Nat \ {0}, WeekendFrom(i, k) < max PROVE k <= n
      <4>1. i + (k - 1) * 7 * 24 < max
        BY <3>4 DEF WeekendFrom
      <4>2. 168 * (k - 1) <= y
        BY <1>1, <3>1, <4>1
      <4>3. k - 1 <= a
        BY <3>2, <4>2
      <4> QED BY <3>2, <3>3, <4>3
    <3> QED BY <3>2, <3>3, <3>4
  <2> QED BY <1>1, <2>1, <2>2
<1>8. Drawing!weekendAreas(r, zone) = Weekends(i, n)
  <2>1. Drawing!Local(day - ((Drawing!WeekDay(day) + 1) % 7), 0, zone) = i
    BY <1>3, <1>4, <1>5
  <2>2. Drawing!weekendAreas(r, zone)
           = [k \in 1..n |-> [from |-> i + (k - 1) * 7 * 24, to |-> i + (k - 1) * 7 * 24 + 2 * 24]]
    BY <1>1, <1>2, <1>6, <2>1 DEF Drawing!weekendAreas
  <2> QED BY <2>2 DEF Weekends, WeekendFrom
<1> QED BY <1>1, <1>50, <1>51, <1>52, <1>7, <1>8

IsShaded(h, r, zone) == \E m \in Drawing!Shaded(r, zone) : m.from <= h /\ h < m.to

\* The shades of a time axis are its hours of Saturdays and Sundays, by the clock of the first.
LEMMA ShadesByOneClock ==
    ASSUME NEW zone \in Drawing!Zones, NEW r \in Drawing!Ranges, NEW h \in Int, r.min <= h, h < r.max
    PROVE  \E i \in Int, p \in Int, d \in Int, x \in 0..23 :
              /\ p = Drawing!Offset(i, zone) /\ i <= r.min /\ r.min - 168 <= i
              /\ h + p = 24 * d + x
              /\ Drawing!WeekDay(d) \in {0, 6} <=> IsShaded(h, r, zone)
<1>1. PICK min \in Int, max \in Int : min = r.min /\ max = r.max /\ min <= h /\ h < max
  BY DEF Drawing!Ranges
<1>2. PICK c \in Int, i \in Int, n \in Nat \ {0} :
              /\ Drawing!weekendAreas(r, zone) = Weekends(i, n)
              /\ i + Drawing!Offset(i, zone) = 24 * (7 * c + 2) /\ i <= min /\ min - 168 <= i
              /\ \A k \in Nat \ {0} : WeekendFrom(i, k) < max => k \in 1..n
  <2>1. \E c \in Int, i \in Int, n \in Nat \ {0} :
              /\ Drawing!weekendAreas(r, zone) = Weekends(i, n)
              /\ i + Drawing!Offset(i, zone) = 24 * (7 * c + 2) /\ i <= r.min /\ r.min - 168 <= i
              /\ \A k \in Nat \ {0} : WeekendFrom(i, k) < r.max => k \in 1..n
    BY WeekendAreasAre
  <2> QED BY <1>1, <2>1
<1>20. PICK p \in Int : p = Drawing!Offset(i, zone) /\ i = 24 * (7 * c + 2) - p
  <2>1. PICK p \in Int : p = Drawing!Offset(i, zone)
    BY LocalParts
  <2>2. i + p = 24 * (7 * c + 2)
    BY <1>2, <2>1
  <2> QED BY <2>1, <2>2
<1>3. PICK d \in Int, x \in 0..23 : h = 24 * d + x - p
  <2>1. PICK s \in Int : s = h + p
    OBVIOUS
  <2>2. PICK d \in Int : d = s \div 24 /\ 24 * d <= s /\ s < 24 * d + 24
    BY <2>1
  <2>3. PICK x \in 0..23 : x = s - 24 * d
    BY <2>1, <2>2
  <2>4. h = 24 * d + x - p
    BY <2>1, <2>3
  <2> QED BY <2>4
<1>4. 7 * c + 2 <= d
  <2>1. PICK f \in Int : f = 7 * c + 2 /\ i = 24 * f - p
    BY <1>20
  <2>2. i <= h
    BY <1>1, <1>2
  <2>3. f <= d
    BY <1>3, <2>1, <2>2
  <2> QED BY <2>1, <2>3
<1>5. Drawing!WeekDay(d) \in {0, 6} <=> \E j \in Nat : 7 * (c + j) + 2 <= d /\ d <= 7 * (c + j) + 3
  BY <1>2, <1>3, <1>4, DaysOfWeekends
<1>6. ASSUME NEW j \in Nat
      PROVE  /\ 7 * (c + j) + 2 <= d /\ d <= 7 * (c + j) + 3
                <=> WeekendFrom(i, j + 1) <= h /\ h < WeekendFrom(i, j + 1) + 2 * 24
             /\ WeekendFrom(i, j + 1) \in Int
  <2>1. PICK g \in Int : g = 7 * (c + j) + 2
    BY <1>2
  <2>2. PICK f \in Int : f = 24 * g - p
    <3>1. p \in Int
      BY <1>20
    <3>2. 24 * g - p \in Int
      BY <3>1
    <3> QED BY <3>2
  <2>3. WeekendFrom(i, j + 1) = f
    <3>1. PICK e \in Int : e = 7 * c + 2 /\ i = 24 * e - p
      BY <1>20
    <3>2. g = e + 7 * j
      BY <2>1, <3>1
    <3>3. f = i + 168 * j
      BY <2>2, <3>1, <3>2
    <3>4. ((j + 1) - 1) * 7 * 24 = 168 * j
      OBVIOUS
    <3>5. WeekendFrom(i, j + 1) = i + ((j + 1) - 1) * 7 * 24
      BY DEF WeekendFrom
    <3> QED BY <3>3, <3>4, <3>5
  <2>4. g <= d <=> f <= h
    BY <1>3, <2>2
  <2>5. d <= g + 1 <=> h < f + 2 * 24
    BY <1>3, <2>2
  <2>6. 7 * (c + j) + 3 = g + 1
    BY <2>1
  <2> QED BY <2>1, <2>3, <2>4, <2>5, <2>6
<1> DEFINE areas == Drawing!weekendAreas(r, zone)
           shaded == Drawing!Shaded(r, zone)
           Clip(m) == [from |-> Max({m.from, min}), to |-> Min({m.to, max})]
           Shades(m) == m.from <= h /\ h < m.to
<1>7. shaded = {Clip(m) : m \in {y \in {areas[k] : k \in DOMAIN areas} : y.to >= min /\ y.from <= max}}
  <2>1. \A S : Drawing!Max(S) = Max(S) /\ Drawing!Min(S) = Min(S)
    BY DEF Drawing!Max, Max, Drawing!Min, Min
  <2> QED BY <1>1, <2>1 DEF Drawing!Shaded
<1>8. DOMAIN areas = 1..n
      /\ \A k \in 1..n : areas[k] = [from |-> WeekendFrom(i, k), to |-> WeekendFrom(i, k) + 2 * 24]
  BY <1>2 DEF Weekends
<1> HIDE DEF areas, shaded
<1>9. ASSUME NEW k \in 1..n
      PROVE  /\ areas[k].from = WeekendFrom(i, k) /\ areas[k].to = WeekendFrom(i, k) + 2 * 24
             /\ WeekendFrom(i, k) \in Int
  <2>1. PICK j \in Nat : j + 1 = k
    <3>1. k - 1 \in Nat /\ (k - 1) + 1 = k
      BY <1>2
    <3> QED BY <3>1
  <2>2. WeekendFrom(i, k) \in Int
    BY <1>6, <2>1
  <2> QED BY <1>8, <2>2
<1>10. ASSUME NEW k \in 1..n
       PROVE  /\ Shades(Clip(areas[k])) <=> WeekendFrom(i, k) <= h /\ h < WeekendFrom(i, k) + 2 * 24
              /\ WeekendFrom(i, k) <= h /\ h < WeekendFrom(i, k) + 2 * 24
                 => areas[k].to >= min /\ areas[k].from <= max
  <2>1. PICK f \in Int, t \in Int : f = areas[k].from /\ t = areas[k].to /\ f = WeekendFrom(i, k) /\ t = f + 2 * 24
    BY <1>9
  <2>2. /\ Clip(areas[k]).from = IF f >= min THEN f ELSE min
        /\ Clip(areas[k]).to = IF t <= max THEN t ELSE max
    <3>1. Clip(areas[k]).from = Max({f, min}) /\ Clip(areas[k]).to = Min({t, max})
      BY <2>1
    <3> QED BY <1>1, <2>1, <3>1, MaxOfTwo, MinOfTwo
  <2> HIDE DEF Clip
  <2> QED BY <1>1, <2>1, <2>2
<1> HIDE DEF Clip, Shades
<1>11. (\E m \in shaded : Shades(m))
       <=> \E k \in 1..n : WeekendFrom(i, k) <= h /\ h < WeekendFrom(i, k) + 2 * 24
  BY <1>7, <1>8, <1>10
<1>12. (\E k \in 1..n : WeekendFrom(i, k) <= h /\ h < WeekendFrom(i, k) + 2 * 24)
       <=> \E j \in Nat : 7 * (c + j) + 2 <= d /\ d <= 7 * (c + j) + 3
  <2>1. ASSUME NEW k \in 1..n, WeekendFrom(i, k) <= h, h < WeekendFrom(i, k) + 2 * 24
        PROVE  \E j \in Nat : 7 * (c + j) + 2 <= d /\ d <= 7 * (c + j) + 3
    <3>1. PICK j \in Nat : j + 1 = k
      <4>1. k - 1 \in Nat /\ (k - 1) + 1 = k
        BY <1>2
      <4> QED BY <4>1
    <3> QED BY <1>6, <2>1, <3>1
  <2>2. ASSUME NEW j \in Nat, 7 * (c + j) + 2 <= d, d <= 7 * (c + j) + 3
        PROVE  \E k \in 1..n : WeekendFrom(i, k) <= h /\ h < WeekendFrom(i, k) + 2 * 24
    <3>1. WeekendFrom(i, j + 1) <= h /\ h < WeekendFrom(i, j + 1) + 2 * 24
      BY <1>6, <2>2
    <3>2. PICK f \in Int : f = WeekendFrom(i, j + 1) /\ f < max
      <4>1. PICK f \in Int : f = WeekendFrom(i, j + 1)
        BY <1>6
      <4> QED BY <1>1, <3>1, <4>1
    <3>3. j + 1 \in 1..n
      BY <1>2, <3>2
    <3> QED BY <3>1, <3>3
  <2> QED BY <2>1, <2>2
<1>13. h + p = 24 * d + x
  BY <1>3, <1>20
<1>14. IsShaded(h, r, zone) <=> \E m \in shaded : Shades(m)
  BY DEF IsShaded, shaded, Shades
<1>15. i <= r.min /\ r.min - 168 <= i
  BY <1>1, <1>2
<1> QED
  BY <1>3, <1>5, <1>11, <1>12, <1>13, <1>14, <1>15, <1>20

\* The shades are right where the clock is not changed, or for an hour beside.
LEMMA ShadesAreWeekends ==
    ASSUME NEW zone \in Drawing!Zones, NEW r \in Drawing!Ranges, NEW h \in Int, r.min <= h, h < r.max
    PROVE  /\ \E o \in {-1, 0, 1} : (Drawing!WeekDay(Drawing!LocalDay(h + o, zone)) \in {0, 6}) <=> IsShaded(h, r, zone)
           /\ Still(r.min - 168, r.max, zone) =>
                ((Drawing!WeekDay(Drawing!LocalDay(h, zone)) \in {0, 6}) <=> IsShaded(h, r, zone))
<1>1. PICK min \in Int, max \in Int : min = r.min /\ max = r.max /\ min <= h /\ h < max
  BY DEF Drawing!Ranges
<1>2. PICK i \in Int, p \in Int, d \in Int, x \in 0..23 :
              /\ p = Drawing!Offset(i, zone) /\ i <= r.min /\ r.min - 168 <= i
              /\ h + p = 24 * d + x
              /\ Drawing!WeekDay(d) \in {0, 6} <=> IsShaded(h, r, zone)
  BY ShadesByOneClock
<1>3. p \in {zone.standard, zone.standard + 1}
  BY <1>2, Offsets
<1>4. h + p = 24 * d + x
  BY <1>2
<1>5. /\ DayNear(h, d, zone)
      /\ p = Drawing!Offset(h, zone) => Drawing!LocalDay(h, zone) = d
  BY <1>3, <1>4, AnHourOff
<1>6. ASSUME Still(min - 168, max, zone) PROVE Drawing!LocalDay(h, zone) = d
  <2>1. min - 168 \in Int /\ min - 168 <= i /\ i <= max /\ min - 168 <= h /\ h <= max
    BY <1>1, <1>2
  <2>2. Drawing!Offset(i, zone) = Drawing!Offset(h, zone)
    BY <1>1, <1>6, <2>1, StillOffset
  <2> QED BY <1>2, <1>5, <2>2
<1>7. \E o \in {-1, 0, 1} : (Drawing!WeekDay(Drawing!LocalDay(h + o, zone)) \in {0, 6}) <=> IsShaded(h, r, zone)
  <2>1. PICK o \in {-1, 0, 1} : Drawing!LocalDay(h + o, zone) = d
    BY <1>5 DEF DayNear
  <2>2. (Drawing!WeekDay(Drawing!LocalDay(h + o, zone)) \in {0, 6}) <=> IsShaded(h, r, zone)
    BY <1>2, <2>1
  <2> QED BY <2>2
<1> QED BY <1>1, <1>2, <1>6, <1>7

-----------------------------------------------------------------------------
(* The labels of the ticks. *)

\* The size of the ticks is one of the list.
LEMMA TimeTickSizes ==
    ASSUME NEW range, NEW n
    PROVE  Drawing!timeTickSize(range, n) \in Sizes
<1> DEFINE fits == {i \in 1..(Len(Drawing!Spec4) - 1) :
                      2 * range < n * (Drawing!Length(Drawing!Spec4[i]) + Drawing!Length(Drawing!Spec4[i + 1]))}
<1>1. Len(Drawing!Spec4) = 14
  BY DEF Drawing!Spec4
<1>2. \A x \in fits : x \in 1..14
  BY <1>1
<1>3. Drawing!timeTickSize(range, n) = Drawing!Spec4[IF fits = {} THEN 14 ELSE Drawing!Min(fits)]
  BY <1>1 DEF Drawing!timeTickSize
<1> HIDE DEF fits
<1>4. CASE fits = {}
  BY <1>3, <1>4 DEF Sizes
<1>5. CASE fits # {}
  <2>1. Drawing!Min(fits) = Min(fits)
    BY DEF Drawing!Min, Min
  <2>2. fits \subseteq Int /\ 0 \in Nat /\ \A x \in fits : -0 <= x
    BY <1>2
  <2>3. Min(fits) \in fits
    BY <1>5, <2>2, MinIsSmallest
  <2> QED BY <1>2, <1>3, <1>5, <2>1, <2>3 DEF Sizes
<1> QED BY <1>4, <1>5

\* The same date of two years: at least a year apart.
LEMMA SameDates ==
    ASSUME NEW n1 \in Int, NEW n2 \in Int, n1 < n2,
           Drawing!Month(n1) = Drawing!Month(n2), Drawing!Day(n1) = Drawing!Day(n2)
    PROVE  n2 - n1 >= 365 /\ Drawing!Year(n1) # Drawing!Year(n2)
<1>1. PICK y \in Int, z \in Int, m \in 0..11 : y = Drawing!Year(n1) /\ z = Drawing!Year(n2) /\ m = Drawing!Month(n1)
  BY YearOfDay, MonthOfAYear
<1>2. PICK a \in Int, b \in Int : a = Drawing!MonthStart(y, m) /\ b = Drawing!MonthStart(z, m)
  BY <1>1, MonthsOfAYear
<1>3. n2 - n1 = b - a
  <2>1. Drawing!Day(n1) = n1 - a + 1 /\ Drawing!Day(n2) = n2 - b + 1
    BY <1>1, <1>2 DEF Drawing!Day
  <2>2. n1 - a + 1 = n2 - b + 1
    BY <2>1
  <2>3. n1 - a = n2 - b
    BY <1>2, <2>2
  <2> QED BY <1>2, <2>3
<1>4. y # z
  BY <1>2, <1>3
<1>5. PICK p \in Int, p1 \in Int, q \in Int, q1 \in Int :
         /\ p = Drawing!YearStart(y) /\ p1 = Drawing!YearStart(y + 1)
         /\ q = Drawing!YearStart(z) /\ q1 = Drawing!YearStart(z + 1)
  <2>1. PICK y1 \in Int, z1 \in Int : y1 = y + 1 /\ z1 = z + 1
    BY <1>1
  <2>2. /\ Drawing!YearStart(y) \in Int /\ Drawing!YearStart(y1) \in Int
        /\ Drawing!YearStart(z) \in Int /\ Drawing!YearStart(z1) \in Int
    BY <1>1, <2>1, YearStartBounds
  <2> QED BY <2>1, <2>2
<1>6. p <= n1 /\ n2 < q1
  BY <1>1, <1>5, YearOfDay
<1>7. y < z
  <2>1. ASSUME z < y PROVE FALSE
    <3>1. q1 <= p
      BY <1>1, <1>5, <2>1, YearsInOrder
    <3> QED BY <1>5, <1>6, <3>1
  <2> QED BY <1>1, <1>4, <2>1
<1>8. p1 <= q
  BY <1>1, <1>5, <1>7, YearsInOrder
<1>9. PICK e \in 0..1, f \in 0..1 : /\ e = IF Drawing!isLeapYear(y) THEN 1 ELSE 0
                                   /\ f = IF Drawing!isLeapYear(z) THEN 1 ELSE 0
  OBVIOUS
<1>10. p1 = p + 365 + e
  BY <1>1, <1>5, <1>9, YearLength
<1>11. PICK c \in Int : /\ a = p + c + (IF m > 1 THEN e ELSE 0)
                        /\ b = q + c + (IF m > 1 THEN f ELSE 0)
  <2> DEFINE days == <<0, 31, 59, 90, 120, 151, 181, 212, 243, 273, 304, 334>>
  <2>1. PICK c \in Int : c = days[m + 1]
    BY <1>1
  <2>2. /\ a = p + c + (IF m > 1 /\ Drawing!isLeapYear(y) THEN 1 ELSE 0)
        /\ b = q + c + (IF m > 1 /\ Drawing!isLeapYear(z) THEN 1 ELSE 0)
    BY <1>2, <1>5, <2>1 DEF Drawing!MonthStart
  <2> QED BY <1>9, <2>1, <2>2
<1>12. b - a >= 365
  BY <1>2, <1>5, <1>8, <1>9, <1>10, <1>11
<1> QED BY <1>1, <1>3, <1>4, <1>12

\* What a format writes of a time.
LEMMA FormatsTell ==
    ASSUME NEW zone, NEW v, NEW w, NEW fmt, NEW i \in DOMAIN fmt,
           Drawing!formatDate(v, fmt, zone) = Drawing!formatDate(w, fmt, zone)
    PROVE  /\ fmt[i] = "b" => Drawing!Month(Drawing!LocalDay(v, zone)) = Drawing!Month(Drawing!LocalDay(w, zone))
           /\ fmt[i] = "d" => Drawing!Day(Drawing!LocalDay(v, zone)) = Drawing!Day(Drawing!LocalDay(w, zone))
           /\ fmt[i] = "H" => Drawing!LocalHour(v, zone) = Drawing!LocalHour(w, zone)
           /\ fmt[i] = "Y" => Drawing!Year(Drawing!LocalDay(v, zone)) = Drawing!Year(Drawing!LocalDay(w, zone))
<1> DEFINE part(t) == [b |-> Drawing!Month(Drawing!LocalDay(t, zone)), d |-> Drawing!Day(Drawing!LocalDay(t, zone)),
                       H |-> Drawing!LocalHour(t, zone), Y |-> Drawing!Year(Drawing!LocalDay(t, zone))]
<1>1. \A t : Drawing!formatDate(t, fmt, zone)[i] = part(t)[fmt[i]]
  BY DEF Drawing!formatDate
<1>2. part(v)[fmt[i]] = part(w)[fmt[i]]
  BY <1>1
<1>3. CASE fmt[i] = "b"
  BY <1>2, <1>3
<1>4. CASE fmt[i] = "d"
  BY <1>2, <1>4
<1>5. CASE fmt[i] = "H"
  BY <1>2, <1>5
<1>6. CASE fmt[i] = "Y"
  BY <1>2, <1>6
<1> QED BY <1>3, <1>4, <1>5, <1>6

\* Two ticks with the same label, the second later.
LabelsTell(v, w, size, span, zone) ==
    LET days == Drawing!LocalDay(w, zone) - Drawing!LocalDay(v, zone)
    IN  IF Drawing!Length(size) < 24 /\ span < 48 THEN days >= 1
        ELSE days >= 365 /\ Drawing!tickFormat(size, span) # <<"b", "Y">>

LEMMA SameDayTimes ==
    ASSUME NEW zone \in Drawing!Zones, NEW v \in Int, NEW w \in Int, v < w,
           Drawing!LocalHour(v, zone) = Drawing!LocalHour(w, zone),
           Drawing!Offset(v, zone) = Drawing!Offset(w, zone) \/ Drawing!LocalHour(v, zone) = 0
    PROVE  /\ Drawing!LocalDay(v, zone) \in Int /\ Drawing!LocalDay(w, zone) \in Int
           /\ Drawing!LocalDay(v, zone) < Drawing!LocalDay(w, zone)
<1>1. /\ Drawing!LocalDay(v, zone) \in Int /\ Drawing!LocalHour(v, zone) \in 0..23
      /\ Drawing!Offset(v, zone) \in Int
      /\ v = 24 * Drawing!LocalDay(v, zone) + Drawing!LocalHour(v, zone) - Drawing!Offset(v, zone)
  BY LocalParts
<1>2. /\ Drawing!LocalDay(w, zone) \in Int
      /\ w = 24 * Drawing!LocalDay(w, zone) + Drawing!LocalHour(w, zone) - Drawing!Offset(w, zone)
  BY LocalParts
<1>3. PICK d \in Int, e \in Int, h \in 0..23, o \in Int :
         /\ d = Drawing!LocalDay(v, zone) /\ e = Drawing!LocalDay(w, zone)
         /\ h = Drawing!LocalHour(v, zone) /\ o = Drawing!Offset(v, zone)
  BY <1>1, <1>2
<1>4. CASE Drawing!Offset(v, zone) = Drawing!Offset(w, zone)
  <2>1. v = 24 * d + h - o /\ w = 24 * e + h - o
    BY <1>1, <1>2, <1>3, <1>4
  <2>2. d < e
    BY <1>3, <2>1
  <2> QED BY <1>3, <2>2
<1>5. CASE h = 0
  <2>1. v = Drawing!Local(d, 0, zone) /\ w = Drawing!Local(e, 0, zone)
    BY <1>3, <1>5, MidnightIs
  <2>2. d <= e
    BY <1>3, <2>1, MidnightsInOrder
  <2>3. d # e
    BY <2>1
  <2>4. d < e
    BY <1>3, <2>2, <2>3
  <2> QED BY <1>3, <2>4
<1> QED BY <1>3, <1>4, <1>5

LEMMA FirstIsDayOne ==
    ASSUME NEW p \in Int
    PROVE  Drawing!Day(FirstOf(p)) = 1
<1>1. PICK f \in Int : f = FirstOf(p)
  BY MonthDays
<1>2. PICK g \in Int : g = FirstOf(p + 1) /\ f + 28 <= g
  <2>1. FirstOf(p) + 28 <= FirstOf(p + 1)
    BY MonthDays
  <2>2. p + 1 \in Int
    OBVIOUS
  <2>3. FirstOf(p + 1) \in Int
    BY <2>2, MonthDays
  <2> QED BY <1>1, <2>1, <2>3
<1>3. FirstOf(p) <= f /\ f < FirstOf(p + 1)
  BY <1>1, <1>2
<1>4. MonthOf(f) = p
  BY <1>1, <1>3, MonthFromFirst
<1>5. Drawing!Day(f) = f - f + 1
  BY <1>1, <1>4, DayInMonth
<1> QED BY <1>1, <1>5

LEMMA LabelsApart ==
    ASSUME NEW zone \in Drawing!Zones, NEW size \in Sizes, NEW span \in Int, NEW v \in Int, NEW w \in Int, v < w,
           Drawing!Length(size) >= 24 => Drawing!LocalHour(v, zone) = 0 /\ Drawing!LocalHour(w, zone) = 0,
           size[2] = "month" \/ Drawing!Offset(v, zone) = Drawing!Offset(w, zone),
           size[2] = "month" /\ size[1] >= 4 =>
              (\E p \in Int : Drawing!LocalDay(v, zone) = FirstOf(p)) /\ \E p \in Int : Drawing!LocalDay(w, zone) = FirstOf(p),
           Drawing!formatDate(v, Drawing!tickFormat(size, span), zone)
              = Drawing!formatDate(w, Drawing!tickFormat(size, span), zone)
    PROVE  LabelsTell(v, w, size, span, zone)
<1>1. PICK l \in Nat : l = Drawing!Length(size)
  BY SizeLength
<1>2. PICK fmt : /\ fmt = Drawing!tickFormat(size, span)
                 /\ Drawing!formatDate(v, fmt, zone) = Drawing!formatDate(w, fmt, zone)
  OBVIOUS
<1>3. /\ l < 24 /\ span < 48 => fmt = <<"H">>
      /\ l < 24 /\ ~(span < 48) => fmt = <<"b", "d", "H">>
      /\ l >= 24 /\ l < 720 => fmt = <<"b", "d">>
      /\ l >= 720 => fmt = <<"b">> \/ fmt = <<"b", "Y">>
  <2>1. fmt = CASE l < 24 /\ span < 48        -> <<"H">>
                [] l < 24 /\ span >= 48       -> <<"b", "d", "H">>
                [] l >= 24 /\ l < 720         -> <<"b", "d">>
                [] l >= 720 /\ span < 8766    -> <<"b">>
                [] OTHER                      -> <<"b", "Y">>
    BY <1>1, <1>2 DEF Drawing!tickFormat
  <2>2. CASE l < 24 /\ span < 48
    BY <1>1, <2>1, <2>2
  <2>3. CASE l < 24 /\ ~(span < 48)
    BY <1>1, <2>1, <2>3
  <2>4. CASE l >= 24 /\ l < 720
    BY <1>1, <2>1, <2>4
  <2>5. CASE l >= 720
    <3>1. CASE span < 8766
      BY <1>1, <2>1, <2>5, <3>1
    <3>2. CASE ~(span < 8766)
      BY <1>1, <2>1, <2>5, <3>2
    <3> QED BY <1>1, <2>5, <3>1, <3>2
  <2> QED BY <1>1, <2>2, <2>3, <2>4, <2>5
<1>4. PICK d, e : d = Drawing!LocalDay(v, zone) /\ e = Drawing!LocalDay(w, zone)
  OBVIOUS
<1>5. ASSUME Drawing!LocalHour(v, zone) = Drawing!LocalHour(w, zone)
      PROVE  /\ d \in Int /\ e \in Int /\ d < e /\ e - d >= 1
  <2>1. size[2] = "month" => Drawing!Length(size) >= 24
    BY SizeLength
  <2>2. Drawing!Offset(v, zone) = Drawing!Offset(w, zone) \/ Drawing!LocalHour(v, zone) = 0
    BY <2>1
  <2>3. d \in Int /\ e \in Int /\ d < e
    BY <1>4, <1>5, <2>2, SameDayTimes
  <2>4. e - d >= 1
    BY <2>3
  <2> QED BY <2>3, <2>4
<1>6. ASSUME Drawing!LocalHour(v, zone) = Drawing!LocalHour(w, zone),
             Drawing!Month(d) = Drawing!Month(e), Drawing!Day(d) = Drawing!Day(e)
      PROVE  e - d >= 365 /\ Drawing!Year(d) # Drawing!Year(e)
  <2>1. d \in Int /\ e \in Int /\ d < e
    BY <1>5, <1>6
  <2> QED BY <1>6, <2>1, SameDates
<1>7. CASE l < 24 /\ span < 48
  <2>1. fmt = <<"H">> /\ 1 \in DOMAIN fmt /\ fmt[1] = "H"
    BY <1>3, <1>7
  <2>2. Drawing!LocalHour(v, zone) = Drawing!LocalHour(w, zone)
    BY <1>2, <2>1, FormatsTell
  <2>3. e - d >= 1
    BY <1>5, <2>2
  <2> QED BY <1>1, <1>4, <1>7, <2>3 DEF LabelsTell
<1>8. CASE l < 24 /\ ~(span < 48)
  <2>1. /\ fmt = <<"b", "d", "H">> /\ 1 \in DOMAIN fmt /\ 2 \in DOMAIN fmt /\ 3 \in DOMAIN fmt
        /\ fmt[1] = "b" /\ fmt[2] = "d" /\ fmt[3] = "H"
    BY <1>3, <1>8
  <2>2. Drawing!Month(d) = Drawing!Month(e)
    BY <1>2, <1>4, <2>1, FormatsTell
  <2>3. Drawing!Day(d) = Drawing!Day(e)
    BY <1>2, <1>4, <2>1, FormatsTell
  <2>4. Drawing!LocalHour(v, zone) = Drawing!LocalHour(w, zone)
    BY <1>2, <2>1, FormatsTell
  <2>5. e - d >= 365
    BY <1>6, <2>2, <2>3, <2>4
  <2>6. fmt # <<"b", "Y">>
    <3>1. Len(<<"b", "Y">>) = 2 /\ Len(<<"b", "d", "H">>) = 3
      OBVIOUS
    <3> QED BY <2>1, <3>1
  <2> QED BY <1>1, <1>2, <1>4, <1>8, <2>5, <2>6 DEF LabelsTell
<1>9. ASSUME l >= 24
      PROVE  Drawing!LocalHour(v, zone) = Drawing!LocalHour(w, zone)
  BY <1>1, <1>9
<1>10. CASE l >= 24 /\ l < 720
  <2>1. /\ fmt = <<"b", "d">> /\ 1 \in DOMAIN fmt /\ 2 \in DOMAIN fmt
        /\ fmt[1] = "b" /\ fmt[2] = "d"
    BY <1>3, <1>10
  <2>2. Drawing!Month(d) = Drawing!Month(e)
    BY <1>2, <1>4, <2>1, FormatsTell
  <2>3. Drawing!Day(d) = Drawing!Day(e)
    BY <1>2, <1>4, <2>1, FormatsTell
  <2>4. e - d >= 365
    BY <1>6, <1>9, <1>10, <2>2, <2>3
  <2>5. fmt # <<"b", "Y">>
    <3>1. <<"b", "Y">>[2] = "Y"
      OBVIOUS
    <3> QED BY <2>1, <3>1
  <2>6. ~(l < 24)
    BY <1>1, <1>10
  <2> QED BY <1>1, <1>2, <1>4, <2>4, <2>5, <2>6 DEF LabelsTell
<1>11. CASE l >= 720
  <2>1. size[2] = "month" /\ size[1] >= 4
    BY <1>1, <1>11, SizeKinds
  <2>2. PICK p \in Int, q \in Int : d = FirstOf(p) /\ e = FirstOf(q)
    BY <1>4, <2>1
  <2>3. Drawing!Day(d) = Drawing!Day(e)
    <3>1. Drawing!Day(d) = 1
      BY <2>2, FirstIsDayOne
    <3>2. Drawing!Day(e) = 1
      BY <2>2, FirstIsDayOne
    <3> QED BY <3>1, <3>2
  <2>4. 1 \in DOMAIN fmt /\ fmt[1] = "b"
    BY <1>3, <1>11
  <2>5. Drawing!Month(d) = Drawing!Month(e)
    BY <1>2, <1>4, <2>4, FormatsTell
  <2>6. e - d >= 365 /\ Drawing!Year(d) # Drawing!Year(e)
    BY <1>1, <1>6, <1>9, <1>11, <2>3, <2>5
  <2>7. fmt # <<"b", "Y">>
    <3>1. ASSUME fmt = <<"b", "Y">> PROVE FALSE
      <4>1. 2 \in DOMAIN fmt /\ fmt[2] = "Y"
        BY <3>1
      <4>2. Drawing!Year(d) = Drawing!Year(e)
        BY <1>2, <1>4, <4>1, FormatsTell
      <4> QED BY <2>6, <4>2
    <3> QED BY <3>1
  <2>8. ~(l < 24)
    BY <1>1, <1>11
  <2> QED BY <1>1, <1>2, <1>4, <2>6, <2>7, <2>8 DEF LabelsTell
<1> QED BY <1>1, <1>7, <1>8, <1>10, <1>11

-----------------------------------------------------------------------------
(* GridTellsTheTime rests on what the data leave alone: until the text is  *)
(* rendered, the shades and ticks that were painted are those of the view. *)

GridInv ==
    side = "drawing" =>
        /\ figure \in Figures /\ view \in figure.views
        /\ DOMAIN strokes = {"shaded", "ticks", "lines", "fills", "rects"}
        /\ phase \in {"made", "fitted", "area", "line", "bars", "drawn", "idle"}
        /\ phase \in {"area", "line", "bars", "drawn"} =>
              strokes.shaded = Drawing!Shaded(view.x, Zone) /\ strokes.ticks = Drawing!Ticks[figure][view]

LEMMA GridInvInit == SideInit => GridInv
  BY DEF SideInit, PointerInit, Drawing!Init, Drawing!Nothing, GridInv

LEMMA GridInvNext == GridInv /\ [SideNext]_sideVars => GridInv'
<1> SUFFICES ASSUME GridInv, [SideNext]_sideVars PROVE GridInv'
  OBVIOUS
<1> USE DEF GridInv
<1>1. CASE OnReplay \/ OnPointer
  BY <1>1 DEF OnReplay, OnPointer
<1>2. CASE UNCHANGED sideVars
  BY <1>2 DEF sideVars, drawingVars
<1>3. CASE OnDrawing
  <2>0. side = "drawing" /\ side' = side
    BY <1>3 DEF OnDrawing
  <2>1. CASE Drawing!setupGrid
    <3>1. figure' = figure /\ view' \in figure.views /\ phase' = "fitted" /\ strokes' = Drawing!Nothing
      BY <2>0, <2>1 DEF Drawing!setupGrid, Drawing!Fitted, Drawing!firstPass, Drawing!name
    <3> QED BY <2>0, <3>1 DEF Drawing!Nothing
  <2>2. CASE Drawing!drawGrid
    <3>1. /\ figure' = figure /\ view' = view /\ phase' \in {"area", "bars"}
          /\ strokes' = [Drawing!Nothing EXCEPT !.shaded = Drawing!Shaded(view.x, Zone),
                                               !.ticks = Drawing!Ticks[figure][view]]
      BY <2>2 DEF Drawing!drawGrid
    <3>2. /\ DOMAIN strokes' = {"shaded", "ticks", "lines", "fills", "rects"}
          /\ strokes'.shaded = Drawing!Shaded(view.x, Zone) /\ strokes'.ticks = Drawing!Ticks[figure][view]
      BY <3>1 DEF Drawing!Nothing
    <3> QED BY <2>0, <3>1, <3>2
  <2>3. CASE Drawing!Turn \/ Drawing!Sketch \/ Drawing!AreaDone \/ Drawing!LineDone \/ Drawing!BarsDone
    BY <2>0, <2>3 DEF Drawing!Turn, Drawing!Sketch, Drawing!AreaDone, Drawing!LineDone, Drawing!BarsDone,
                      Drawing!Sweeping
  <2>4. CASE Drawing!Fill
    <3>1. /\ figure' = figure /\ view' = view /\ phase' = phase
          /\ \E x : strokes' = [strokes EXCEPT !.fills = x]
      BY <2>4 DEF Drawing!Fill
    <3> QED BY <2>0, <3>1
  <2>5. CASE Drawing!plotLine
    <3>1. /\ figure' = figure /\ view' = view /\ phase' = phase
          /\ strokes' = strokes \/ \E x : strokes' = [strokes EXCEPT !.lines = x]
      BY <2>5 DEF Drawing!plotLine
    <3> QED BY <2>0, <3>1
  <2>6. CASE Drawing!plotBars
    <3>1. /\ figure' = figure /\ view' = view /\ phase' = phase
          /\ \E x : strokes' = [strokes EXCEPT !.rects = x]
      BY <2>6 DEF Drawing!plotBars
    <3> QED BY <2>0, <3>1
  <2>7. CASE Drawing!render
    BY <2>0, <2>7 DEF Drawing!render
  <2> QED
    BY <1>3, <2>1, <2>2, <2>3, <2>4, <2>5, <2>6, <2>7 DEF OnDrawing, Drawing!Next
<1> QED
  BY <1>1, <1>2, <1>3 DEF SideNext

LEMMA GridTells == GridInv => GridTellsTheTime
<1> SUFFICES ASSUME GridInv, side = "drawing", phase = "drawn" PROVE Drawing!GridTellsTheTime
  BY DEF GridTellsTheTime, On, Drawing!GridTellsTheTime
<1> DEFINE size == Drawing!XSize(figure, view.x)
           span == view.x.max - view.x.min
           ticks == strokes.ticks
           even == size[2] = "month" \/ Drawing!Steady(1)
<1>1. /\ figure \in Figures /\ view \in figure.views
      /\ strokes.shaded = Drawing!Shaded(view.x, Zone) /\ strokes.ticks = Drawing!Ticks[figure][view]
  BY DEF GridInv
<1>2. PICK r \in Drawing!Ranges : r = view.x
  BY <1>1, DrawingAssumption DEF Drawing!CanBeDrawn
<1>3. Zone \in Drawing!Zones
  BY DrawingAssumption DEF Drawing!CanBeDrawn
<1>4. size \in Sizes
  BY TimeTickSizes DEF Drawing!XSize, Sizes
<1>5. ticks = Drawing!ticksInside(Drawing!timeTicks(r, size, Zone), r)
  BY <1>1, <1>2 DEF Drawing!Ticks
<1> HIDE DEF size, ticks, even
<1>6. PICK t \in Seq(Int) : t = ticks /\ TicksTell(t, r, size, Zone)
  BY <1>2, <1>3, <1>4, <1>5, TicksAreTold
<1>7. PICK min \in Int, max \in Int : min = r.min /\ max = r.max /\ min < max
  BY <1>2 DEF Drawing!Ranges
<1>8. PICK m \in Nat : m = Len(t) /\ DOMAIN t = 1..m
  BY <1>6
<1>9. \A i \in 1..m : t[i] \in Int
  BY <1>6, <1>8
<1>10. /\ \A i, j \in 1..m : i < j => t[i] < t[j]
       /\ \A i \in 1..m :
          /\ Drawing!Inside(t[i], r)
          /\ Drawing!Length(size) >= 24 => OnTheClock(t[i], r, size, Zone)
          /\ size[2] = "month" /\ size[1] >= 4 => \E p \in Int : Drawing!LocalDay(t[i], Zone) = FirstOf(p)
       /\ size[2] = "month" /\ size[1] = 4 =>
          \A h \in min..max :
              Drawing!Day(Drawing!LocalDay(h, Zone)) = 1 /\ Drawing!LocalHour(h, Zone) = 0
              => \E i \in 1..m : t[i] = h
       /\ size[2] # "month" =>
          \A i \in 1..m : i > 1 => t[i] - t[i - 1] = Drawing!Length(size)
  BY <1>6, <1>7, <1>8 DEF TicksTell, InOrder
<1>100. /\ Drawing!Steady(1) <=> Still(min - 24, max, Zone)
        /\ Drawing!Steady(7) <=> Still(min - 168, max, Zone)
  <2>1. 24 * 1 = 24 /\ 24 * 7 = 168
    OBVIOUS
  <2> QED BY <1>2, <1>7, <2>1 DEF Drawing!Steady, Still
<1>11. \A h \in min..(max - 1) : \E o \in Drawing!Astray(Drawing!Steady(7)) :
          (Drawing!WeekDay(Drawing!LocalDay(h + o, Zone)) \in {0, 6})
          <=> \E x \in strokes.shaded : x.from <= h /\ h < x.to
  <2>1. TAKE h \in min..(max - 1)
  <2>2. h \in Int /\ r.min <= h /\ h < r.max /\ h + 0 = h
    BY <1>7
  <2>3. /\ \E o \in {-1, 0, 1} : (Drawing!WeekDay(Drawing!LocalDay(h + o, Zone)) \in {0, 6}) <=> IsShaded(h, r, Zone)
        /\ Still(r.min - 168, r.max, Zone) =>
              ((Drawing!WeekDay(Drawing!LocalDay(h, Zone)) \in {0, 6}) <=> IsShaded(h, r, Zone))
    BY <1>2, <1>3, <2>2, ShadesAreWeekends
  <2>4. IsShaded(h, r, Zone) <=> \E x \in strokes.shaded : x.from <= h /\ h < x.to
    BY <1>1, <1>2 DEF IsShaded
  <2>5. CASE Drawing!Steady(7)
    <3>1. Drawing!Astray(Drawing!Steady(7)) = {0}
      BY <2>5 DEF Drawing!Astray
    <3>2. (Drawing!WeekDay(Drawing!LocalDay(h + 0, Zone)) \in {0, 6}) <=> IsShaded(h, r, Zone)
      BY <1>7, <1>100, <2>2, <2>3, <2>5
    <3> QED BY <2>4, <3>1, <3>2
  <2>6. CASE ~Drawing!Steady(7)
    <3>1. Drawing!Astray(Drawing!Steady(7)) = {-1, 0, 1}
      BY <2>6 DEF Drawing!Astray
    <3> QED BY <2>3, <2>4, <3>1
  <2> QED BY <2>5, <2>6
<1>110. even => size[2] = "month" \/ Still(min - 24, max, Zone)
  BY <1>100 DEF even
<1>111. ASSUME NEW i \in 1..m, Drawing!Length(size) >= 24
        PROVE  \E o \in Drawing!Astray(even) : (Drawing!LocalHour(t[i], Zone) + o) % 24 = 0
  <2>1. /\ NearMidnight(Drawing!LocalHour(t[i], Zone))
        /\ even => Drawing!LocalHour(t[i], Zone) = 0
    BY <1>7, <1>10, <1>110, <1>111 DEF OnTheClock
  <2>2. CASE even
    <3>1. Drawing!Astray(even) = {0}
      BY <2>2 DEF Drawing!Astray
    <3>2. (0 + 0) % 24 = 0
      OBVIOUS
    <3>3. Drawing!LocalHour(t[i], Zone) = 0
      BY <2>1, <2>2
    <3> QED BY <3>1, <3>2, <3>3
  <2>3. CASE ~even
    <3>1. Drawing!Astray(even) = {-1, 0, 1}
      BY <2>3 DEF Drawing!Astray
    <3> QED BY <2>1, <3>1 DEF NearMidnight
  <2> QED BY <2>2, <2>3
<1>12. ASSUME NEW i \in 1..m, NEW j \in 1..m, i < j, even, figure.page = "lines",
              Drawing!Label(t[i], figure, r) = Drawing!Label(t[j], figure, r)
       PROVE  LabelsTell(t[i], t[j], size, max - min, Zone)
  <2>1. PICK v \in Int, w \in Int : v = t[i] /\ w = t[j] /\ v < w
    BY <1>9, <1>10, <1>12
  <2>2. PICK x \in Int : x = max - min
    BY <1>7
  <2>3. Drawing!formatDate(v, Drawing!tickFormat(size, x), Zone) = Drawing!formatDate(w, Drawing!tickFormat(size, x), Zone)
    BY <1>2, <1>7, <1>12, <2>1, <2>2 DEF Drawing!Label, size
  <2>4. /\ Drawing!Length(size) >= 24 => Drawing!LocalHour(v, Zone) = 0 /\ Drawing!LocalHour(w, Zone) = 0
        /\ size[2] = "month" /\ size[1] >= 4 =>
              (\E p \in Int : Drawing!LocalDay(v, Zone) = FirstOf(p)) /\ \E p \in Int : Drawing!LocalDay(w, Zone) = FirstOf(p)
    BY <1>7, <1>10, <1>12, <1>110, <2>1 DEF OnTheClock
  <2>5. size[2] = "month" \/ Drawing!Offset(v, Zone) = Drawing!Offset(w, Zone)
    <3>1. ASSUME Still(min - 24, max, Zone) PROVE Drawing!Offset(v, Zone) = Drawing!Offset(w, Zone)
      <4>1. Drawing!Inside(v, r) /\ Drawing!Inside(w, r)
        BY <1>10, <2>1
      <4>2. min - 24 \in Int /\ min - 24 <= v /\ v <= max /\ min - 24 <= w /\ w <= max
        BY <1>7, <2>1, <4>1 DEF Drawing!Inside
      <4> QED BY <1>3, <1>7, <2>1, <3>1, <4>2, StillOffset
    <3> QED BY <1>12, <1>110, <3>1
  <2>6. LabelsTell(v, w, size, x, Zone)
    BY <1>3, <1>4, <2>1, <2>2, <2>3, <2>4, <2>5, LabelsApart
  <2> QED BY <2>1, <2>2, <2>6
<1>13. \A h : h \in Drawing!ToSet(t) <=> \E i \in 1..m : t[i] = h
  BY <1>8 DEF Drawing!ToSet
<1>14. /\ \A h \in view.x.min..(view.x.max - 1) : \E o \in Drawing!Astray(Drawing!Steady(7)) :
                  (Drawing!WeekDay(Drawing!LocalDay(h + o, Zone)) \in {0, 6})
                  <=> \E x \in strokes.shaded : x.from <= h /\ h < x.to
       /\ \A i \in DOMAIN ticks : Drawing!Length(size) >= 24 =>
                  \E o \in Drawing!Astray(even) : (Drawing!LocalHour(ticks[i], Zone) + o) % 24 = 0
  BY <1>2, <1>6, <1>7, <1>8, <1>11, <1>111
<1>15. \A i, j \in DOMAIN ticks : i < j =>
          /\ ticks[i] < ticks[j]
          /\ even /\ figure.page = "lines" /\ Drawing!Label(ticks[i], figure, view.x) = Drawing!Label(ticks[j], figure, view.x) =>
                LabelsTell(ticks[i], ticks[j], size, max - min, Zone)
  BY <1>2, <1>6, <1>7, <1>8, <1>10, <1>12
<1>150. span = max - min
  BY <1>2, <1>7
<1>16. size[2] = "month" /\ size[1] = 4 =>
          \A h \in view.x.min..view.x.max :
              Drawing!Day(Drawing!LocalDay(h, Zone)) = 1 /\ Drawing!LocalHour(h, Zone) = 0 => h \in Drawing!ToSet(ticks)
  BY <1>2, <1>6, <1>7, <1>10, <1>13
<1>17. size[2] # "month" =>
          \A i \in DOMAIN ticks : i > 1 => ticks[i] - ticks[i - 1] = Drawing!Length(size)
  BY <1>6, <1>8, <1>10
<1> QED
  BY <1>14, <1>15, <1>150, <1>16, <1>17 DEF Drawing!GridTellsTheTime, LabelsTell, size, ticks, even

\* The grid of every drawing tells the time, for every figure, view and number of ticks, and every zone,
\* those with summer time too: what weekendAreas shades, and the ticks that flot.time's tickGenerator and
\* tickFormatter return.
THEOREM GridIsTrue == SideSpec => []GridTellsTheTime
<1>1. SideInit => GridInv
  BY GridInvInit
<1>2. GridInv /\ [SideNext]_sideVars => GridInv'
  BY GridInvNext
<1>3. GridInv => GridTellsTheTime
  BY GridTells
<1> QED
  BY <1>1, <1>2, <1>3, PTL DEF SideSpec

-----------------------------------------------------------------------------
(* The text.  A text has one position at a place and at most one original, *)
(* and what is on the page are the elements of what has been rendered.     *)

IsPosition(p) ==
    /\ p = [text |-> p.text, at |-> p.at, original |-> p.original,
            active |-> p.active, rendered |-> p.rendered]
    /\ p.original \in BOOLEAN /\ p.active \in BOOLEAN /\ p.rendered \in BOOLEAN

OneOfEach(texts) ==
    \A p, q \in texts : p.text = q.text /\ (p.at = q.at \/ (p.original /\ q.original)) => p = q

Elements(texts) == {Drawing!Element(p) : p \in {q \in texts : q.rendered}}

\* The labels that are shown are those of the axes.
Shows(texts, labels) ==
    /\ \A p \in texts : p.active => \E i \in DOMAIN labels : p.text = labels[i].text /\ p.at = labels[i].at
    /\ \A i \in DOMAIN labels : \E p \in texts : p.active /\ p.text = labels[i].text /\ p.at = labels[i].at

\* What addText adds, and what it keeps.
Placed(p, l)  == p.text = l.text /\ p.at = l.at
FirstOfText(texts, labels, i) ==
    /\ \A p \in texts : p.text # labels[i].text
    /\ \A j \in 1..(i - 1) : labels[j].text # labels[i].text
NewLabels(texts, labels) ==
    {i \in DOMAIN labels : /\ \A p \in texts : ~Placed(p, labels[i])
                           /\ \A j \in 1..(i - 1) : ~Placed(labels[j], labels[i])}
NewPosition(texts, labels, i) ==
    [text |-> labels[i].text, at |-> labels[i].at, original |-> FirstOfText(texts, labels, i),
     active |-> TRUE, rendered |-> FALSE]

LEMMA AddTextIs ==
    ASSUME NEW texts, NEW labels
    PROVE  LET kept == {p \in texts : \E i \in DOMAIN labels : Placed(p, labels[i])}
           IN  Drawing!addText(texts, labels) =
                  (texts \ kept) \cup {[p EXCEPT !.active = TRUE] : p \in kept}
                  \cup {NewPosition(texts, labels, i) : i \in NewLabels(texts, labels)}
  BY DEF Drawing!addText, Placed, FirstOfText, NewLabels, NewPosition

\* A position and what became of it have the same text, place and element.
Became(p, q) == p.text = q.text /\ p.at = q.at /\ p.original = q.original /\ p.rendered = q.rendered

LEMMA Activated ==
    ASSUME NEW p, IsPosition(p), NEW b \in BOOLEAN, NEW q, q = [p EXCEPT !.active = b]
    PROVE  IsPosition(q) /\ Became(p, q) /\ q.active = b /\ Drawing!Element(q) = Drawing!Element(p)
<1>1. p = [text |-> p.text, at |-> p.at, original |-> p.original,
            active |-> p.active, rendered |-> p.rendered]
  BY DEF IsPosition
<1>2. q = [text |-> p.text, at |-> p.at, original |-> p.original, active |-> b, rendered |-> p.rendered]
  BY <1>1
<1>3. Became(p, q) /\ q.active = b
  BY <1>2 DEF Became
<1> QED BY <1>2, <1>3 DEF IsPosition, Became, Drawing!Element

LEMMA RemovedText ==
    ASSUME NEW texts, \A p \in texts : IsPosition(p), OneOfEach(texts), NEW new, new = Drawing!removeText(texts)
    PROVE  /\ \A q \in new : IsPosition(q) /\ ~q.active /\ \E p \in texts : q = [p EXCEPT !.active = FALSE]
           /\ OneOfEach(new) /\ Elements(new) = Elements(texts)
<1>1. \A q \in new : \E p \in texts : q = [p EXCEPT !.active = FALSE]
  BY DEF Drawing!removeText
<1>2. ASSUME NEW q \in new
      PROVE  \E p \in texts : /\ q = [p EXCEPT !.active = FALSE] /\ IsPosition(q) /\ Became(p, q) /\ q.active = FALSE
                              /\ Drawing!Element(q) = Drawing!Element(p)
  <2>1. PICK p \in texts : q = [p EXCEPT !.active = FALSE]
    BY <1>1
  <2>2. IsPosition(p)
    OBVIOUS
  <2> QED BY <2>1, <2>2, Activated
<1>3. ASSUME NEW u \in new, NEW v \in new, u.text = v.text, u.at = v.at \/ (u.original /\ v.original)
      PROVE  u = v
  <2>1. PICK p \in texts : u = [p EXCEPT !.active = FALSE] /\ Became(p, u)
    BY <1>2
  <2>2. PICK q \in texts : v = [q EXCEPT !.active = FALSE] /\ Became(q, v)
    BY <1>2
  <2>3. p.text = q.text /\ (p.at = q.at \/ (p.original /\ q.original))
    BY <1>3, <2>1, <2>2 DEF Became
  <2>4. p = q
    BY <2>3 DEF OneOfEach
  <2> QED BY <2>1, <2>2, <2>4
<1>4. Elements(new) \subseteq Elements(texts)
  <2>1. ASSUME NEW q \in new, q.rendered PROVE Drawing!Element(q) \in Elements(texts)
    <3>1. PICK p \in texts : Became(p, q) /\ Drawing!Element(q) = Drawing!Element(p)
      BY <1>2
    <3> QED BY <2>1, <3>1 DEF Became, Elements
  <2> QED BY <2>1 DEF Elements
<1>5. Elements(texts) \subseteq Elements(new)
  <2>1. ASSUME NEW p \in texts, p.rendered PROVE Drawing!Element(p) \in Elements(new)
    <3>1. PICK q \in new : q = [p EXCEPT !.active = FALSE]
      BY DEF Drawing!removeText
    <3>2. Became(p, q) /\ Drawing!Element(q) = Drawing!Element(p)
      BY <3>1, Activated
    <3> QED BY <2>1, <3>2 DEF Became, Elements
  <2> QED BY <2>1 DEF Elements
<1> QED BY <1>2, <1>3, <1>4, <1>5 DEF OneOfEach

\* Of the labels with a text at a place the first one is added, unless it was there.
LEMMA LabelAppears ==
    ASSUME NEW texts, NEW n \in Nat, NEW labels, DOMAIN labels = 1..n, NEW i \in 1..n,
           \A p \in texts : ~Placed(p, labels[i])
    PROVE  \E j \in NewLabels(texts, labels) : Placed(labels[j], labels[i])
<1> DEFINE T == {j \in 1..n : Placed(labels[j], labels[i])}
<1>1. T \subseteq Nat /\ i \in T
  BY DEF Placed
<1>2. PICK j \in T : \A k \in T : ~(k < j)
  BY <1>1, LeastNatural
<1>3. ASSUME NEW k \in 1..(j - 1) PROVE ~Placed(labels[k], labels[j])
  <2>1. k \in 1..n /\ k < j
    OBVIOUS
  <2> QED BY <1>2, <2>1 DEF Placed
<1>4. \A p \in texts : ~Placed(p, labels[j])
  BY DEF Placed
<1> QED BY <1>3, <1>4 DEF NewLabels

\* A new position has the place of its label, which no other has.
LEMMA NewIsPosition ==
    ASSUME NEW texts, NEW labels, NEW i, NEW q, q = NewPosition(texts, labels, i)
    PROVE  /\ IsPosition(q) /\ Placed(q, labels[i]) /\ q.active /\ ~q.rendered
           /\ q.original = FirstOfText(texts, labels, i)
  BY DEF NewPosition, IsPosition, FirstOfText, Placed

LEMMA NewIsOne ==
    ASSUME NEW texts, NEW n \in Nat, NEW labels, DOMAIN labels = 1..n,
           NEW i \in NewLabels(texts, labels), NEW j \in NewLabels(texts, labels),
           labels[i].text = labels[j].text,
           labels[i].at = labels[j].at \/ (FirstOfText(texts, labels, i) /\ FirstOfText(texts, labels, j))
    PROVE  i = j
<1>1. i \in 1..n /\ j \in 1..n
  BY DEF NewLabels
<1>2. ASSUME NEW k \in NewLabels(texts, labels), NEW m \in NewLabels(texts, labels), k \in 1..n, m \in 1..n, k < m,
             labels[k].text = labels[m].text
      PROVE  labels[k].at # labels[m].at /\ ~FirstOfText(texts, labels, m)
  <2>1. k \in 1..(m - 1)
    BY <1>2
  <2> QED BY <1>2, <2>1 DEF NewLabels, Placed, FirstOfText
<1>3. CASE i < j
  BY <1>1, <1>2, <1>3
<1>4. CASE j < i
  BY <1>1, <1>2, <1>4
<1> QED BY <1>1, <1>3, <1>4

LEMMA AddedText ==
    ASSUME NEW texts, \A p \in texts : IsPosition(p) /\ ~p.active, OneOfEach(texts),
           NEW n \in Nat, NEW labels, DOMAIN labels = 1..n,
           NEW new, new = Drawing!addText(texts, labels)
    PROVE  /\ \A q \in new : IsPosition(q)
           /\ OneOfEach(new) /\ Elements(new) = Elements(texts) /\ Shows(new, labels)
<1> DEFINE Kept(p) == \E i \in DOMAIN labels : Placed(p, labels[i])
           kept    == {p \in texts : Kept(p)}
           Now(p)  == IF Kept(p) THEN [p EXCEPT !.active = TRUE] ELSE p
           New(q)  == \E i \in NewLabels(texts, labels) : q = NewPosition(texts, labels, i)
           Old(q)  == \E p \in texts : q = Now(p)
<1>1. new = (texts \ kept) \cup {[p EXCEPT !.active = TRUE] : p \in kept}
            \cup {NewPosition(texts, labels, i) : i \in NewLabels(texts, labels)}
  BY AddTextIs
<1>2. \A q : q \in new <=> Old(q) \/ New(q)
  BY <1>1
<1>3. ASSUME NEW p \in texts
      PROVE  /\ IsPosition(Now(p)) /\ Became(p, Now(p)) /\ Drawing!Element(Now(p)) = Drawing!Element(p)
             /\ Now(p).active <=> Kept(p)
  <2>1. IsPosition(p) /\ ~p.active
    OBVIOUS
  <2>2. CASE Kept(p)
    <3>1. Now(p) = [p EXCEPT !.active = TRUE]
      BY <2>2
    <3> HIDE DEF Now, Kept
    <3> QED BY <2>1, <2>2, <3>1, Activated
  <2>3. CASE ~Kept(p)
    <3>1. Now(p) = p
      BY <2>3
    <3> HIDE DEF Now, Kept
    <3> QED BY <2>1, <2>3, <3>1 DEF Became
  <2> QED BY <2>2, <2>3
<1> HIDE DEF Now
<1>4. ASSUME NEW i \in NewLabels(texts, labels), NEW p \in texts
      PROVE  ~Placed(p, labels[i]) /\ (FirstOfText(texts, labels, i) => p.text # labels[i].text)
  BY DEF NewLabels, FirstOfText
<1>5. ASSUME NEW q \in new PROVE IsPosition(q)
  <2>1. CASE Old(q)
    BY <1>3, <2>1
  <2>2. CASE New(q)
    BY <2>2, NewIsPosition
  <2> QED BY <1>2, <2>1, <2>2
<1>6. OneOfEach(new)
  <2> SUFFICES ASSUME NEW u \in new, NEW v \in new,
                      u.text = v.text, u.at = v.at \/ (u.original /\ v.original)
               PROVE  u = v
    BY DEF OneOfEach
  <2>1. CASE Old(u) /\ Old(v)
    <3>1. PICK p \in texts : u = Now(p)
      BY <2>1
    <3>2. PICK q \in texts : v = Now(q)
      BY <2>1
    <3>3. Became(p, u) /\ Became(q, v)
      BY <1>3, <3>1, <3>2
    <3>4. p = q
      BY <3>3 DEF Became, OneOfEach
    <3> QED BY <3>1, <3>2, <3>4
  <2>2. ASSUME NEW a, NEW b, Old(a), New(b), a.text = b.text PROVE a.at # b.at /\ ~(a.original /\ b.original)
    <3>1. PICK p \in texts : a = Now(p)
      BY <2>2
    <3>2. PICK i \in NewLabels(texts, labels) : b = NewPosition(texts, labels, i)
      BY <2>2
    <3>3. Became(p, a)
      BY <1>3, <3>1
    <3>4. Placed(b, labels[i]) /\ b.original = FirstOfText(texts, labels, i)
      BY <3>2, NewIsPosition
    <3>5. ~Placed(p, labels[i]) /\ (FirstOfText(texts, labels, i) => p.text # labels[i].text)
      BY <1>4
    <3> QED BY <2>2, <3>3, <3>4, <3>5 DEF Became, Placed
  <2>3. CASE New(u) /\ New(v)
    <3>1. PICK i \in NewLabels(texts, labels) : u = NewPosition(texts, labels, i)
      BY <2>3
    <3>2. PICK j \in NewLabels(texts, labels) : v = NewPosition(texts, labels, j)
      BY <2>3
    <3>3. /\ Placed(u, labels[i]) /\ u.original = FirstOfText(texts, labels, i)
          /\ Placed(v, labels[j]) /\ v.original = FirstOfText(texts, labels, j)
      BY <3>1, <3>2, NewIsPosition
    <3>4. i = j
      BY <3>3, NewIsOne DEF Placed
    <3> QED BY <3>1, <3>2, <3>4
  <2>4. CASE Old(u) /\ New(v)
    BY <2>2, <2>4
  <2>5. CASE New(u) /\ Old(v)
    BY <2>2, <2>5
  <2> HIDE DEF Old, New
  <2> QED BY <1>2, <2>1, <2>3, <2>4, <2>5
<1>7. Elements(new) \subseteq Elements(texts)
  <2> SUFFICES ASSUME NEW q \in new, q.rendered PROVE Drawing!Element(q) \in Elements(texts)
    BY DEF Elements
  <2>1. ~New(q)
    BY NewIsPosition
  <2>2. PICK p \in texts : q = Now(p)
    BY <1>2, <2>1
  <2>3. p.rendered /\ Drawing!Element(q) = Drawing!Element(p)
    BY <1>3, <2>2 DEF Became
  <2> QED BY <2>3 DEF Elements
<1>8. Elements(texts) \subseteq Elements(new)
  <2> SUFFICES ASSUME NEW p \in texts, p.rendered PROVE Drawing!Element(p) \in Elements(new)
    BY DEF Elements
  <2>1. Now(p) \in new
    BY <1>2
  <2>2. Now(p).rendered /\ Drawing!Element(Now(p)) = Drawing!Element(p)
    BY <1>3 DEF Became
  <2> QED BY <2>1, <2>2 DEF Elements
<1>9. ASSUME NEW q \in new, q.active
      PROVE  \E i \in DOMAIN labels : q.text = labels[i].text /\ q.at = labels[i].at
  <2>1. CASE Old(q)
    <3>1. PICK p \in texts : q = Now(p)
      BY <2>1
    <3>2. Kept(p) /\ Became(p, q)
      BY <1>3, <1>9, <3>1
    <3> QED BY <3>2 DEF Became, Placed
  <2>2. CASE New(q)
    BY <2>2, NewIsPosition DEF NewLabels, Placed
  <2> QED BY <1>2, <2>1, <2>2
<1>10. ASSUME NEW i \in DOMAIN labels
       PROVE  \E q \in new : q.active /\ q.text = labels[i].text /\ q.at = labels[i].at
  <2>1. CASE \E p \in texts : Placed(p, labels[i])
    <3>1. PICK p \in texts : Placed(p, labels[i])
      BY <2>1
    <3>2. Now(p) \in new /\ Became(p, Now(p)) /\ Now(p).active
      BY <1>2, <1>3, <3>1
    <3> QED BY <3>1, <3>2 DEF Became, Placed
  <2>2. CASE \A p \in texts : ~Placed(p, labels[i])
    <3>1. PICK j \in NewLabels(texts, labels) : Placed(labels[j], labels[i])
      BY <2>2, LabelAppears
    <3>2. PICK q : q = NewPosition(texts, labels, j)
      OBVIOUS
    <3>3. q \in new
      BY <1>2, <3>2
    <3>4. Placed(q, labels[j]) /\ q.active
      BY <3>2, NewIsPosition
    <3> QED BY <3>1, <3>3, <3>4 DEF Placed
  <2> QED BY <2>1, <2>2
<1>11. Shows(new, labels)
  BY <1>9, <1>10 DEF Shows
<1> QED BY <1>5, <1>6, <1>7, <1>8, <1>11

\* What is on the page stays there while the labels are placed.
LEMMA DrawnText ==
    ASSUME NEW texts, \A p \in texts : IsPosition(p), OneOfEach(texts),
           NEW n \in Nat, NEW labels, DOMAIN labels = 1..n,
           NEW new, new = Drawing!drawAxisLabels(texts, labels)
    PROVE  /\ \A q \in new : IsPosition(q)
           /\ OneOfEach(new) /\ Elements(new) = Elements(texts) /\ Shows(new, labels)
<1>1. PICK t : t = Drawing!removeText(texts)
  OBVIOUS
<1>2. (\A p \in t : IsPosition(p) /\ ~p.active) /\ OneOfEach(t) /\ Elements(t) = Elements(texts)
  BY <1>1, RemovedText
<1>3. new = Drawing!addText(t, labels)
  BY <1>1 DEF Drawing!drawAxisLabels
<1> QED BY <1>2, <1>3, AddedText

LEMMA Rendered ==
    ASSUME NEW p, IsPosition(p), NEW q, q = [p EXCEPT !.rendered = TRUE]
    PROVE  /\ IsPosition(q) /\ q.rendered /\ q.active = p.active
           /\ q.text = p.text /\ q.at = p.at /\ q.original = p.original
           /\ Drawing!Element(q) = Drawing!Element(p)
<1>1. /\ p = [text |-> p.text, at |-> p.at, original |-> p.original,
              active |-> p.active, rendered |-> p.rendered]
      /\ p.original \in BOOLEAN /\ p.active \in BOOLEAN
  BY DEF IsPosition
<1>2. q = [text |-> p.text, at |-> p.at, original |-> p.original, active |-> p.active, rendered |-> TRUE]
  BY <1>1
<1>3. /\ q.rendered /\ q.active = p.active
      /\ q.text = p.text /\ q.at = p.at /\ q.original = p.original
  BY <1>2
<1> QED BY <1>1, <1>2, <1>3 DEF IsPosition, Drawing!Element

\* Rendering leaves the labels that are shown, each with its element, and no others.
LEMMA RenderedText ==
    ASSUME NEW texts, \A p \in texts : IsPosition(p), OneOfEach(texts),
           NEW labels, Shows(texts, labels),
           NEW page, page = Elements(texts),
           NEW new, new = Drawing!renderedText(texts)
    PROVE  /\ \A q \in new : IsPosition(q) /\ q.active /\ q.rendered
           /\ OneOfEach(new) /\ Drawing!renderedPage(page, texts) = Elements(new) /\ Shows(new, labels)
<1> DEFINE Now(p) == [p EXCEPT !.rendered = TRUE]
           Out(p) == ~p.active /\ p.rendered
           In(p)  == p.active /\ ~p.rendered
<1>1. \A q : q \in new <=> \E p \in texts : p.active /\ q = Now(p)
  BY DEF Drawing!renderedText
<1>2. ASSUME NEW p \in texts, p.active
      PROVE  /\ IsPosition(Now(p)) /\ Now(p).active /\ Now(p).rendered
             /\ Now(p).text = p.text /\ Now(p).at = p.at /\ Now(p).original = p.original
             /\ Drawing!Element(Now(p)) = Drawing!Element(p)
  <2>1. IsPosition(p)
    OBVIOUS
  <2>2. PICK q : q = [p EXCEPT !.rendered = TRUE]
    OBVIOUS
  <2>3. /\ IsPosition(q) /\ q.rendered /\ q.active = p.active
        /\ q.text = p.text /\ q.at = p.at /\ q.original = p.original
        /\ Drawing!Element(q) = Drawing!Element(p)
    BY <2>1, <2>2, Rendered
  <2>4. q = Now(p)
    BY <2>2
  <2> HIDE DEF Now
  <2> QED BY <1>2, <2>3, <2>4
<1> HIDE DEF Now
<1>3. \A q \in new : IsPosition(q) /\ q.active /\ q.rendered
  BY <1>1, <1>2
<1>4. OneOfEach(new)
  <2> SUFFICES ASSUME NEW u \in new, NEW v \in new,
                      u.text = v.text, u.at = v.at \/ (u.original /\ v.original)
               PROVE  u = v
    BY DEF OneOfEach
  <2>1. PICK p \in texts : p.active /\ u = Now(p)
    BY <1>1
  <2>2. PICK q \in texts : q.active /\ v = Now(q)
    BY <1>1
  <2>3. p = q
    BY <1>2, <2>1, <2>2 DEF OneOfEach
  <2> QED BY <2>1, <2>2, <2>3
<1>5. \A e : e \in Drawing!renderedPage(page, texts) <=>
             \/ (\E p \in texts : p.rendered /\ e = Drawing!Element(p))
                /\ ~\E p \in texts : Out(p) /\ e = Drawing!Element(p)
             \/ \E p \in texts : In(p) /\ e = Drawing!Element(p)
  BY DEF Drawing!renderedPage, Elements
<1>6. \A e : e \in Elements(new) <=> \E p \in texts : p.active /\ e = Drawing!Element(p)
  <2>1. \A e : e \in Elements(new) <=> \E q \in new : q.rendered /\ e = Drawing!Element(q)
    BY DEF Elements
  <2> QED BY <1>1, <1>2, <2>1
<1>7. ASSUME NEW p \in texts, NEW q \in texts, Drawing!Element(p) = Drawing!Element(q) PROVE p = q
  <2>1. p.text = q.text /\ p.at = q.at
    BY <1>7 DEF Drawing!Element
  <2> QED BY <2>1 DEF OneOfEach
<1>8. \A p \in texts : p.active \in BOOLEAN /\ p.rendered \in BOOLEAN
  BY DEF IsPosition
<1>9. Drawing!renderedPage(page, texts) = Elements(new)
  <2>1. ASSUME NEW e PROVE e \in Drawing!renderedPage(page, texts) <=> e \in Elements(new)
    <3>1. ASSUME e \in Drawing!renderedPage(page, texts) PROVE e \in Elements(new)
      <4>1. CASE \E p \in texts : In(p) /\ e = Drawing!Element(p)
        BY <1>6, <4>1
      <4>2. CASE ~\E p \in texts : In(p) /\ e = Drawing!Element(p)
        <5>1. PICK p \in texts : p.rendered /\ e = Drawing!Element(p)
          BY <1>5, <3>1, <4>2
        <5>2. ~Out(p)
          BY <1>5, <3>1, <4>2, <5>1
        <5> QED BY <1>6, <1>8, <5>1, <5>2
      <4> QED BY <4>1, <4>2
    <3>2. ASSUME e \in Elements(new) PROVE e \in Drawing!renderedPage(page, texts)
      <4>1. PICK p \in texts : p.active /\ e = Drawing!Element(p)
        BY <1>6, <3>2
      <4>2. ~\E q \in texts : Out(q) /\ e = Drawing!Element(q)
        BY <1>7, <4>1
      <4> QED BY <1>5, <1>8, <4>1, <4>2
    <3> QED BY <3>1, <3>2
  <2> QED BY <2>1
<1>10. Shows(new, labels)
  <2>1. ASSUME NEW q \in new
        PROVE  \E i \in DOMAIN labels : q.text = labels[i].text /\ q.at = labels[i].at
    <3>1. PICK p \in texts : p.active /\ q = Now(p)
      BY <1>1
    <3>2. PICK i \in DOMAIN labels : p.text = labels[i].text /\ p.at = labels[i].at
      BY <3>1 DEF Shows
    <3> QED BY <1>2, <3>1, <3>2
  <2>2. ASSUME NEW i \in DOMAIN labels
        PROVE  \E q \in new : q.active /\ q.text = labels[i].text /\ q.at = labels[i].at
    <3>1. PICK p \in texts : p.active /\ p.text = labels[i].text /\ p.at = labels[i].at
      BY DEF Shows
    <3>2. Now(p) \in new
      BY <1>1, <3>1
    <3> QED BY <1>2, <3>1, <3>2
  <2> QED BY <2>1, <2>2 DEF Shows
<1> QED BY <1>3, <1>4, <1>9, <1>10

-----------------------------------------------------------------------------
(* The places of the labels: along the plot, no further than it is long. *)

LEMMA Farther == ASSUME NEW a \in Int, NEW b \in Int, a < b, NEW k \in Nat \ {0} PROVE a * k < b * k
<1>1. PICK d \in Nat \ {0} : b = a + d
  <2>1. b - a \in Nat \ {0} /\ b = a + (b - a)
    OBVIOUS
  <2> QED BY <2>1
<1>2. b * k = a * k + d * k
  BY <1>1
<1>3. d * k > 0
  OBVIOUS
<1>4. a * k \in Int /\ d * k \in Int
  OBVIOUS
<1> QED BY <1>2, <1>3, <1>4

LEMMA PartOfWhole ==
    ASSUME NEW a \in Nat, NEW d \in Nat \ {0}, a <= d, NEW l \in Nat
    PROVE  (a * l) \div d \in 0..l
<1>1. PICK p \in Int : p = a * l
  OBVIOUS
<1>2. PICK q \in Int : q = p \div d
  BY <1>1
<1>3. p >= 0 /\ p <= d * l
  <2>1. PICK e \in Nat : d = a + e
    <3>1. d - a \in Nat /\ d = a + (d - a)
      OBVIOUS
    <3> QED BY <3>1
  <2>2. d * l = p + e * l
    BY <1>1, <2>1
  <2>3. e * l >= 0 /\ p >= 0 /\ e * l \in Int
    BY <1>1
  <2> QED BY <1>1, <2>2, <2>3
<1>4. d * q <= p /\ p < d * q + d
  BY <1>1, <1>2
<1>5. q >= 0
  <2>1. CASE q < 0
    <3>1. d * q + d = d * (q + 1) /\ d * (q + 1) <= 0
      BY <1>2, <2>1
    <3> QED BY <1>1, <1>2, <1>3, <1>4, <3>1
  <2> QED BY <1>2, <2>1
<1>6. q <= l
  <2>1. CASE l < q
    <3>1. l * d < q * d
      BY <1>2, <2>1, Farther
    <3>2. l * d = d * l /\ q * d = d * q
      BY <1>2
    <3> QED BY <1>1, <1>2, <1>3, <1>4, <3>1, <3>2
  <2> QED BY <1>2, <2>1
<1> QED BY <1>1, <1>2, <1>5, <1>6

LEMMA AlongIs ==
    ASSUME NEW r \in Drawing!Ranges, NEW v \in Int, Drawing!Inside(v, r), NEW length \in Nat
    PROVE  Drawing!Along(v, r, length) \in 0..length
<1>1. PICK min \in Int, max \in Int : min = r.min /\ max = r.max /\ min < max
  BY DEF Drawing!Ranges
<1>2. min <= v /\ v <= max
  BY <1>1 DEF Drawing!Inside
<1>3. PICK a \in Nat, d \in Nat \ {0} : a = v - min /\ d = max - min /\ a <= d
  <2>1. v - min \in Nat /\ max - min \in Nat \ {0} /\ v - min <= max - min
    BY <1>1, <1>2
  <2> QED BY <2>1
<1>4. (a * length) \div d \in 0..length
  BY <1>3, PartOfWhole
<1> QED BY <1>1, <1>3, <1>4 DEF Drawing!Along

-----------------------------------------------------------------------------
(* The ticks of the y axis. *)

LEMMA SameTicks ==
    ASSUME NEW ax, NEW size, NEW range, NEW n, NEW least
    PROVE  /\ Drawing!tickGenerator(ax, size) = tickGenerator(ax, size)
           /\ Drawing!tickSize(range, n, least) = tickSize(range, n, least)
<1>1. Drawing!tickGenerator(ax, size) = tickGenerator(ax, size)
  BY DEF Drawing!tickGenerator, tickGenerator, Drawing!floorInBase, floorInBase, Drawing!Ceiling, Ceiling
<1>2. \A S : Drawing!Max(S) = Max(S)
  BY DEF Drawing!Max, Max
<1>3. Drawing!tickSize(range, n, least) = tickSize(range, n, least)
  BY <1>2 DEF Drawing!tickSize, tickSize, Drawing!Powers, Powers
<1> QED BY <1>1, <1>3

LEMMA TicksInOrder ==
    ASSUME NEW r \in Drawing!Ranges, NEW size \in Nat \ {0}
    PROVE  Drawing!tickGenerator(r, size) \in Seq(Int) /\ InOrder(Drawing!tickGenerator(r, size))
<1>1. PICK min \in Int, max \in Int : min = r.min /\ max = r.max /\ min < max
  BY DEF Drawing!Ranges
<1>2. PICK s \in Seq(Int) : s = Drawing!tickGenerator(r, size)
  BY <1>1, TicksAreIntegers, SameTicks
<1> DEFINE start == Drawing!floorInBase(r.min, size)
           more  == IF start >= r.max THEN 0 ELSE Drawing!Ceiling(r.max - start, size)
<1>3. s = [i \in 1..(more + 1) |-> start + (i - 1) * size]
  BY <1>1, <1>2 DEF Drawing!tickGenerator
<1>4. PICK a \in Int : a = start
  <2>1. min \div size \in Int
    BY <1>1
  <2> QED BY <1>1, <2>1 DEF Drawing!floorInBase
<1> HIDE DEF start, more
<1>5. PICK n \in Nat : n = Len(s) /\ DOMAIN s = 1..n
  BY <1>2
<1>6. \A i \in 1..n : s[i] = a + (i - 1) * size
  BY <1>3, <1>4, <1>5
<1>7. ASSUME NEW i \in 1..n, NEW j \in 1..n, i < j PROVE s[i] < s[j]
  <2>1. PICK k \in Int, m \in Int : k = i - 1 /\ m = j - 1 /\ k < m
    BY <1>7
  <2>2. k * size < m * size
    BY <2>1, Farther
  <2>3. k * size \in Int /\ m * size \in Int
    BY <2>1
  <2>4. s[i] = a + k * size /\ s[j] = a + m * size
    BY <1>6, <2>1
  <2> QED BY <2>2, <2>3, <2>4
<1>8. InOrder(s)
  BY <1>5, <1>7 DEF InOrder
<1> QED BY <1>2, <1>8

-----------------------------------------------------------------------------
(* The labels of a view: of which axis each is, and where. *)

\* A label of the time axis is along the plot, one of the y axis up the plot.
LabelIn(l, size) == \/ l.text[1] = "x" /\ l.at \in 0..size.w
                    \/ l.text[1] = "y" /\ l.at \in 0..size.h

\* n labels.
LabelsIn(f, n, size) == f = [i \in 1..n |-> f[i]] /\ \A i \in 1..n : LabelIn(f[i], size)

LEMMA JoinedLabels ==
    ASSUME NEW m \in Nat, NEW n \in Nat, NEW f, NEW g, NEW size,
           LabelsIn(f, m, size), LabelsIn(g, n, size)
    PROVE  \E k \in Nat : LabelsIn(f \o g, k, size)
<1> DEFINE S == {f[i] : i \in 1..m} \cup {g[i] : i \in 1..n}
<1>1. f \in [1..m -> S] /\ g \in [1..n -> S]
  <2>1. f = [i \in 1..m |-> f[i]] /\ g = [i \in 1..n |-> g[i]]
    BY DEF LabelsIn
  <2> QED BY <2>1
<1>2. \A l \in S : LabelIn(l, size)
  BY DEF LabelsIn
<1> HIDE DEF S
<1>3. f \in Seq(S) /\ g \in Seq(S)
  BY <1>1
<1>4. PICK s \in Seq(S) : s = f \o g
  <2>1. f \o g \in Seq(S)
    BY <1>3, ConcatProperties
  <2> QED BY <2>1
<1>5. PICK k \in Nat : k = Len(s) /\ DOMAIN s = 1..k
  BY <1>4
<1>6. \A i \in 1..k : s[i] \in S
  BY <1>5
<1>7. s = [i \in 1..k |-> s[i]]
  <2>1. s \in [1..Len(s) -> S]
    BY SeqDef
  <2> QED BY <1>5, <2>1
<1>8. LabelsIn(s, k, size)
  BY <1>2, <1>6, <1>7 DEF LabelsIn
<1> QED BY <1>4, <1>8

LEMMA XTicksAre ==
    ASSUME NEW f \in Figures, NEW a \in f.views
    PROVE  \E t \in Seq(Int) : t = Drawing!Ticks[f][a] /\ \A i \in 1..Len(t) : Drawing!Inside(t[i], a.x)
<1> DEFINE size == Drawing!XSize(f, a.x)
<1>1. PICK r \in Drawing!Ranges : r = a.x
  BY DrawingAssumption DEF Drawing!CanBeDrawn
<1>2. Zone \in Drawing!Zones
  BY DrawingAssumption DEF Drawing!CanBeDrawn
<1>3. size \in Sizes
  BY TimeTickSizes DEF Drawing!XSize, Sizes
<1>4. Drawing!Ticks[f][a] = Drawing!ticksInside(Drawing!timeTicks(r, size, Zone), r)
  BY <1>1 DEF Drawing!Ticks
<1> HIDE DEF size
<1>5. PICK t \in Seq(Int) : /\ t = Drawing!ticksInside(Drawing!timeTicks(r, size, Zone), r)
                            /\ TicksTell(t, r, size, Zone)
  BY <1>2, <1>3, TicksAreTold
<1>6. \A i \in 1..Len(t) : Drawing!Inside(t[i], r)
  BY <1>5 DEF TicksTell
<1> QED BY <1>1, <1>4, <1>5, <1>6

LEMMA YTicksAre ==
    ASSUME NEW r \in Drawing!Ranges, NEW range, NEW n
    PROVE  \E t \in Seq(Int) :
              /\ t = Drawing!ticksInside(Drawing!tickGenerator(r, Drawing!tickSize(range, n, 1)), r)
              /\ \A i \in 1..Len(t) : Drawing!Inside(t[i], r)
<1>1. PICK size \in Nat \ {0} : size = Drawing!tickSize(range, n, 1)
  BY SameTicks, TickSizeIsPositive
<1>2. PICK s \in Seq(Int) : s = Drawing!tickGenerator(r, size) /\ InOrder(s)
  BY TicksInOrder
<1>3. PICK t \in Seq(Int) : t = Drawing!ticksInside(s, r) /\ KeptOf(t, s, Len(s), r)
  BY <1>2, TicksInsideAre
<1>4. \A i \in 1..Len(t) : Drawing!Inside(t[i], r)
  BY <1>3 DEF KeptOf
<1> QED BY <1>1, <1>2, <1>3, <1>4

LEMMA LabelsAre ==
    ASSUME figure \in Figures, NEW a \in figure.views, NEW y,
           NEW w \in Nat, NEW h \in Nat, NEW size, size = Drawing!plotSize(XLabel, y, Surface),
           w = size.w, h = size.h
    PROVE  \E k \in Nat : LabelsIn(Drawing!Labels(a, y), k, size)
<1>1. PICK rx \in Drawing!Ranges, ry \in Drawing!Ranges : rx = a.x /\ ry = a.y
  BY DrawingAssumption DEF Drawing!CanBeDrawn
<1>2. PICK xt \in Seq(Int) : xt = Drawing!Ticks[figure][a] /\ \A i \in 1..Len(xt) : Drawing!Inside(xt[i], rx)
  BY <1>1, XTicksAre
<1>3. PICK yt \in Seq(Int) :
         /\ yt = Drawing!ticksInside(Drawing!tickGenerator(ry,
                    Drawing!tickSize(ry.max - ry.min, DrawnYTicks, 1)), ry)
         /\ \A i \in 1..Len(yt) : Drawing!Inside(yt[i], ry)
  BY <1>1, YTicksAre
<1> DEFINE f == [i \in DOMAIN xt |-> [text |-> <<"x", Drawing!Label(xt[i], figure, rx)>>,
                                      at |-> Drawing!Along(xt[i], rx, size.w)]]
           g == [i \in DOMAIN yt |-> [text |-> <<"y", yt[i]>>,
                                      at |-> size.h - Drawing!Along(yt[i], ry, size.h)]]
<1>4. Drawing!Labels(a, y) = f \o g
  BY <1>1, <1>2, <1>3 DEF Drawing!Labels
<1>5. PICK m \in Nat, n \in Nat : m = Len(xt) /\ DOMAIN xt = 1..m /\ n = Len(yt) /\ DOMAIN yt = 1..n
  OBVIOUS
<1>6. ASSUME NEW i \in 1..m PROVE f[i].text[1] = "x" /\ f[i].at \in 0..size.w
  <2>1. PICK v \in Int : v = xt[i] /\ Drawing!Inside(v, rx)
    BY <1>2, <1>5
  <2>2. Drawing!Along(v, rx, w) \in 0..w
    BY <2>1, AlongIs
  <2>3. f[i] = [text |-> <<"x", Drawing!Label(v, figure, rx)>>, at |-> Drawing!Along(v, rx, w)]
    BY <1>5, <2>1
  <2> QED BY <2>2, <2>3
<1>7. ASSUME NEW i \in 1..n PROVE g[i].text[1] = "y" /\ g[i].at \in 0..size.h
  <2>1. PICK v \in Int : v = yt[i] /\ Drawing!Inside(v, ry)
    BY <1>3, <1>5
  <2>2. PICK b \in 0..h : b = Drawing!Along(v, ry, h)
    BY <2>1, AlongIs
  <2>3. g[i] = [text |-> <<"y", v>>, at |-> h - b]
    BY <1>5, <2>1, <2>2
  <2>4. h - b \in 0..h
    OBVIOUS
  <2> QED BY <2>3, <2>4
<1>8. f = [i \in 1..m |-> f[i]] /\ g = [i \in 1..n |-> g[i]]
  BY <1>5
<1> HIDE DEF f, g
<1>9. LabelsIn(f, m, size) /\ LabelsIn(g, n, size)
  BY <1>6, <1>7, <1>8 DEF LabelIn, LabelsIn
<1>10. \E k \in Nat : LabelsIn(f \o g, k, size)
  BY <1>9, JoinedLabels
<1> QED BY <1>4, <1>10

-----------------------------------------------------------------------------
(* The plot and what stands beside it. *)

LEMMA MaxOfThree ==
    ASSUME NEW a \in Nat, NEW b \in Nat, NEW c \in Nat
    PROVE  \E m \in Nat : /\ m = Drawing!Max({a, b, c}) /\ m \in {a, b, c}
                          /\ a <= m /\ b <= m /\ c <= m
<1> DEFINE S == {a, b, c}
<1>1. S \subseteq Int /\ S # {} /\ a + b + c \in Nat /\ \A x \in S : x <= a + b + c
  OBVIOUS
<1> HIDE DEF S
<1>2. Max(S) \in S /\ \A y \in S : y <= Max(S)
  BY <1>1, MaxIsLargest
<1>3. Drawing!Max(S) = Max(S)
  BY DEF Drawing!Max, Max
<1> QED BY <1>2, <1>3 DEF S

\* Beside the plot there is room for half a label, and for the box of the axis.
RoomBeside(o, x, y) ==
    /\ o.left \in Nat /\ o.right \in Nat /\ o.top \in Nat /\ o.bottom \in Nat
    /\ x.w \div 2 <= o.left /\ 12 + y.w <= o.left /\ o.left \in {16, x.w \div 2, 12 + y.w}
    /\ x.w \div 2 <= o.right
    /\ y.h \div 2 <= o.top
    /\ y.h \div 2 <= o.bottom /\ 24 + x.h <= o.bottom /\ o.top <= o.bottom

LEMMA RoomBesideIs ==
    ASSUME NEW x \in Drawing!Lengths, NEW y \in Drawing!Lengths
    PROVE  RoomBeside(Drawing!plotOffset(x, y), x, y)
<1>1. PICK xw \in Nat, xh \in Nat, yw \in Nat, yh \in Nat : xw = x.w /\ xh = x.h /\ yw = y.w /\ yh = y.h
  BY DEF Drawing!Lengths
<1>2. PICK a \in Nat, b \in Nat, c \in Nat, d \in Nat : a = xw \div 2 /\ b = yh \div 2 /\ c = 12 + yw /\ d = 24 + xh
  <2>1. xw \div 2 \in Nat /\ yh \div 2 \in Nat /\ 12 + yw \in Nat /\ 24 + xh \in Nat
    OBVIOUS
  <2> QED BY <2>1
<1>3. PICK l \in Nat : l = Drawing!Max({16, a, c}) /\ l \in {16, a, c} /\ a <= l /\ c <= l
  BY MaxOfThree
<1>4. PICK r \in Nat : r = Drawing!Max({16, a, 0}) /\ a <= r
  BY MaxOfThree
<1>5. PICK t \in Nat : t = Drawing!Max({16, b, 0}) /\ b <= t /\ t \in {16, b, 0}
  BY MaxOfThree
<1>6. PICK u \in Nat : u = Drawing!Max({16, b, d}) /\ 16 <= u /\ b <= u /\ d <= u
  BY MaxOfThree
<1>7. 2 + yw + 10 = c /\ 2 + xh + 10 + 12 = d
  BY <1>2
<1>8. Drawing!plotOffset(x, y) = [left |-> l, right |-> r, top |-> t, bottom |-> u]
  BY <1>1, <1>2, <1>3, <1>4, <1>5, <1>6, <1>7
     DEF Drawing!plotOffset, Drawing!MinMargin, Drawing!Border, Drawing!LabelMargin, Drawing!TickLength
<1> QED BY <1>1, <1>2, <1>3, <1>4, <1>5, <1>6, <1>8 DEF RoomBeside

\* Labels of the same height, and not wider, leave as much.
LEMMA OffsetShrinks ==
    ASSUME NEW x, NEW y \in Drawing!Lengths, NEW z \in Drawing!Lengths, y.h = z.h, y.w <= z.w,
           x \in Drawing!Lengths
    PROVE  LET o == Drawing!plotOffset(x, y)
               p == Drawing!plotOffset(x, z)
           IN  o.left <= p.left /\ o.right = p.right /\ o.top = p.top /\ o.bottom = p.bottom
<1> DEFINE o == Drawing!plotOffset(x, y)
           p == Drawing!plotOffset(x, z)
<1>1. o.right = p.right /\ o.top = p.top /\ o.bottom = p.bottom
  BY DEF Drawing!plotOffset
<1>2. Drawing!MinMargin = 16
  BY DEF Drawing!MinMargin
<1>3. PICK yw \in Nat, zw \in Nat : yw = y.w /\ zw = z.w /\ yw <= zw
  BY DEF Drawing!Lengths
<1>4. PICK a \in Nat, c \in Nat, d \in Nat : a = x.w \div 2 /\ c = 2 + yw + 10 /\ d = 2 + zw + 10 /\ c <= d
  <2>1. PICK n \in Nat : n = x.w
    BY DEF Drawing!Lengths
  <2>2. n \div 2 \in Nat /\ 2 + yw + 10 \in Nat /\ 2 + zw + 10 \in Nat /\ 2 + yw + 10 <= 2 + zw + 10
    BY <1>3
  <2> QED BY <2>1, <2>2
<1>5. o.left = Drawing!Max({16, a, c}) /\ p.left = Drawing!Max({16, a, d})
  BY <1>3, <1>4 DEF Drawing!plotOffset, Drawing!MinMargin, Drawing!Border, Drawing!LabelMargin
<1>6. PICK m \in Nat : m = Drawing!Max({16, a, c}) /\ m \in {16, a, c}
  BY MaxOfThree
<1>7. PICK n \in Nat : n = Drawing!Max({16, a, d}) /\ 16 <= n /\ a <= n /\ d <= n
  BY MaxOfThree
<1>8. m <= n
  BY <1>4, <1>6, <1>7
<1> HIDE DEF o, p
<1>9. o.left <= p.left
  BY <1>5, <1>6, <1>7, <1>8
<1> QED BY <1>1, <1>9 DEF o, p

\* The room of the y axis: for its labels, and for its name where it has taken room.
Wide == [YLabel EXCEPT !.w = @ + Drawing!calculateSize]

LEMMA WideIs ==
    /\ YLabel \in Drawing!Lengths /\ Wide \in Drawing!Lengths
    /\ Wide.h = YLabel.h /\ Wide.w = YLabel.w + Name.h + 4
<1>1. YLabel \in Drawing!Lengths /\ Name \in Drawing!Lengths
  BY DrawingAssumption DEF Drawing!CanBeDrawn
<1>2. PICK w \in Nat, h \in Nat, n \in Nat : YLabel = [w |-> w, h |-> h] /\ n = Name.h
  BY <1>1 DEF Drawing!Lengths
<1>3. Drawing!calculateSize = n + 4
  BY <1>2 DEF Drawing!calculateSize, Drawing!Padding
<1>4. Wide = [w |-> w + (n + 4), h |-> h]
  BY <1>2, <1>3 DEF Wide
<1>5. w + (n + 4) \in Nat /\ w + (n + 4) = w + n + 4
  OBVIOUS
<1> QED BY <1>1, <1>2, <1>4, <1>5 DEF Drawing!Lengths

LEMMA PlotHasSize ==
    ASSUME NEW y \in {YLabel, Wide}
    PROVE  LET size == Drawing!plotSize(XLabel, y, Surface)
               o    == Drawing!plotOffset(XLabel, y)
           IN  /\ size.w \in Nat /\ size.h \in Nat
               /\ size.w = Surface.w - o.left - o.right /\ size.h = Surface.h - o.top - o.bottom
<1> DEFINE o == Drawing!plotOffset(XLabel, y)
           p == Drawing!plotOffset(XLabel, Wide)
<1>1. XLabel \in Drawing!Lengths /\ Surface \in Drawing!Lengths
  BY DrawingAssumption DEF Drawing!CanBeDrawn
<1>2. /\ Drawing!plotSize(XLabel, Wide, Surface).w >= 0
      /\ Drawing!plotSize(XLabel, Wide, Surface).h >= 0
  BY DrawingAssumption DEF Drawing!CanBeDrawn, Wide
<1>3. \A z : Drawing!plotSize(XLabel, z, Surface) =
               [w |-> Surface.w - Drawing!plotOffset(XLabel, z).left - Drawing!plotOffset(XLabel, z).right,
                h |-> Surface.h - Drawing!plotOffset(XLabel, z).top - Drawing!plotOffset(XLabel, z).bottom]
  BY DEF Drawing!plotSize
<1>4. o.left <= p.left /\ o.right = p.right /\ o.top = p.top /\ o.bottom = p.bottom
  <2>1. y \in Drawing!Lengths /\ Wide \in Drawing!Lengths /\ y.h = Wide.h
    BY WideIs
  <2>2. y.w <= Wide.w
    <3>1. PICK w \in Nat, n \in Nat : w = YLabel.w /\ n = Name.h
      BY WideIs, DrawingAssumption DEF Drawing!CanBeDrawn, Drawing!Lengths
    <3> QED BY <3>1, WideIs
  <2> QED BY <1>1, <2>1, <2>2, OffsetShrinks
<1>5. PICK sw \in Nat, sh \in Nat : sw = Surface.w /\ sh = Surface.h
  BY <1>1 DEF Drawing!Lengths
<1>6. PICK l \in Nat, r \in Nat, t \in Nat, b \in Nat : l = o.left /\ r = o.right /\ t = o.top /\ b = o.bottom
  BY <1>1, WideIs, RoomBesideIs DEF RoomBeside
<1>7. PICK k \in Nat : k = p.left
  BY <1>1, WideIs, RoomBesideIs DEF RoomBeside
<1>8. sw - k - r >= 0 /\ sh - t - b >= 0
  <2> HIDE DEF o
  <2> QED BY <1>2, <1>3, <1>4, <1>5, <1>6, <1>7
<1>9. l <= k
  BY <1>4, <1>6, <1>7
<1>10. sw - l - r \in Nat /\ sh - t - b \in Nat
  BY <1>8, <1>9
<1> QED BY <1>3, <1>5, <1>6, <1>10

\* A label is on the chart and in the box of its axis, and a label of the y axis not in the other's.
InItsBox(e, label) ==
    LET o == Drawing!plotOffset(XLabel, label)
        x == Drawing!Reach(o.left, e.at, XLabel.w)
        y == Drawing!Reach(o.top, e.at, label.h)
        b == Drawing!boxes(XLabel, label, Surface)
    IN  IF e.text[1] = "x"
        THEN 0 <= x[1] /\ x[2] <= Surface.w /\ b.x.left <= x[1] /\ x[2] <= b.x.left + b.x.width
        ELSE /\ 0 <= y[1] /\ y[2] <= Surface.h /\ b.y.top <= y[1] /\ y[2] <= b.y.top + b.y.height
             /\ y[2] <= b.x.top + b.x.height /\ b.y.left + b.y.width <= o.left

LEMMA LabelFits ==
    ASSUME NEW y \in {YLabel, Wide}, NEW e, LabelIn(e, Drawing!plotSize(XLabel, y, Surface))
    PROVE  InItsBox(e, y)
<1> DEFINE o == Drawing!plotOffset(XLabel, y)
           b == Drawing!boxes(XLabel, y, Surface)
           size == Drawing!plotSize(XLabel, y, Surface)
<1>1. XLabel \in Drawing!Lengths /\ Surface \in Drawing!Lengths /\ y \in Drawing!Lengths /\ y.h = YLabel.h
  BY WideIs, DrawingAssumption DEF Drawing!CanBeDrawn
<1>2. PICK sw \in Nat, sh \in Nat, xw \in Nat, xh \in Nat, yw \in Nat, yh \in Nat :
         /\ sw = Surface.w /\ sh = Surface.h /\ xw = XLabel.w /\ xh = XLabel.h /\ yw = y.w /\ yh = y.h
  BY <1>1 DEF Drawing!Lengths
<1>3. PICK l \in Nat, r \in Nat, t \in Nat, u \in Nat :
         /\ l = o.left /\ r = o.right /\ t = o.top /\ u = o.bottom
         /\ xw \div 2 <= l /\ 12 + yw <= l /\ xw \div 2 <= r
         /\ yh \div 2 <= t /\ yh \div 2 <= u /\ 24 + xh <= u
  <2>1. RoomBeside(o, XLabel, y)
    BY <1>1, RoomBesideIs
  <2> HIDE DEF o
  <2>2. /\ o.left \in Nat /\ o.right \in Nat /\ o.top \in Nat /\ o.bottom \in Nat
        /\ xw \div 2 <= o.left /\ 12 + yw <= o.left /\ xw \div 2 <= o.right
        /\ yh \div 2 <= o.top /\ yh \div 2 <= o.bottom /\ 24 + xh <= o.bottom
    BY <1>2, <2>1 DEF RoomBeside
  <2> QED BY <2>2
<1>4. size.w = sw - l - r /\ size.h = sh - t - u
  <2>1. size.w = Surface.w - o.left - o.right /\ size.h = Surface.h - o.top - o.bottom
    BY DEF Drawing!plotSize
  <2> HIDE DEF size, o
  <2> QED BY <1>2, <1>3, <2>1
<1>5. yh \div 2 <= xh + 22
  <2>1. YLabel.h \div 2 <= XLabel.h + Drawing!LabelMargin + Drawing!TickLength
    BY DrawingAssumption DEF Drawing!CanBeDrawn
  <2>2. Drawing!LabelMargin = 10 /\ Drawing!TickLength = 12
    BY DEF Drawing!LabelMargin, Drawing!TickLength
  <2> QED BY <1>1, <1>2, <2>1, <2>2
<1>6. /\ b.x.top = sh - (2 + xh + 10 + 12) /\ b.x.height = xh + 10 + 12
      /\ b.x.left = l - xw \div 2 /\ b.x.width = sw - l - r + xw
      /\ b.y.left = 2 /\ b.y.width = yw + 10
      /\ b.y.top = t - yh \div 2 /\ b.y.height = sh - u - t + yh
  BY <1>2, <1>3 DEF Drawing!boxes, Drawing!Border, Drawing!LabelMargin, Drawing!TickLength
<1>7. PICK p \in Nat, q \in Nat : /\ p = xw \div 2 /\ 2 * p <= xw /\ q = yh \div 2 /\ 2 * q <= yh
  <2>1. xw \div 2 \in Nat /\ 2 * (xw \div 2) <= xw /\ yh \div 2 \in Nat /\ 2 * (yh \div 2) <= yh
    OBVIOUS
  <2> QED BY <2>1
<1> HIDE DEF o, b, size
<1>8. CASE e.text[1] = "x" /\ e.at \in 0..size.w
  <2>1. PICK at \in Int : at = e.at /\ 0 <= at /\ at <= sw - l - r
    BY <1>4, <1>8
  <2>2. Drawing!Reach(l, e.at, xw) = <<l + at - p, l + at + p>>
    BY <1>7, <2>1 DEF Drawing!Reach
  <2>3. 0 <= l + at - p /\ l + at + p <= sw
    BY <1>3, <1>7, <2>1
  <2>4. l - p <= l + at - p /\ l + at + p <= l - p + (sw - l - r + xw)
    BY <1>3, <1>7, <2>1
  <2> QED BY <1>2, <1>3, <1>6, <1>7, <1>8, <2>2, <2>3, <2>4 DEF InItsBox, o, b
<1>9. CASE e.text[1] = "y" /\ e.at \in 0..size.h
  <2>1. PICK at \in Int : at = e.at /\ 0 <= at /\ at <= sh - t - u
    BY <1>4, <1>9
  <2>2. Drawing!Reach(t, e.at, yh) = <<t + at - q, t + at + q>>
    BY <1>7, <2>1 DEF Drawing!Reach
  <2>3. 0 <= t + at - q /\ t + at + q <= sh
    BY <1>3, <1>7, <2>1
  <2>4. t - q <= t + at - q /\ t + at + q <= t - q + (sh - u - t + yh)
    BY <1>3, <1>7, <2>1
  <2>5. t + at + q <= sh - (2 + xh + 10 + 12) + (xh + 10 + 12) /\ 2 + (yw + 10) <= l
    BY <1>3, <1>5, <1>7, <2>1
  <2>6. e.text[1] # "x"
    BY <1>9
  <2> QED BY <1>2, <1>3, <1>6, <1>7, <2>2, <2>3, <2>4, <2>5, <2>6 DEF InItsBox, o, b
<1> QED BY <1>8, <1>9 DEF LabelIn, size

\* The name of the axis, where the second pass writes it, is on the chart and beside the labels.
NameBeside(n) ==
    LET place == Drawing!transforms(n)
        box   == Drawing!boxes(XLabel, Wide, Surface).y
    IN  /\ 0 <= place.left /\ place.right <= box.left + box.width - Drawing!LabelMargin - YLabel.w
        /\ 0 <= place.top /\ place.bottom <= Surface.h

LEMMA NameFits == NameBeside(Drawing!calculateOffsets(Drawing!boxes(XLabel, Wide, Surface).y))
<1> DEFINE o == Drawing!plotOffset(XLabel, Wide)
           box == Drawing!boxes(XLabel, Wide, Surface).y
           n == Drawing!calculateOffsets(box)
<1>1. XLabel \in Drawing!Lengths /\ Surface \in Drawing!Lengths /\ Name \in Drawing!Lengths
  BY DrawingAssumption DEF Drawing!CanBeDrawn
<1>2. PICK sh \in Nat, nw \in Nat, nh \in Nat, yw \in Nat, yh \in Nat :
         /\ sh = Surface.h /\ nw = Name.w /\ nh = Name.h /\ yw = YLabel.w /\ yh = Wide.h /\ Wide.w = yw + nh + 4
  BY <1>1, WideIs DEF Drawing!Lengths
<1>3. PICK t \in Nat, u \in Nat : t = o.top /\ u = o.bottom /\ yh \div 2 <= t /\ yh \div 2 <= u /\ t <= u /\ 24 <= u
  <2>1. RoomBeside(o, XLabel, Wide)
    BY <1>1, WideIs, RoomBesideIs
  <2>2. PICK xh \in Nat : xh = XLabel.h
    BY <1>1 DEF Drawing!Lengths
  <2> HIDE DEF o
  <2>3. /\ o.top \in Nat /\ o.bottom \in Nat /\ yh \div 2 <= o.top /\ yh \div 2 <= o.bottom
        /\ o.top <= o.bottom /\ 24 + xh <= o.bottom
    BY <1>2, <2>1, <2>2 DEF RoomBeside
  <2> QED BY <2>2, <2>3
<1>4. nw + nh + u <= sh /\ sh - t - u >= 0
  <2>1. Name.w + Name.h + Drawing!plotOffset(XLabel, Wide).bottom <= Surface.h
    BY DrawingAssumption DEF Drawing!CanBeDrawn, Wide
  <2>2. PICK a \in Nat : a = Drawing!plotSize(XLabel, Wide, Surface).h /\ a = Surface.h - o.top - o.bottom
    BY PlotHasSize
  <2> QED BY <1>2, <1>3, <2>1, <2>2
<1>5. /\ box.left = 2 /\ box.width = yw + nh + 4 + 10
      /\ box.top = t - yh \div 2 /\ box.height = sh - u - t + yh
  BY <1>2, <1>3 DEF Drawing!boxes, Drawing!Border, Drawing!LabelMargin
<1>6. PICK p \in Nat, q \in Nat, k \in Nat, m \in Int :
         /\ p = nw \div 2 /\ 2 * p <= nw /\ q = nh \div 2 /\ 2 * q <= nh
         /\ k = yh \div 2 /\ 2 * k <= yh /\ yh <= 2 * k + 1
         /\ m = (sh - u - t + yh) \div 2 /\ 2 * m <= sh - u - t + yh /\ sh - u - t + yh <= 2 * m + 1
  <2>1. /\ nw \div 2 \in Nat /\ 2 * (nw \div 2) <= nw /\ nh \div 2 \in Nat /\ 2 * (nh \div 2) <= nh
        /\ yh \div 2 \in Nat /\ 2 * (yh \div 2) <= yh /\ yh <= 2 * (yh \div 2) + 1
    OBVIOUS
  <2>2. PICK g \in Int : g = sh - u - t + yh
    OBVIOUS
  <2>3. g \div 2 \in Int /\ 2 * (g \div 2) <= g /\ g <= 2 * (g \div 2) + 1
    OBVIOUS
  <2> QED BY <2>1, <2>2, <2>3
<1> HIDE DEF o, box
<1>7. n = [x |-> 2 - p + q, y |-> t - k + m]
  BY <1>2, <1>5, <1>6 DEF Drawing!calculateOffsets
<1> HIDE DEF n
<1>8. Drawing!transforms(n) = [left |-> 2 - p + q + p - q, right |-> 2 - p + q + p + q,
                               top |-> t - k + m + q - p, bottom |-> t - k + m + q + p]
  BY <1>2, <1>6, <1>7 DEF Drawing!transforms
<1>9. /\ 0 <= 2 - p + q + p - q /\ 2 - p + q + p + q <= 2 + (yw + nh + 4 + 10) - 10 - yw
      /\ 0 <= t - k + m + q - p /\ t - k + m + q + p <= sh
  BY <1>3, <1>4, <1>6
<1>10. Drawing!LabelMargin = 10
  BY DEF Drawing!LabelMargin
<1>11. NameBeside(n)
  BY <1>2, <1>5, <1>8, <1>9, <1>10 DEF NameBeside, box
<1> QED BY <1>11 DEF n, box

-----------------------------------------------------------------------------
(* PageShowsTheLabels rests on what is known of the text and of the name   *)
(* between the labels' placing and their rendering: the positions that are *)
(* active are those of the labels, and an axis with a name has room for it *)
(* before the data are drawn.                                              *)

TheName == Drawing!calculateOffsets(Drawing!boxes(XLabel, ylabel, Surface).y)

NameInv ==
    /\ named \in BOOLEAN /\ sized \in BOOLEAN /\ secondPass \in BOOLEAN
    /\ ylabel = IF sized THEN Wide ELSE YLabel
    /\ secondPass => sized
    /\ ~named => names = {}
    /\ phase \in {"area", "line", "bars", "drawn"} /\ named => secondPass
    /\ phase = "idle" /\ named => sized /\ names = {TheName}

TextInv ==
    /\ (\A p \in cache : IsPosition(p)) /\ OneOfEach(cache)
    /\ dom = Elements(cache)
    /\ phase # "made" => Shows(cache, Drawing!Labels(view, ylabel))
    /\ phase = "idle" => \A p \in cache : p.active /\ p.rendered

PageInv ==
    side = "drawing" =>
        /\ figure \in Figures /\ view \in figure.views
        /\ phase \in {"made", "fitted", "area", "line", "bars", "drawn", "idle"}
        /\ NameInv /\ TextInv

LEMMA PageInvInit == SideInit => PageInv
<1> SUFFICES ASSUME SideInit, side = "drawing" PROVE PageInv
  BY DEF PageInv
<1>1. Drawing!Init
  BY DEF SideInit, PointerInit
<1>2. NameInv
  BY <1>1 DEF Drawing!Init, NameInv
<1>3. TextInv
  BY <1>1 DEF Drawing!Init, TextInv, OneOfEach, Elements
<1> QED BY <1>1, <1>2, <1>3 DEF Drawing!Init, PageInv

\* The name asks for its room once: what it took is given back first.
LEMMA RoomForName ==
    ASSUME sized \in BOOLEAN, ylabel = IF sized THEN Wide ELSE YLabel, Drawing!firstPass
    PROVE  ylabel' = Wide
<1>1. PICK w \in Nat, h \in Nat, n \in Nat : YLabel = [w |-> w, h |-> h] /\ n = Name.h
  BY WideIs, DrawingAssumption DEF Drawing!CanBeDrawn, Drawing!Lengths
<1>2. Drawing!calculateSize = n + 4
  BY <1>1 DEF Drawing!calculateSize, Drawing!Padding
<1>3. Wide = [w |-> w + (n + 4), h |-> h]
  BY <1>1, <1>2 DEF Wide
<1>4. ylabel' = [ylabel EXCEPT !.w = (IF sized THEN ylabel.w - Drawing!calculateSize ELSE ylabel.w)
                                     + Drawing!calculateSize]
  BY DEF Drawing!firstPass
<1>5. CASE sized
  <2>1. w + (n + 4) - (n + 4) + (n + 4) = w + (n + 4)
    OBVIOUS
  <2> QED BY <1>2, <1>3, <1>4, <1>5, <2>1
<1>6. CASE ~sized
  BY <1>1, <1>2, <1>3, <1>4, <1>6
<1> QED BY <1>5, <1>6

\* The labels of a view of the figure that is shown.
LEMMA ViewLabels ==
    ASSUME figure \in Figures, NEW a \in figure.views, NEW y \in {YLabel, Wide}
    PROVE  \E k \in Nat : LabelsIn(Drawing!Labels(a, y), k, Drawing!plotSize(XLabel, y, Surface))
<1>1. PICK size : size = Drawing!plotSize(XLabel, y, Surface)
  OBVIOUS
<1>2. PICK w \in Nat, h \in Nat : w = size.w /\ h = size.h
  BY <1>1, PlotHasSize
<1> QED BY <1>1, <1>2, LabelsAre

LEMMA PageInvNext == PageInv /\ [SideNext]_sideVars => PageInv'
<1> SUFFICES ASSUME PageInv, [SideNext]_sideVars PROVE PageInv'
  OBVIOUS
<1>1. CASE OnReplay \/ OnPointer
  BY <1>1 DEF OnReplay, OnPointer, PageInv
<1>2. CASE UNCHANGED sideVars
  <2>1. UNCHANGED <<side, figure, view, named, sized, secondPass, ylabel, names, phase, cache, dom>>
    BY <1>2 DEF sideVars, drawingVars
  <2> QED BY <2>1 DEF PageInv, NameInv, TextInv, TheName, Drawing!Labels
<1>3. CASE OnDrawing
  <2>0. /\ side = "drawing" /\ side' = side
        /\ figure \in Figures /\ view \in figure.views
        /\ phase \in {"made", "fitted", "area", "line", "bars", "drawn", "idle"}
        /\ NameInv /\ TextInv
    BY <1>3 DEF OnDrawing, PageInv
  <2>1. CASE Drawing!setupGrid
    <3>1. /\ figure' = figure /\ view' \in figure.views /\ phase' = "fitted" /\ dom' = dom
          /\ cache' = Drawing!drawAxisLabels(cache, Drawing!Labels(view', ylabel'))
      BY <2>0, <2>1 DEF Drawing!setupGrid, Drawing!Fitted, Drawing!firstPass
    <3>2. NameInv'
      <4>1. CASE Drawing!Fitted
        <5>1. UNCHANGED <<named, sized, secondPass, ylabel, names>>
          BY <4>1 DEF Drawing!Fitted, Drawing!name
        <5> QED BY <2>0, <3>1, <5>1 DEF NameInv
      <4>2. CASE Drawing!firstPass
        <5>1. named /\ named' = named /\ names' = {} /\ sized' = TRUE /\ secondPass' = TRUE
          BY <4>2 DEF Drawing!firstPass
        <5>2. ylabel' = Wide
          BY <2>0, <4>2, RoomForName DEF NameInv
        <5> QED BY <2>0, <3>1, <5>1, <5>2 DEF NameInv
      <4> QED BY <2>1, <4>1, <4>2 DEF Drawing!setupGrid
    <3>3. ylabel' \in {YLabel, Wide}
      BY <3>2 DEF NameInv
    <3>4. PICK a, y : a = view' /\ y = ylabel'
      OBVIOUS
    <3>5. PICK k \in Nat : LabelsIn(Drawing!Labels(a, y), k, Drawing!plotSize(XLabel, y, Surface))
      BY <2>0, <3>1, <3>3, <3>4, ViewLabels
    <3>6. PICK labels : labels = Drawing!Labels(a, y) /\ DOMAIN labels = 1..k
      BY <3>5 DEF LabelsIn
    <3>7. PICK new : new = Drawing!drawAxisLabels(cache, labels)
      OBVIOUS
    <3>8. (\A p \in cache : IsPosition(p)) /\ OneOfEach(cache) /\ dom = Elements(cache)
      BY <2>0 DEF TextInv
    <3>9. /\ \A q \in new : IsPosition(q)
          /\ OneOfEach(new) /\ Elements(new) = Elements(cache) /\ Shows(new, labels)
      BY <3>6, <3>7, <3>8, DrawnText
    <3>10. cache' = new /\ labels = (Drawing!Labels(view, ylabel))'
      <4>1. (Drawing!Labels(view, ylabel))' = Drawing!Labels(view', ylabel')
        BY <3>1 DEF Drawing!Labels
      <4> QED BY <3>1, <3>4, <3>6, <3>7, <4>1
    <3>11. TextInv'
      BY <3>1, <3>8, <3>9, <3>10 DEF TextInv
    <3> QED BY <2>0, <3>1, <3>2, <3>11 DEF PageInv
  <2>2. CASE Drawing!render
    <3>1. /\ phase = "drawn" /\ phase' = "idle"
          /\ dom' = Drawing!renderedPage(dom, cache) /\ cache' = Drawing!renderedText(cache)
          /\ names' = Drawing!drawName /\ secondPass' = FALSE
          /\ UNCHANGED <<figure, view, named, sized, ylabel>>
      BY <2>2 DEF Drawing!render
    <3>2. names' = IF named THEN {TheName} ELSE names
      BY <3>1 DEF Drawing!drawName, TheName
    <3>3. TheName' = TheName
      BY <3>1 DEF TheName
    <3>4. NameInv'
      BY <2>0, <3>1, <3>2, <3>3 DEF NameInv
    <3>5. PICK labels : labels = Drawing!Labels(view, ylabel)
      OBVIOUS
    <3>6. /\ (\A p \in cache : IsPosition(p)) /\ OneOfEach(cache) /\ dom = Elements(cache)
          /\ Shows(cache, labels)
      BY <2>0, <3>1, <3>5 DEF TextInv
    <3>7. PICK new : new = Drawing!renderedText(cache)
      OBVIOUS
    <3>8. /\ \A q \in new : IsPosition(q) /\ q.active /\ q.rendered
          /\ OneOfEach(new) /\ Drawing!renderedPage(dom, cache) = Elements(new) /\ Shows(new, labels)
      BY <3>6, <3>7, RenderedText
    <3>9. (Drawing!Labels(view, ylabel))' = labels
      BY <3>1, <3>5 DEF Drawing!Labels
    <3>10. TextInv'
      BY <3>1, <3>7, <3>8, <3>9 DEF TextInv
    <3> QED BY <2>0, <3>1, <3>4, <3>10 DEF PageInv
  <2>3. CASE ~Drawing!setupGrid /\ ~Drawing!render
    <3>1. /\ UNCHANGED <<figure, view, cache, dom>> /\ UNCHANGED <<named, sized, secondPass, ylabel, names>>
          /\ \/ phase = "fitted" /\ phase' \in {"area", "bars"} /\ (named => secondPass)
             \/ phase \in {"area", "line", "bars"} /\ phase' \in {"area", "line", "bars", "drawn"}
      <4>1. CASE Drawing!drawGrid
        BY <4>1 DEF Drawing!drawGrid, Drawing!name
      <4>2. CASE Drawing!Turn \/ Drawing!Fill \/ Drawing!Sketch \/ Drawing!AreaDone
        BY <4>2 DEF Drawing!Turn, Drawing!Fill, Drawing!Sketch, Drawing!AreaDone, Drawing!Sweeping, Drawing!name
      <4>3. CASE Drawing!plotLine \/ Drawing!LineDone \/ Drawing!plotBars \/ Drawing!BarsDone
        BY <4>3 DEF Drawing!plotLine, Drawing!LineDone, Drawing!plotBars, Drawing!BarsDone, Drawing!name
      <4> QED BY <1>3, <2>3, <4>1, <4>2, <4>3 DEF OnDrawing, Drawing!Next
    <3>2. NameInv'
      BY <2>0, <3>1 DEF NameInv
    <3>3. (Drawing!Labels(view, ylabel))' = Drawing!Labels(view, ylabel)
      BY <3>1 DEF Drawing!Labels
    <3>4. TextInv'
      BY <2>0, <3>1, <3>3 DEF TextInv
    <3> QED BY <2>0, <3>1, <3>2, <3>4 DEF PageInv
  <2> QED BY <2>1, <2>2, <2>3
<1> QED
  BY <1>1, <1>2, <1>3 DEF SideNext

LEMMA PageShows == PageInv => PageShowsTheLabels
<1> SUFFICES ASSUME PageInv, side = "drawing", phase = "idle" PROVE Drawing!PageShowsTheLabels
  BY DEF PageShowsTheLabels, On, Drawing!PageShowsTheLabels
<1>1. /\ figure \in Figures /\ view \in figure.views /\ ylabel \in {YLabel, Wide}
      /\ NameInv /\ (\A p \in cache : IsPosition(p) /\ p.active /\ p.rendered)
      /\ OneOfEach(cache) /\ dom = Elements(cache)
      /\ Shows(cache, Drawing!Labels(view, ylabel))
  BY DEF PageInv, NameInv, TextInv
<1>2. PICK labels : labels = Drawing!Labels(view, ylabel)
  OBVIOUS
<1>3. PICK k \in Nat : LabelsIn(labels, k, Drawing!plotSize(XLabel, ylabel, Surface))
  BY <1>1, <1>2, ViewLabels
<1>4. /\ \A e \in dom : \E p \in cache : e = Drawing!Element(p)
      /\ \A p \in cache : Drawing!Element(p) \in dom
  BY <1>1 DEF Elements
<1>5. \A p : /\ Drawing!Element(p).text = p.text /\ Drawing!Element(p).at = p.at
             /\ Drawing!Element(p).original = p.original
  BY DEF Drawing!Element
<1>6. {<<e.text, e.at>> : e \in dom} = {<<labels[i].text, labels[i].at>> : i \in DOMAIN labels}
  <2>1. ASSUME NEW e \in dom
        PROVE  \E i \in DOMAIN labels : e.text = labels[i].text /\ e.at = labels[i].at
    <3>1. PICK p \in cache : e = Drawing!Element(p)
      BY <1>4
    <3>2. PICK i \in DOMAIN labels : p.text = labels[i].text /\ p.at = labels[i].at
      BY <1>1, <1>2 DEF Shows
    <3> QED BY <1>5, <3>1, <3>2
  <2>2. ASSUME NEW i \in DOMAIN labels
        PROVE  \E e \in dom : e.text = labels[i].text /\ e.at = labels[i].at
    <3>1. PICK p \in cache : p.text = labels[i].text /\ p.at = labels[i].at
      BY <1>1, <1>2 DEF Shows
    <3> QED BY <1>4, <1>5, <3>1
  <2> QED BY <2>1, <2>2
<1>7. \A d, e \in dom : d # e => ~(d.text = e.text /\ (d.at = e.at \/ (d.original /\ e.original)))
  <2>1. TAKE d, e \in dom
  <2>2. PICK p \in cache, q \in cache : d = Drawing!Element(p) /\ e = Drawing!Element(q)
    BY <1>4
  <2>3. p.text = q.text /\ (p.at = q.at \/ (p.original /\ q.original)) => p = q
    BY <1>1 DEF OneOfEach
  <2> QED BY <1>5, <2>2, <2>3
<1>8. \A e \in dom : InItsBox(e, ylabel)
  <2>1. TAKE e \in dom
  <2>2. PICK p \in cache : e = Drawing!Element(p)
    BY <1>4
  <2>3. PICK i \in DOMAIN labels : p.text = labels[i].text /\ p.at = labels[i].at
    BY <1>1, <1>2 DEF Shows
  <2>4. LabelIn(labels[i], Drawing!plotSize(XLabel, ylabel, Surface))
    BY <1>3 DEF LabelsIn
  <2>5. LabelIn(e, Drawing!plotSize(XLabel, ylabel, Surface))
    BY <1>5, <2>2, <2>3, <2>4 DEF LabelIn
  <2> QED BY <1>1, <2>5, LabelFits
<1>9. Drawing!Cardinality(names) = IF named THEN 1 ELSE 0
  <2>1. \A S : Drawing!Cardinality(S) = Cardinality(S)
    BY DEF Drawing!Cardinality, Cardinality
  <2>2. IF named THEN names = {TheName} ELSE names = {}
    BY <1>1 DEF NameInv
  <2>3. Cardinality({}) = 0 /\ Cardinality({TheName}) = 1
    BY FS_EmptySet, FS_Singleton
  <2> QED BY <2>1, <2>2, <2>3
<1>10. ASSUME NEW n \in names PROVE ylabel = Wide /\ NameBeside(n)
  <2>1. named /\ ylabel = Wide /\ n = TheName
    BY <1>1 DEF NameInv
  <2> QED BY <2>1, NameFits DEF TheName
<1>11. \A l \in {labels} :
            /\ {<<e.text, e.at>> : e \in dom} = {<<l[i].text, l[i].at>> : i \in DOMAIN l}
            /\ \A d, e \in dom : d # e => ~(d.text = e.text /\ (d.at = e.at \/ (d.original /\ e.original)))
  BY <1>6, <1>7
<1>12. \A e \in dom :
          LET o == Drawing!plotOffset(XLabel, ylabel)
              x == Drawing!Reach(o.left, e.at, XLabel.w)
              y == Drawing!Reach(o.top, e.at, ylabel.h)
              b == Drawing!boxes(XLabel, ylabel, Surface)
          IN  IF e.text[1] = "x"
              THEN 0 <= x[1] /\ x[2] <= Surface.w /\ b.x.left <= x[1] /\ x[2] <= b.x.left + b.x.width
              ELSE /\ 0 <= y[1] /\ y[2] <= Surface.h /\ b.y.top <= y[1] /\ y[2] <= b.y.top + b.y.height
                   /\ y[2] <= b.x.top + b.x.height /\ b.y.left + b.y.width <= o.left
  BY <1>8 DEF InItsBox
<1>13. \A n \in names :
          LET place == Drawing!transforms(n)
              box   == Drawing!boxes(XLabel, ylabel, Surface).y
          IN  /\ 0 <= place.left /\ place.right <= box.left + box.width - Drawing!LabelMargin - YLabel.w
              /\ 0 <= place.top /\ place.bottom <= Surface.h
  BY <1>10 DEF NameBeside
<1> QED
  BY <1>2, <1>9, <1>11, <1>12, <1>13 DEF Drawing!PageShowsTheLabels

\* After every rendering the page shows the labels of the axes as they are, each once, with none of
\* an earlier view left, inside the chart and apart from the other axis and from the name (setupGrid,
\* drawAxisLabels, addText, removeText and render of the canvas, axislabels' draw hook).
THEOREM LabelsAreShown == SideSpec => []PageShowsTheLabels
<1>1. SideInit => PageInv
  BY PageInvInit
<1>2. PageInv /\ [SideNext]_sideVars => PageInv'
  BY PageInvNext
<1>3. PageInv => PageShowsTheLabels
  BY PageShows
<1> QED
  BY <1>1, <1>2, <1>3, PTL DEF SideSpec

-----------------------------------------------------------------------------
(* Bars: what is painted of each is what is inside the plot of it.         *)

BarEdges == {"left", "right", "bottom", "top"}
Rects == [left : Int, right : Int, bottom : Int, top : Int, edges : SUBSET BarEdges]

InRect(c, r)  == c[1] >= r.left /\ c[1] <= r.right /\ c[2] >= r.bottom /\ c[2] <= r.top
InView(c)     == Drawing!Inside(c[1], view.x) /\ Drawing!Inside(c[2], view.y)

\* The hours and values of a bar that stands on p.
OfBar(c, p) ==
    /\ p[1] + Drawing!BarLeft <= c[1] /\ c[1] <= p[1] + Drawing!BarLeft + DrawnBarWidth
    /\ (IF p[2] < 0 THEN p[2] ELSE 0) <= c[2] /\ c[2] <= (IF p[2] > 0 THEN p[2] ELSE 0)

\* A rectangle that shows the bar of p, without an outline where lines have no width; none where the bar is not inside at all.
ShowsBar(r, p) ==
    /\ \A c \in Int \X Int : InView(c) => (InRect(c, r) <=> OfBar(c, p))
    /\ {"left", "right"} \subseteq r.edges => r.right - r.left = DrawnBarWidth
    /\ r.edges # {} => ~figure.bare

HidesBar(p) == \A c \in Int \X Int : InView(c) => ~OfBar(c, p)

LEMMA ClipBelow ==
    ASSUME NEW v \in Int, NEW l \in Int, NEW m, m = (IF v >= l THEN v ELSE l), NEW a \in Int, l <= a
    PROVE  a >= m <=> v <= a
  OBVIOUS

LEMMA ClipAbove ==
    ASSUME NEW v \in Int, NEW u \in Int, NEW m, m = (IF v <= u THEN v ELSE u), NEW a \in Int, a <= u
    PROVE  a <= m <=> a <= v
  OBVIOUS

LEMMA BarIsDrawn ==
    ASSUME NEW p \in Int \X Int, view.x \in Drawing!Ranges, view.y \in Drawing!Ranges
    PROVE  LET bar == Drawing!drawBar(p, Drawing!BarLeft)
           IN  \/ bar = <<>> /\ HidesBar(p)
               \/ \E r \in Rects : bar = <<r>> /\ ShowsBar(r, p)
<1> DEFINE bar == Drawing!drawBar(p, Drawing!BarLeft)
<1>1. PICK l \in Int, u \in Int, d \in Int, t \in Int :
         l = view.x.min /\ u = view.x.max /\ d = view.y.min /\ t = view.y.max
  BY DEF Drawing!Ranges
<1>2. PICK w \in Nat : w = DrawnBarWidth
  BY DrawingAssumption DEF Drawing!CanBeDrawn
<1>3. PICK m \in Int : m = Drawing!BarLeft
  <2>1. Drawing!BarLeft = IF figure.bare THEN -(w \div 2) ELSE 0
    BY <1>2 DEF Drawing!BarLeft
  <2> QED BY <2>1
<1>4. PICK x \in Int, y \in Int : x = p[1] /\ y = p[2]
  OBVIOUS
<1>5. PICK left \in Int, right \in Int : left = x + m /\ right = x + m + w
  OBVIOUS
<1>6. PICK low \in Int, top \in Int :
         /\ low = Drawing!Min({y, 0}) /\ low = (IF y < 0 THEN y ELSE 0)
         /\ top = Drawing!Max({y, 0}) /\ top = (IF y > 0 THEN y ELSE 0)
  <2>1. Drawing!Min({y, 0}) = Min({y, 0}) /\ Drawing!Max({y, 0}) = Max({y, 0})
    BY DEF Drawing!Min, Min, Drawing!Max, Max
  <2> QED BY <2>1, MinOfTwo, MaxOfTwo
<1>7. \A c : OfBar(c, p) <=> left <= c[1] /\ c[1] <= right /\ low <= c[2] /\ c[2] <= top
  BY <1>2, <1>3, <1>4, <1>5, <1>6 DEF OfBar
<1>8. \A c : InView(c) <=> l <= c[1] /\ c[1] <= u /\ d <= c[2] /\ c[2] <= t
  BY <1>1 DEF InView, Drawing!Inside
<1> DEFINE gone == right < l \/ left > u \/ top < d \/ low > t
           whole == (IF left >= l THEN {"left"} ELSE {})
                    \cup (IF right <= u THEN {"right"} ELSE {})
                    \cup (IF y < 0 /\ low >= d THEN {"bottom"} ELSE {})
                    \cup (IF y >= 0 /\ top <= t THEN {"top"} ELSE {})
           edges == IF figure.bare THEN {} ELSE whole
           r == [left |-> Drawing!Max({left, l}), right |-> Drawing!Min({right, u}),
                 bottom |-> Drawing!Max({low, d}), top |-> Drawing!Min({top, t}), edges |-> edges]
<1>9. bar = IF gone THEN <<>> ELSE <<r>>
  BY <1>1, <1>2, <1>3, <1>4, <1>5, <1>6 DEF Drawing!drawBar
<1>10. CASE gone
  <2>1. ASSUME NEW c \in Int \X Int, InView(c), OfBar(c, p) PROVE FALSE
    <3>1. PICK a \in Int, b \in Int : a = c[1] /\ b = c[2]
      OBVIOUS
    <3>2. left <= a /\ a <= right /\ low <= b /\ b <= top /\ l <= a /\ a <= u /\ d <= b /\ b <= t
      BY <1>7, <1>8, <2>1, <3>1
    <3> QED BY <1>1, <1>5, <1>6, <1>10, <3>1, <3>2
  <2>2. HidesBar(p)
    BY <2>1 DEF HidesBar
  <2> QED BY <1>9, <1>10, <2>2
<1>11. CASE ~gone
  <2>1. PICK rl \in Int, rr \in Int, rb \in Int, rt \in Int :
          /\ rl = Drawing!Max({left, l}) /\ rl = (IF left >= l THEN left ELSE l)
          /\ rr = Drawing!Min({right, u}) /\ rr = (IF right <= u THEN right ELSE u)
          /\ rb = Drawing!Max({low, d}) /\ rb = (IF low >= d THEN low ELSE d)
          /\ rt = Drawing!Min({top, t}) /\ rt = (IF top <= t THEN top ELSE t)
    <3>1. \A S : Drawing!Min(S) = Min(S) /\ Drawing!Max(S) = Max(S)
      BY DEF Drawing!Min, Min, Drawing!Max, Max
    <3>2. /\ Max({left, l}) = (IF left >= l THEN left ELSE l) /\ Max({low, d}) = (IF low >= d THEN low ELSE d)
          /\ Min({right, u}) = (IF right <= u THEN right ELSE u) /\ Min({top, t}) = (IF top <= t THEN top ELSE t)
      BY MinOfTwo, MaxOfTwo
    <3> QED BY <3>1, <3>2
  <2>2. PICK E \in SUBSET BarEdges : E = edges
    BY DEF BarEdges
  <2>3. ({"left", "right"} \subseteq E => left >= l /\ right <= u) /\ (E # {} => ~figure.bare)
    BY <2>2
  <2>4. PICK q \in Rects : q = [left |-> rl, right |-> rr, bottom |-> rb, top |-> rt, edges |-> E]
    BY DEF Rects
  <2>5. bar = <<q>>
    BY <1>9, <1>11, <2>1, <2>2, <2>4
  <2> HIDE DEF edges, r, gone, bar
  <2>6. ASSUME NEW c \in Int \X Int, InView(c) PROVE InRect(c, q) <=> OfBar(c, p)
    <3>1. PICK a \in Int, b \in Int : a = c[1] /\ b = c[2]
      OBVIOUS
    <3>2. l <= a /\ a <= u /\ d <= b /\ b <= t
      BY <1>8, <2>6, <3>1
    <3>3. InRect(c, q) <=> a >= rl /\ a <= rr /\ b >= rb /\ b <= rt
      BY <2>4, <3>1 DEF InRect
    <3>4. (a >= rl <=> left <= a) /\ (a <= rr <=> a <= right) /\ (b >= rb <=> low <= b) /\ (b <= rt <=> b <= top)
      <4>1. a >= rl <=> left <= a
        BY <2>1, <3>2, ClipBelow
      <4>2. a <= rr <=> a <= right
        BY <2>1, <3>2, ClipAbove
      <4>3. b >= rb <=> low <= b
        BY <2>1, <3>2, ClipBelow
      <4>4. b <= rt <=> b <= top
        BY <2>1, <3>2, ClipAbove
      <4> QED BY <4>1, <4>2, <4>3, <4>4
    <3> QED BY <1>7, <3>1, <3>3, <3>4
  <2>7. {"left", "right"} \subseteq q.edges => q.right - q.left = DrawnBarWidth
    <3>1. q.edges = E /\ q.right = rr /\ q.left = rl
      BY <2>4
    <3>2. ASSUME {"left", "right"} \subseteq E PROVE rr - rl = w
      BY <1>1, <1>5, <2>1, <2>3, <3>2
    <3> QED BY <1>2, <3>1, <3>2
  <2>8. ShowsBar(q, p)
    <3>1. q.edges # {} => ~figure.bare
      BY <2>3, <2>4
    <3> QED BY <2>6, <2>7, <3>1 DEF ShowsBar
  <2> QED BY <2>5, <2>8 DEF bar
<1> QED BY <1>10, <1>11

\* The rectangles show the bars of the first n points.
BarsOfFirst(rects, n) ==
    /\ \A k \in 1..Len(rects) :
          \E i \in 1..n : figure.points[i] # <<>> /\ ShowsBar(rects[k], figure.points[i])
    /\ \A i \in 1..n : figure.points[i] # <<>> =>
          HidesBar(figure.points[i]) \/ \E k \in 1..Len(rects) : ShowsBar(rects[k], figure.points[i])

LEMMA SameBars ==
    ASSUME UNCHANGED <<figure, view>>, NEW rects, NEW n PROVE BarsOfFirst(rects, n)' <=> BarsOfFirst(rects, n)
  BY DEF BarsOfFirst, ShowsBar, HidesBar, InRect, InView, OfBar, Drawing!BarLeft

LEMMA OneLong == ASSUME NEW S, NEW r \in S PROVE <<r>> \in Seq(S) /\ Len(<<r>>) = 1 /\ <<r>>[1] = r
  OBVIOUS

LEMMA BarsGrow ==
    ASSUME view.x \in Drawing!Ranges, view.y \in Drawing!Ranges, figure.points \in Seq({<<>>} \cup (Int \X Int)),
           NEW n \in Nat, n + 1 \in 1..Len(figure.points), NEW s \in Seq(Rects), BarsOfFirst(s, n),
           NEW p, p = figure.points[n + 1],
           NEW new, new = s \o (IF p = <<>> THEN <<>> ELSE Drawing!drawBar(p, Drawing!BarLeft))
    PROVE  new \in Seq(Rects) /\ BarsOfFirst(new, n + 1)
<1>1. \A i \in 1..(n + 1) : i = n + 1 \/ i \in 1..n
  OBVIOUS
<1>2. 1..n \subseteq 1..(n + 1) /\ n + 1 \in 1..(n + 1)
  OBVIOUS
<1>3. /\ \A k \in 1..Len(s) :
            \E i \in 1..n : figure.points[i] # <<>> /\ ShowsBar(s[k], figure.points[i])
      /\ \A i \in 1..n : figure.points[i] # <<>> =>
            HidesBar(figure.points[i]) \/ \E k \in 1..Len(s) : ShowsBar(s[k], figure.points[i])
  BY DEF BarsOfFirst
<1>4. p = <<>> \/ p \in Int \X Int
  OBVIOUS
<1>5. CASE new = s /\ (p = <<>> \/ HidesBar(p))
  <2>1. \A k \in 1..Len(s) :
            \E i \in 1..(n + 1) : figure.points[i] # <<>> /\ ShowsBar(s[k], figure.points[i])
    BY <1>2, <1>3
  <2>2. \A i \in 1..(n + 1) : figure.points[i] # <<>> =>
            HidesBar(figure.points[i]) \/ \E k \in 1..Len(s) : ShowsBar(s[k], figure.points[i])
    BY <1>1, <1>3, <1>5
  <2> QED BY <1>5, <2>1, <2>2 DEF BarsOfFirst
<1>6. ASSUME NEW r \in Rects, new = s \o <<r>>, ShowsBar(r, p), p # <<>>
      PROVE  new \in Seq(Rects) /\ BarsOfFirst(new, n + 1)
  <2>1. PICK m \in Nat : m = Len(s)
    OBVIOUS
  <2>2. /\ new \in Seq(Rects) /\ Len(new) = m + 1 /\ new[m + 1] = r
        /\ \A k \in 1..m : new[k] = s[k]
    <3>1. PICK t \in Seq(Rects) : t = <<r>> /\ Len(t) = 1 /\ t[1] = r
      BY <1>6, OneLong
    <3>2. /\ s \o t \in Seq(Rects) /\ Len(s \o t) = m + 1
          /\ \A k \in 1..(m + 1) : (s \o t)[k] = IF k <= m THEN s[k] ELSE t[k - m]
      BY <2>1, <3>1, ConcatProperties
    <3>3. m + 1 \in 1..(m + 1) /\ ~(m + 1 <= m) /\ (m + 1) - m = 1 /\ \A k \in 1..m : k \in 1..(m + 1) /\ k <= m
      BY <2>1
    <3> QED BY <1>6, <3>1, <3>2, <3>3
  <2>3. (\A k \in 1..(m + 1) : k = m + 1 \/ k \in 1..m) /\ 1..m \subseteq 1..(m + 1) /\ m + 1 \in 1..(m + 1)
    BY <2>1
  <2>4. \A k \in 1..(m + 1) :
            \E i \in 1..(n + 1) : figure.points[i] # <<>> /\ ShowsBar(new[k], figure.points[i])
    BY <1>2, <1>3, <1>6, <2>1, <2>2, <2>3
  <2>5. \A i \in 1..(n + 1) : figure.points[i] # <<>> =>
            HidesBar(figure.points[i]) \/ \E k \in 1..(m + 1) : ShowsBar(new[k], figure.points[i])
    BY <1>1, <1>3, <1>6, <2>1, <2>2, <2>3
  <2> QED BY <2>2, <2>4, <2>5 DEF BarsOfFirst
<1>7. s \o <<>> = s
  OBVIOUS
<1>8. CASE p = <<>>
  BY <1>5, <1>7, <1>8
<1>9. CASE p # <<>>
  <2>1. p \in Int \X Int
    BY <1>4, <1>9
  <2>2. \/ Drawing!drawBar(p, Drawing!BarLeft) = <<>> /\ HidesBar(p)
        \/ \E r \in Rects : Drawing!drawBar(p, Drawing!BarLeft) = <<r>> /\ ShowsBar(r, p)
    BY <2>1, BarIsDrawn
  <2>3. new = s \o Drawing!drawBar(p, Drawing!BarLeft)
    BY <1>9
  <2> QED BY <1>5, <1>6, <1>7, <1>9, <2>2, <2>3
<1> QED BY <1>8, <1>9

BarsInv ==
    side = "drawing" /\ figure.kind # "lines" =>
        /\ strokes.rects \in Seq(Rects) /\ phase \notin {"area", "line"}
        /\ phase = "bars" => sweep.i \in 0..Len(figure.points) /\ BarsOfFirst(strokes.rects, sweep.i)
        /\ phase = "drawn" => BarsOfFirst(strokes.rects, Len(figure.points))

LEMMA FigureIs ==
    ASSUME figure \in Figures, view \in figure.views
    PROVE  /\ view.x \in Drawing!Ranges /\ view.y \in Drawing!Ranges
           /\ figure.points \in Seq({<<>>} \cup (Int \X Int))
  BY DrawingAssumption DEF Drawing!CanBeDrawn

LEMMA BarsInvInit == SideInit => BarsInv
<1> SUFFICES ASSUME SideInit, side = "drawing" PROVE BarsInv
  BY DEF BarsInv
<1>1. phase = "made" /\ strokes.rects = <<>>
  BY DEF SideInit, PointerInit, Drawing!Init, Drawing!Nothing
<1> QED BY <1>1 DEF BarsInv

LEMMA BarsInvNext == GridInv /\ BarsInv /\ [SideNext]_sideVars => BarsInv'
<1> SUFFICES ASSUME GridInv, BarsInv, [SideNext]_sideVars, side' = "drawing", figure'.kind # "lines" PROVE BarsInv'
  BY DEF BarsInv
<1>1. CASE OnReplay \/ OnPointer
  BY <1>1 DEF OnReplay, OnPointer
<1>2. CASE UNCHANGED sideVars
  <2>1. UNCHANGED <<side, figure, view, phase, sweep, strokes>>
    BY <1>2 DEF sideVars, drawingVars
  <2>2. PICK R, i, n : R = strokes.rects /\ i = sweep.i /\ n = Len(figure.points)
    OBVIOUS
  <2>3. (BarsOfFirst(R, i)' <=> BarsOfFirst(R, i)) /\ (BarsOfFirst(R, n)' <=> BarsOfFirst(R, n))
    BY <2>1, SameBars
  <2> QED BY <2>1, <2>2, <2>3 DEF BarsInv
<1>3. CASE OnDrawing
  <2>0. /\ side = "drawing" /\ side' = side /\ figure' = figure /\ Drawing!Next
        /\ figure \in Figures /\ view \in figure.views
        /\ DOMAIN strokes = {"shaded", "ticks", "lines", "fills", "rects"}
    BY <1>3 DEF OnDrawing, GridInv, Drawing!Next, Drawing!setupGrid, Drawing!drawGrid, Drawing!Turn,
                Drawing!Fill, Drawing!Sketch, Drawing!AreaDone, Drawing!plotLine, Drawing!LineDone,
                Drawing!plotBars, Drawing!BarsDone, Drawing!render
  <2>1. PICK P \in Seq({<<>>} \cup (Int \X Int)), N \in Nat : P = figure.points /\ N = Len(P)
    BY <2>0, FigureIs
  <2>2. /\ strokes.rects \in Seq(Rects) /\ phase \notin {"area", "line"}
        /\ phase = "bars" => sweep.i \in 0..N /\ BarsOfFirst(strokes.rects, sweep.i)
        /\ phase = "drawn" => BarsOfFirst(strokes.rects, N)
    BY <2>0, <2>1 DEF BarsInv
  <2>3. CASE Drawing!setupGrid
    <3>1. phase' = "fitted" /\ strokes'.rects = <<>>
      BY <2>3 DEF Drawing!setupGrid, Drawing!Nothing
    <3> QED BY <3>1 DEF BarsInv
  <2>4. CASE Drawing!drawGrid
    <3>1. /\ phase' = "bars" /\ sweep' = [i |-> 0] /\ view' = view
          /\ strokes' = [Drawing!Nothing EXCEPT !.shaded = Drawing!Shaded(view.x, Zone),
                                               !.ticks = Drawing!Ticks[figure][view]]
      BY <2>0, <2>4 DEF Drawing!drawGrid
    <3>2. strokes'.rects = <<>> /\ sweep'.i = 0
      BY <3>1 DEF Drawing!Nothing
    <3>3. BarsOfFirst(<<>>, 0)
      BY DEF BarsOfFirst
    <3>4. BarsOfFirst(<<>>, 0)'
      BY <2>0, <3>1, <3>3, SameBars
    <3>5. <<>> \in Seq(Rects) /\ 0 \in 0..N
      BY <2>1
    <3>6. phase' = "bars" /\ phase' # "drawn" /\ strokes'.rects = <<>> /\ sweep'.i = 0 /\ 0 \in 0..Len(figure'.points)
      BY <2>0, <2>1, <3>1, <3>2, <3>5
    <3> QED BY <3>4, <3>5, <3>6 DEF BarsInv
  <2>5. CASE Drawing!plotBars
    <3>1. /\ phase = "bars" /\ phase' = "bars" /\ view' = view /\ sweep.i < N /\ sweep' = [i |-> sweep.i + 1]
          /\ strokes' = [strokes EXCEPT !.rects = @ \o
                (IF Drawing!Point(sweep.i) = <<>> THEN <<>>
                 ELSE Drawing!drawBar(Drawing!Point(sweep.i), Drawing!BarLeft))]
      BY <2>1, <2>5 DEF Drawing!plotBars
    <3>2. PICK i \in Nat, s \in Seq(Rects) : i = sweep.i /\ s = strokes.rects /\ BarsOfFirst(s, i) /\ i + 1 \in 1..N
      BY <2>1, <2>2, <3>1
    <3>3. PICK p : p = figure.points[i + 1] /\ p = Drawing!Point(i)
      <4>1. i \in 0..(N - 1)
        BY <3>2
      <4>2. N = Len(figure.points)
        BY <2>1
      <4>3. Drawing!Point(i) = IF i \in 0..(Len(figure.points) - 1) THEN figure.points[i + 1] ELSE <<>>
        BY DEF Drawing!Point
      <4>4. Drawing!Point(i) = figure.points[i + 1]
        BY <4>1, <4>2, <4>3
      <4> QED BY <4>4
    <3>4. PICK R : R = s \o (IF p = <<>> THEN <<>> ELSE Drawing!drawBar(p, Drawing!BarLeft))
      OBVIOUS
    <3>5. strokes'.rects = R /\ sweep'.i = i + 1
      BY <2>0, <3>1, <3>2, <3>3, <3>4
    <3>6. R \in Seq(Rects) /\ BarsOfFirst(R, i + 1)
      BY <2>0, <2>1, <3>2, <3>3, <3>4, FigureIs, BarsGrow
    <3>7. PICK m \in Nat : m = i + 1 /\ m \in 0..N
      BY <2>1, <3>2
    <3>8. BarsOfFirst(R, m)'
      BY <2>0, <3>1, <3>6, <3>7, SameBars
    <3> QED BY <2>0, <2>1, <3>1, <3>5, <3>6, <3>7, <3>8 DEF BarsInv
  <2>6. CASE Drawing!BarsDone
    <3>1. /\ phase = "bars" /\ phase' = "drawn" /\ UNCHANGED <<view, strokes>> /\ sweep.i >= N
      BY <2>1, <2>6 DEF Drawing!BarsDone
    <3>2. PICK R : R = strokes.rects /\ R \in Seq(Rects) /\ BarsOfFirst(R, N)
      <4>1. sweep.i = N
        BY <2>1, <2>2, <3>1
      <4> QED BY <2>2, <3>1, <4>1
    <3>3. BarsOfFirst(R, N)'
      BY <2>0, <3>1, <3>2, SameBars
    <3> QED BY <2>0, <2>1, <3>1, <3>2, <3>3 DEF BarsInv
  <2>7. CASE Drawing!render
    <3>1. phase' = "idle" /\ strokes' = strokes
      BY <2>7 DEF Drawing!render
    <3> QED BY <2>2, <3>1 DEF BarsInv
  <2>8. CASE Drawing!Turn \/ Drawing!Fill \/ Drawing!Sketch \/ Drawing!AreaDone \/ Drawing!plotLine \/ Drawing!LineDone
    BY <2>2, <2>8 DEF Drawing!Turn, Drawing!Fill, Drawing!Sketch, Drawing!AreaDone, Drawing!plotLine,
                      Drawing!LineDone, Drawing!Sweeping
  <2> QED
    BY <2>0, <2>3, <2>4, <2>5, <2>6, <2>7, <2>8 DEF Drawing!Next
<1> QED
  BY <1>1, <1>2, <1>3 DEF SideNext

\* Of a finished chart of bars, each bar is painted where it is inside the plot (drawBar).
BarsShown == side = "drawing" /\ phase = "drawn" /\ figure.kind # "lines" => Drawing!ShowsTheBars

LEMMA BarsTell == GridInv /\ BarsInv => BarsShown
<1> SUFFICES ASSUME GridInv, BarsInv, side = "drawing", phase = "drawn", figure.kind # "lines"
             PROVE  Drawing!ShowsTheBars
  BY DEF BarsShown
<1>1. figure \in Figures /\ view \in figure.views
  BY DEF GridInv
<1>2. PICK P \in Seq({<<>>} \cup (Int \X Int)), N \in Nat : P = figure.points /\ N = Len(P) /\ DOMAIN P = 1..N
  BY <1>1, FigureIs
<1>3. \A i \in 1..N : P[i] = <<>> \/ P[i] \in Int \X Int
  BY <1>2
<1>4. PICK R \in Seq(Rects), M \in Nat : R = strokes.rects /\ M = Len(R) /\ DOMAIN R = 1..M
  BY DEF BarsInv
<1>5. /\ \A k \in 1..M : \E i \in 1..N : P[i] # <<>> /\ ShowsBar(R[k], P[i])
      /\ \A i \in 1..N : P[i] # <<>> => HidesBar(P[i]) \/ \E k \in 1..M : ShowsBar(R[k], P[i])
  BY <1>2, <1>4 DEF BarsInv, BarsOfFirst
<1>6. PICK l \in Int, u \in Int, d \in Int, t \in Int :
         l = view.x.min /\ u = view.x.max /\ d = view.y.min /\ t = view.y.max
  BY <1>1, FigureIs DEF Drawing!Ranges
<1>7. PICK w \in Nat, b \in Int : w = DrawnBarWidth /\ b = Drawing!BarLeft
  <2>1. PICK w \in Nat : w = DrawnBarWidth
    BY DrawingAssumption DEF Drawing!CanBeDrawn
  <2>2. Drawing!BarLeft = IF figure.bare THEN -(w \div 2) ELSE 0
    BY <2>1 DEF Drawing!BarLeft
  <2> QED BY <2>1, <2>2
<1> DEFINE InPlot == (l..u) \X (d..t)
           OfPoint(p) == {c \in ((p[1] + b)..(p[1] + b + w)) \X (Drawing!Min({p[2], 0})..Drawing!Max({p[2], 0})) :
                            InView(c)}
           Seen  == {c \in InPlot : \E k \in 1..M : InRect(c, R[k])}
           Points == {j \in 1..N : P[j] # <<>>}
<1>8. \A c : c \in InPlot <=> c \in Int \X Int /\ InView(c)
  BY <1>6 DEF InView, Drawing!Inside
<1>9. ASSUME NEW p \in Int \X Int, NEW c
      PROVE  c \in OfPoint(p) <=> c \in Int \X Int /\ InView(c) /\ OfBar(c, p)
  <2>1. PICK x \in Int, y \in Int : x = p[1] /\ y = p[2]
    OBVIOUS
  <2>2. PICK low \in Int, top \in Int :
          /\ low = Drawing!Min({y, 0}) /\ low = (IF y < 0 THEN y ELSE 0)
          /\ top = Drawing!Max({y, 0}) /\ top = (IF y > 0 THEN y ELSE 0)
    <3>1. Drawing!Min({y, 0}) = Min({y, 0}) /\ Drawing!Max({y, 0}) = Max({y, 0})
      BY DEF Drawing!Min, Min, Drawing!Max, Max
    <3> QED BY <3>1, MinOfTwo, MaxOfTwo
  <2>3. c \in OfPoint(p) <=> c \in ((x + b)..(x + b + w)) \X (low..top) /\ InView(c)
    BY <2>1, <2>2
  <2>4. OfBar(c, p) <=> x + b <= c[1] /\ c[1] <= x + b + w /\ low <= c[2] /\ c[2] <= top
    BY <1>7, <2>1, <2>2 DEF OfBar
  <2>5. c \in ((x + b)..(x + b + w)) \X (low..top) <=>
        c \in Int \X Int /\ x + b <= c[1] /\ c[1] <= x + b + w /\ low <= c[2] /\ c[2] <= top
    BY <1>7, <2>1, <2>2
  <2> HIDE DEF OfPoint
  <2> QED BY <2>3, <2>4, <2>5
<1> HIDE DEF InPlot, OfPoint
<1>10. ASSUME NEW c
       PROVE  (c \in InPlot /\ \E k \in 1..M : InRect(c, R[k])) <=> \E i \in Points : c \in OfPoint(P[i])
  <2>1. ASSUME c \in InPlot, NEW k \in 1..M, InRect(c, R[k]) PROVE \E i \in Points : c \in OfPoint(P[i])
    <3>1. PICK i \in 1..N : P[i] # <<>> /\ ShowsBar(R[k], P[i])
      BY <1>5
    <3>2. c \in Int \X Int /\ InView(c) /\ OfBar(c, P[i])
      BY <1>8, <2>1, <3>1 DEF ShowsBar
    <3> QED BY <1>3, <1>9, <3>1, <3>2
  <2>2. ASSUME NEW i \in Points, c \in OfPoint(P[i]) PROVE c \in InPlot /\ \E k \in 1..M : InRect(c, R[k])
    <3>1. P[i] \in Int \X Int
      BY <1>3
    <3>2. c \in Int \X Int /\ InView(c) /\ OfBar(c, P[i])
      BY <1>9, <2>2, <3>1
    <3>3. ~HidesBar(P[i])
      BY <3>2 DEF HidesBar
    <3>4. PICK k \in 1..M : ShowsBar(R[k], P[i])
      BY <1>5, <3>3
    <3> QED BY <1>8, <3>2, <3>4 DEF ShowsBar
  <2> QED BY <2>1, <2>2
<1>11. /\ DOMAIN Drawing!Bars = Points
       /\ \A i \in Points : Drawing!Bars[i] = OfPoint(P[i])
  BY <1>2, <1>7 DEF Drawing!Bars, OfPoint, InView
<1>12. Seen = UNION {Drawing!Bars[i] : i \in DOMAIN Drawing!Bars}
  <2> HIDE DEF Points
  <2>1. \A c : c \in Seen <=> c \in InPlot /\ \E k \in 1..M : InRect(c, R[k])
    OBVIOUS
  <2>2. \A c : c \in UNION {Drawing!Bars[i] : i \in DOMAIN Drawing!Bars} <=> \E i \in Points : c \in OfPoint(P[i])
    BY <1>11
  <2> QED BY <1>10, <2>1, <2>2
<1>13. {c \in (view.x.min..view.x.max) \X (view.y.min..view.y.max) :
            \E i \in DOMAIN strokes.rects : /\ c[1] >= strokes.rects[i].left
                                            /\ c[1] <= strokes.rects[i].right
                                            /\ c[2] >= strokes.rects[i].bottom
                                            /\ c[2] <= strokes.rects[i].top}
       = UNION {Drawing!Bars[i] : i \in DOMAIN Drawing!Bars}
  BY <1>4, <1>6, <1>12 DEF InRect, InPlot
<1>14. \A i \in DOMAIN strokes.rects :
            {"left", "right"} \subseteq strokes.rects[i].edges
            => strokes.rects[i].right - strokes.rects[i].left = DrawnBarWidth
  BY <1>4, <1>5 DEF ShowsBar
<1>15. \A i \in DOMAIN strokes.rects : strokes.rects[i].edges # {} => ~figure.bare
  BY <1>4, <1>5 DEF ShowsBar
<1> QED BY <1>13, <1>14, <1>15 DEF Drawing!ShowsTheBars

\* Every finished chart of bars shows its bars and nothing else, as far as they lie in the plot,
\* whatever the points, the view and the width of the bars (plotBars, drawBar).
THEOREM BarsAreShown == SideSpec => []BarsShown
<1>1. SideInit => GridInv /\ BarsInv
  BY GridInvInit, BarsInvInit
<1>2. GridInv /\ BarsInv /\ [SideNext]_sideVars => (GridInv /\ BarsInv)'
  BY GridInvNext, BarsInvNext
<1>3. GridInv /\ BarsInv => BarsShown
  BY BarsTell
<1> QED
  BY <1>1, <1>2, <1>3, PTL DEF SideSpec

-----------------------------------------------------------------------------
(* Lines and areas: cutting a segment leaves what is between its ends.     *)

Plane == Int \X Int

\* x is between a and b, in whichever order they are.
Amid(x, a, b) == (a <= x /\ x <= b) \/ (b <= x /\ x <= a)

LEMMA PartOfLoss ==
    ASSUME NEW a \in Nat, NEW d \in Nat \ {0}, a <= d, NEW e \in Int, e <= 0
    PROVE  (a * e) \div d \in Int /\ e <= (a * e) \div d /\ (a * e) \div d <= 0
<1>1. PICK p \in Int : p = a * e
  OBVIOUS
<1>2. PICK q \in Int : q = p \div d
  BY <1>1
<1>3. p <= 0 /\ d * e <= p
  <2>1. PICK l \in Nat, s \in Nat : d = a + l /\ e = -s
    <3>1. d - a \in Nat /\ d = a + (d - a) /\ -e \in Nat /\ e = -(-e)
      OBVIOUS
    <3> QED BY <3>1
  <2>2. d * e = p + l * e
    BY <1>1, <2>1
  <2>3. a * s \in Nat /\ l * s \in Nat
    OBVIOUS
  <2>4. p = -(a * s) /\ l * e = -(l * s)
    BY <1>1, <2>1
  <2> QED BY <2>2, <2>3, <2>4
<1>4. d * q <= p /\ p < d * q + d
  BY <1>1, <1>2
<1>5. q <= 0
  <2>1. CASE q > 0
    <3>1. d * q >= d /\ d > 0
      BY <1>2, <2>1
    <3> QED BY <1>1, <1>2, <1>3, <1>4, <3>1
  <2> QED BY <1>2, <2>1
<1>6. e <= q
  <2>1. CASE q < e
    <3>1. q + 1 <= e
      BY <1>2, <2>1
    <3>2. d * q + d = d * (q + 1)
      BY <1>2
    <3>3. d * (q + 1) <= d * e
      <4>1. PICK k \in Nat : e = q + 1 + k
        <5>1. e - (q + 1) \in Nat /\ e = q + 1 + (e - (q + 1))
          BY <1>2, <3>1
        <5> QED BY <5>1
      <4>2. d * e = d * (q + 1) + d * k /\ d * k >= 0
        BY <1>2, <4>1
      <4>3. d * (q + 1) \in Int /\ d * k \in Int
        BY <1>2
      <4> QED BY <4>2, <4>3
    <3>4. d * q \in Int /\ d * (q + 1) \in Int /\ d * e \in Int
      BY <1>2
    <3> QED BY <1>1, <1>3, <1>4, <3>2, <3>3, <3>4
  <2> QED BY <1>2, <2>1
<1> QED BY <1>1, <1>2, <1>5, <1>6

\* A part of the way from one value to another ends between them.
LEMMA PartOfWay ==
    ASSUME NEW a \in Nat, NEW d \in Nat \ {0}, a <= d, NEW e \in Int
    PROVE  (a * e) \div d \in Int /\ Amid((a * e) \div d, 0, e)
<1>1. CASE e >= 0
  <2>1. (a * e) \div d \in 0..e
    BY <1>1, PartOfWhole
  <2> QED BY <2>1 DEF Amid
<1>2. CASE e <= 0
  BY <1>2, PartOfLoss DEF Amid
<1> QED BY <1>1, <1>2

\* The line through p and q has v somewhere between them.
LEMMA CrossIsAmid ==
    ASSUME NEW p \in Plane, NEW q \in Plane, NEW k \in {1, 2}, NEW v \in Int,
           (p[k] < v /\ v <= q[k]) \/ (q[k] <= v /\ v < p[k])
           \/ (p[k] <= v /\ v < q[k]) \/ (q[k] < v /\ v <= p[k])
    PROVE  LET c == Drawing!Cross(p, q, k, v)
           IN  c \in Plane /\ c[k] = v /\ Amid(c[3 - k], p[3 - k], q[3 - k])
<1>1. PICK x \in Int, y \in Int, f \in Int, g \in Int :
         x = p[k] /\ y = q[k] /\ f = p[3 - k] /\ g = q[3 - k]
  BY DEF Plane
<1>2. PICK n \in Int : n = (v - x) * (g - f)
  OBVIOUS
<1>3. PICK u \in Int : u = Drawing!Quotient(n, y - x) /\ Amid(u, 0, g - f)
  <2>1. CASE x < y
    <3>1. PICK a \in Nat, d \in Nat \ {0} : a = v - x /\ d = y - x /\ a <= d
      <4>1. v - x \in Nat /\ y - x \in Nat \ {0} /\ v - x <= y - x
        BY <1>1, <2>1
      <4> QED BY <4>1
    <3>2. PICK e \in Int : e = g - f
      OBVIOUS
    <3>3. (a * e) \div d \in Int /\ Amid((a * e) \div d, 0, e)
      BY <3>1, PartOfWay
    <3>4. n = a * e
      BY <1>2, <3>1, <3>2
    <3>5. Drawing!Quotient(n, d) = n \div d
      BY <3>1 DEF Drawing!Quotient
    <3> QED BY <3>1, <3>2, <3>3, <3>4, <3>5
  <2>2. CASE y < x
    <3>1. PICK a \in Nat, d \in Nat \ {0} : a = x - v /\ d = x - y /\ a <= d
      <4>1. x - v \in Nat /\ x - y \in Nat \ {0} /\ x - v <= x - y
        BY <1>1, <2>2
      <4> QED BY <4>1
    <3>2. PICK e \in Int : e = g - f
      OBVIOUS
    <3>3. (a * e) \div d \in Int /\ Amid((a * e) \div d, 0, e)
      BY <3>1, PartOfWay
    <3>4. -n = a * e
      <4>1. v - x = -a
        BY <3>1
      <4>2. n = (-a) * e
        BY <1>2, <3>2, <4>1
      <4>3. (-a) * e = -(a * e) /\ a * e \in Int
        OBVIOUS
      <4> QED BY <4>2, <4>3
    <3>5. y - x < 0 /\ -(y - x) = d
      BY <2>2, <3>1
    <3>6. Drawing!Quotient(n, y - x) = (-n) \div d
      BY <3>5 DEF Drawing!Quotient
    <3> QED BY <3>2, <3>3, <3>4, <3>6
  <2> QED BY <1>1, <2>1, <2>2
<1>4. Drawing!Cross(p, q, k, v) = IF k = 1 THEN <<v, f + u>> ELSE <<f + u, v>>
  BY <1>1, <1>2, <1>3 DEF Drawing!Cross
<1>5. f + u \in Int /\ Amid(f + u, f, g)
  BY <1>3 DEF Amid
<1>6. CASE k = 1
  BY <1>1, <1>4, <1>5, <1>6 DEF Plane
<1>7. CASE k = 2
  BY <1>1, <1>4, <1>5, <1>7 DEF Plane
<1> QED BY <1>6, <1>7

PastEdge(r, k, v, below) == IF below THEN r[k] < v ELSE r[k] > v

\* What is cut off is beyond v; what is left is not, and it is between the ends.
LeftOf(a, b, p, q, k, v, below) ==
    /\ ~PastEdge(a, k, v, below) /\ ~PastEdge(b, k, v, below)
    /\ (a = p \/ a[k] = v) /\ (b = q \/ b[k] = v)
    /\ Amid(a[k], p[k], q[k]) /\ Amid(b[k], p[k], q[k])
    /\ Amid(a[3 - k], p[3 - k], q[3 - k]) /\ Amid(b[3 - k], p[3 - k], q[3 - k])

CutTo(s, p, q, k, v, below) ==
    \/ s = <<>> /\ PastEdge(p, k, v, below) /\ PastEdge(q, k, v, below)
    \/ \E a, b \in Plane : s = <<a, b>> /\ LeftOf(a, b, p, q, k, v, below)

LEMMA CutIs ==
    ASSUME NEW p \in Plane, NEW q \in Plane, NEW k \in {1, 2}, NEW v \in Int, NEW below \in BOOLEAN
    PROVE  CutTo(Drawing!Cut(<<p, q>>, k, v, below), p, q, k, v, below)
<1> DEFINE s == Drawing!Cut(<<p, q>>, k, v, below)
           Out(r) == PastEdge(r, k, v, below)
           c == Drawing!Cross(p, q, k, v)
<1>1. s = CASE Out(p) /\ Out(q)   -> <<>>
            [] Out(p) /\ ~Out(q)  -> <<c, q>>
            [] ~Out(p) /\ Out(q)  -> <<p, c>>
            [] OTHER              -> <<p, q>>
  BY DEF Drawing!Cut, PastEdge
<1>2. PICK x \in Int, y \in Int, f \in Int, g \in Int :
         x = p[k] /\ y = q[k] /\ f = p[3 - k] /\ g = q[3 - k]
  BY DEF Plane
<1>3. Amid(f, f, g) /\ Amid(g, f, g) /\ Amid(x, x, y) /\ Amid(y, x, y)
  BY DEF Amid
<1> HIDE DEF s, c
<1>4. CASE Out(p) /\ Out(q)
  BY <1>1, <1>4 DEF s, CutTo
<1>5. CASE Out(p) /\ ~Out(q)
  <2>1. (x < v /\ v <= y) \/ (y <= v /\ v < x)
    BY <1>2, <1>5 DEF PastEdge
  <2>2. c \in Plane /\ c[k] = v /\ Amid(c[3 - k], f, g)
    BY <1>2, <2>1, CrossIsAmid DEF c
  <2>3. ~Out(c) /\ Amid(c[k], x, y)
    BY <2>1, <2>2 DEF PastEdge, Amid
  <2>4. s = <<c, q>>
    BY <1>1, <1>5
  <2>5. LeftOf(c, q, p, q, k, v, below)
    BY <1>2, <1>3, <1>5, <2>2, <2>3 DEF LeftOf
  <2> QED BY <2>2, <2>4, <2>5 DEF s, CutTo
<1>6. CASE ~Out(p) /\ Out(q)
  <2>1. (x <= v /\ v < y) \/ (y < v /\ v <= x)
    BY <1>2, <1>6 DEF PastEdge
  <2>2. c \in Plane /\ c[k] = v /\ Amid(c[3 - k], f, g)
    BY <1>2, <2>1, CrossIsAmid DEF c
  <2>3. ~Out(c) /\ Amid(c[k], x, y)
    BY <2>1, <2>2 DEF PastEdge, Amid
  <2>4. s = <<p, c>>
    BY <1>1, <1>6
  <2>5. LeftOf(p, c, p, q, k, v, below)
    BY <1>2, <1>3, <1>6, <2>2, <2>3 DEF LeftOf
  <2> QED BY <2>2, <2>4, <2>5 DEF s, CutTo
<1>7. CASE ~Out(p) /\ ~Out(q)
  <2>1. s = <<p, q>>
    BY <1>1, <1>7
  <2>2. LeftOf(p, q, p, q, k, v, below)
    BY <1>2, <1>3, <1>7 DEF LeftOf
  <2> QED BY <2>1, <2>2 DEF s, CutTo
<1> QED BY <1>4, <1>5, <1>6, <1>7

\* x is from lo to hi.
Range2(x, lo, hi) == lo <= x /\ x <= hi

\* A segment that is cut on both sides of a range is in it and a part of what it was; it is not cut
\* away unless both of its ends are on the same side.
ClippedTo(s, p, q, k, lo, hi) ==
    \/ s = <<>> /\ ((p[k] < lo /\ q[k] < lo) \/ (p[k] > hi /\ q[k] > hi))
    \/ \E a, b \in Plane :
          /\ s = <<a, b>> /\ Range2(a[k], lo, hi) /\ Range2(b[k], lo, hi)
          /\ Amid(a[k], p[k], q[k]) /\ Amid(b[k], p[k], q[k])
          /\ Amid(a[3 - k], p[3 - k], q[3 - k]) /\ Amid(b[3 - k], p[3 - k], q[3 - k])

LEMMA AmidAmid ==
    ASSUME NEW x \in Int, NEW a \in Int, NEW b \in Int, NEW p \in Int, NEW q \in Int,
           Amid(x, a, b), Amid(a, p, q), Amid(b, p, q)
    PROVE  Amid(x, p, q)
  BY DEF Amid

LEMMA CutTwice ==
    ASSUME NEW p \in Plane, NEW q \in Plane, NEW k \in {1, 2}, NEW lo \in Int, NEW hi \in Int, lo < hi,
           NEW a \in Plane, NEW b \in Plane, LeftOf(a, b, p, q, k, lo, TRUE),
           NEW s, CutTo(s, a, b, k, hi, FALSE)
    PROVE  ClippedTo(s, p, q, k, lo, hi)
<1>0. PICK x \in Int, y \in Int, f \in Int, g \in Int, ax \in Int, bx \in Int, af \in Int, bf \in Int :
         /\ x = p[k] /\ y = q[k] /\ f = p[3 - k] /\ g = q[3 - k]
         /\ ax = a[k] /\ bx = b[k] /\ af = a[3 - k] /\ bf = b[3 - k]
  <2>1. /\ p[k] \in Int /\ q[k] \in Int /\ p[3 - k] \in Int /\ q[3 - k] \in Int
        /\ a[k] \in Int /\ b[k] \in Int /\ a[3 - k] \in Int /\ b[3 - k] \in Int
    BY DEF Plane
  <2> QED BY <2>1
<1>1. /\ lo <= ax /\ lo <= bx /\ (a = p \/ ax = lo) /\ (b = q \/ bx = lo)
      /\ Amid(ax, x, y) /\ Amid(bx, x, y) /\ Amid(af, f, g) /\ Amid(bf, f, g)
  BY <1>0 DEF LeftOf, PastEdge
<1>2. CASE s = <<>> /\ PastEdge(a, k, hi, FALSE) /\ PastEdge(b, k, hi, FALSE)
  <2>1. ax > hi /\ bx > hi
    BY <1>0, <1>2 DEF PastEdge
  <2>2. a = p /\ b = q
    BY <1>1, <2>1
  <2> QED BY <1>0, <1>2, <2>1, <2>2 DEF ClippedTo
<1>3. ASSUME NEW c \in Plane, NEW d \in Plane, s = <<c, d>>, LeftOf(c, d, a, b, k, hi, FALSE)
      PROVE  ClippedTo(s, p, q, k, lo, hi)
  <2>1. PICK cx \in Int, dx \in Int, cf \in Int, df \in Int :
          cx = c[k] /\ dx = d[k] /\ cf = c[3 - k] /\ df = d[3 - k]
    BY DEF Plane
  <2>2. /\ cx <= hi /\ dx <= hi /\ (c = a \/ cx = hi) /\ (d = b \/ dx = hi)
        /\ Amid(cx, ax, bx) /\ Amid(dx, ax, bx) /\ Amid(cf, af, bf) /\ Amid(df, af, bf)
    BY <1>0, <1>3, <2>1 DEF LeftOf, PastEdge
  <2>3. lo <= cx /\ lo <= dx
    BY <1>0, <1>1, <2>1, <2>2
  <2>4. Amid(cx, x, y) /\ Amid(dx, x, y) /\ Amid(cf, f, g) /\ Amid(df, f, g)
    BY <1>1, <2>2, AmidAmid
  <2>5. /\ Range2(c[k], lo, hi) /\ Range2(d[k], lo, hi)
        /\ Amid(c[k], p[k], q[k]) /\ Amid(d[k], p[k], q[k])
        /\ Amid(c[3 - k], p[3 - k], q[3 - k]) /\ Amid(d[3 - k], p[3 - k], q[3 - k])
    BY <1>0, <2>1, <2>2, <2>3, <2>4 DEF Range2
  <2> QED BY <1>3, <2>5 DEF ClippedTo
<1> QED BY <1>2, <1>3 DEF CutTo

LEMMA ClippedIs ==
    ASSUME NEW p \in Plane, NEW q \in Plane, NEW k \in {1, 2}, NEW lo \in Int, NEW hi \in Int, lo < hi
    PROVE  ClippedTo(Drawing!Cut(Drawing!Cut(<<p, q>>, k, lo, TRUE), k, hi, FALSE), p, q, k, lo, hi)
<1>1. PICK s : s = Drawing!Cut(<<p, q>>, k, lo, TRUE)
  OBVIOUS
<1>2. CutTo(s, p, q, k, lo, TRUE)
  BY <1>1, CutIs
<1>3. CASE s = <<>> /\ PastEdge(p, k, lo, TRUE) /\ PastEdge(q, k, lo, TRUE)
  <2>1. Drawing!Cut(<<>>, k, hi, FALSE) = <<>>
    BY DEF Drawing!Cut
  <2> QED BY <1>1, <1>3, <2>1 DEF PastEdge, ClippedTo
<1>4. ASSUME NEW a \in Plane, NEW b \in Plane, s = <<a, b>>, LeftOf(a, b, p, q, k, lo, TRUE)
      PROVE  ClippedTo(Drawing!Cut(s, k, hi, FALSE), p, q, k, lo, hi)
  <2>1. PICK t : t = Drawing!Cut(<<a, b>>, k, hi, FALSE)
    OBVIOUS
  <2>2. CutTo(t, a, b, k, hi, FALSE)
    BY <2>1, CutIs
  <2>3. ClippedTo(t, p, q, k, lo, hi)
    BY <1>4, <2>2, CutTwice
  <2> QED BY <1>4, <2>1, <2>3
<1> QED BY <1>1, <1>2, <1>3, <1>4 DEF CutTo

\* The points of the plot.
Plot == (view.x.min..view.x.max) \X (view.y.min..view.y.max)

LEMMA PlotIs ==
    ASSUME figure \in Figures, view \in figure.views
    PROVE  \E l, u, d, t \in Int :
              /\ l = view.x.min /\ u = view.x.max /\ d = view.y.min /\ t = view.y.max /\ l < u /\ d < t
              /\ \A p \in Plane : Range2(p[1], l, u) /\ Range2(p[2], d, t) => p \in Plot
<1>1. PICK l \in Int, u \in Int, d \in Int, t \in Int :
         l = view.x.min /\ u = view.x.max /\ d = view.y.min /\ t = view.y.max /\ l < u /\ d < t
  BY FigureIs DEF Drawing!Ranges
<1>2. \A p \in Plane : Range2(p[1], l, u) /\ Range2(p[2], d, t) => p \in Plot
  BY <1>1 DEF Range2, Plane, Plot
<1> QED BY <1>1, <1>2

LEMMA AmidIn ==
    ASSUME NEW x \in Int, NEW a \in Int, NEW b \in Int, NEW l \in Int, NEW u \in Int,
           Amid(x, a, b), Range2(a, l, u), Range2(b, l, u)
    PROVE  Range2(x, l, u)
  BY DEF Amid, Range2

LEMMA TwoLong == ASSUME NEW S, NEW a \in S, NEW b \in S PROVE <<a, b>> \in Seq(S)
  OBVIOUS

\* A piece of the outline of what is between the sides of the plot is in the plot.
LEMMA OutlineIsInPlot ==
    ASSUME figure \in Figures, view \in figure.views, NEW p \in Plane, NEW q \in Plane,
           Range2(p[1], view.x.min, view.x.max), Range2(q[1], view.x.min, view.x.max)
    PROVE  Drawing!Outline(<<p, q>>) \in Seq(Plot)
<1>1. PICK l \in Int, u \in Int, d \in Int, t \in Int :
         /\ l = view.x.min /\ u = view.x.max /\ d = view.y.min /\ t = view.y.max /\ l < u /\ d < t
         /\ \A r \in Plane : Range2(r[1], l, u) /\ Range2(r[2], d, t) => r \in Plot
  BY PlotIs
<1>2. PICK px \in Int, qx \in Int, py \in Int, qy \in Int :
         px = p[1] /\ qx = q[1] /\ py = p[2] /\ qy = q[2] /\ Range2(px, l, u) /\ Range2(qx, l, u)
  BY <1>1 DEF Plane
<1>3. \A x, y \in Int : Range2(x, l, u) /\ Range2(y, d, t) => <<x, y>> \in Plot
  BY <1>1 DEF Plane
<1>4. Range2(d, d, t) /\ Range2(t, d, t)
  BY <1>1 DEF Range2
<1> DEFINE c == Drawing!CutY(<<p, q>>)
<1>5. Drawing!Outline(<<p, q>>) =
        CASE py >= t /\ qy >= t -> << <<px, t>>, <<qx, t>> >>
          [] py <= d /\ qy <= d -> << <<px, d>>, <<qx, d>> >>
          [] OTHER ->
                (IF c[1][1] # px THEN << <<px, c[1][2]>> >> ELSE <<>>)
                \o c
                \o (IF c[2][1] # qx THEN << c[2], <<qx, c[2][2]>> >> ELSE <<>>)
  BY <1>1, <1>2 DEF Drawing!Outline
<1> HIDE DEF c
<1>6. CASE py >= t /\ qy >= t
  <2>1. <<px, t>> \in Plot /\ <<qx, t>> \in Plot
    BY <1>2, <1>3, <1>4
  <2>2. ~(py <= d /\ qy <= d)
    BY <1>1, <1>6
  <2>3. Drawing!Outline(<<p, q>>) = << <<px, t>>, <<qx, t>> >>
    BY <1>5, <1>6, <2>2
  <2> QED BY <2>1, <2>3, TwoLong
<1>7. CASE py <= d /\ qy <= d
  <2>1. <<px, d>> \in Plot /\ <<qx, d>> \in Plot
    BY <1>2, <1>3, <1>4
  <2>2. ~(py >= t /\ qy >= t)
    BY <1>1, <1>7
  <2>3. Drawing!Outline(<<p, q>>) = << <<px, d>>, <<qx, d>> >>
    BY <1>5, <1>7, <2>2
  <2> QED BY <2>1, <2>3, TwoLong
<1>8. CASE ~(py >= t /\ qy >= t) /\ ~(py <= d /\ qy <= d)
  <2>1. c = Drawing!Cut(Drawing!Cut(<<p, q>>, 2, d, TRUE), 2, t, FALSE)
    BY <1>1 DEF Drawing!CutY, c
  <2>2. ClippedTo(c, p, q, 2, d, t)
    <3>1. \A e, f : e = 2 /\ f = Drawing!Cut(Drawing!Cut(<<p, q>>, e, d, TRUE), e, t, FALSE)
             => ClippedTo(f, p, q, e, d, t)
      BY <1>1, ClippedIs
    <3> QED BY <2>1, <3>1
  <2>3. ~((py < d /\ qy < d) \/ (py > t /\ qy > t))
    BY <1>1, <1>2, <1>8
  <2>4. 3 - 2 = 1
    OBVIOUS
  <2>5. PICK a \in Plane, b \in Plane :
          /\ c = <<a, b>> /\ Range2(a[2], d, t) /\ Range2(b[2], d, t)
          /\ Amid(a[1], px, qx) /\ Amid(b[1], px, qx)
    BY <1>2, <2>2, <2>3, <2>4 DEF ClippedTo
  <2>6. PICK ax \in Int, bx \in Int, ay \in Int, by \in Int :
          /\ ax = a[1] /\ bx = b[1] /\ ay = a[2] /\ by = b[2]
          /\ Range2(ax, l, u) /\ Range2(bx, l, u) /\ Range2(ay, d, t) /\ Range2(by, d, t)
    <3>1. a[1] \in Int /\ b[1] \in Int /\ a[2] \in Int /\ b[2] \in Int
      BY DEF Plane
    <3>2. Range2(a[1], l, u) /\ Range2(b[1], l, u)
      BY <1>1, <1>2, <2>5, <3>1, AmidIn
    <3> QED BY <2>5, <3>1, <3>2
  <2>7. a \in Plot /\ b \in Plot /\ <<px, ay>> \in Plot /\ <<qx, by>> \in Plot
    BY <1>1, <1>2, <1>3, <2>6
  <2> DEFINE start == IF ax # px THEN << <<px, ay>> >> ELSE <<>>
             end   == IF bx # qx THEN << b, <<qx, by>> >> ELSE <<>>
  <2>8. start \in Seq(Plot) /\ end \in Seq(Plot) /\ <<a, b>> \in Seq(Plot)
    <3>1. << <<px, ay>> >> \in Seq(Plot)
      BY <2>7, OneLong
    <3>2. << b, <<qx, by>> >> \in Seq(Plot) /\ <<a, b>> \in Seq(Plot)
      BY <2>7, TwoLong
    <3>3. <<>> \in Seq(Plot)
      OBVIOUS
    <3> QED BY <3>1, <3>2, <3>3
  <2>9. Drawing!Outline(<<p, q>>) = start \o <<a, b>> \o end
    BY <1>5, <1>8, <2>5, <2>6
  <2> HIDE DEF start, end
  <2>10. start \o <<a, b>> \in Seq(Plot)
    BY <2>8, ConcatProperties
  <2> QED BY <2>8, <2>9, <2>10, ConcatProperties
<1> QED BY <1>6, <1>7, <1>8

\* A point between p and q, along both axes.
Between(c, p, q) == Amid(c[1], p[1], q[1]) /\ Amid(c[2], p[2], q[2])

\* Of the line what is left after both cuts is in the plot, and a part of what it was.
LEMMA PieceIsInPlot ==
    ASSUME figure \in Figures, view \in figure.views, NEW p \in Plane, NEW q \in Plane,
           NEW s, s = Drawing!CutX(Drawing!CutY(<<p, q>>))
    PROVE  s = <<>> \/ \E a, b \in Plot : s = <<a, b>> /\ Between(a, p, q) /\ Between(b, p, q)
<1>1. PICK l \in Int, u \in Int, d \in Int, t \in Int :
         /\ l = view.x.min /\ u = view.x.max /\ d = view.y.min /\ t = view.y.max /\ l < u /\ d < t
         /\ \A r \in Plane : Range2(r[1], l, u) /\ Range2(r[2], d, t) => r \in Plot
  BY PlotIs
<1>2. PICK c : c = Drawing!CutY(<<p, q>>)
  OBVIOUS
<1>3. PICK k \in {1, 2}, m \in {1, 2} : k = 2 /\ m = 1 /\ 3 - k = 1 /\ 3 - m = 2
  OBVIOUS
<1>4. c = Drawing!Cut(Drawing!Cut(<<p, q>>, k, d, TRUE), k, t, FALSE)
  BY <1>1, <1>2, <1>3 DEF Drawing!CutY
<1>5. ClippedTo(c, p, q, k, d, t)
  BY <1>1, <1>4, ClippedIs
<1>6. CASE c = <<>>
  BY <1>2, <1>6 DEF Drawing!CutX, Drawing!Cut
<1>7. ASSUME NEW a \in Plane, NEW b \in Plane, c = <<a, b>>, Range2(a[2], d, t), Range2(b[2], d, t),
             Between(a, p, q), Between(b, p, q)
      PROVE  s = <<>> \/ \E e, f \in Plot : s = <<e, f>> /\ Between(e, p, q) /\ Between(f, p, q)
  <2>1. s = Drawing!Cut(Drawing!Cut(<<a, b>>, m, l, TRUE), m, u, FALSE)
    BY <1>1, <1>2, <1>3, <1>7 DEF Drawing!CutX
  <2>2. ClippedTo(s, a, b, m, l, u)
    <3>1. l < u
      BY <1>1
    <3>2. ClippedTo(Drawing!Cut(Drawing!Cut(<<a, b>>, m, l, TRUE), m, u, FALSE), a, b, m, l, u)
      BY <3>1, ClippedIs
    <3> QED BY <2>1, <3>2
  <2>3. ASSUME NEW e \in Plane, NEW f \in Plane, s = <<e, f>>, Range2(e[1], l, u), Range2(f[1], l, u),
               Between(e, a, b), Between(f, a, b)
        PROVE  e \in Plot /\ f \in Plot /\ Between(e, p, q) /\ Between(f, p, q)
    <3>1. /\ a[2] \in Int /\ b[2] \in Int /\ e[2] \in Int /\ f[2] \in Int
      BY DEF Plane
    <3>2. Range2(e[2], d, t) /\ Range2(f[2], d, t)
      BY <1>1, <1>7, <2>3, <3>1, AmidIn DEF Between
    <3>3. \A r \in Plane : Range2(r[1], l, u) /\ Range2(r[2], d, t) => r \in Plot
      BY <1>1
    <3> HIDE DEF Plot
    <3>4. e \in Plot /\ f \in Plot
      BY <2>3, <3>2, <3>3
    <3>5. \A z \in Plane : Between(z, a, b) => Between(z, p, q)
      <4> SUFFICES ASSUME NEW z \in Plane, Between(z, a, b) PROVE Between(z, p, q)
        OBVIOUS
      <4>1. \A r \in Plane : r[1] \in Int /\ r[2] \in Int
        BY DEF Plane
      <4>2. Amid(z[1], p[1], q[1])
        BY <1>7, <4>1, AmidAmid DEF Between
      <4>3. Amid(z[2], p[2], q[2])
        BY <1>7, <4>1, AmidAmid DEF Between
      <4> QED BY <4>2, <4>3 DEF Between
    <3> QED BY <2>3, <3>4, <3>5
  <2> QED BY <1>3, <2>2, <2>3 DEF ClippedTo, Between
<1> QED BY <1>3, <1>5, <1>6, <1>7 DEF ClippedTo, Between

\* What lies in the plot is not cut.
LEMMA InsideStaysWhole ==
    ASSUME figure \in Figures, view \in figure.views, NEW p \in Plot, NEW q \in Plot
    PROVE  p \in Plane /\ q \in Plane /\ Drawing!CutX(Drawing!CutY(<<p, q>>)) = <<p, q>>
<1>1. PICK l \in Int, u \in Int, d \in Int, t \in Int :
         l = view.x.min /\ u = view.x.max /\ d = view.y.min /\ t = view.y.max
  BY PlotIs
<1>2. \A r \in Plot : /\ r \in Plane /\ ~(r[1] < l) /\ ~(r[1] > u)
                       /\ ~(r[2] < d) /\ ~(r[2] > t)
  BY <1>1 DEF Plot, Plane
<1>3. PICK k \in {1, 2}, m \in {1, 2} : k = 2 /\ m = 1
  OBVIOUS
<1>4. \A e, v, below : ~PastEdge(p, e, v, below) /\ ~PastEdge(q, e, v, below)
                        => Drawing!Cut(<<p, q>>, e, v, below) = <<p, q>>
  BY DEF Drawing!Cut, PastEdge
<1>5. /\ ~PastEdge(p, k, d, TRUE) /\ ~PastEdge(q, k, d, TRUE)
      /\ ~PastEdge(p, k, t, FALSE) /\ ~PastEdge(q, k, t, FALSE)
      /\ ~PastEdge(p, m, l, TRUE) /\ ~PastEdge(q, m, l, TRUE)
      /\ ~PastEdge(p, m, u, FALSE) /\ ~PastEdge(q, m, u, FALSE)
  BY <1>2, <1>3 DEF PastEdge
<1>6. Drawing!CutY(<<p, q>>) = <<p, q>>
  <2>1. Drawing!CutY(<<p, q>>) = Drawing!Cut(Drawing!Cut(<<p, q>>, k, d, TRUE), k, t, FALSE)
    BY <1>1, <1>3 DEF Drawing!CutY
  <2> QED BY <1>4, <1>5, <2>1
<1>7. Drawing!CutX(<<p, q>>) = <<p, q>>
  <2>1. Drawing!CutX(<<p, q>>) = Drawing!Cut(Drawing!Cut(<<p, q>>, m, l, TRUE), m, u, FALSE)
    BY <1>1, <1>3 DEF Drawing!CutX
  <2> QED BY <1>4, <1>5, <2>1
<1> QED BY <1>2, <1>6, <1>7

LinesInv ==
    side = "drawing" /\ figure.kind = "lines" =>
        /\ phase \in {"made", "fitted", "area", "line", "drawn", "idle"}
        /\ phase \in {"made", "fitted", "drawn", "idle"} => path = <<>>
        /\ phase = "area" => path \in Seq(Plot)
        /\ strokes.lines \in Seq(Plot \cup {<<>>}) /\ strokes.fills \in Seq(Seq(Plot))

\* A point of the series.
LEMMA PointIsPlane ==
    ASSUME figure \in Figures, view \in figure.views, NEW i, Drawing!Point(i) # <<>>
    PROVE  Drawing!Point(i) \in Plane
<1>1. PICK P \in Seq({<<>>} \cup (Int \X Int)), N \in Nat : P = figure.points /\ N = Len(P) /\ DOMAIN P = 1..N
  BY FigureIs
<1>2. Drawing!Point(i) = IF i \in 0..(N - 1) THEN P[i + 1] ELSE <<>>
  BY <1>1 DEF Drawing!Point
<1>3. i \in 0..(N - 1) /\ Drawing!Point(i) = P[i + 1]
  BY <1>2
<1>4. i + 1 \in 1..N
  BY <1>3
<1>5. P[i + 1] \in {<<>>} \cup (Int \X Int)
  BY <1>1, <1>4
<1> QED BY <1>3, <1>5 DEF Plane

LEMMA HeightIsPlane ==
    ASSUME figure \in Figures, view \in figure.views, NEW i, Drawing!Point(i) # <<>>
    PROVE  Drawing!Height(i) \in Plane
<1>1. PICK x \in Int, y \in Int : Drawing!Point(i) = <<x, y>>
  BY PointIsPlane DEF Plane
<1>2. Drawing!Height(i) = <<x, y>> \/ Drawing!Height(i) = <<x, 0>>
  BY <1>1 DEF Drawing!Height
<1> QED BY <1>2 DEF Plane

\* The base line is in the plot.
LEMMA BottomIsInPlot ==
    ASSUME figure \in Figures, view \in figure.views
    PROVE  Drawing!bottom \in Int /\ Range2(Drawing!bottom, view.y.min, view.y.max)
<1>1. PICK d \in Int, t \in Int : d = view.y.min /\ t = view.y.max /\ d < t
  BY PlotIs
<1>2. \A S : Drawing!Min(S) = Min(S) /\ Drawing!Max(S) = Max(S)
  BY DEF Drawing!Min, Min, Drawing!Max, Max
<1>3. PICK m \in Int : m = Drawing!Max({0, d}) /\ m = (IF 0 >= d THEN 0 ELSE d)
  BY <1>2, MaxOfTwo
<1>4. PICK n \in Int : n = Drawing!Min({m, t}) /\ n = (IF m <= t THEN m ELSE t)
  BY <1>2, MinOfTwo
<1>5. Drawing!bottom = n
  BY <1>1, <1>3, <1>4 DEF Drawing!bottom, Drawing!Clamp
<1>6. d <= n /\ n <= t
  BY <1>1, <1>3, <1>4
<1> QED BY <1>1, <1>5, <1>6 DEF Range2

LEMMA LinesInvInit == SideInit => LinesInv
<1> SUFFICES ASSUME SideInit, side = "drawing" PROVE LinesInv
  BY DEF LinesInv
<1>1. Drawing!Init
  BY DEF SideInit, PointerInit
<1>2. phase = "made" /\ path = <<>> /\ strokes.lines = <<>> /\ strokes.fills = <<>>
  BY <1>1 DEF Drawing!Init, Drawing!Nothing
<1> QED BY <1>2 DEF LinesInv

\* A step of the sweep takes the outline along the next piece, in the plot.
LEMMA SketchStays ==
    ASSUME figure \in Figures, view \in figure.views, path \in Seq(Plot), Drawing!Sketch
    PROVE  path' \in Seq(Plot)
<1> DEFINE whole == Drawing!Point(sweep.i) # <<>> /\ Drawing!Point(Drawing!NextI) # <<>>
           seg   == IF whole THEN Drawing!CutX(<<Drawing!Height(sweep.i), Drawing!Height(Drawing!NextI)>>)
                    ELSE <<>>
<1>1. IF seg = <<>> THEN path' = path
      ELSE path' = (IF sweep.open THEN path ELSE << <<seg[1][1], Drawing!bottom>> >>) \o Drawing!Outline(seg)
  BY DEF Drawing!Sketch
<1>2. CASE seg = <<>>
  BY <1>1, <1>2
<1>3. CASE seg # <<>>
  <2>1. PICK p \in Plane, q \in Plane : seg = Drawing!CutX(<<p, q>>)
    <3>1. whole
      BY <1>3
    <3>2. Drawing!Height(sweep.i) \in Plane /\ Drawing!Height(Drawing!NextI) \in Plane
      BY <3>1, HeightIsPlane
    <3> QED BY <3>1, <3>2
  <2> HIDE DEF seg
  <2>2. PICK l \in Int, u \in Int : l = view.x.min /\ u = view.x.max /\ l < u
    BY PlotIs
  <2>3. PICK k \in {1, 2} : k = 1
    OBVIOUS
  <2>4. seg = Drawing!Cut(Drawing!Cut(<<p, q>>, k, l, TRUE), k, u, FALSE)
    BY <2>1, <2>2, <2>3 DEF Drawing!CutX
  <2>5. ClippedTo(seg, p, q, k, l, u)
    BY <2>2, <2>4, ClippedIs
  <2>6. PICK a \in Plane, b \in Plane : seg = <<a, b>> /\ Range2(a[1], l, u) /\ Range2(b[1], l, u)
    BY <1>3, <2>3, <2>5 DEF ClippedTo
  <2>7. PICK outline \in Seq(Plot) : outline = Drawing!Outline(seg)
    BY <2>2, <2>6, OutlineIsInPlot
  <2>8. <<a[1], Drawing!bottom>> \in Plot
    <3>1. a[1] \in Int
      BY DEF Plane
    <3>2. \A e \in Plane : Range2(e[1], l, u) /\ Range2(e[2], view.y.min, view.y.max) => e \in Plot
      BY <2>2, PlotIs
    <3>3. <<a[1], Drawing!bottom>> \in Plane
      BY <3>1, BottomIsInPlot DEF Plane
    <3> QED BY <2>6, <3>2, <3>3, BottomIsInPlot
  <2>9. << <<a[1], Drawing!bottom>> >> \in Seq(Plot)
    BY <2>8, OneLong
  <2>10. PICK start \in Seq(Plot) : path' = start \o outline
    BY <1>1, <1>3, <2>6, <2>7, <2>9
  <2> QED BY <2>10, ConcatProperties
<1> QED BY <1>2, <1>3

LEMMA SamePlot == ASSUME view' = view PROVE Plot' = Plot
  BY DEF Plot

\* What has been painted stays as it is while the view does.
LEMMA LinesKept ==
    ASSUME view' = view, strokes' = strokes,
           strokes.lines \in Seq(Plot \cup {<<>>}), strokes.fills \in Seq(Seq(Plot))
    PROVE  strokes'.lines \in Seq(Plot' \cup {<<>>}) /\ strokes'.fills \in Seq(Seq(Plot'))
  BY SamePlot

\* A step of plotLine adds a piece of the line, in the plot.
LEMMA LineStays ==
    ASSUME figure \in Figures, view \in figure.views, Drawing!plotLine,
           DOMAIN strokes = {"shaded", "ticks", "lines", "fills", "rects"},
           strokes.lines \in Seq(Plot \cup {<<>>})
    PROVE  strokes'.lines \in Seq(Plot \cup {<<>>}) /\ strokes'.fills = strokes.fills
<1> DEFINE whole == Drawing!Point(sweep.i - 1) # <<>> /\ Drawing!Point(sweep.i) # <<>>
           seg   == IF whole
                    THEN Drawing!CutX(Drawing!CutY(<<Drawing!Point(sweep.i - 1), Drawing!Point(sweep.i)>>))
                    ELSE <<>>
<1>1. strokes' = IF seg = <<>> THEN strokes
                 ELSE [strokes EXCEPT !.lines =
                          IF Drawing!Before = seg[1] THEN Append(@, seg[2])
                          ELSE @ \o << <<>>, seg[1], seg[2] >>]
  BY DEF Drawing!plotLine
<1>2. CASE seg = <<>>
  BY <1>1, <1>2
<1>3. CASE seg # <<>>
  <2>1. PICK p \in Plane, q \in Plane : seg = Drawing!CutX(Drawing!CutY(<<p, q>>))
    <3>1. whole
      BY <1>3
    <3>2. Drawing!Point(sweep.i - 1) \in Plane /\ Drawing!Point(sweep.i) \in Plane
      BY <3>1, PointIsPlane
    <3> QED BY <3>1, <3>2
  <2> HIDE DEF seg
  <2>2. PICK a \in Plot, b \in Plot : seg = <<a, b>>
    BY <1>3, <2>1, PieceIsInPlot
  <2>3. PICK P : P = Plot \cup {<<>>}
    OBVIOUS
  <2>4. PICK L \in Seq(P) : L = strokes.lines
    BY <2>3
  <2>5. a \in P /\ b \in P /\ <<>> \in P
    BY <2>3
  <2>6. Append(L, b) \in Seq(P)
    BY <2>5
  <2>7. L \o << <<>>, a, b >> \in Seq(P)
    <3>1. << <<>>, a, b >> \in Seq(P)
      BY <2>5
    <3> QED BY <3>1, ConcatProperties
  <2>8. strokes'.fills = strokes.fills /\ (strokes'.lines = Append(L, b) \/ strokes'.lines = L \o << <<>>, a, b >>)
    BY <1>1, <1>3, <2>2, <2>4
  <2> QED BY <2>3, <2>6, <2>7, <2>8
<1> QED BY <1>2, <1>3

\* One step per action: only drawGrid, Fill and plotLine paint, only Sketch and plotLine go on.
LEMMA LinesInvNext == GridInv /\ LinesInv /\ [SideNext]_sideVars => LinesInv'
<1> SUFFICES ASSUME GridInv, LinesInv, [SideNext]_sideVars, side' = "drawing", figure'.kind = "lines"
             PROVE  LinesInv'
  BY DEF LinesInv
<1>1. CASE OnReplay \/ OnPointer
  BY <1>1 DEF OnReplay, OnPointer
<1>2. CASE UNCHANGED sideVars
  BY <1>2 DEF sideVars, drawingVars, LinesInv, Plot
<1>3. CASE OnDrawing
  <2>0. /\ side = "drawing" /\ side' = side /\ figure' = figure /\ Drawing!Next
        /\ figure \in Figures /\ view \in figure.views /\ figure.kind = "lines"
        /\ DOMAIN strokes = {"shaded", "ticks", "lines", "fills", "rects"}
    BY <1>3 DEF OnDrawing, GridInv, Drawing!Next, Drawing!setupGrid, Drawing!drawGrid, Drawing!Turn,
                Drawing!Fill, Drawing!Sketch, Drawing!AreaDone, Drawing!plotLine, Drawing!LineDone,
                Drawing!plotBars, Drawing!BarsDone, Drawing!render
  <2>1. /\ phase \in {"made", "fitted", "area", "line", "drawn", "idle"}
        /\ phase \in {"made", "fitted", "drawn", "idle"} => path = <<>>
        /\ phase = "area" => path \in Seq(Plot)
        /\ strokes.lines \in Seq(Plot \cup {<<>>}) /\ strokes.fills \in Seq(Seq(Plot))
    BY <2>0 DEF LinesInv
  <2>2. \A S : <<>> \in Seq(S)
    OBVIOUS
  <2> HIDE DEF Plot
  <2>3. CASE Drawing!setupGrid
    <3>1. /\ phase' = "fitted" /\ phase \in {"made", "idle", "fitted"} /\ path' = path
          /\ strokes'.lines = <<>> /\ strokes'.fills = <<>>
      BY <2>3 DEF Drawing!setupGrid, Drawing!Nothing, Drawing!Fitted, Drawing!firstPass
    <3> QED BY <2>1, <2>2, <3>1 DEF LinesInv
  <2>4. CASE Drawing!drawGrid
    <3>1. /\ phase' = "area" /\ phase = "fitted" /\ path' = path
          /\ strokes'.lines = <<>> /\ strokes'.fills = <<>>
      BY <2>0, <2>4 DEF Drawing!drawGrid, Drawing!Nothing
    <3> QED BY <2>1, <2>2, <3>1 DEF LinesInv
  <2>5. CASE Drawing!Turn \/ Drawing!AreaDone
    <3>1. /\ phase = "area" /\ phase' \in {"area", "line"}
          /\ path' = path /\ view' = view /\ strokes' = strokes
      BY <2>5 DEF Drawing!Turn, Drawing!AreaDone, Drawing!Sweeping
    <3> QED BY <2>1, <3>1, SamePlot, LinesKept DEF LinesInv
  <2>6. CASE Drawing!Fill
    <3>1. /\ phase = "area" /\ phase' = "area" /\ path' = <<>> /\ view' = view
          /\ strokes' = [strokes EXCEPT !.fills = Append(@, path)]
      BY <2>6 DEF Drawing!Fill, Drawing!Sweeping
    <3>2. strokes'.lines = strokes.lines /\ strokes'.fills = Append(strokes.fills, path)
      BY <2>0, <3>1
    <3>3. strokes'.fills \in Seq(Seq(Plot))
      BY <2>1, <3>1, <3>2
    <3> QED BY <2>1, <2>2, <3>1, <3>2, <3>3, SamePlot DEF LinesInv
  <2>7. CASE Drawing!Sketch
    <3>1. phase = "area" /\ phase' = "area" /\ view' = view /\ strokes' = strokes
      BY <2>7 DEF Drawing!Sketch, Drawing!Sweeping
    <3>2. path' \in Seq(Plot)
      BY <2>0, <2>1, <2>7, <3>1, SketchStays
    <3> QED BY <2>1, <3>1, <3>2, SamePlot, LinesKept DEF LinesInv
  <2>8. CASE Drawing!plotLine
    <3>1. phase' = "line" /\ view' = view
      BY <2>8 DEF Drawing!plotLine
    <3>2. strokes'.lines \in Seq(Plot \cup {<<>>}) /\ strokes'.fills = strokes.fills
      BY <2>0, <2>1, <2>8, LineStays
    <3> QED BY <2>1, <3>1, <3>2, SamePlot DEF LinesInv
  <2>9. CASE Drawing!LineDone
    <3>1. phase' = "drawn" /\ path' = <<>> /\ view' = view /\ strokes' = strokes
      BY <2>9 DEF Drawing!LineDone
    <3> QED BY <2>1, <3>1, SamePlot, LinesKept DEF LinesInv
  <2>10. CASE Drawing!render
    <3>1. /\ phase = "drawn" /\ phase' = "idle" /\ path' = path
          /\ view' = view /\ strokes' = strokes
      BY <2>10 DEF Drawing!render
    <3> QED BY <2>1, <3>1, SamePlot, LinesKept DEF LinesInv
  <2>11. CASE Drawing!plotBars \/ Drawing!BarsDone
    BY <2>1, <2>11 DEF Drawing!plotBars, Drawing!BarsDone
  <2> QED
    BY <2>0, <2>3, <2>4, <2>5, <2>6, <2>7, <2>8, <2>9, <2>10, <2>11 DEF Drawing!Next
<1> QED
  BY <1>1, <1>2, <1>3 DEF SideNext

\* Every point of the painted line, and of the outline of every painted area, is in the plot.
LinesInside ==
    side = "drawing" /\ figure.kind = "lines" =>
        /\ \A i \in DOMAIN strokes.lines : strokes.lines[i] \in Plot \cup {<<>>}
        /\ \A i \in DOMAIN strokes.fills :
              \A j \in DOMAIN strokes.fills[i] : strokes.fills[i][j] \in Plot

LEMMA LinesTell == LinesInv => LinesInside
<1> SUFFICES ASSUME LinesInv, side = "drawing", figure.kind = "lines" PROVE LinesInside
  BY DEF LinesInside
<1>1. PICK P : P = Plot
  OBVIOUS
<1>2. strokes.lines \in Seq(P \cup {<<>>}) /\ strokes.fills \in Seq(Seq(P))
  BY <1>1 DEF LinesInv
<1>3. \A i \in DOMAIN strokes.lines : strokes.lines[i] \in P \cup {<<>>}
  BY <1>2
<1>4. \A i \in DOMAIN strokes.fills : strokes.fills[i] \in Seq(P)
  BY <1>2
<1>5. \A i \in DOMAIN strokes.fills : \A j \in DOMAIN strokes.fills[i] : strokes.fills[i][j] \in P
  BY <1>4
<1> QED BY <1>1, <1>3, <1>5 DEF LinesInside

\* Nothing of a line or of the area below it is painted outside the plot, at any moment of the
\* drawing and whichever way the view was zoomed or panned: the clipping of plotLine and plotLineArea
\* is complete, though each segment is cut against one edge after the other.
THEOREM LinesStayInside == SideSpec => []LinesInside
<1>1. SideInit => GridInv /\ LinesInv
  BY GridInvInit, LinesInvInit
<1>2. GridInv /\ LinesInv /\ [SideNext]_sideVars => (GridInv /\ LinesInv)'
  BY GridInvNext, LinesInvNext
<1>3. LinesInv => LinesInside
  BY LinesTell
<1> QED
  BY <1>1, <1>2, <1>3, PTL DEF SideSpec

-----------------------------------------------------------------------------
(* The line shows the data.  What plotLine leaves behind after each point, *)
(* and that plotLineArea leaves it no path to go on from.                  *)

Whole(i) == figure.points[i] # <<>> /\ figure.points[i + 1] # <<>>

\* A piece of a line is a part of the one between the points i and i + 1.
PartOf(a, b, i) == /\ Between(a, figure.points[i], figure.points[i + 1])
                   /\ Between(b, figure.points[i], figure.points[i + 1])

\* The line shows the first n points: it has no piece but parts of theirs, and every piece of
\* theirs that lies in the plot, from end to end.
LineOfFirst(line, n) ==
    /\ \A k \in 1..(Len(line) - 1) : line[k] # <<>> /\ line[k + 1] # <<>> =>
          \E i \in 1..(n - 1) : Whole(i) /\ PartOf(line[k], line[k + 1], i)
    /\ \A i \in 1..(n - 1) : figure.points[i] \in Plot /\ figure.points[i + 1] \in Plot =>
          \E k \in 1..(Len(line) - 1) : line[k] = figure.points[i] /\ line[k + 1] = figure.points[i + 1]

LEMMA SameLine ==
    ASSUME UNCHANGED <<figure, view>>, NEW line, NEW n PROVE LineOfFirst(line, n)' <=> LineOfFirst(line, n)
  BY SamePlot DEF LineOfFirst, Whole, PartOf, Between

\* The line ends where the path does.
EndsIn(line, trail) ==
    trail = <<>> \/ \E a, b \in Plot : trail = <<a, b>> /\ Len(line) > 0 /\ line[Len(line)] = b

\* R is the line L, of length m, up to its z-th point with a piece from a to b at its end.
Joined(R, L, m, z, a, b) ==
    /\ z > m /\ Len(R) = z /\ z >= 2 /\ R[z] = b /\ R[z - 1] = a
    /\ \A k \in 1..m : R[k] = L[k]
    /\ \A k \in 1..(z - 1) : k \in 1..(m - 1) \/ k = z - 1 \/ R[k] = <<>> \/ R[k + 1] = <<>>

\* A piece of the next two points is added to the line, or none that lies in the plot is left out.
LEMMA LineGrows ==
    ASSUME NEW n \in Nat \ {0}, NEW L \in Seq(Plot \cup {<<>>}), LineOfFirst(L, n),
           NEW trail, EndsIn(L, trail), NEW a \in Plot, NEW b \in Plot,
           NEW R, R = IF trail # <<>> /\ trail[Len(trail)] = a THEN Append(L, b) ELSE L \o << <<>>, a, b >>,
           Whole(n), PartOf(a, b, n),
           figure.points[n] \in Plot /\ figure.points[n + 1] \in Plot
              => a = figure.points[n] /\ b = figure.points[n + 1]
    PROVE  LineOfFirst(R, n + 1) /\ EndsIn(R, <<a, b>>)
<1>1. PICK m \in Nat : m = Len(L) /\ \A k \in 1..m : L[k] \in Plot \cup {<<>>}
  OBVIOUS
<1>0. \E z \in Nat : Joined(R, L, m, z, a, b)
  <2>1. CASE trail # <<>> /\ trail[Len(trail)] = a
    <3>1. m > 0 /\ L[m] = a
      <4>1. PICK x \in Plot, y \in Plot : trail = <<x, y>> /\ Len(L) > 0 /\ L[Len(L)] = y
        BY <2>1 DEF EndsIn
      <4>2. Len(<<x, y>>) = 2 /\ <<x, y>>[2] = y
        OBVIOUS
      <4>3. y = a
        BY <2>1, <4>1, <4>2
      <4> QED BY <1>1, <4>1, <4>3
    <3>2. R = Append(L, b)
      BY <2>1
    <3>3. Len(R) = m + 1 /\ R[m + 1] = b /\ \A k \in 1..m : R[k] = L[k]
      <4>1. PICK S : S = Plot \cup {<<>>}
        OBVIOUS
      <4>2. b \in S /\ L \in Seq(S)
        BY <4>1
      <4>3. Len(Append(L, b)) = Len(L) + 1 /\ \A k \in 1..(Len(L) + 1) :
               Append(L, b)[k] = IF k = Len(L) + 1 THEN b ELSE L[k]
        BY <4>2
      <4>4. m + 1 \in 1..(m + 1) /\ \A k \in 1..m : k \in 1..(m + 1) /\ k # m + 1
        BY <1>1
      <4> QED BY <1>1, <3>2, <4>3, <4>4
    <3>4. m \in 1..m /\ m + 1 \in Nat /\ m + 1 > m /\ m + 1 >= 2 /\ (m + 1) - 1 = m
      BY <1>1, <3>1
    <3>5. \A k \in 1..m : k \in 1..(m - 1) \/ k = m
      BY <1>1
    <3>6. Joined(R, L, m, m + 1, a, b)
      BY <3>1, <3>3, <3>4, <3>5 DEF Joined
    <3> QED BY <3>4, <3>6
  <2>2. CASE ~(trail # <<>> /\ trail[Len(trail)] = a)
    <3>1. R = L \o << <<>>, a, b >>
      BY <2>2
    <3>2. PICK t : t = << <<>>, a, b >> /\ Len(t) = 3 /\ t[1] = <<>> /\ t[2] = a /\ t[3] = b
      OBVIOUS
    <3>3. /\ Len(L \o t) = m + 3
          /\ \A k \in 1..(m + 3) : (L \o t)[k] = IF k <= m THEN L[k] ELSE t[k - m]
      <4>1. PICK S : S = Plot \cup {<<>>}
        OBVIOUS
      <4>2. a \in S /\ b \in S /\ <<>> \in S /\ L \in Seq(S)
        BY <4>1
      <4>3. t \in Seq(S)
        BY <3>2, <4>2
      <4> QED BY <1>1, <3>2, <4>2, <4>3, ConcatProperties
    <3>4. /\ m + 1 \in 1..(m + 3) /\ ~(m + 1 <= m) /\ (m + 1) - m = 1
          /\ m + 2 \in 1..(m + 3) /\ ~(m + 2 <= m) /\ (m + 2) - m = 2
          /\ m + 3 \in 1..(m + 3) /\ ~(m + 3 <= m) /\ (m + 3) - m = 3
          /\ \A k \in 1..m : k \in 1..(m + 3) /\ k <= m
      BY <1>1
    <3>5. R[m + 1] = <<>> /\ R[m + 2] = a /\ R[m + 3] = b /\ \A k \in 1..m : R[k] = L[k]
      BY <3>1, <3>2, <3>3, <3>4
    <3>6. \A k \in 1..(m + 2) : k \in 1..(m - 1) \/ k = m + 2 \/ k = m + 1 \/ k + 1 = m + 1
      BY <1>1
    <3>7. m + 3 \in Nat /\ m + 3 > m /\ m + 3 >= 2 /\ (m + 3) - 1 = m + 2
      BY <1>1
    <3>8. Len(R) = m + 3
      BY <3>1, <3>2, <3>3
    <3>9. Joined(R, L, m, m + 3, a, b)
      BY <3>5, <3>6, <3>7, <3>8 DEF Joined
    <3> QED BY <3>7, <3>9
  <2> QED BY <2>1, <2>2
<1>2. PICK z \in Nat :
         /\ z > m /\ Len(R) = z /\ z >= 2 /\ R[z] = b /\ R[z - 1] = a
         /\ \A k \in 1..m : R[k] = L[k]
         /\ \A k \in 1..(z - 1) : k \in 1..(m - 1) \/ k = z - 1 \/ R[k] = <<>> \/ R[k + 1] = <<>>
  BY <1>0 DEF Joined
<1>3. /\ z - 1 \in 1..(z - 1) /\ (z - 1) + 1 = z
      /\ \A k \in 1..(m - 1) : k \in 1..m /\ k + 1 \in 1..m /\ k \in 1..(z - 1)
  BY <1>1, <1>2
<1>4. /\ (n + 1) - 1 = n /\ n \in 1..n
      /\ \A i \in 1..n : i = n \/ i \in 1..(n - 1)
      /\ \A i \in 1..(n - 1) : i \in 1..n
  OBVIOUS
<1>5. \A k \in 1..(Len(R) - 1) : R[k] # <<>> /\ R[k + 1] # <<>> =>
          \E i \in 1..n : Whole(i) /\ PartOf(R[k], R[k + 1], i)
  <2> SUFFICES ASSUME NEW k \in 1..(z - 1), R[k] # <<>>, R[k + 1] # <<>>
               PROVE  \E i \in 1..n : Whole(i) /\ PartOf(R[k], R[k + 1], i)
    BY <1>2
  <2>1. CASE k \in 1..(m - 1)
    <3>1. R[k] = L[k] /\ R[k + 1] = L[k + 1]
      BY <1>2, <1>3, <2>1
    <3>2. PICK i \in 1..(n - 1) : Whole(i) /\ PartOf(L[k], L[k + 1], i)
      BY <1>1, <2>1, <3>1 DEF LineOfFirst
    <3> QED BY <1>4, <3>1, <3>2
  <2>2. CASE k = z - 1
    BY <1>2, <1>3, <1>4, <2>2
  <2> QED BY <1>2, <2>1, <2>2
<1>6. \A i \in 1..n : figure.points[i] \in Plot /\ figure.points[i + 1] \in Plot =>
          \E k \in 1..(Len(R) - 1) : R[k] = figure.points[i] /\ R[k + 1] = figure.points[i + 1]
  <2> SUFFICES ASSUME NEW i \in 1..n, figure.points[i] \in Plot, figure.points[i + 1] \in Plot
               PROVE  \E k \in 1..(z - 1) : R[k] = figure.points[i] /\ R[k + 1] = figure.points[i + 1]
    BY <1>2
  <2>1. CASE i = n
    BY <1>2, <1>3, <2>1
  <2>2. CASE i \in 1..(n - 1)
    <3>1. PICK k \in 1..(m - 1) : L[k] = figure.points[i] /\ L[k + 1] = figure.points[i + 1]
      BY <1>1, <2>2 DEF LineOfFirst
    <3> QED BY <1>2, <1>3, <3>1
  <2> QED BY <1>4, <2>1, <2>2
<1>7. EndsIn(R, <<a, b>>)
  BY <1>2 DEF EndsIn
<1> QED BY <1>4, <1>5, <1>6, <1>7 DEF LineOfFirst

\* Where the line between the next two points is not in the plot, nothing is missing.
LEMMA LineStandsStill ==
    ASSUME NEW n \in Nat \ {0}, NEW L, LineOfFirst(L, n),
           ~(figure.points[n] \in Plot /\ figure.points[n + 1] \in Plot)
    PROVE  LineOfFirst(L, n + 1)
<1>1. /\ (n + 1) - 1 = n
      /\ \A i \in 1..n : i = n \/ i \in 1..(n - 1)
      /\ \A i \in 1..(n - 1) : i \in 1..n
  OBVIOUS
<1> QED BY <1>1 DEF LineOfFirst

LEMMA SameEnd ==
    ASSUME view' = view, NEW line, NEW trail PROVE EndsIn(line, trail)' <=> EndsIn(line, trail)
  BY SamePlot DEF EndsIn

LEMMA PlotIsPlane ==
    ASSUME figure \in Figures, view \in figure.views, NEW r \in Plot PROVE r \in Plane /\ r # <<>>
<1>1. PICK l \in Int, u \in Int, d \in Int, t \in Int :
         l = view.x.min /\ u = view.x.max /\ d = view.y.min /\ t = view.y.max
  BY PlotIs
<1>2. PICK x \in Int, y \in Int : r = <<x, y>>
  BY <1>1 DEF Plot
<1> QED BY <1>2 DEF Plane

\* plotLineArea: an area that is open on the way there has a point to go on from or to turn at; no
\* path is left where none is open.
SweepInv ==
    /\ sweep.i \in Int /\ sweep.end \in Int /\ sweep.dir \in {1, -1} /\ sweep.open \in BOOLEAN
    /\ DOMAIN sweep = {"i", "dir", "open", "start", "end"}
    /\ ~sweep.open => path = <<>>
    /\ sweep.open /\ sweep.dir = 1 => Drawing!Point(sweep.i) # <<>>

TraceInv ==
    side = "drawing" /\ figure.kind = "lines" =>
        /\ phase = "area" => strokes.lines = <<>> /\ SweepInv
        /\ phase = "line" =>
              /\ sweep.i \in Nat \ {0} /\ (sweep.i = 1 \/ sweep.i <= Len(figure.points))
              /\ LineOfFirst(strokes.lines, sweep.i) /\ EndsIn(strokes.lines, path)
              /\ figure.bare => strokes.lines = <<>>
        /\ phase = "drawn" => IF figure.bare THEN strokes.lines = <<>>
                              ELSE LineOfFirst(strokes.lines, Len(figure.points))

LEMMA TraceInvInit == SideInit => TraceInv
<1> SUFFICES ASSUME SideInit, side = "drawing" PROVE TraceInv
  BY DEF TraceInv
<1>1. Drawing!Init
  BY DEF SideInit, PointerInit
<1>2. phase = "made"
  BY <1>1 DEF Drawing!Init
<1> QED BY <1>2 DEF TraceInv

\* The points of the code, counted from 0, are those of the figure.
LEMMA PointOf ==
    ASSUME figure \in Figures, view \in figure.views, NEW i \in Nat \ {0}, i < Len(figure.points)
    PROVE  Drawing!Point(i - 1) = figure.points[i] /\ Drawing!Point(i) = figure.points[i + 1]
<1>1. PICK N \in Nat : N = Len(figure.points)
  BY FigureIs
<1>2. i - 1 \in 0..(N - 1) /\ (i - 1) + 1 = i /\ i \in 0..(N - 1)
  BY <1>1
<1> QED BY <1>1, <1>2 DEF Drawing!Point

LEMMA LineGoesOn ==
    ASSUME figure \in Figures, view \in figure.views, Drawing!plotLine,
           DOMAIN strokes = {"shaded", "ticks", "lines", "fills", "rects"},
           strokes.lines \in Seq(Plot \cup {<<>>}),
           sweep.i \in Nat \ {0},
           LineOfFirst(strokes.lines, sweep.i), EndsIn(strokes.lines, path)
    PROVE  LineOfFirst(strokes'.lines, sweep.i + 1) /\ EndsIn(strokes'.lines, path')
<1>1. PICK n \in Nat \ {0} : n = sweep.i
  OBVIOUS
<1>2. PICK L \in Seq(Plot \cup {<<>>}) : L = strokes.lines
  OBVIOUS
<1>3. n < Len(figure.points)
  BY <1>1 DEF Drawing!plotLine
<1>4. PICK p, q : p = figure.points[n] /\ q = figure.points[n + 1]
  OBVIOUS
<1>5. Drawing!Point(sweep.i - 1) = p /\ Drawing!Point(sweep.i) = q
  BY <1>1, <1>3, <1>4, PointOf
<1> DEFINE seg == IF p # <<>> /\ q # <<>> THEN Drawing!CutX(Drawing!CutY(<<p, q>>)) ELSE <<>>
<1>6. /\ path' = IF seg = <<>> THEN path ELSE <<seg[1], seg[2]>>
      /\ strokes' = IF seg = <<>> THEN strokes
                    ELSE [strokes EXCEPT !.lines =
                             IF Drawing!Before = seg[1] THEN Append(@, seg[2])
                             ELSE @ \o << <<>>, seg[1], seg[2] >>]
  BY <1>5 DEF Drawing!plotLine
<1>7. LineOfFirst(L, n) /\ EndsIn(L, path)
  BY <1>1, <1>2
<1>8. CASE seg = <<>>
  <2>1. ~(p \in Plot /\ q \in Plot)
    <3>1. ASSUME p \in Plot, q \in Plot PROVE FALSE
      <4>1. p # <<>> /\ q # <<>>
        BY <3>1, PlotIsPlane
      <4>2. seg = <<p, q>>
        <5>1. Drawing!CutX(Drawing!CutY(<<p, q>>)) = <<p, q>>
          BY <3>1, InsideStaysWhole
        <5> QED BY <4>1, <5>1
      <4>3. <<p, q>> # <<>>
        OBVIOUS
      <4> HIDE DEF seg
      <4> QED BY <1>8, <4>2, <4>3
    <3> QED BY <3>1
  <2>2. LineOfFirst(L, n + 1)
    BY <1>4, <1>7, <2>1, LineStandsStill
  <2>3. strokes' = strokes /\ path' = path
    BY <1>6, <1>8
  <2> QED BY <1>1, <1>2, <1>7, <2>2, <2>3
<1>9. CASE seg # <<>>
  <2>1. p # <<>> /\ q # <<>> /\ seg = Drawing!CutX(Drawing!CutY(<<p, q>>))
    BY <1>9
  <2>2. p \in Plane /\ q \in Plane
    BY <1>5, <2>1, PointIsPlane
  <2>3. PICK s : s = seg
    OBVIOUS
  <2>4. p \in Plot /\ q \in Plot => s = <<p, q>>
    BY <2>1, <2>3, InsideStaysWhole
  <2> HIDE DEF seg
  <2>5. PICK a \in Plot, b \in Plot : s = <<a, b>> /\ Between(a, p, q) /\ Between(b, p, q)
    BY <1>9, <2>1, <2>2, <2>3, PieceIsInPlot
  <2>6. a # <<>>
    BY PlotIsPlane
  <2>7. Drawing!Before = a <=> path # <<>> /\ path[Len(path)] = a
    BY <2>6 DEF Drawing!Before
  <2>8. path' = <<a, b>> /\ strokes' = [strokes EXCEPT !.lines =
            IF Drawing!Before = a THEN Append(@, b) ELSE @ \o << <<>>, a, b >>]
    BY <1>6, <1>9, <2>3, <2>5
  <2>9. PICK R : R = IF path # <<>> /\ path[Len(path)] = a THEN Append(L, b) ELSE L \o << <<>>, a, b >>
    OBVIOUS
  <2>10. strokes'.lines = R
    BY <1>2, <2>7, <2>8, <2>9
  <2>11. Whole(n) /\ PartOf(a, b, n)
    BY <1>4, <2>1, <2>5 DEF Whole, PartOf
  <2>12. p \in Plot /\ q \in Plot => a = p /\ b = q
    BY <2>4, <2>5
  <2>13. LineOfFirst(R, n + 1) /\ EndsIn(R, <<a, b>>)
    BY <1>4, <1>7, <2>9, <2>11, <2>12, LineGrows
  <2> QED BY <1>1, <2>8, <2>10, <2>13
<1> QED BY <1>8, <1>9

LEMMA SweepStays ==
    ASSUME figure \in Figures, view \in figure.views, figure' = figure, SweepInv,
           DOMAIN strokes = {"shaded", "ticks", "lines", "fills", "rects"},
           Drawing!Turn \/ Drawing!Fill \/ Drawing!Sketch
    PROVE  SweepInv' /\ strokes'.lines = strokes.lines
<1>0. /\ sweep.i \in Int /\ sweep.end \in Int /\ sweep.dir \in {1, -1} /\ sweep.open \in BOOLEAN
      /\ DOMAIN sweep = {"i", "dir", "open", "start", "end"}
      /\ ~sweep.open => path = <<>>
      /\ sweep.open /\ sweep.dir = 1 => Drawing!Point(sweep.i) # <<>>
  BY DEF SweepInv
<1> SUFFICES /\ sweep'.i \in Int /\ sweep'.end \in Int /\ sweep'.dir \in {1, -1} /\ sweep'.open \in BOOLEAN
             /\ DOMAIN sweep' = {"i", "dir", "open", "start", "end"}
             /\ ~sweep'.open => path' = <<>>
             /\ sweep'.open /\ sweep'.dir = 1 => Drawing!Point(sweep'.i) # <<>>
             /\ strokes'.lines = strokes.lines
  BY DEF SweepInv, Drawing!Point
<1>1. Drawing!NextI \in Int
  BY <1>0 DEF Drawing!NextI
<1>2. CASE Drawing!Turn
  <2>1. /\ sweep' = [sweep EXCEPT !.i = Drawing!NextI, !.end = Drawing!NextI, !.dir = -1]
        /\ strokes' = strokes /\ path' = path
    BY <1>2 DEF Drawing!Turn
  <2>2. /\ sweep'.i = Drawing!NextI /\ sweep'.dir = -1 /\ sweep'.open = sweep.open
        /\ sweep'.end = Drawing!NextI /\ DOMAIN sweep' = DOMAIN sweep
    BY <1>0, <2>1
  <2> QED BY <1>0, <1>1, <2>1, <2>2
<1>3. CASE Drawing!Fill
  <2>1. /\ sweep' = [i |-> sweep.end + 1, dir |-> 1, open |-> FALSE,
                     start |-> sweep.end + 1, end |-> sweep.end]
        /\ path' = <<>> /\ strokes' = [strokes EXCEPT !.fills = Append(@, path)]
    BY <1>3 DEF Drawing!Fill
  <2>2. sweep'.i = sweep.end + 1 /\ sweep'.end = sweep.end /\ sweep'.dir = 1 /\ sweep'.open = FALSE /\ strokes'.lines = strokes.lines
    BY <2>1
  <2>3. DOMAIN sweep' = {"i", "dir", "open", "start", "end"}
    BY <2>1
  <2> QED BY <1>0, <1>3, <2>1, <2>2, <2>3
<1>4. CASE Drawing!Sketch
  <2> DEFINE whole == Drawing!Point(sweep.i) # <<>> /\ Drawing!Point(Drawing!NextI) # <<>>
             seg   == IF whole THEN Drawing!CutX(<<Drawing!Height(sweep.i), Drawing!Height(Drawing!NextI)>>)
                      ELSE <<>>
  <2>1. /\ strokes' = strokes
        /\ IF seg = <<>> THEN sweep' = [sweep EXCEPT !.i = Drawing!NextI] /\ path' = path
           ELSE sweep' = [sweep EXCEPT !.i = Drawing!NextI, !.open = TRUE]
    BY <1>4 DEF Drawing!Sketch
  <2>2. ~Drawing!AtEnd
    BY <1>4 DEF Drawing!Sketch
  <2>3. sweep.open /\ sweep.dir = 1 => Drawing!Point(Drawing!NextI) # <<>>
    BY <1>0, <2>2 DEF Drawing!AtEnd
  <2>4. seg # <<>> => Drawing!Point(Drawing!NextI) # <<>>
    OBVIOUS
  <2> HIDE DEF seg
  <2>5. CASE seg = <<>>
    <3>1. sweep' = [sweep EXCEPT !.i = Drawing!NextI] /\ path' = path
      BY <2>1, <2>5
    <3>2. /\ sweep'.i = Drawing!NextI /\ sweep'.end = sweep.end /\ sweep'.dir = sweep.dir
          /\ sweep'.open = sweep.open /\ DOMAIN sweep' = DOMAIN sweep
      BY <1>0, <3>1
    <3> QED BY <1>0, <1>1, <2>1, <2>3, <3>1, <3>2
  <2>6. CASE seg # <<>>
    <3>1. sweep' = [sweep EXCEPT !.i = Drawing!NextI, !.open = TRUE]
      BY <2>1, <2>6
    <3>2. /\ sweep'.i = Drawing!NextI /\ sweep'.end = sweep.end /\ sweep'.dir = sweep.dir
          /\ sweep'.open = TRUE /\ DOMAIN sweep' = DOMAIN sweep
      BY <1>0, <3>1
    <3> QED BY <1>0, <1>1, <2>1, <2>4, <2>6, <3>2
  <2> QED BY <2>5, <2>6
<1> QED BY <1>2, <1>3, <1>4

LEMMA TraceInvNext == GridInv /\ LinesInv /\ TraceInv /\ [SideNext]_sideVars => TraceInv'
<1> SUFFICES ASSUME GridInv, LinesInv, TraceInv, [SideNext]_sideVars, side' = "drawing", figure'.kind = "lines"
             PROVE  TraceInv'
  BY DEF TraceInv
<1>1. CASE OnReplay \/ OnPointer
  BY <1>1 DEF OnReplay, OnPointer
<1>2. CASE UNCHANGED sideVars
  <2>1. UNCHANGED <<side, figure, view, phase, sweep, path, strokes>>
    BY <1>2 DEF sideVars, drawingVars
  <2>2. SweepInv' <=> SweepInv
    BY <2>1 DEF SweepInv, Drawing!Point
  <2>3. \A L, n : (LineOfFirst(L, n)' <=> LineOfFirst(L, n)) /\ (EndsIn(L, path)' <=> EndsIn(L, path))
    BY <2>1, SamePlot DEF LineOfFirst, Whole, PartOf, Between, EndsIn
  <2>4. PICK L, i, n : L = strokes.lines /\ i = sweep.i /\ n = Len(figure.points)
    OBVIOUS
  <2>5. /\ LineOfFirst(L, i)' <=> LineOfFirst(L, i)
        /\ LineOfFirst(L, n)' <=> LineOfFirst(L, n)
        /\ EndsIn(L, path)' <=> EndsIn(L, path)
    BY <2>1, SameLine, SameEnd
  <2> QED BY <2>1, <2>2, <2>4, <2>5 DEF TraceInv
<1>3. CASE OnDrawing
  <2>0. /\ side = "drawing" /\ side' = side /\ figure' = figure /\ Drawing!Next
        /\ figure \in Figures /\ view \in figure.views /\ figure.kind = "lines"
        /\ DOMAIN strokes = {"shaded", "ticks", "lines", "fills", "rects"}
    BY <1>3 DEF OnDrawing, GridInv, Drawing!Next, Drawing!setupGrid, Drawing!drawGrid, Drawing!Turn,
                Drawing!Fill, Drawing!Sketch, Drawing!AreaDone, Drawing!plotLine, Drawing!LineDone,
                Drawing!plotBars, Drawing!BarsDone, Drawing!render
  <2>1. PICK N \in Nat : N = Len(figure.points)
    BY <2>0, FigureIs
  <2>2. /\ phase = "area" => strokes.lines = <<>> /\ SweepInv
        /\ phase = "line" =>
              /\ sweep.i \in Nat \ {0} /\ (sweep.i = 1 \/ sweep.i <= N)
              /\ LineOfFirst(strokes.lines, sweep.i) /\ EndsIn(strokes.lines, path)
              /\ figure.bare => strokes.lines = <<>>
        /\ phase = "drawn" => IF figure.bare THEN strokes.lines = <<>> ELSE LineOfFirst(strokes.lines, N)
        /\ phase \in {"made", "fitted", "drawn", "idle"} => path = <<>>
        /\ phase # "bars" /\ strokes.lines \in Seq(Plot \cup {<<>>})
    BY <2>0, <2>1 DEF TraceInv, LinesInv
  <2>3. CASE Drawing!setupGrid \/ Drawing!render
    <3>1. phase' \in {"fitted", "idle"}
      BY <2>3 DEF Drawing!setupGrid, Drawing!render
    <3> QED BY <3>1 DEF TraceInv
  <2>4. CASE Drawing!drawGrid
    <3>1. /\ phase' = "area" /\ phase = "fitted" /\ path' = path /\ strokes'.lines = <<>>
          /\ sweep' = [i |-> 0, dir |-> 1, open |-> FALSE, start |-> 0, end |-> 0]
      BY <2>0, <2>4 DEF Drawing!drawGrid, Drawing!Nothing
    <3>2. SweepInv'
      BY <2>2, <3>1 DEF SweepInv
    <3> QED BY <3>1, <3>2 DEF TraceInv
  <2>5. CASE Drawing!Turn \/ Drawing!Fill \/ Drawing!Sketch
    <3>1. phase = "area" /\ phase' = "area"
      BY <2>5 DEF Drawing!Turn, Drawing!Fill, Drawing!Sketch, Drawing!Sweeping
    <3>2. SweepInv' /\ strokes'.lines = strokes.lines
      BY <2>0, <2>2, <2>5, <3>1, SweepStays
    <3> QED BY <2>2, <3>1, <3>2 DEF TraceInv
  <2>6. CASE Drawing!AreaDone
    <3>1. /\ phase = "area" /\ phase' = "line" /\ sweep' = [i |-> 1] /\ ~Drawing!Sweeping
          /\ UNCHANGED <<view, path, strokes>>
      BY <2>6 DEF Drawing!AreaDone
    <3>2. sweep.dir = 1 /\ sweep.i > N + 1
      BY <2>1, <3>1 DEF Drawing!Sweeping
    <3>3. Drawing!Point(sweep.i) = <<>>
      BY <2>1, <2>2, <3>1, <3>2 DEF Drawing!Point, SweepInv
    <3>4. path = <<>>
      BY <2>2, <3>1, <3>2, <3>3 DEF SweepInv
    <3>5. sweep'.i = 1
      BY <3>1
    <3>6. PICK k \in Nat \ {0} : k = 1
      OBVIOUS
    <3>7. LineOfFirst(<<>>, k) /\ EndsIn(<<>>, <<>>)
      BY <3>6 DEF LineOfFirst, EndsIn
    <3>8. LineOfFirst(<<>>, k)' /\ EndsIn(<<>>, <<>>)'
      BY <2>0, <3>1, <3>7, SameLine, SameEnd
    <3>9. strokes'.lines = <<>> /\ path' = <<>> /\ sweep'.i = k
      BY <2>2, <3>1, <3>4, <3>5, <3>6
    <3>10. LineOfFirst(strokes.lines, sweep.i)' /\ EndsIn(strokes.lines, path)'
      BY <3>8, <3>9 DEF LineOfFirst, EndsIn
    <3> QED BY <3>1, <3>6, <3>9, <3>10 DEF TraceInv
  <2>7. CASE Drawing!plotLine
    <3>1. /\ phase = "line" /\ phase' = "line" /\ ~figure.bare
          /\ view' = view /\ sweep.i < N /\ sweep' = [i |-> sweep.i + 1]
      BY <2>1, <2>7 DEF Drawing!plotLine
    <3>2. LineOfFirst(strokes'.lines, sweep.i + 1) /\ EndsIn(strokes'.lines, path')
      BY <2>0, <2>2, <2>7, <3>1, LineGoesOn
    <3>3. PICK n \in Nat \ {0} : n = sweep.i + 1 /\ n <= N
      BY <2>1, <2>2, <3>1
    <3>4. PICK L, t : L = strokes'.lines /\ t = path'
      OBVIOUS
    <3>5. LineOfFirst(L, n)' /\ EndsIn(L, t)'
      BY <2>0, <3>1, <3>2, <3>3, <3>4, SameLine, SameEnd
    <3>6. sweep'.i = n
      BY <3>1, <3>3
    <3>7. LineOfFirst(strokes.lines, sweep.i)' /\ EndsIn(strokes.lines, path)'
      BY <3>4, <3>5, <3>6 DEF LineOfFirst, EndsIn
    <3> QED BY <2>0, <2>1, <3>1, <3>3, <3>6, <3>7 DEF TraceInv
  <2>8. CASE Drawing!LineDone
    <3>1. /\ phase = "line" /\ phase' = "drawn" /\ UNCHANGED <<view, strokes>>
          /\ figure.bare \/ sweep.i >= N
      BY <2>1, <2>8 DEF Drawing!LineDone
    <3>2. CASE figure.bare
      BY <2>0, <2>2, <3>1, <3>2 DEF TraceInv
    <3>3. CASE ~figure.bare
      <4>1. PICK L : L = strokes.lines /\ LineOfFirst(L, sweep.i)
        BY <2>2, <3>1
      <4>2. 1..(sweep.i - 1) = 1..(N - 1)
        <5>1. sweep.i = N \/ (sweep.i = 1 /\ N = 0)
          BY <2>1, <2>2, <3>1, <3>3
        <5> QED BY <5>1
      <4>3. LineOfFirst(L, N)
        BY <4>1, <4>2 DEF LineOfFirst
      <4>4. LineOfFirst(L, N)'
        BY <2>0, <3>1, <4>3, SameLine
      <4>5. LineOfFirst(strokes.lines, Len(figure.points))'
        BY <2>0, <2>1, <3>1, <4>1, <4>4 DEF LineOfFirst
      <4> QED BY <2>0, <3>1, <3>3, <4>5 DEF TraceInv
    <3> QED BY <3>2, <3>3
  <2>9. CASE Drawing!plotBars \/ Drawing!BarsDone
    BY <2>2, <2>9 DEF Drawing!plotBars, Drawing!BarsDone
  <2> QED
    BY <2>0, <2>3, <2>4, <2>5, <2>6, <2>7, <2>8, <2>9 DEF Drawing!Next
<1> QED
  BY <1>1, <1>2, <1>3 DEF SideNext

\* Of a finished line chart with lines of a width: what is painted of the line are parts of the pieces
\* between neighbouring points, and each piece that lies in the plot is painted from end to end.  A toggle
\* replaces the options of lines by others without a width (show.jsp), and then no line is painted.
LineShown ==
    side = "drawing" /\ phase = "drawn" /\ figure.kind = "lines" =>
        IF figure.bare THEN strokes.lines = <<>> ELSE LineOfFirst(strokes.lines, Len(figure.points))

\* Every finished line chart that a toggle has not left bare shows the line of its data, over every gap
\* and in every view: no piece that lies in the plot is left out or cut, a piece that leaves the plot is
\* painted in part only, and nothing joins points that are not neighbours, although plotLine goes on
\* without a moveTo where the last piece ended and starts from what plotLineArea has left.  A bare one
\* shows no line at all (plotLine's test of lineWidth).
THEOREM LineIsShown == SideSpec => []LineShown
<1>1. SideInit => GridInv /\ LinesInv /\ TraceInv
  BY GridInvInit, LinesInvInit, TraceInvInit
<1>2. GridInv /\ LinesInv /\ TraceInv /\ [SideNext]_sideVars => (GridInv /\ LinesInv /\ TraceInv)'
  BY GridInvNext, LinesInvNext, TraceInvNext
<1>3. TraceInv => LineShown
  BY DEF TraceInv, LineShown
<1> QED
  BY <1>1, <1>2, <1>3, PTL DEF SideSpec

================================================================================
