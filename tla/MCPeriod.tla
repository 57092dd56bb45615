------------------------------- MODULE MCPeriod -------------------------------
(* AuthorizationPeriod at the instants where a date changes in UTC or in EST. *)
EXTENDS AuthorizationPeriod

\* Around both midnights and around the last minute of a period, on three days running and
\* on the days a year later.
DayInstants == {0, 1, 17999, 18000, 18001, 50000, 86340, 86341, 86399}
SomeDays    == {1, 2, 3, 366, 367, 368}
SomeInstants == {k * daysec + s : k \in SomeDays, s \in DayInstants}
SomeDates    == 0..4 \cup {366, 367}
EST          == 18000
=============================================================================
