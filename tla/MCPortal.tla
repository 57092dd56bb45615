-------------------------------- MODULE MCPortal ---------------------------------
(* PortalPages, with the date picker around the end of a January: the day changes in UTC *)
(* while the customer acts.                                                             *)
EXTENDS PortalPages

C == INSTANCE Calendar

Text(kind, dates, typed) == [kind |-> kind, dates |-> dates, typed |-> typed]

MCInstants == {24 * C!UTCDate(2015, 0, 31) + 17, 24 * C!UTCDate(2015, 0, 31) + 27}
MCTyped    == {Text("written", <<>>, <<>>), Text("plain", <<>>, <<2015, 0, 32>>),
               Text("plain", <<>>, <<2015, 2, 1>>),
               Text("written", <<24 * C!UTCDate(2015, 1, 5)>>, <<>>)}
MCInitial  == {C!UTCDate(2015, 2, 31)}
MCFirst    == C!UTCDate(2015, 0, 30)
MCLast     == C!UTCDate(2015, 2, 1)
MCClicked  == {C!UTCDate(2015, 0, 31), C!UTCDate(2015, 1, 28)}
=================================================================================
