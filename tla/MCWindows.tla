-------------------------------- MODULE MCWindows --------------------------------
(* DownloadWindows around midnight, in the morning and in the afternoon, over the end of a *)
(* February and through a week.                                                            *)
EXTENDS DownloadWindows

Days       == UTCDate(2016, 1, 27)..UTCDate(2016, 2, 5)
MCInstants == {24 * hour * d + est + s : d \in Days, s \in {0, 59, 7 * hour + 30, 15 * hour, 24 * hour - 1}}
==================================================================================
