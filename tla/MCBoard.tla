------------------------------ MODULE MCBoard ------------------------------
(* Small instances of Board: a Saturday just before midnight.               *)
EXTENDS Board, TLC

At(day, hour) == day * DAY + hour * 60
Date(day) == day * DAY

MainRow(id, category, free, start, end) ==
  [store |-> "main", id |-> id, city |-> "msk", category |-> category, free |-> free,
   start |-> start, end |-> end, time |-> NoTime, visibility |-> "public"]
WebRow(id, start, end) ==
  [MainRow(id, "", TRUE, start, end) EXCEPT !.store = "webreg", !.city = ""]
TgRow(id, category, free, start, end, time) ==
  [MainRow(id, category, free, start, end) EXCEPT !.store = "tg", !.city = "", !.time = time]

(* A party past midnight, an exhibition under way, an event without an end  *)
(* in another city, one that only its link opens, and a hackathon just begun.*)
Party      == MainRow(1, "social", FALSE, At(5, 19), At(6, 2))
Exhibition == MainRow(2, "concert", TRUE, At(0, 10), At(9, 18))
Elsewhere  == [MainRow(3, "party", FALSE, At(6, 12), NoTime) EXCEPT !.city = "other"]
ByLink     == [MainRow(4, "unknown", FALSE, At(6, 12), NoTime) EXCEPT !.visibility = "unlisted"]
Hackathon  == MainRow(5, "party", FALSE, At(5, 10), At(6, 18))
(* Registrations by link: a talk, and a weekend under way.                *)
Talk       == WebRow(6, At(6, 15), NoTime)
Weekend    == WebRow(7, At(4, 9), At(6, 18))
(* Collected: a festival under way, a matinee without a time, one that has  *)
(* no end, one taken off the board, one whose last day is before the first. *)
Festival   == TgRow(9, "concert", FALSE, Date(2), Date(6), 660)
Matinee    == TgRow(10, "party", TRUE, Date(6), NoTime, NoTime)
Permanent  == TgRow(11, "", TRUE, Date(0), Date(31), NoTime)
Hidden     == [TgRow(13, "concert", FALSE, Date(5), NoTime, 1200) EXCEPT !.visibility = "private"]
UpsideDown == TgRow(12, "concert", TRUE, Date(6), Date(5), NoTime)

MCRows == {Party, Exhibition, Elsewhere, ByLink, Hackathon, Talk, Weekend, Festival,
           Matinee, Permanent, Hidden, UpsideDown}
MCBoards ==
  {[rows |-> {Party, Exhibition, Hackathon, Weekend, Festival, Matinee},
    pins |-> (1 :> 2 @@ 2 :> 1)],
   [rows |-> {Elsewhere, ByLink, Talk, Permanent, Festival}, pins |-> <<>>]}
MCQuestions ==
  {[city |-> "msk", category |-> x[1], when |-> x[2], kind |-> x[3], free |-> x[4]] :
     x \in {<<"", "", "", FALSE>>, <<"", "", "timed", FALSE>>, <<"", "today", "running", FALSE>>,
            <<"party", "", "timed", FALSE>>, <<"", "weekend", "", TRUE>>}}
MCWindows == {[limit |-> 1, offset |-> 0], [limit |-> 2, offset |-> 1]}
MCStarts == {At(5, 23) + 59}
MCLegacy == ("social" :> "party" @@ "meetup" :> "concert")
=============================================================================
