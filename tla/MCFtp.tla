------------------------------- MODULE MCFtp -------------------------------
(* One server transfers; the other logs in and out beside it, while renaming, PASV and the *)
(* upload conference are left to the first alone. *)
EXTENDS Ftp

CONSTANTS p1, p2, u1, u2, x1, x2, nobody, noname

\* Nothing is said of what follows a slot taken twice, so such states end the run there.
Casts ==
    /\ ~raced
    /\ srv[p1].pw # u2
    /\ srv[p2].job = NoJob /\ srv[p2].pdata = "none" /\ srv[p2].from = NoName
    /\ ~srv[p2].ulconf /\ ~srv[p2].gone
    /\ srv[p2].pc # "free" => srv[p1].from = NoName /\ ~srv[p1].ulconf /\ srv[p1].pdata = "none"
=============================================================================
