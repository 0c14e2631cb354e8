------------------------------ MODULE MCZModem ------------------------------
EXTENDS ZModem

mcSize == [f \in Files |-> IF f = "f1" THEN 3 ELSE 1]
mcTries == [call |-> 3, pos |-> 1, fin |-> 2]
mcEmpty == [f \in Files |-> <<>>]

mcPlain == [list |-> <<"f1", "f2">>, there |-> {}, held |-> mcEmpty, mapped |-> FALSE,
            late |-> TRUE, calm |-> FALSE]

\* Two files, one of them declined, one resumed and sent from a mapping, one that is
\* here already; and three files, the first of them declined, so that what is meant for
\* one of them may be taken for the next while there is a file behind it.
mcLinks == {
    mcPlain,
    [mcPlain EXCEPT !.list = <<"f2", "f1", "f3">>, !.there = {"f2"}],
    [mcPlain EXCEPT !.there = {"f2"}, !.list = <<"f2", "f1">>, !.late = FALSE],
    [mcPlain EXCEPT !.held["f1"] = SubSeq(ZFile("f1"), 1, 1), !.mapped = TRUE],
    [mcPlain EXCEPT !.held["f1"] = ZFile("f1"), !.list = <<"f1">>]}
=============================================================================
