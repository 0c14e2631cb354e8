------------------------------ MODULE MCHydra ------------------------------
EXTENDS Hydra

CONSTANTS bbs, caller

mcPeers == {bbs, caller}
mcTerminals == {caller}
mcSize == [f \in Files |-> IF f = "f1" THEN 2 ELSE 1]
mcEmpty == [p \in mcPeers |-> [f \in Files |-> <<>>]]
mcNone == [p \in mcPeers |-> {}]
Batches(b, c) == [p \in mcPeers |-> IF p = bbs THEN b ELSE c]

mcUpload == [batch |-> Batches(<<>>, <<"f1">>), window |-> 1, hdx |-> [p \in mcPeers |-> FALSE],
             originator |-> [p \in mcPeers |-> TRUE], agree |-> TRUE, held |-> mcEmpty,
             whole |-> mcNone, calm |-> FALSE]

\* With faults, an upload and a download of a file; without, an upload of two files of
\* which the node has one and a part of the other, both ways at a time, and over a
\* one-way link, and ends that do not agree.
mcLinks == {
   mcUpload,
   [mcUpload EXCEPT !.batch = Batches(<<"f2">>, <<>>), !.window = 0],
   [mcUpload EXCEPT !.batch = Batches(<<>>, <<"f2", "f1">>), !.calm = TRUE,
                    !.held[bbs]["f1"] = <<<<"f1", 1>>>>, !.whole[bbs] = {"f2"}],
   [mcUpload EXCEPT !.batch = Batches(<<"f2">>, <<"f1">>), !.window = 0, !.calm = TRUE],
   [mcUpload EXCEPT !.batch = Batches(<<"f2">>, <<"f1">>), !.window = 0, !.calm = TRUE,
                    !.hdx[caller] = TRUE, !.originator[caller] = FALSE],
   [mcUpload EXCEPT !.agree = FALSE, !.calm = TRUE]}
=============================================================================
