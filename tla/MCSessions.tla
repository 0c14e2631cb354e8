----------------------------- MODULE MCSessions -----------------------------
(* Telnet calls for two nodes, one modem line, an upload by ftp.             *)
EXTENDS Sessions, TLC

CONSTANTS c1, c2, c3, m1, f1, u1, u2

Lines == [m \in Modems |-> 9]

\* The entries of the distribution's daydream.cfg: a line, T, L and F.
Board == <<9, TKind, LKind, FKind>>
\* A board without local logins.
BoardNoL == <<9, TKind>>
Alike == Permutations(Callers) \cup Permutations(Users)

\* Three calls and the line, without files; or one call, the line and files.
Calling == {c \in Callers : pc[c] # "off" \/ num[c] # 0}
Casts   == \/ \A u \in Users : earned[u] = 0 /\ \A f \in Uploaders : pc[f] = "off"
           \/ Cardinality(Calling) <= 1 /\ "record" \notin mishap
============================================================================
