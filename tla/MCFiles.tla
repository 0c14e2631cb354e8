------------------------------ MODULE MCFiles ------------------------------
(* Instances of Files for TLC. *)
EXTENDS Files

CONSTANTS n1, n2, u1, u2

Only(n, u) == main[n] # "off" => Me(n).id = u
Unmoved    == used.moves = 0 /\ used.news = 0
Untagged   == \A n \in Nodes : tags[n] = <<>> /\ kind[n] \in {"left", "upload"}
NamesSent  == UNION {NamesIn(temp[n]) : n \in Nodes}

Unbroken   == \A f \in (UNION {part[u] : u \in Users}) \cup (UNION {temp[n] : n \in Nodes}) : f.no # 0

\* One node and its checker with two files, over two transfers and two calls; the same with
\* one file, and transfers that break off; two nodes with files of one name; one node that
\* sends and receives, and a sysop.
OneNode  == Unmoved /\ Untagged /\ main[n2] = "off" /\ Only(n1, u1) /\ Unbroken
CutShort == /\ Unmoved /\ Untagged /\ main[n2] = "off" /\ Only(n1, u1) /\ Cardinality(received) <= 1
            /\ NamesSent \subseteq {"a"} /\ Len(log[n1]) <= 2 /\ \A u \in Users : lc[u] = {}
TwoNodes == /\ Untagged /\ Unbroken /\ used.news = 0 /\ Only(n1, u1) /\ Only(n2, u2)
            /\ NamesSent \subseteq {"a"} /\ \A u \in Users : lc[u] = {}
BothWays == /\ Unbroken /\ main[n2] = "off" /\ Only(n1, u1) /\ used.transfers <= 1 /\ Cardinality(received) <= 1
            /\ NamesSent \subseteq {"a"} /\ \A u \in Users : lc[u] = {}
Casts == \/ mishap = {} /\ (OneNode \/ TwoNodes \/ BothWays)
         \/ mishap \subseteq {"stays"} /\ CutShort
=============================================================================
