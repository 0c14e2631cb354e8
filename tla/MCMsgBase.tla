----------------------------- MODULE MCMsgBase -----------------------------
(* Instances of MsgBase for TLC. *)
EXTENDS MsgBase, TLC

CONSTANTS n1, n2, t1, m1, sysop, guest

NodeName  == [p \in Procs |-> IF p = n1 THEN guest ELSE sysop]
DraftsOne == {[to |-> guest, priv |-> TRUE]}

\* What follows a mishap is left to the runs that look at it.
UntilMishap == Orderly

Unused(p) == pc[p] = "idle" /\ base[p] = 1 /\ ptrs[p].high = 0 /\ buf[p] = NoBuf
NoRepair  == pc[m1] = "idle" /\ new[m1].hdrs = <<>> /\ \A b \in Bases : ptr[b].low = 0
OneBase   == dat[2] = <<>> /\ \A p \in Procs : base[p] = 1

\* Who is at work: two nodes on one base; a node and a posting tool on two; a
\* node, and the maintenance tools when it is away.
TwoNodes     == Unused(t1) /\ NoRepair /\ OneBase /\ issued <= 2 /\ pc[n2] # "edit"
NodeAndTool  == Unused(n2) /\ NoRepair /\ Len(dat[1]) <= 2 /\ Len(dat[2]) <= 1
NodeAndTools == Unused(n2) /\ Unused(t1) /\ OneBase /\ new[m1].b = 1
Casts == UntilMishap /\ (TwoNodes \/ NodeAndTool \/ NodeAndTools)

CastNext == \/ \E p \in Procs : Save(p) \/ ChangeMsgBase(p)
            \/ \E p \in Nodes : Read(p)
            \/ NodeAndTools /\ \E m \in Maintainers : Maintain(m)
CastSpec == Init /\ [][CastNext]_vars
============================================================================
