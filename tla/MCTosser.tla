------------------------------ MODULE MCTosser ------------------------------
(* A hub and two systems that poll it, on TLC's small numbers. *)
EXTENDS Tosser

CONSTANTS hub, west, east, none

MCSystems == {hub, west, east}
MCOutList == [s \in MCSystems |-> IF s = hub THEN <<west, east>> ELSE <<hub>>]
MCTags == [s \in MCSystems |-> IF s = east THEN {"net", "echo"} ELSE {"net", "echo", "local"}]

\* Both links of the hub are nodes of its one AKA.
MCArchive == [s \in MCSystems |-> [l \in ToSet(MCOutList[s]) |-> MCOutList[s][1]]]

\* An AREA line of a system names its links; "local" is not known to all of them.
MCAreaLinks == [s \in MCSystems |-> [a \in {"echo", "local"} |->
    ToSet(MCOutList[s]) \ (IF a = "local" THEN {east} ELSE {})]]
MCRoute == [s \in MCSystems |-> [d \in MCSystems |-> IF s = hub \/ d = s THEN none ELSE hub]]
MCStray == [s \in MCSystems |-> IF s = hub THEN none ELSE hub]

Echo(s)    == [home |-> s, area |-> "echo", dest |-> none]
Local(s)   == [home |-> s, area |-> "local", dest |-> none]
Net(s, d)  == [home |-> s, area |-> "net", dest |-> d]
MCMessages == <<Echo(west), Net(west, east), Local(hub)>>

\* Runs of two systems share nothing but the spool, and a run takes only what was there
\* when it began: they are taken one after the other.
OneAtATime == Cardinality({s \in Systems : phase[s] # "idle"}) <= 1

\* Two messages with a fault on one day, or with none over two days; netmail, which no
\* property follows to its end, with neither.
Casts == /\ OneAtATime /\ Cardinality(entered) <= 2
         /\ (faults = 0 \/ day = 0) /\ ((faults = 0 /\ day = 0) \/ 2 \notin entered)
=============================================================================
