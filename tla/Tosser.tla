------------------------------- MODULE Tosser -------------------------------
(***************************************************************************)
(* The echomail tosser on several systems.  A run of it exports the mail   *)
(* flagged for export into one packet for each link, imports what has come *)
(* in, exports again (that is how mail is passed on), and packs the        *)
(* packets into archives, which a mailer carries to the links.             *)
(*                                                                         *)
(* A copy of a message is its position in Messages.  The packets of a run  *)
(* lie in the directory the archives are unpacked in, and the scan of that *)
(* directory takes them for packets that have come in: they are imported   *)
(* and removed, and the second export appends to packets with no header.   *)
(* How a header, its text and msgbase.ptr are written is in MsgBase.       *)
(***************************************************************************)
EXTENDS Integers, Sequences, SequencesExt, FiniteSetsExt

CONSTANTS
    Systems,
    Messages,   \* what is written: home, area, and dest of a netmail
    OutList,    \* the links of a system, in the order of the list OUT
    Archive,    \* the archive of a link, by one of the links that have it: nodes of one AKA share it
    AreaLinks,  \* the systems the AREA line of an area names
    Tags,       \* the areas a system has a base for
    Route,      \* where the list ROUTE of a system sends netmail for another
    Stray,      \* where it sends netmail for an address that is nobody's
    Nobody,     \* no system
    Days, MaxFaults   \* bounds: days, which the names of archives follow; kills and failed commands

Ids == DOMAIN Messages
EchoIds == {m \in Ids : Messages[m].area # "net"}
Links(s) == ToSet(OutList[s])

ASSUME TosserAssumption ==
    /\ Len(Messages) \in Nat /\ Ids = 1..Len(Messages)
    /\ \A m \in Ids : Messages[m].home \in Systems
    /\ OutList \in [Systems -> Seq(Systems)]
    /\ \A s \in Systems : Archive[s] \in [Links(s) -> Links(s)]
    /\ Nobody \notin Systems
    /\ Days \in Nat \ {0} /\ MaxFaults \in Nat

\* The links of an area form a tree: from where a message is written, each system but that
\* one has one link it can come from.  The tosser itself has no check for what it had before.
ASSUME TreeAssumption ==
    \A m \in EchoIds : \E up \in [Systems -> Systems \cup {Nobody}] :
        /\ up[Messages[m].home] = Nobody
        /\ \A s \in Systems : \A l \in AreaLinks[s][Messages[m].area] \cap Links(s) :
              l = up[s] \/ up[l] = s

Blank == [head |-> FALSE, ids |-> <<>>, file |-> FALSE, count |-> 0]

VARIABLES
    entered,   \* the messages written so far
    base,      \* headers of the message bases of a system: id, from, out, text
    phase, at, \* what the tosser does; header exported last, archives to take, links closed
    packet,    \* the packet for each link, with NI_Msgs
    files,     \* packets of the archive that are still to be read
    inbound,   \* archives that have come in
    outbound,  \* archives by name and day; a packet has the address it is for
    flow,      \* days named in the flow file of a link
    day, faults,
    fresh, lost, again   \* history: read from this archive; copies that may not arrive; that may be doubled

run == <<phase, at, packet, files>>
spool == <<inbound, outbound, flow>>
vars == <<entered, base, run, spool, day, faults, fresh, lost, again>>

Copies(s, m) == {i \in DOMAIN base[s] : base[s][i].id = m}
Has(s, m) == Copies(s, m) # {}
IsNet(m) == Messages[m].area = "net"
NoPackets(s) == [l \in Links(s) |-> Blank]
Held(s, l) == ToSet(packet[s][l].ids)
InArchive(a) == UNION {ToSet(a[i].ids) : i \in DOMAIN a}
InArchiveFor(a, l) == UNION {ToSet(a[i].ids) : i \in {k \in DOMAIN a : a[k].to = l}}
Entry(m, from, text) == [id |-> m, from |-> from, out |-> TRUE, text |-> text]

Init ==
    /\ entered = {} /\ day = 0 /\ faults = 0
    /\ base = [s \in Systems |-> <<>>]
    /\ phase = [s \in Systems |-> "idle"] /\ at = [s \in Systems |-> 0]
    /\ packet = [s \in Systems |-> NoPackets(s)]
    /\ files = [s \in Systems |-> <<>>] /\ inbound = [s \in Systems |-> <<>>]
    /\ outbound = [s \in Systems |-> [l \in Links(s) |-> [d \in 0..Days - 1 |-> <<>>]]]
    /\ flow = [s \in Systems |-> [l \in Links(s) |-> {}]]
    /\ fresh = [s \in Systems |-> {}] /\ lost = {} /\ again = {}

Become(s, p, n) == phase' = [phase EXCEPT ![s] = p] /\ at' = [at EXCEPT ![s] = n]

\* A user's message: the header first, with the flag for export, then the text.
Enter(s) ==
    /\ \E m \in Ids \ entered :
         /\ Messages[m].home = s /\ entered' = entered \cup {m}
         /\ base' = [base EXCEPT ![s] = Append(@, Entry(m, Nobody, FALSE))]
    /\ UNCHANGED <<run, spool, day, faults, fresh, lost, again>>

SaveText(s) ==
    /\ \E i \in DOMAIN base[s] :
         /\ base[s][i].from = Nobody /\ ~base[s][i].text
         /\ base' = [base EXCEPT ![s][i].text = TRUE]
    /\ UNCHANGED <<entered, run, spool, day, faults, fresh, lost, again>>

\* The list OUT is read and a packet with nothing but its header made for each link.
Start(s) ==
    /\ phase[s] = "idle" /\ Become(s, "export1", 0)
    /\ packet' = [packet EXCEPT ![s] = [l \in Links(s) |-> [Blank EXCEPT !.head = TRUE, !.file = TRUE]]]
    /\ UNCHANGED <<entered, base, files, spool, day, faults, fresh, lost, again>>

-----------------------------------------------------------------------------
(* Export. *)

EchoTargetsBack(s, e) == AreaLinks[s][Messages[e.id].area] \cap Links(s)

\* Echomail goes to every address of the AREA line except the one its packet came from.
EchoTargets(s, e) ==
    {l \in AreaLinks[s][Messages[e.id].area] \cap Links(s) : l # e.from}

\* Without a pattern that matches, the route is the address itself.
RouteAdd(s, dest) == IF Route[s][dest] = Nobody THEN dest ELSE Route[s][dest]

\* Netmail goes to its address and also along its route, where these are links.  Of mail that
\* came in by packet the node of the address is not kept (its net is set twice).
NetTargets(s, e) ==
    LET dest == Messages[e.id].dest
    IN  IF e.from # Nobody THEN <<Stray[s]>>
        ELSE IF dest = s THEN <<>> ELSE <<dest, RouteAdd(s, dest)>>

Times(s, e, l) ==
    IF IsNet(e.id) THEN Cardinality({k \in DOMAIN NetTargets(s, e) : NetTargets(s, e)[k] = l})
    ELSE IF l \in EchoTargets(s, e) THEN 1 ELSE 0

WrittenUncounted(p, m, n) ==
    IF n = 0 THEN p ELSE [p EXCEPT !.ids = @ \o [i \in 1..n |-> m], !.file = TRUE]

\* A message is appended to a packet, which is made anew if it is not there any more.
Written(p, m, n) ==
    IF n = 0 THEN p
    ELSE [p EXCEPT !.ids = @ \o [i \in 1..n |-> m], !.file = TRUE, !.count = @ + n]

\* A message whose text is not there yet keeps its flag for the next run.
ExportHeader(s) ==
    /\ phase[s] \in {"export1", "export2"} /\ at[s] < Len(base[s])
    /\ LET i == at[s] + 1
           e == base[s][i]
       IN  IF e.out /\ e.text
           THEN /\ packet' = [packet EXCEPT ![s] = [l \in Links(s) |-> Written(@[l], e.id, Times(s, e, l))]]
                /\ base' = [base EXCEPT ![s][i].out = FALSE]
           ELSE UNCHANGED <<packet, base>>
    /\ at' = [at EXCEPT ![s] = @ + 1]
    /\ UNCHANGED <<entered, phase, files, spool, day, faults, fresh, lost, again>>

EndExport(s) ==
    /\ at[s] = Len(base[s])
    /\ \/ phase[s] = "export1" /\ Become(s, "inbound", Len(inbound[s]))
       \/ phase[s] = "export2" /\ Become(s, "closeout", 0)
    /\ UNCHANGED <<entered, base, packet, files, spool, day, faults, fresh, lost, again>>

-----------------------------------------------------------------------------
(* Import. *)

\* The archive is unpacked into the directory of the packets; if that fails, no one knows.
TakeArchive(s) ==
    /\ phase[s] = "inbound" /\ at[s] > 0 /\ Become(s, "packet", at[s] - 1)
    /\ \/ files' = [files EXCEPT ![s] = Head(inbound[s])] /\ UNCHANGED <<faults, lost>>
       \/ /\ faults < MaxFaults /\ faults' = faults + 1
          /\ lost' = lost \cup (InArchive(Head(inbound[s])) \X {s})
          /\ UNCHANGED files
    /\ UNCHANGED <<entered, base, packet, spool, day, fresh, again>>

LocateTag(s, m) == Messages[m].area \in Tags[s]

\* What is read of a packet: nothing without a header, else all before the first message
\* of an area that is not known (the base for bad messages is never found: parsecfg sets
\* a variable of its own).
Readable(s, p) ==
    LET unknown == {i \in DOMAIN p.ids : ~LocateTag(s, p.ids[i])}
    IN  IF ~p.head THEN <<>>
        ELSE SubSeq(p.ids, 1, IF unknown = {} THEN Len(p.ids) ELSE Min(unknown) - 1)

\* Imported messages are flagged for export, and remember where the packet came from.
Import(s, ms, from) == base[s] \o [i \in DOMAIN ms |-> Entry(ms[i], from, TRUE)]

ReadPacket(s) ==
    /\ phase[s] = "packet"
    /\ \E i \in DOMAIN files[s] :
         LET p == files[s][i]
             ms == Readable(s, p)
         IN  /\ base' = [base EXCEPT ![s] = Import(s, ms, p.from)]
             /\ files' = [files EXCEPT ![s] = RemoveAt(@, i)]
             /\ fresh' = [fresh EXCEPT ![s] = @ \cup ToSet(ms)]
             /\ lost' = lost \cup ((ToSet(p.ids) \ ToSet(ms)) \X {s})
    /\ UNCHANGED <<entered, phase, at, packet, spool, day, faults, again>>

\* The same scan meets the packets of this run: read as if they had come in, and removed.
SweepPacket(s) ==
    /\ phase[s] = "packet"
    /\ \E l \in Links(s) :
         LET p == packet[s][l]
         IN  /\ p.file
             /\ base' = [base EXCEPT ![s] = Import(s, Readable(s, p), s)]
             /\ packet' = [packet EXCEPT ![s][l] = [Blank EXCEPT !.count = p.count]]
             /\ again' = again \cup ToSet(p.ids)
    /\ UNCHANGED <<entered, phase, at, files, spool, day, faults, fresh, lost>>

EndArchive(s) ==
    /\ phase[s] = "packet" /\ files[s] = <<>> /\ \A l \in Links(s) : ~packet[s][l].file
    /\ Become(s, "inbound", at[s])
    /\ inbound' = [inbound EXCEPT ![s] = Tail(@)]
    /\ fresh' = [fresh EXCEPT ![s] = {}]
    /\ UNCHANGED <<entered, base, packet, files, outbound, flow, day, faults, lost, again>>

EndInbound(s) ==
    /\ phase[s] = "inbound" /\ at[s] = 0 /\ Become(s, "export2", 0)
    /\ UNCHANGED <<entered, base, packet, files, spool, day, faults, fresh, lost, again>>

-----------------------------------------------------------------------------
(* Packing and the mailer. *)

\* The archive of the day gets the packet: that of a point is its own, that of a node has
\* the name of the AKA it is sent from, and so holds what all nodes of that AKA are sent.
\* The flow file of the link is written from scratch, so that an archive of another day is
\* not sent.
Pack(s, l, ok) ==
    LET p == packet[s][l]
        a == Archive[s][l]
        left == UNION {InArchiveFor(outbound[s][a][d], l) : d \in flow[s][l] \ {day}}
        gone == IF ok /\ p.head THEN {} ELSE Held(s, l)
    IN  /\ outbound' = IF ok THEN [outbound EXCEPT ![s][a][day] =
                                     Append(@, [from |-> s, to |-> l, head |-> p.head, ids |-> p.ids])]
                             ELSE outbound
        /\ flow' = [flow EXCEPT ![s][l] = {day}]
        /\ lost' = lost \cup ((left \cup gone) \X {l})

CloseLink(s) ==
    /\ phase[s] = "closeout" /\ at[s] < Len(OutList[s])
    /\ LET l == OutList[s][at[s] + 1]
       IN  /\ \/ packet[s][l].count = 0 /\ UNCHANGED <<outbound, flow, lost, faults>>
              \/ packet[s][l].count > 0 /\ Pack(s, l, TRUE) /\ UNCHANGED faults
              \/ /\ packet[s][l].count > 0 /\ faults < MaxFaults
                 /\ Pack(s, l, FALSE) /\ faults' = faults + 1
           /\ packet' = [packet EXCEPT ![s][l] = Blank]
    /\ at' = [at EXCEPT ![s] = @ + 1]
    /\ UNCHANGED <<entered, base, phase, files, inbound, day, fresh, again>>

\* die removes the directory with all that is left in it.
Finish(s) ==
    /\ phase[s] = "closeout" /\ at[s] = Len(OutList[s]) /\ Become(s, "idle", 0)
    /\ UNCHANGED <<entered, base, packet, files, spool, day, faults, fresh, lost, again>>

\* The tosser is killed, perhaps with part of a packet read and the last text not written.
Partly(s, p, k, whole) ==
    [i \in 1..k |-> Entry(p.ids[i], p.from, i < k \/ whole)]

Kill(s) ==
    /\ phase[s] # "idle" /\ faults < MaxFaults /\ faults' = faults + 1 /\ Become(s, "idle", 0)
    /\ \/ UNCHANGED base /\ again' = again \cup fresh[s]
       \/ \E i \in DOMAIN files[s], whole \in BOOLEAN :
            \E k \in DOMAIN Readable(s, files[s][i]) :
              /\ base' = [base EXCEPT ![s] = @ \o Partly(s, files[s][i], k, whole)]
              /\ again' = again \cup fresh[s] \cup ToSet(SubSeq(files[s][i].ids, 1, k))
    /\ lost' = lost \cup UNION {Held(s, l) \X {l} : l \in Links(s)}
    /\ packet' = [packet EXCEPT ![s] = NoPackets(s)]
    /\ files' = [files EXCEPT ![s] = <<>>] /\ fresh' = [fresh EXCEPT ![s] = {}]
    /\ UNCHANGED <<entered, spool, day>>

\* The mailer carries the archive the flow file of a link names, and removes both.  What is
\* in it for others comes to this link, which does not look at the address of a packet, and
\* not to them, whose flow files name an archive that is gone.
Astray(a, l) == {i \in DOMAIN a : a[i].to # l}

Mail(s, l) ==
    /\ flow[s][l] # {} /\ flow' = [flow EXCEPT ![s][l] = {}]
    /\ LET d == CHOOSE d \in flow[s][l] : TRUE
           a == outbound[s][Archive[s][l]][d]
       IN  /\ inbound' = IF a = <<>> THEN inbound ELSE [inbound EXCEPT ![l] = Append(@, a)]
           /\ outbound' = [outbound EXCEPT ![s][Archive[s][l]][d] = <<>>]
           /\ again' = again \cup UNION {ToSet(a[i].ids) : i \in Astray(a, l)}
           /\ lost' = lost \cup UNION {ToSet(a[i].ids) \X {a[i].to} : i \in Astray(a, l)}
    /\ UNCHANGED <<entered, base, run, day, faults, fresh>>

NewDay ==
    /\ day + 1 < Days /\ day' = day + 1
    /\ UNCHANGED <<entered, base, run, spool, faults, fresh, lost, again>>

Toss(s) ==
    \/ Start(s) \/ ExportHeader(s) \/ EndExport(s) \/ TakeArchive(s) \/ ReadPacket(s)
    \/ SweepPacket(s) \/ EndArchive(s) \/ EndInbound(s) \/ CloseLink(s) \/ Finish(s)

Next ==
    \/ \E s \in Systems : Enter(s) \/ SaveText(s) \/ Toss(s) \/ Kill(s) \/ \E l \in Links(s) : Mail(s, l)
    \/ NewDay

\* The tosser and the mailer are run over and over, and authors finish their messages.
TosserSpec ==
    /\ Init /\ [][Next]_vars
    /\ \A s \in Systems :
         /\ WF_vars(Toss(s)) /\ WF_vars(SaveText(s))
         /\ \A l \in Links(s) : WF_vars(Mail(s, l))

-----------------------------------------------------------------------------
(* Properties. *)

\* On a tree no system gets an echomail message twice, whatever is killed or read again,
\* except the copies of an archive it was killed with, of packets it swept itself, and of
\* packets for another link that were fetched with an archive shared with it.
OnceEach ==
    \A s \in Systems, m \in EchoIds :
        m \notin again => Cardinality(Copies(s, m)) <= 1

\* An echomail message flagged for export comes to every link of its area, unless it is one
\* of the copies given up by a command that failed, a kill, a new day, a packet with no
\* header or an area that is not known, or another link that fetched the shared archive.
Due(s, l, m) ==
    \E i \in Copies(s, m) :
        base[s][i].out /\ base[s][i].text /\ l \in EchoTargets(s, base[s][i])

Arrives ==
    \A s \in Systems : \A l \in Links(s) : \A m \in EchoIds :
        Due(s, l, m) ~> (Has(l, m) \/ <<m, l>> \in lost)

\* "AREA [CONF:BASE] tells nodes/points who get messages from the area" (tosser.cfg): with
\* no fault and on one day a message is lost only to a system without the area.
NodesGet ==
    faults = 0 /\ day = 0 =>
        \A x \in lost : ~LocateTag(x[2], x[1])
=============================================================================
