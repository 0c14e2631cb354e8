------------------------------- MODULE Hydra -------------------------------
(***************************************************************************)
(* hydracom: two programs exchange files over a line, both ways at a time. *)
(* Each keeps a state for what it sends (txstate) and one for what it      *)
(* receives (rxstate); packets of one direction arrive in order, damaged   *)
(* ones are dropped by their checksum.  A batch is one call of hydra() for *)
(* each file and a last one without a file.  Files are counted in blocks.  *)
(* Left out: the chat (device packets), the size of a block (any number up *)
(* to MaxBlocks), and how a packet is coded.                               *)
(***************************************************************************)
EXTENDS Integers, Sequences, SequencesExt, FiniteSets

CONSTANTS
    Peers,       \* the two ends
    Terminals,   \* ends whose hydra() returns when a file is acknowledged
    Files, Size, \* Size[f]: blocks of f
    Links,       \* what the ends bring: batch[p], window, hdx, agree, the blocks
                 \* held[p][f] left of an earlier try, whole[p]; and calm: no faults
    Retries,     \* H_RETRIES
    Fallback,    \* retries before a link goes one-way
    BrainDead,   \* silent periods an end bears
    MaxBlocks,   \* bound: blocks in a DATA packet
    Room,        \* bound: packets on the line
    MaxFaults    \* bound: packets lost or late, disk errors, lost carrier

ASSUME PeersAssumption == /\ Cardinality(Peers) = 2 /\ Terminals \subseteq Peers
ASSUME SizeAssumption  == Size \in [Files -> Nat \ {0}]
ASSUME HBoundsAssumption == {Retries, Fallback, BrainDead, MaxBlocks, Room, MaxFaults} \subseteq Nat

VARIABLES
    link,     \* the ends' batches and options
    peer,     \* the static variables of each end
    line,     \* packets on their way to each end
    held,     \* blocks each end has of a file it receives
    whole,    \* files each end has received under their name
    log,      \* how often each end has logged a file as sent
    skipped,  \* history: files each end went past without sending them
    result,   \* history: how each end's last session ended
    carrier,
    faults

hvars == <<link, peer, line, held, whole, log, skipped, result, carrier, faults>>

Other(p) == CHOOSE q \in Peers : q # p
HFile(f) == [b \in 1..Size[f] |-> <<f, b>>]
HLeast(a, b) == IF a <= b THEN a ELSE b

\* job: the call of hydra() the end is at; the last is without a file.
LastJob(p) == Len(link.batch[p]) + 1
NoFile == "none"
FileOf(p) == IF peer[p].job \in 1 .. LastJob(p) - 1 THEN link.batch[p][peer[p].job] ELSE NoFile

\* A descriptor of the file sent is "none", "open", or "stale": closed, its number kept.
\* That of the file received may have been given the stale number ("same"), and one
\* that was closed under it, or opened for reading, is "dead".
Fresh(p) == [tx |-> "DONE", txpos |-> 0, txfd |-> "none", timer |-> FALSE, tries |-> 0,
             txsync |-> 0, acked |-> 0, rx |-> "INIT", rxfile |-> NoFile, rxfd |-> "none",
             rxpos |-> 0, rxtries |-> 0, rxtimer |-> FALSE, rxlast |-> 0, rxsync |-> 0,
             hdx |-> link.hdx[p], silent |-> 0, job |-> 0, in |-> FALSE]

HInit ==
    /\ link \in Links
    /\ peer = [p \in Peers |-> Fresh(p)]
    /\ line = [p \in Peers |-> <<>>]
    /\ held = link.held
    /\ whole = link.whole
    /\ log = [p \in Peers |-> [f \in Files |-> 0]]
    /\ skipped = [p \in Peers |-> {}]
    /\ result = [p \in Peers |-> "none"]
    /\ carrier = TRUE
    /\ faults = IF link.calm THEN MaxFaults ELSE 0

-----------------------------------------------------------------------------
(* Packets.                                                                 *)

Pkt(t)          == [type |-> t]
At(t, pos)      == [type |-> t, pos |-> pos]
Finfo(f)        == [type |-> "FINFO", file |-> f]
Rpos(pos, sync) == [type |-> "RPOS", pos |-> pos, sync |-> sync]
Data(pos, bs)   == [type |-> "DATA", pos |-> pos, blocks |-> bs]

OnLine(q, pkts) == SubSeq(q \o pkts, 1, HLeast(Room, Len(q) + Len(pkts)))
txpkt(p, pkts)  == line' = [line EXCEPT ![Other(p)] = OnLine(@, pkts)]
Reply(p, pkts)  == line' = [line EXCEPT ![p] = Tail(@), ![Other(p)] = OnLine(@, pkts)]

\* The states that follow from both halves, looked at after every packet.
Idle(r, tx, t) == [r EXCEPT !.tx = tx, !.timer = t, !.tries = IF t THEN @ ELSE 0]
Settled(r) ==
    CASE r.tx \in {"START", "SWAIT"} /\ r.rx = "FINFO" -> Idle(r, "INIT", FALSE)
      [] r.tx = "RINIT" /\ r.rx = "FINFO"              -> Idle(r, "FINFO", FALSE)
      [] r.tx = "XDATA" /\ r.rx # "DONE" /\ r.hdx      -> Idle(r, "XWAIT", TRUE)
      [] r.tx = "XWAIT" /\ r.rx = "DONE"               -> Idle(r, "XDATA", FALSE)
      [] r.tx = "REND" /\ r.rx = "DONE"                -> Idle(r, "END", FALSE)
      [] OTHER -> r
Now(p, r)   == peer' = [peer EXCEPT ![p] = r]
After(p, r) == Now(p, Settled(r))

Abort(r) == [r EXCEPT !.tx = "DONE"]
TooMany(r) == r.tries = Retries
UnsendableKept(r) == [r EXCEPT !.txpos = -2]   \* mutant
Unsendable(r) == [r EXCEPT !.txpos = -2, !.txfd = "none"]
Ends(p, how) == result' = [result EXCEPT ![p] = how]

\* One more fault of the environment.
Fault(n) == faults + n <= MaxFaults /\ faults' = faults + n

-----------------------------------------------------------------------------
(* The calls of hydra().                                                    *)

\* A file is offered, or the end of the batch.  After a session that is over
\* a new one is begun.  A file that cannot be opened is skipped.
Begin(r) == IF r.tx = "DONE"
            THEN [r EXCEPT !.tx = "START", !.rx = "INIT", !.rxfd = "none",
                           !.rxtimer = FALSE, !.silent = 0]
            ELSE [r EXCEPT !.tx = "FINFO"]
Call(p) ==
    LET r == [Begin(peer[p]) EXCEPT !.job = @ + 1, !.timer = FALSE, !.tries = 0, !.txsync = 0]
    IN  /\ ~peer[p].in /\ peer[p].job < LastJob(p)
        /\ \/ /\ Now(p, [r EXCEPT !.in = TRUE,
                                  !.txfd = IF r.job = LastJob(p) THEN "none" ELSE "open"])
              /\ UNCHANGED <<skipped, faults>>
           \/ /\ r.job < LastJob(p) /\ Fault(1)
              /\ Now(p, [r EXCEPT !.txfd = "none"])
              /\ skipped' = [skipped EXCEPT ![p] = @ \cup {link.batch[p][r.job]}]
        /\ UNCHANGED <<link, line, held, whole, log, result, carrier>>

Skips(p, cond) == skipped' = IF cond THEN [skipped EXCEPT ![p] = @ \cup {FileOf(p)}] ELSE skipped

\* hydra_badxfer: what there is of a file is kept for another try, or is not.
BadXfer(p) == \/ held' = held
              \/ /\ peer[p].rxfd # "none"
                 /\ peer[p].rxfile \notin whole[p]
                 /\ held' = [held EXCEPT ![p][peer[p].rxfile] = <<>>]

\* hydra() returns 0 in any case, and the batch goes on; a terminal program
\* ends it when the session was given up.
Leave(p) ==
    LET r == peer[p]
    IN  /\ r.in /\ r.tx = "DONE"
        /\ BadXfer(p)
        /\ Now(p, [Fresh(p) EXCEPT !.hdx = r.hdx, !.rxpos = r.rxpos,
                   !.job = IF p \in Terminals /\ result[p] = "aborted" THEN LastJob(p) ELSE r.job])
        /\ Skips(p, FileOf(p) # NoFile)
        /\ UNCHANGED <<link, line, whole, log, result, carrier, faults>>

-----------------------------------------------------------------------------
(* One round of the loop sends what txstate asks for.                       *)

Send(p, tx, timer, pkts) ==
    /\ peer[p].in
    /\ Now(p, [peer[p] EXCEPT !.tx = tx, !.timer = timer])
    /\ txpkt(p, pkts)
    /\ UNCHANGED <<link, held, whole, log, skipped, result, carrier, faults>>

SendStart(p) == peer[p].tx = "START" /\ Send(p, "SWAIT", TRUE, <<Pkt("START")>>)
SendInit(p)  == peer[p].tx = "INIT" /\ Send(p, "INITACK", TRUE, <<Pkt("INIT")>>)
SendFinfo(p) == peer[p].tx = "FINFO" /\ Send(p, "FINFOACK", TRUE, <<Finfo(FileOf(p))>>)
SendEnd(p)   == peer[p].tx = "END" /\ Send(p, "ENDACK", TRUE, <<Pkt("END"), Pkt("END")>>)

\* With a window the end waits when it is that far ahead of what is acknowledged.
SendData(p) ==
    LET r == peer[p] f == FileOf(p)
    IN  /\ r.in /\ r.tx = "XDATA" /\ r.txpos >= 0 /\ r.txfd = "open"
        /\ \E n \in 1..MaxBlocks :
              LET to == r.txpos + n
                  full == link.window > 0 /\ to >= r.acked + link.window
              IN  /\ to <= Size[f]
                  /\ Now(p, [r EXCEPT !.txpos = to,
                                      !.tx = IF full THEN "DATAACK" ELSE @,
                                      !.timer = IF full THEN TRUE ELSE @])
                  /\ txpkt(p, <<Data(r.txpos, SubSeq(HFile(f), r.txpos + 1, to))>>)
        /\ UNCHANGED <<link, held, whole, log, skipped, result, carrier, faults>>

\* At the end of the file, after a skip, or when it cannot be read.
SendEof(p) ==
    LET r == peer[p]
        Eof(s) == /\ Now(p, [s EXCEPT !.tx = "EOFACK", !.timer = TRUE])
                  /\ txpkt(p, <<At("EOF", s.txpos)>>)
    IN  /\ r.in
        /\ \/ /\ \/ r.tx = "EOF"
                 \/ r.tx = "XDATA" /\ (r.txpos < 0 \/ (r.txfd = "open" /\ r.txpos = Size[FileOf(p)]))
              /\ Eof(r) /\ UNCHANGED faults
           \/ /\ r.tx = "XDATA" /\ r.txpos >= 0
              /\ IF r.txfd = "open" THEN Fault(1) ELSE UNCHANGED faults
              /\ Eof(Unsendable(r))
        /\ UNCHANGED <<link, held, whole, log, skipped, result, carrier>>

-----------------------------------------------------------------------------
(* Packets and events, in the order of process_packets.                     *)

Busy(p) == peer[p].in /\ peer[p].tx # "DONE"
DeadNever(p)      == FALSE   \* mutant
Dead(p) == peer[p].silent = BrainDead /\ line[p] = <<>>
GiveUp(p, how) == Now(p, Abort(peer[p])) /\ Ends(p, how)

\* The carrier is lost, the operator aborts, or nothing has come for two minutes.
Stop(p) ==
    /\ Busy(p)
    /\ \/ /\ ~carrier \/ Dead(p)
          /\ UNCHANGED <<line, faults>>
       \/ Fault(1) /\ IF p \in Terminals THEN txpkt(p, <<Pkt("CANCEL")>>) ELSE UNCHANGED line
    /\ GiveUp(p, "aborted")
    /\ UNCHANGED <<link, held, whole, log, skipped, carrier>>

TimePasses(p) ==
    /\ Busy(p) /\ (\A q \in Peers : line[q] = <<>>) /\ peer[p].silent < BrainDead
    /\ Now(p, [peer[p] EXCEPT !.silent = @ + 1])
    /\ UNCHANGED <<link, line, held, whole, log, skipped, result, carrier, faults>>

\* The timer runs out, of itself or because an answer is late.
Retry == [SWAIT |-> "START", INITACK |-> "INIT", FINFOACK |-> "FINFO",
          DATAACK |-> "XDATA", EOFACK |-> "EOF", ENDACK |-> "END"]
Timeout(p) ==
    LET r == [peer[p] EXCEPT !.silent = HLeast(@ + 1, BrainDead)]
    IN  /\ Busy(p) /\ r.timer
        /\ IF \A q \in Peers : line[q] = <<>> THEN UNCHANGED faults ELSE Fault(1)
        /\ IF r.tx \in {"XWAIT", "REND"}
           THEN After(p, r) /\ txpkt(p, <<Pkt("IDLE")>>) /\ UNCHANGED result
           ELSE /\ UNCHANGED line
                /\ IF TooMany(r) THEN GiveUp(p, "aborted")
                   ELSE /\ After(p, [r EXCEPT !.tries = @ + 1, !.timer = FALSE,
                                    !.tx = IF @ \in DOMAIN Retry THEN Retry[@] ELSE @])
                        /\ UNCHANGED result
        /\ UNCHANGED <<link, held, whole, log, skipped, carrier>>

\* Handling a packet: the state of the end afterwards and its answers.
Got(p, t) == Busy(p) /\ line[p] # <<>> /\ Head(line[p]).type = t
Takes(p, r, pkts) ==
    /\ After(p, r) /\ Reply(p, pkts)
    /\ IF r.tx = "DONE" THEN Ends(p, "aborted") ELSE UNCHANGED result
    /\ UNCHANGED <<link, carrier>>
Quiet == UNCHANGED <<held, whole, log, skipped, faults>>

OnStart(p) ==
    LET r == peer[p]
    IN  /\ Got(p, "START") /\ Quiet
        /\ Takes(p, IF r.tx \in {"START", "SWAIT"}
                    THEN [Idle(r, "INIT", FALSE) EXCEPT !.silent = 0] ELSE r, <<>>)

\* Ends whose options do not agree give up without an answer.
OnInit(p) ==
    LET r == peer[p]
    IN  /\ Got(p, "INIT") /\ Quiet
        /\ IF r.rx = "INIT" /\ ~link.agree
           THEN Takes(p, Abort(r), <<>>)
           ELSE Takes(p, IF r.rx = "INIT" THEN [r EXCEPT !.rx = "FINFO"] ELSE r, <<Pkt("INITACK")>>)

OnInitAck(p) ==
    LET r == peer[p]
    IN  /\ Got(p, "INITACK") /\ Quiet
        /\ Takes(p, IF r.tx \in {"INIT", "INITACK"}
                    THEN [Idle(r, "RINIT", FALSE) EXCEPT !.silent = 0] ELSE r, <<>>)

\* The other end offers a file: one that is here is declined with -1, one there is
\* no room for with -2; else it is taken from where an earlier try left it, which
\* is opened for reading only.
Take(p, r, f) ==
    [r EXCEPT !.rx = "DATA", !.rxfile = f, !.rxpos = Len(held[p][f]), !.rxtries = 0,
              !.rxtimer = FALSE, !.rxlast = 0, !.rxsync = 0,
              !.rxfd = IF held[p][f] # <<>> THEN "dead" ELSE IF r.txfd = "stale" THEN "same" ELSE "own"]
OnFinfo(p) ==
    LET r == [peer[p] EXCEPT !.silent = IF peer[p].rx = "FINFO" THEN 0 ELSE @]
        f == Head(line[p]).file
        Answer(s) == Takes(p, s, <<At("FINFOACK", s.rxpos)>>)
    IN  /\ Got(p, "FINFO")
        /\ CASE r.rx = "FINFO" /\ f = NoFile -> Answer([r EXCEPT !.rxpos = 0, !.rx = "DONE"]) /\ Quiet
             [] r.rx = "FINFO" /\ f # NoFile ->
                  /\ \/ /\ UNCHANGED faults
                        /\ Answer(IF f \in whole[p] THEN [r EXCEPT !.rxpos = -1] ELSE Take(p, r, f))
                     \/ /\ f \notin whole[p] /\ Fault(1) /\ Answer([r EXCEPT !.rxpos = -2])
                  /\ UNCHANGED <<held, whole, log, skipped>>
             [] r.rx = "DONE" -> Answer([r EXCEPT !.rxpos = IF f = NoFile THEN 0 ELSE -2]) /\ Quiet
             [] OTHER -> Answer(r) /\ Quiet

\* hydra() should return when the file is declined or done; it goes on instead,
\* except at a terminal.  After a refusal no timer runs: it is not offered again,
\* and the node goes on in FINFOACK until nothing has come for two minutes.
Return(p, r) == IF p \in Terminals THEN [r EXCEPT !.in = FALSE] ELSE r
Close(r)     == [r EXCEPT !.txfd = "stale", !.rxfd = IF r.txfd = "stale" /\ @ = "same" THEN "dead" ELSE @]

OnFinfoAck(p) ==
    LET r == [peer[p] EXCEPT !.silent = 0, !.tries = 0]
        pos == Head(line[p]).pos
        waits == r.tx \in {"FINFO", "FINFOACK"}
    IN  /\ Got(p, "FINFOACK") /\ UNCHANGED <<held, whole, log, faults>>
        /\ Skips(p, waits /\ FileOf(p) # NoFile /\ pos < 0)
        /\ IF ~waits THEN Takes(p, peer[p], <<>>)
           ELSE IF r.job = LastJob(p) THEN Takes(p, Idle(r, "REND", TRUE), <<>>)
           ELSE IF pos >= 0
           THEN Takes(p, [Idle(r, "XDATA", FALSE) EXCEPT !.txpos = pos, !.acked = pos], <<>>)
           ELSE Takes(p, Return(p, [Close(r) EXCEPT !.txpos = pos, !.timer = FALSE]), <<>>)

FollowsLater(r, pos) == pos >= r.rxpos   \* mutant
Follows(r, pos) == pos = r.rxpos

\* A block that does not follow: go back, once in a period, up to Retries times.
Sending == {"XDATA", "DATAACK", "XWAIT", "EOF", "EOFACK"}
Asked(p, r, pos, oneway) ==
    LET s == [r EXCEPT !.rxlast = pos,
                       !.rxtimer = IF pos <= r.rxlast THEN FALSE ELSE @,
                       !.rxtries = IF pos <= r.rxlast THEN 0 ELSE @]
        u == IF /\ oneway /\ s.rxtries > Fallback /\ s.tx \notin {"REND", "END", "ENDACK"}
                /\ ~link.originator[p] /\ ~s.hdx
             THEN [s EXCEPT !.hdx = TRUE, !.rxtries = 0] ELSE s
        v == [u EXCEPT !.rxtries = @ + 1, !.rxsync = IF u.rxtries = 0 THEN @ + 1 ELSE @, !.rxtimer = TRUE]
    IN  /\ Quiet
        /\ \/ ~s.rxtimer /\ IF u.rxtries = Retries THEN Takes(p, Abort(u), <<>>)
                            ELSE Takes(p, v, <<Rpos(v.rxpos, v.rxsync)>>)
           \/ s.rxtimer /\ Takes(p, s, <<>>)

\* The wait for the sender to go back is over.
RxTimer(p) ==
    /\ Busy(p) /\ peer[p].rxtimer
    /\ Now(p, [peer[p] EXCEPT !.rxtimer = FALSE])
    /\ UNCHANGED <<link, line, held, whole, log, skipped, result, carrier, faults>>

OnData(p) ==
    LET r == peer[p] m == Head(line[p]) to == r.rxpos + Len(m.blocks)
    IN  /\ Got(p, "DATA")
        /\ CASE r.rx # "DATA" -> Takes(p, r, <<>>) /\ Quiet
             [] r.rx = "DATA" /\ ~Follows(r, m.pos) -> Asked(p, r, m.pos, TRUE)
             [] OTHER ->
                  \/ /\ r.rxfd # "dead" /\ UNCHANGED <<whole, log, skipped, faults>>
                     /\ held' = [held EXCEPT ![p][r.rxfile] = @ \o m.blocks]
                     /\ Takes(p, [r EXCEPT !.silent = 0, !.rxtries = 0, !.rxtimer = FALSE,
                                           !.rxlast = r.rxpos, !.rxpos = to],
                              IF link.window > 0 THEN <<At("DATAACK", to)>> ELSE <<>>)
                  \/ /\ IF r.rxfd = "dead" THEN UNCHANGED faults ELSE Fault(1)
                     /\ BadXfer(p) /\ UNCHANGED <<whole, log, skipped>>
                     /\ Takes(p, [r EXCEPT !.silent = 0, !.rxfd = "none", !.rxpos = -2,
                                           !.rxtries = 1, !.rxsync = @ + 1, !.rxtimer = TRUE],
                              <<Rpos(-2, r.rxsync + 1)>>)

OnDataAck(p) ==
    LET r == peer[p] pos == Head(line[p]).pos
        s == [r EXCEPT !.acked = pos]
    IN  /\ Got(p, "DATAACK") /\ Quiet
        /\ Takes(p, IF r.tx \notin Sending \/ link.window = 0 \/ pos <= r.acked THEN r
                    ELSE IF r.tx = "DATAACK" /\ r.txpos < pos + link.window
                    THEN Idle(s, "XDATA", FALSE) ELSE s, <<>>)

\* The receiver asks to go back, or no longer wants the file.
OnRpos(p) ==
    LET r == peer[p] m == Head(line[p])
        s == [r EXCEPT !.txsync = m.sync, !.tries = 1, !.timer = FALSE, !.txpos = m.pos]
        skip == [Unsendable(s) EXCEPT !.tx = IF r.txfd = "none" THEN @ ELSE "EOF"]
    IN  /\ Got(p, "RPOS") /\ Quiet
        /\ CASE r.tx \notin Sending -> Takes(p, r, <<>>)
             [] r.tx \in Sending /\ m.sync = r.txsync ->
                  Takes(p, IF TooMany(r) THEN Abort(r) ELSE [r EXCEPT !.tries = @ + 1], <<>>)
             [] OTHER ->
                  Takes(p, IF m.pos < 0 THEN skip
                           ELSE IF r.txfd # "open" THEN [skip EXCEPT !.tx = "EOF"]
                           ELSE [s EXCEPT !.tx = IF @ = "XWAIT" THEN @ ELSE "XDATA"], <<>>)

\* The file is here under its name when the sender's end is where it should be.
OnEof(p) ==
    LET r == peer[p] pos == Head(line[p]).pos
        over == [r EXCEPT !.rx = "FINFO", !.rxfd = "none", !.silent = 0]
    IN  /\ Got(p, "EOF")
        /\ CASE r.rx # "DATA" ->
                  Takes(p, r, IF r.rx = "FINFO" THEN <<Pkt("EOFACK")>> ELSE <<>>) /\ Quiet
             [] r.rx = "DATA" /\ pos < 0 ->
                  /\ BadXfer(p) /\ UNCHANGED <<whole, log, skipped, faults>>
                  /\ Takes(p, over, <<Pkt("EOFACK")>>)
             [] r.rx = "DATA" /\ pos >= 0 /\ ~Follows(r, pos) -> Asked(p, r, pos, FALSE)
             [] OTHER ->
                  /\ whole' = [whole EXCEPT ![p] = @ \cup {r.rxfile}]
                  /\ UNCHANGED <<held, log, skipped, faults>>
                  /\ Takes(p, over, <<Pkt("EOFACK")>>)

\* The file has arrived; what is logged is charged to the user.
OnEofAck(p) ==
    LET r == peer[p]
        mine == r.tx \in {"EOF", "EOFACK"}
    IN  /\ Got(p, "EOFACK")
        /\ log' = IF mine /\ r.txfd # "none"
                  THEN [log EXCEPT ![p][FileOf(p)] = HLeast(@ + 1, 2)] ELSE log
        /\ Takes(p, IF ~mine THEN r
                    ELSE Return(p, [(IF r.txfd = "none" THEN r ELSE Close(r)) EXCEPT !.silent = 0]), <<>>)
        /\ Skips(p, mine /\ r.txfd = "none")
        /\ UNCHANGED <<held, whole, faults>>

OnIdle(p) ==
    LET r == peer[p]
    IN  /\ Got(p, "IDLE") /\ Quiet
        /\ Takes(p, CASE r.tx = "XWAIT" -> Idle([r EXCEPT !.hdx = FALSE], "XDATA", FALSE)
                      [] r.tx \in (Sending \cup {"FINFO", "FINFOACK"}) \ {"XWAIT"} -> [r EXCEPT !.silent = 0]
                      [] OTHER -> r, <<>>)

OnEnd(p) ==
    LET r == peer[p] mine == r.tx \in {"END", "ENDACK"}
    IN  /\ Got(p, "END") /\ Quiet /\ UNCHANGED <<link, carrier>>
        /\ IF mine
           THEN Now(p, [r EXCEPT !.tx = "DONE"]) /\ Ends(p, "completed")
                /\ Reply(p, <<Pkt("END"), Pkt("END"), Pkt("END")>>)
           ELSE After(p, r) /\ Reply(p, <<>>) /\ UNCHANGED result

OnCancel(p) == Got(p, "CANCEL") /\ Takes(p, Abort(peer[p]), <<>>) /\ Quiet

-----------------------------------------------------------------------------
(* The line, and the behaviours.                                            *)

\* A packet is damaged, its checksum fails; or the end it goes to is not there.
LosePacket(p) ==
    /\ line[p] # <<>>
    /\ IF Busy(p) THEN Fault(1) ELSE UNCHANGED faults
    /\ line' = [line EXCEPT ![p] = Tail(@)]
    /\ UNCHANGED <<link, peer, held, whole, log, skipped, result, carrier>>

LoseCarrier == /\ carrier /\ Fault(1)
               /\ carrier' = FALSE
               /\ UNCHANGED <<link, peer, line, held, whole, log, skipped, result>>

Sends(p) == SendStart(p) \/ SendInit(p) \/ SendFinfo(p) \/ SendData(p) \/ SendEof(p) \/ SendEnd(p)
Receives(p) == \/ OnStart(p) \/ OnInit(p) \/ OnInitAck(p) \/ OnFinfo(p) \/ OnFinfoAck(p) \/ OnData(p)
               \/ OnDataAck(p) \/ OnRpos(p) \/ OnEof(p) \/ OnEofAck(p) \/ OnIdle(p) \/ OnEnd(p) \/ OnCancel(p)
Calls(p) == Call(p) \/ Leave(p)

HNext == LoseCarrier \/ \E p \in Peers : \/ Calls(p) \/ Sends(p) \/ Receives(p) \/ Stop(p) \/ TimePasses(p)
                                         \/ Timeout(p) \/ RxTimer(p) \/ LosePacket(p)

\* Each end runs, its clock too, and what no end takes is lost.
HFair == \A p \in Peers :
    /\ WF_hvars(Calls(p)) /\ WF_hvars(Sends(p)) /\ WF_hvars(Receives(p)) /\ WF_hvars(RxTimer(p))
    /\ WF_hvars(~carrier /\ Stop(p)) /\ WF_hvars(faults' = faults /\ Stop(p)) /\ WF_hvars(TimePasses(p))
    /\ WF_hvars(faults' = faults /\ Timeout(p)) /\ WF_hvars(~Busy(p) /\ LosePacket(p))

HSpec == HInit /\ [][HNext]_hvars /\ HFair

-----------------------------------------------------------------------------
(* Correctness.                                                             *)

\* The variables keep their types, counters their limits, and no packet is of
\* a type no handler knows.
Packets == {Pkt(t) : t \in {"START", "INIT", "INITACK", "EOFACK", "IDLE", "END", "CANCEL"}}
Typed(m) == \/ m \in Packets
            \/ m.type = "FINFO" /\ m.file \in Files \cup {NoFile}
            \/ m.type \in {"FINFOACK", "EOF", "DATAACK", "RPOS"} /\ m.pos \in Int
            \/ m.type = "DATA" /\ m.pos \in Nat /\ m.blocks \in Seq(Files \X Nat)
HTypeOK ==
    \A p \in Peers :
        LET r == peer[p]
        IN  /\ r.tx \in {"DONE", "START", "INIT", "RINIT", "FINFO", "XDATA", "XWAIT", "EOF", "REND", "END"}
                        \cup DOMAIN Retry
            /\ r.rx \in {"INIT", "FINFO", "DATA", "DONE"}
            /\ r.txfd \in {"none", "open", "stale"} /\ r.rxfd \in {"none", "own", "same", "dead"}
            /\ {r.tries, r.rxtries} \subseteq 0..Retries
            /\ {r.txpos, r.rxpos} \subseteq Int
            /\ \A i \in DOMAIN line[p] : Typed(line[p][i])
            /\ whole[p] \subseteq Files /\ faults \in 0..MaxFaults

\* In either direction a file grows in order, gets its name only when it is
\* whole, and is logged as sent, and charged to the user, only after that,
\* whatever the line loses and however late answers are.
Copies == Peers \X Files   \* a file at the end it is sent to
Way == INSTANCE Transfer WITH Content <- [c \in Copies |-> HFile(c[2])],
                              held <- [c \in Copies |-> held[c[1]][c[2]]],
                              whole <- {c \in Copies : c[2] \in whole[c[1]]},
                              logged <- {c \in Copies : log[Other(c[1])][c[2]] > 0}
HDelivers == Way!TSpec

\* An end that says "completed" speaks for both: each file of both batches has
\* arrived or was passed over by its sender.
CompletedMeansAll ==
    \A p \in Peers : result[p] = "completed" =>
        \A q \in Peers : \A i \in DOMAIN link.batch[q] :
            link.batch[q][i] \in whole[Other(q)] \cup skipped[q]

\* Whatever is lost, both programs come to an end: the node gets its line back.
HEnds == \A p \in Peers : <>[](~peer[p].in /\ peer[p].job = LastJob(p))

\* "File was sent, continue transfer": no end gives up on a file the other has
\* acknowledged.
SentGoesOn == [][\A p \in Peers : Busy(p) /\ peer'[p].tx = "DONE" /\ faults' = 0
                    => FileOf(p) = NoFile \/ log[p][FileOf(p)] = 0]_hvars
=============================================================================
