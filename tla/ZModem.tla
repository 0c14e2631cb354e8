------------------------------- MODULE ZModem -------------------------------
(***************************************************************************)
(* ddsz sends a list of files to ddrz.  The receiver leads: it asks for a  *)
(* position (ZRPOS) and asks again when something is missing.  Packets of  *)
(* one direction arrive in order; a damaged one is lost or seen to be bad. *)
(* Files are counted in blocks of 1024 bytes.  Left out: XMODEM, YMODEM,   *)
(* the size of a subpacket, windows (never asked for by the node).         *)
(***************************************************************************)
EXTENDS Integers, Sequences

CONSTANTS
    Files, Size,  \* Size[f]: blocks of f
    Links,        \* sessions: list of files, those the receiver has elsewhere (there),
                  \* blocks held of an earlier try, whether the sender maps its files
                  \* (HAVE_MMAP), whether answers may be late, and calm: no faults
    ClosedTwice,  \* what closing a file twice does: "stop", "error", "again"
    Tries,        \* calls for a file (15), for a position (20), for the end (3)
    Window,       \* bound: packets to the receiver
    MaxFaults     \* bound: damaged, lost or late packets, disk errors, lost carrier

VARIABLES
    link,
    s,         \* the sender
    r,         \* the receiver
    toR, toS,  \* the line
    held,      \* what the receiver's directory has of each file
    whole,     \* files closed in full
    slog,      \* how often the sender has logged a file
    rlog,      \* how often the receiver has logged a file as received
    passed,    \* history: files the sender passed over
    declined,  \* history: files the receiver declined
    misled,    \* history: a refusal was taken for that of a file not declined
    carrier, faults

zvars == <<link, s, r, toR, toS, held, whole, slog, rlog, passed, declined, misled, carrier, faults>>
logs  == <<slog, rlog>>
disk  == <<held, whole>>
told  == <<passed, declined, misled>>

NoFile == "none"
ZFile(f) == [b \in 1..Size[f] |-> <<f, b>>]

ASSUME ZSizeAssumption == Size \in [Files -> Nat \ {0}] /\ NoFile \notin Files
ASSUME TriesAssumption == Tries \in [call : Nat \ {0}, pos : Nat, fin : Nat \ {0}]

\* No list names a file twice; what is held of an earlier try is the beginning of the file.
ASSUME LinksAssumption ==
    \A l \in Links :
        /\ l.list \in Seq(Files)
        /\ \A i, j \in DOMAIN l.list : l.list[i] = l.list[j] => i = j
        /\ l.held \in [Files -> Seq(Files \X Nat)]
        /\ \A f \in Files : \E n \in 0..Size[f] : l.held[f] = SubSeq(ZFile(f), 1, n)

ZFault == faults < MaxFaults /\ faults' = faults + 1
Late == link.late /\ ZFault

\* fd: the sender's file is "none", "open" or "mapped" (and closed); the receiver's
\* "none", "open", "bad" (a write has failed) or "closed".
ZInit ==
    /\ link \in Links
    /\ s = [st |-> "init", job |-> 0, pos |-> 0, fd |-> "none", drain |-> FALSE, tail |-> FALSE,
            tries |-> Tries.call, opened |-> FALSE]
    /\ r = [st |-> "try", hdr |-> "ZRINIT", file |-> NoFile, name |-> NoFile, pos |-> 0,
            fd |-> "none", tries |-> Tries.call]
    /\ toR = <<[type |-> "ZRQINIT"]>> /\ toS = <<[type |-> "ZRINIT"]>>
    /\ held = link.held
    /\ whole = {} /\ passed = {} /\ declined = {} /\ misled = FALSE
    /\ slog = [f \in Files |-> 0] /\ rlog = [f \in Files |-> 0]
    /\ carrier = TRUE
    /\ faults = IF link.calm THEN MaxFaults ELSE 0

Hdr(t)      == [type |-> t]
HdrAt(t, n) == [type |-> t, pos |-> n]
Sub(bs, e)  == [type |-> "SUB", blocks |-> bs, end |-> e]

Over(x) == x.st \in {"ok", "failed", "killed"}
Put(q, x, pkts) == IF carrier /\ ~Over(x) THEN q \o pkts ELSE <<>>
Current == link.list[s.job]
ZLeast(a, b) == IF a <= b THEN a ELSE b

-----------------------------------------------------------------------------
(* The sender.                                                              *)

\* A step of the sender that leaves rest of toS unread; between blocks a complaint
\* makes it throw away what is not out yet.
Between == s.st \in {"data", "sent", "sync"}
Out == IF Between /\ toS # <<>> /\ Head(toS).type \notin {"ZACK", "ZNAK", "BAD"}
       THEN {SubSeq(toR, 1, n) \o <<Sub(<<>>, "E")>> : n \in 0..Len(toR)} ELSE {toR}
Sends(x, rest, pkts) ==
    /\ s' = x
    /\ toS' = IF Over(x) THEN <<>> ELSE rest
    /\ \E q \in IF rest = toS THEN {toR} ELSE Out : toR' = Put(q, r, pkts)
    /\ UNCHANGED <<link, r, disk, rlog, declined, carrier>>
NoLog == UNCHANGED slog
Silent == toS = <<>>

ZFILE(f) == [type |-> "ZFILE", file |-> f]
FailedWell(x)  == [x EXCEPT !.st = "ok"]   \* mutant
Failed(x) == [x EXCEPT !.st = "failed"]
Fails(rest) == Sends(Failed(s), rest, <<Hdr("CAN")>>) /\ NoLog

\* The next file of the list that can be opened is offered; at the end of the
\* list a goodbye, or a command when no file could be opened.
NextFile(n) == {k \in n .. Len(link.list) + 1 : k = n \/ faults < MaxFaults}
Offered(x, k) ==
    IF k <= Len(link.list)
    THEN [x EXCEPT !.st = "file", !.job = k, !.drain = FALSE, !.tail = FALSE, !.opened = TRUE,
                   !.fd = "open"]
    ELSE [x EXCEPT !.st = IF x.opened THEN "fin" ELSE "cmd", !.job = k, !.drain = FALSE, !.tries = Tries.call]
Offer(k) == IF k <= Len(link.list) THEN <<ZFILE(link.list[k])>>
            ELSE IF s.opened THEN <<Hdr("ZFIN")>> ELSE <<Hdr("ZCOMMAND")>>
GoOn(refused) ==
    \E k \in NextFile(s.job + 1) :
        /\ Sends(Offered(s, k), Tail(toS), Offer(k))
        /\ passed' = passed \cup refused \cup {link.list[i] : i \in s.job + 1 .. k - 1}
        /\ misled' = (misled \/ ~(refused \subseteq declined))
        /\ IF k = s.job + 1 THEN UNCHANGED faults ELSE ZFault

Hears(t) == ~Silent /\ Head(toS).type = t
HearsOf(T) == ~Silent /\ Head(toS).type \in T
Keep == UNCHANGED <<passed, misled, faults>>

\* getzrxinit: the receiver is there.
Initialised == Hears("ZRINIT") /\ GoOn({})

\* getnak: wait for the receiver.
SendInit ==
    /\ s.st = "init" /\ NoLog
    /\ \/ Initialised
       \/ /\ ~Silent /\ ~HearsOf({"ZRINIT", "CAN"}) /\ Keep
          /\ IF s.tries = 1 THEN Fails(Tail(toS))
             ELSE Sends([s EXCEPT !.tries = @ - 1], Tail(toS), <<Hdr("ZNAK")>>)

\* zsendfile: offer the file until the receiver says where to begin.
SendFile ==
    LET offer == <<ZFILE(Current)>>
    IN  /\ s.st = "file" /\ NoLog
        /\ \/ Hears("ZRINIT") /\ Sends([s EXCEPT !.drain = TRUE], Tail(toS), <<>>) /\ Keep
           \/ Hears("ZSKIP") /\ GoOn({Current})
           \/ Hears("ZRPOS") /\ Sends([s EXCEPT !.st = "head", !.drain = FALSE, !.pos = Head(toS).pos,
                                                !.fd = IF link.mapped THEN "mapped" ELSE "open"],
                                      Tail(toS), <<>>) /\ Keep
           \/ Hears("ZFIN") /\ Fails(Tail(toS)) /\ Keep
           \/ HearsOf({"ZACK", "ZNAK", "BAD"}) /\ Sends(s, Tail(toS), offer) /\ Keep
           \/ /\ s.drain /\ IF Silent /\ toR = <<>> THEN UNCHANGED faults ELSE Late
              /\ Sends([s EXCEPT !.drain = FALSE], toS, offer) /\ UNCHANGED <<passed, misled>>

\* zsendfdata: a header, then blocks; the last one ends the frame.  When the
\* back channel is noisy each block waits for its answer.
SendHead == /\ s.st = "head" /\ Keep /\ NoLog
            /\ Sends([s EXCEPT !.st = "data"], toS, <<HdrAt("ZDATA", s.pos)>>)
SendData ==
    LET to   == ZLeast(s.pos + 1, Size[Current])
        part == SubSeq(ZFile(Current), s.pos + 1, to)
        x    == [s EXCEPT !.pos = IF to > @ \/ link.mapped THEN to ELSE @]
    IN  /\ s.st = "data" /\ Len(toR) < Window /\ NoLog /\ UNCHANGED <<passed, misled>>
        /\ \/ /\ to = Size[Current] /\ UNCHANGED faults
              /\ Sends([x EXCEPT !.st = "sent", !.tail = TRUE], toS, <<Sub(part, "E")>>)
           \/ /\ to < Size[Current] /\ UNCHANGED faults
              /\ Sends(x, toS, <<Sub(part, "G")>>)
           \/ /\ to < Size[Current] /\ ZFault
              /\ Sends([x EXCEPT !.st = "ack"], toS, <<Sub(part, "W")>>)

\* The file is logged when its last block is out, before ZEOF is answered.
LogSent == slog' = [slog EXCEPT ![Current] = ZLeast(@ + 1, 2)]
SendEof == /\ s.st = "sent" /\ Keep
           /\ Sends([s EXCEPT !.st = "eof"], toS, <<HdrAt("ZEOF", s.pos)>>)
           /\ LogSent

\* getinsync: the receiver's complaint, between blocks or while an answer is due.
\* A mapped file is closed, and clearerr() of a closed file kills the program.
Back(pos) == IF s.fd = "mapped" THEN Sends([s EXCEPT !.st = "killed"], <<>>, <<>>)
             ELSE Sends([s EXCEPT !.st = "head", !.pos = pos, !.tail = FALSE], Tail(toS), <<>>)
InSync ==
    /\ Between \/ s.st \in {"ack", "eof"}
    /\ NoLog
    /\ \/ Hears("ZRPOS") /\ Back(Head(toS).pos) /\ Keep
       \/ Hears("ZRINIT") /\ GoOn({})
       \/ Hears("ZSKIP") /\ GoOn({Current})
       \/ Hears("ZFIN") /\ Fails(Tail(toS)) /\ Keep
       \/ /\ HearsOf({"ZNAK", "BAD"}) /\ Keep
          /\ Sends([s EXCEPT !.st = IF Between THEN "sync" ELSE @], Tail(toS), <<Hdr("ZNAK")>>)
       \/ /\ Hears("ZACK") /\ Keep
          /\ IF Between THEN Sends([s EXCEPT !.st = IF s.tail THEN "sent" ELSE "data"], Tail(toS), <<>>)
             ELSE IF Head(toS).pos # s.pos THEN Sends(s, Tail(toS), <<>>)
             ELSE IF s.st = "ack" THEN Sends([s EXCEPT !.st = "head"], Tail(toS), <<>>)
             ELSE Sends(s, Tail(toS), <<HdrAt("ZEOF", s.pos)>>)

\* saybibi, zsendcmd.
SendFin ==
    /\ s.st = "fin" /\ ~Silent /\ Keep /\ NoLog
    /\ IF HearsOf({"ZFIN", "CAN"})
       THEN Sends([s EXCEPT !.st = "ok"], <<>>, IF Hears("ZFIN") THEN <<Hdr("OO")>> ELSE <<>>)
       ELSE Sends(s, Tail(toS), <<Hdr("ZFIN")>>)
SendCommand ==
    /\ s.st = "cmd" /\ ~Silent /\ Keep /\ NoLog
    /\ CASE Hears("ZRINIT") -> Sends(s, Tail(toS), <<>>)
         [] Hears("ZCOMPL") -> Sends([s EXCEPT !.st = "fin"], Tail(toS), <<Hdr("ZFIN")>>)
         [] HearsOf({"CAN", "ZFIN", "ZSKIP", "ZRPOS"}) -> Fails(Tail(toS))
         [] OTHER -> IF s.tries = 1 THEN Fails(Tail(toS))
                     ELSE Sends([s EXCEPT !.tries = @ - 1], Tail(toS), <<Hdr("ZCOMMAND")>>)

SendCancelled == /\ ~Over(s) /\ s.st # "fin" /\ Hears("CAN") /\ Keep
                 /\ Fails(Tail(toS))

\* The sender waits six times as long as the receiver: by itself it gives up
\* only when the receiver is gone.
SendTimeout ==
    /\ s.st \in {"init", "file", "sync", "ack", "eof", "fin", "cmd"}
    /\ IF Silent /\ (Over(r) \/ ~carrier) THEN UNCHANGED faults ELSE Late
    /\ UNCHANGED <<passed, misled>>
    /\ IF s.st = "fin" THEN Sends([s EXCEPT !.st = "ok"], <<>>, <<>>) /\ NoLog
       ELSE IF s.st = "cmd" /\ s.tries > 1
            THEN Sends([s EXCEPT !.tries = @ - 1], toS, <<Hdr("ZCOMMAND")>>) /\ NoLog
            ELSE Fails(toS)

-----------------------------------------------------------------------------
(* The receiver.                                                            *)

Answers(x, rest, pkts) ==
    /\ r' = x
    /\ toR' = IF Over(x) THEN <<>> ELSE rest
    /\ toS' = Put(toS, s, pkts)
    /\ UNCHANGED <<link, s, slog, passed, misled, carrier>>
NoFileStep == UNCHANGED <<disk, rlog, declined>>
Gets(t) == toR # <<>> /\ Head(toR).type = t
Rest == Tail(toR)

\* rzfile asks for the position it is at.
Wanted(x) == <<HdrAt("ZRPOS", x.pos)>>
Asks(x, rest) == Answers([x EXCEPT !.st = "head"], rest, Wanted(x))

\* closeit at the end of a failed session: the file may be closed already.
Unlinked(f) == held' = [held EXCEPT ![f] = <<>>] /\ whole' = whole \ {f}
LogReceived == rlog' = IF r.name = NoFile THEN rlog ELSE [rlog EXCEPT ![r.name] = ZLeast(@ + 1, 2)]
Quit(rest) ==
    /\ Answers([r EXCEPT !.st = "failed", !.fd = "none"], rest, <<Hdr("CAN")>>)
    /\ UNCHANGED declined
    /\ CASE r.fd \in {"none", "open"} -> UNCHANGED <<disk, rlog>>
         [] r.fd = "bad" -> Unlinked(r.file) /\ UNCHANGED rlog
         [] r.fd = "closed" -> \/ "stop" \in ClosedTwice /\ UNCHANGED <<disk, rlog>>
                               \/ "again" \in ClosedTwice /\ LogReceived /\ UNCHANGED disk
                               \/ "error" \in ClosedTwice /\ Unlinked(r.file) /\ UNCHANGED rlog

AgainForEver(rest) == Asks(r, rest) /\ NoFileStep   \* mutant
\* Something is missing or damaged: ask again, up to Tries.pos times in a row.
Again(rest) == IF r.tries = 0 THEN Quit(rest)
               ELSE Asks([r EXCEPT !.tries = @ - 1], rest) /\ NoFileStep

\* tryz: call for a file.
Call(x) == [x EXCEPT !.st = "try", !.tries = Tries.call, !.hdr = "ZRINIT"]
CallAgain(rest) ==
    IF r.tries = 1 THEN Quit(rest)
    ELSE Answers([r EXCEPT !.tries = @ - 1, !.hdr = "ZRINIT"], rest, <<Hdr("ZRINIT")>>) /\ NoFileStep

\* findfile: the file is on line in one of the directories of the conference, and no part of
\* it is here to go on with.
Elsewhere(f) == held[f] = <<>> /\ f \in link.there

\* procheader: a file that is here is resumed after its whole blocks, with one bit of the
\* size cleared.
Resume(k) == k - (k % 2)
Take(f) ==
    IF held[f] # <<>>
    THEN [r EXCEPT !.file = f, !.pos = Resume(Len(held[f])), !.fd = "open", !.tries = Tries.pos]
    ELSE [r EXCEPT !.file = f, !.name = f, !.pos = 0, !.fd = "open", !.tries = Tries.pos]
TryFile ==
    LET f == Head(toR).file
    IN  /\ r.st = "try" /\ Gets("ZFILE")
        /\ UNCHANGED <<disk, rlog, faults>>
        /\ IF Elsewhere(f)
           THEN /\ declined' = declined \cup {f}
                /\ Answers([Call(r) EXCEPT !.fd = "none"], Rest, <<Hdr("ZSKIP")>>)
           ELSE Asks(Take(f), Rest) /\ UNCHANGED declined

TryOther ==
    /\ r.st = "try" /\ toR # <<>> /\ ~Gets("ZFILE") /\ UNCHANGED faults
    /\ CASE Gets("ZFIN") -> /\ NoFileStep
                            /\ Answers([r EXCEPT !.st = "fin", !.tries = Tries.fin], <<>>, <<Hdr("ZFIN")>>)
         [] Gets("ZCOMMAND") -> Answers([r EXCEPT !.st = "ok"], Rest, <<Hdr("ZCOMPL")>>) /\ NoFileStep
         [] Gets("CAN") -> Quit(Rest)
         [] Gets("SUB") -> CallAgain(Rest) \/ (Answers(r, Rest, <<>>) /\ NoFileStep)
         [] Gets("BAD") -> CallAgain(Rest) \/ (Answers(r, Rest, <<Hdr("ZNAK")>>) /\ NoFileStep)
         [] OTHER -> CallAgain(Rest)

InPlaceOrLater(pos) == pos >= r.pos   \* mutant
\* rzfile between frames.
InPlace(pos) == pos = r.pos
RecvHead ==
    /\ r.st = "head" /\ toR # <<>> /\ UNCHANGED faults
    /\ CASE Gets("ZFILE") -> Asks(r, Rest) /\ NoFileStep
         [] Gets("ZNAK") -> IF r.tries = 0 THEN Quit(Rest)
                            ELSE Answers([r EXCEPT !.tries = @ - 1, !.st = "eat"], Rest, <<>>) /\ NoFileStep
         [] Gets("ZDATA") -> IF ~InPlace(Head(toR).pos) THEN Again(Rest)
                             ELSE Answers([r EXCEPT !.st = "data"], Rest, <<>>) /\ NoFileStep
         [] Gets("SUB") -> (Answers(r, Rest, <<>>) /\ NoFileStep) \/ Again(Rest)
         [] Gets("BAD") -> Again(Rest)
         [] Gets("ZEOF") /\ ~InPlace(Head(toR).pos) -> Answers(r, Rest, <<>>) /\ NoFileStep
         [] Gets("ZEOF") /\ InPlace(Head(toR).pos) /\ r.fd = "bad" ->
              /\ Unlinked(r.file) /\ UNCHANGED declined
              /\ \/ "again" \in ClosedTwice /\ LogReceived
                 \/ ClosedTwice # {"again"} /\ UNCHANGED rlog
              /\ Answers([r EXCEPT !.st = "failed", !.fd = "none"], Rest, <<Hdr("CAN")>>)
         [] Gets("ZEOF") /\ InPlace(Head(toR).pos) /\ r.fd = "open" ->
              /\ whole' = whole \cup {r.file}
              /\ LogReceived /\ UNCHANGED <<held, declined>>
              /\ Answers([Call(r) EXCEPT !.fd = "closed"], Rest, <<Hdr("ZRINIT")>>)
         [] OTHER -> Quit(Rest)

\* A block is written where the file is; a failed write shows when it is closed.
Written(bs) ==
    LET h == held[r.file]
    IN  [held EXCEPT ![r.file] = SubSeq(h, 1, r.pos) \o bs \o SubSeq(h, r.pos + Len(bs) + 1, Len(h))]
RecvData ==
    LET m == Head(toR)
        x == [r EXCEPT !.pos = @ + Len(m.blocks), !.tries = Tries.pos,
                       !.st = IF m.end = "G" THEN "data" ELSE "head"]
        ack == IF m.end = "W" THEN <<HdrAt("ZACK", x.pos)>> ELSE <<>>
    IN  /\ r.st = "data" /\ toR # <<>>
        /\ CASE Gets("CAN") -> Quit(Rest) /\ UNCHANGED faults
             [] Gets("SUB") ->
                  /\ UNCHANGED <<whole, rlog, declined>>
                  /\ \/ /\ held' = IF r.fd = "bad" THEN held ELSE Written(m.blocks)
                        /\ Answers(x, Rest, ack) /\ UNCHANGED faults
                     \/ /\ r.fd = "open" /\ m.blocks # <<>> /\ ZFault /\ UNCHANGED held
                        /\ Answers([x EXCEPT !.fd = "bad"], Rest, ack)
             [] OTHER -> Again(Rest) /\ UNCHANGED faults

\* After ZNAK or a timeout what comes next is read as data and thrown away.
Eat ==
    /\ r.st = "eat" /\ toR # <<>> /\ UNCHANGED faults /\ NoFileStep
    /\ IF Head(toR).type \in {"SUB", "ZFILE", "BAD", "CAN"} THEN Asks(r, Rest) ELSE Answers(r, Rest, <<>>)

\* ackbibi: three times, and the session is over in any case.
RecvFin ==
    /\ r.st = "fin" /\ toR # <<>> /\ UNCHANGED faults /\ NoFileStep
    /\ IF Gets("OO") \/ r.tries = 1 THEN Answers([r EXCEPT !.st = "ok"], <<>>, <<>>)
       ELSE Answers([r EXCEPT !.tries = @ - 1], <<>>, <<Hdr("ZFIN")>>)

RecvTimeout ==
    /\ ~Over(r)
    /\ IF toR = <<>> /\ (~carrier \/ Over(s) \/ (s.st \notin {"head", "data", "sent"} /\ ~s.drain /\ Silent))
       THEN UNCHANGED faults ELSE Late
    /\ \/ r.st = "try" /\ CallAgain(toR)
       \/ /\ r.st = "head"
          /\ IF r.tries = 0 THEN Quit(toR)
             ELSE Answers([r EXCEPT !.tries = @ - 1, !.st = "eat"], toR, <<>>) /\ NoFileStep
       \/ r.st = "data" /\ Again(toR)
       \/ r.st = "eat" /\ Asks(r, toR) /\ NoFileStep
       \/ /\ r.st = "fin" /\ NoFileStep
          /\ IF r.tries = 1 THEN Answers([r EXCEPT !.st = "ok"], <<>>, <<>>)
             ELSE Answers([r EXCEPT !.tries = @ - 1], <<>>, <<Hdr("ZFIN")>>)

-----------------------------------------------------------------------------
(* The line, and the behaviours.                                            *)

\* A damaged header is not seen at all, or its checksum is wrong, as a block's is.
Hurt(q) == {<<Hdr("BAD")>> \o Tail(q)} \cup IF Head(q).type \in {"SUB", "BAD"} THEN {} ELSE {Tail(q)}
Noise == /\ ZFault
         /\ \/ toR # <<>> /\ toR' \in Hurt(toR) /\ toS' = toS
            \/ toS # <<>> /\ toS' \in Hurt(toS) /\ toR' = toR
         /\ UNCHANGED <<link, s, r, disk, logs, told, carrier>>

ZLoseCarrier == /\ carrier /\ ZFault
                /\ carrier' = FALSE /\ toR' = <<>> /\ toS' = <<>>
                /\ UNCHANGED <<link, s, r, disk, logs, told>>

Sender == \/ SendInit \/ SendFile \/ SendHead \/ SendData \/ SendEof \/ InSync
          \/ SendFin \/ SendCommand \/ SendCancelled \/ SendTimeout
Receiver == TryFile \/ TryOther \/ RecvHead \/ RecvData \/ Eat \/ RecvFin \/ RecvTimeout

ZNext == Sender \/ Receiver \/ Noise \/ ZLoseCarrier

\* Both programs run, and their clocks.
ZFair == WF_zvars(faults' = faults /\ Sender) /\ WF_zvars(faults' = faults /\ Receiver)

ZSpec == ZInit /\ [][ZNext]_zvars /\ ZFair

-----------------------------------------------------------------------------
(* Correctness.                                                             *)

\* The variables keep their types; every packet is one its reader knows.
ZTypeOK ==
    /\ s.st \in {"init", "file", "head", "data", "sent", "sync", "ack", "eof", "fin", "cmd",
                "ok", "failed", "killed"}
    /\ s.job \in 0 .. Len(link.list) + 1 /\ s.pos \in Nat /\ s.tries \in 1..Tries.call
    /\ r.st \in {"try", "head", "data", "eat", "fin", "ok", "failed"}
    /\ r.file \in Files \cup {NoFile} /\ r.fd \in {"none", "open", "bad", "closed"}
    /\ r.st \in {"head", "data", "eat"} => r.fd \in {"open", "bad"} /\ r.pos \in 0..Size[r.file]
    /\ r.tries \in 0 .. Tries.call + Tries.pos
    /\ \A i \in DOMAIN toS : toS[i].type \in
          {"ZRINIT", "ZSKIP", "ZRPOS", "ZACK", "ZNAK", "ZFIN", "ZCOMPL", "CAN", "BAD"}
    /\ \A i \in DOMAIN toR : toR[i].type \in
          {"ZRQINIT", "ZFILE", "ZDATA", "SUB", "ZEOF", "ZNAK", "ZFIN", "ZCOMMAND", "OO", "CAN", "BAD"}
    /\ faults \in 0..MaxFaults

\* Whatever is damaged, lost or late, a file grows in the sender's order, is
\* closed as received only when it is whole, and only then logged; until a
\* refusal is taken for that of another file, when a file may get the next
\* one's blocks.
Way == INSTANCE Transfer WITH Content <- [f \in Files |-> ZFile(f)],
                              logged <- {f \in Files : rlog[f] > 0}
ZDelivers == Way!TInit /\ [][misled \/ Way!TNext]_(Way!tvars)

\* A sender that ends well, and was not misled, has got each file of its list
\* across, or the receiver declined it, or it could not be opened; what it logged,
\* and the user is charged for, has arrived.
OkMeansAll ==
    s.st = "ok" /\ ~misled => \A i \in DOMAIN link.list :
        \/ link.list[i] \in whole
        \/ link.list[i] \in passed /\ slog[link.list[i]] = 0

\* "Don't skip too far": a file is passed over only when the receiver declined it.
SkipsNoFurther == ~misled

\* Both programs end, and the node gets its line back.
ZEnds == <>(Over(s) /\ Over(r))

\* "Respond to receiver's complaint, get back in sync with receiver".
ComplaintsAnswered == s.st # "killed"
=============================================================================
