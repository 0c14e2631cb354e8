------------------------------- MODULE Telnet -------------------------------
(***************************************************************************)
(* The telnet daemon before and behind a node: what each side of the       *)
(* connection may do is agreed upon option by option, both sides may ask   *)
(* at any time, and requests and answers look the same.  The daemon first  *)
(* waits for some of the answers, with no limit of time, then starts the   *)
(* BBS and passes data both ways.                                          *)
(*                                                                         *)
(* A side of an option is "mine" for the end that would do it (WILL, WONT) *)
(* and "his" for the other (DO, DONT).  Terminal modes other than the      *)
(* stripping of the eighth bit, and what suboptions say, are left out.     *)
(***************************************************************************)
EXTENDS Naturals, Sequences, SequencesExt

CONSTANTS
    Opts,       \* the options used here, of those the daemon knows
    Terms,      \* of these, a sequence: asked to be told by suboption
    Clients,    \* what a client may be able to do and to let be done, by side, and ignores
    Volunteers, \* what it asks for unasked
    MaxAsks,    \* bound: how often
    MaxData     \* bound: data sent by the BBS

Sides == {"mine", "his"}
Other(s) == IF s = "mine" THEN "his" ELSE "mine"

\* What willoption and dooption say yes to.
Accepted ==
    [mine |-> {"ECHO", "BINARY", "SGA", "STATUS"},
     his |-> {"BINARY", "LFLOW", "SGA", "NAWS"} \cup {Terms[i] : i \in DOMAIN Terms}]

VARIABLES
    pc, k,      \* of the daemon: where its start is, and at which of Terms
    more,       \* what was read has not all been looked at
    srv, cl,    \* options of the daemon and of the client: on, want, and requests under way
    got,        \* Terms the client has told, or turned off
    sga,        \* turn_on_sga
    strip,      \* the terminal takes 7 bits
    notice,     \* the caller was told that transfers will fail
    s2c, c2s,   \* the connection
    able,       \* which client this is
    raw,        \* the client takes data as they are
    asks, sent, garbled   \* history: asked by the client, data sent, data taken wrongly

client == <<cl, able, raw, asks, garbled>>
daemon == <<pc, k, more, srv, got, sga, strip, notice, sent>>
vars == <<client, daemon, s2c, c2s>>

Off == [on |-> FALSE, want |-> FALSE, resp |-> 0]

Init ==
    /\ pc = "start" /\ k = 1 /\ more = FALSE
    /\ srv = [s \in Sides |-> [o \in Opts |-> Off]] /\ cl = srv
    /\ got = {} /\ sga = FALSE /\ strip = FALSE /\ notice = FALSE
    /\ able \in Clients
    /\ s2c = <<>> /\ c2s = <<>> /\ raw = FALSE /\ asks = 0 /\ sent = 0 /\ garbled = FALSE

-----------------------------------------------------------------------------
(* The algorithm both ends use; the options of an end and what it sends go *)
(* through it together.                                                    *)

Option(s, o, on) == [kind |-> "option", side |-> s, opt |-> o, on |-> on]

\* A request, unless it is made already or things are so: send_do ... send_wont with init.
Ask(m, s, o, on) ==
    LET x == m.st[s][o]
    IN  IF o \notin Opts \/ (x.resp = 0 /\ x.on = on) \/ x.want = on THEN m
        ELSE [st |-> [m.st EXCEPT ![s][o].want = on, ![s][o].resp = @ + 1],
              out |-> Append(m.out, Option(s, o, on))]

AskAll(m, requests) == FoldLeft(LAMBDA a, r : Ask(a, r.side, r.opt, r.on), m, requests)

\* Mutant: a request that was crossed is never taken for answered.
LeftOver(x, on) == IF x.resp = 0 THEN 0 ELSE x.resp

\* What came may be the answer to a request, and to one before it that was crossed.
Left(x, on) == IF x.resp = 0 THEN 0 ELSE IF x.resp > 1 /\ x.on = on THEN x.resp - 2 ELSE x.resp - 1

\* Mutant: what is so already is answered too.
HearAlways(m, s, o, on, ok) ==
    LET x == m.st[s][o]
        n == Left(x, on)
        asked == n = 0
        agree == asked /\ (on => ok)
        says == IF asked /\ on THEN <<Option(s, o, ok)>>
                ELSE IF asked /\ x.on THEN <<Option(s, o, FALSE)>> ELSE <<>>
    IN  [st |-> [m.st EXCEPT ![s][o] = [on |-> on, want |-> IF agree THEN on ELSE x.want,
                                        resp |-> IF asked /\ ~agree THEN n + 1 ELSE n]],
         out |-> m.out \o says]

\* Yes to something not wanted is answered, and agreed to if that is all right; no to
\* something wanted is always agreed to.
Hear(m, s, o, on, ok) ==
    LET x == m.st[s][o]
        n == Left(x, on)
        asked == n = 0 /\ x.want # on
        agree == asked /\ (on => ok)
        says == IF asked /\ on THEN <<Option(s, o, ok)>>
                ELSE IF asked /\ x.on THEN <<Option(s, o, FALSE)>> ELSE <<>>
    IN  [st |-> [m.st EXCEPT ![s][o] = [on |-> on, want |-> IF agree THEN on ELSE x.want,
                                        resp |-> IF asked /\ ~agree THEN n + 1 ELSE n]],
         out |-> m.out \o says]

-----------------------------------------------------------------------------
(* The daemon. *)

M == [st |-> srv, out |-> <<>>]
Becomes(m) == srv' = m.st /\ s2c' = s2c \o m.out
Changing(s, o) == o \in Opts /\ srv[s][o].on # srv[s][o].want
Term(i) == Terms[i]
Yes(s, o) == [side |-> s, opt |-> o, on |-> TRUE]

\* getterminaltype.
Start ==
    /\ pc = "start" /\ pc' = "terms"
    /\ Becomes(AskAll(M, <<Yes("mine", "BINARY"), Yes("his", "BINARY")>> \o [i \in DOMAIN Terms |-> Yes("his", Term(i))]))
    /\ UNCHANGED <<client, c2s, k, more, got, sga, strip, notice, sent>>

\* What ttloop is called for.  That the daemon's own BINARY is waited for keeps data out of
\* the way of its answer.
Waiting ==
    \/ pc = "terms" /\ (Changing("mine", "BINARY") \/ \E i \in DOMAIN Terms : Changing("his", Term(i)))
    \/ pc = "told" /\ k <= Len(Terms) /\ srv["his"][Term(k)].on /\ Term(k) \notin got
    \/ pc = "naws" /\ Changing("his", "NAWS")
    \/ pc = "echo" /\ srv["his"]["ECHO"].want /\ srv["his"]["NAWS"].on /\ Changing("his", "ECHO")

Goes(from) == pc = from /\ ~more /\ ~Waiting

\* Of the two environment options only one is asked about.
Asked == {o \in {Term(i) : i \in DOMAIN Terms} : srv["his"][o].on /\ (o = "OLD_ENVIRON" => ~srv["his"]["NEW_ENVIRON"].on)}

Query ==
    /\ Goes("terms") /\ pc' = "told"
    /\ s2c' = s2c \o [i \in DOMAIN SelectSeq(Terms, LAMBDA o : o \in Asked) |->
                        [kind |-> "send", opt |-> SelectSeq(Terms, LAMBDA o : o \in Asked)[i]]]
    /\ UNCHANGED <<client, c2s, k, more, srv, got, sga, strip, notice, sent>>

Told ==
    /\ Goes("told") /\ k <= Len(Terms) /\ k' = k + 1
    /\ UNCHANGED <<client, c2s, s2c, pc, more, srv, got, sga, strip, notice, sent>>

\* my_telnet.
Greet ==
    /\ Goes("told") /\ k > Len(Terms) /\ pc' = "naws"
    /\ Becomes(AskAll(M, <<Yes("mine", "SGA"), Yes("his", "ECHO"), Yes("his", "NAWS"), Yes("mine", "STATUS"), Yes("his", "LFLOW")>>))
    /\ UNCHANGED <<client, c2s, k, more, got, sga, strip, notice, sent>>

Sized ==
    /\ Goes("naws") /\ pc' = "echo"
    /\ UNCHANGED <<client, c2s, s2c, k, more, srv, got, sga, strip, notice, sent>>

\* WILL ECHO to a request is to be taken back; that is asked before the state just learnt is
\* set, when things seem to be so.
HearEcho(m) ==
    LET x == m.st["his"]["ECHO"]
        n == Left(x, TRUE)
        a == Ask([m EXCEPT !.st["his"]["ECHO"].resp = n], "his", "ECHO", FALSE)
    IN  IF n = 0 /\ x.want THEN [a EXCEPT !.st["his"]["ECHO"].on = TRUE] ELSE Hear(m, "his", "ECHO", TRUE, FALSE)

\* A client that has not answered DO ECHO is taken to have said WILL.
Enter ==
    /\ Goes("echo") /\ pc' = "session" /\ notice' = strip
    /\ LET m == IF srv["his"]["ECHO"].want THEN HearEcho(M) ELSE M
       IN  Becomes(IF m.st["mine"]["ECHO"].on THEN m ELSE Ask(m, "mine", "ECHO", TRUE))
    /\ UNCHANGED <<client, c2s, k, more, got, sga, strip, sent>>

\* telrcv looks at all that was read before what is waited for is looked at again.
Chunk == more' \in IF pc = "session" \/ Len(c2s) = 1 THEN {FALSE} ELSE BOOLEAN

Reads ==
    /\ c2s # <<>> /\ c2s' = Tail(c2s)
    /\ pc = "session" \/ Waiting \/ more
    /\ Chunk

\* DONT SGA is answered with WILL, every second time.
HearSga(m) ==
    LET h == Hear(m, "mine", "SGA", FALSE, TRUE)
    IN  IF m.st["mine"]["SGA"].want /\ ~h.st["mine"]["SGA"].want /\ ~sga THEN Ask(h, "mine", "SGA", TRUE) ELSE h

\* willoption, wontoption, dooption, dontoption, by the side that is meant.
HearOption ==
    /\ Reads /\ Head(c2s).kind = "option"
    /\ LET o == Head(c2s).opt
           s == Other(Head(c2s).side)
           on == Head(c2s).on
           x == srv[s][o]
           turns == Left(x, on) = 0 /\ x.want # on
       IN  /\ Becomes(IF <<s, o, on>> = <<"his", "ECHO", TRUE>> THEN HearEcho(M)
                      ELSE IF <<s, o, on>> = <<"mine", "SGA", FALSE>> THEN HearSga(M)
                      ELSE Hear(M, s, o, on, o \in Accepted[s]))
           /\ sga' = IF <<s, o>> = <<"mine", "SGA">> /\ turns THEN ~on /\ ~sga ELSE sga
           /\ strip' = IF <<s, o>> = <<"his", "BINARY">> /\ turns THEN ~on ELSE strip
           /\ got' = IF s = "his" /\ ~on /\ turns THEN got \cup {o} ELSE got
    /\ UNCHANGED <<client, pc, k, notice, sent>>

HearTerm ==
    /\ Reads /\ Head(c2s).kind = "is"
    /\ got' = IF srv["his"][Head(c2s).opt].on THEN got \cup {Head(c2s).opt} ELSE got
    /\ UNCHANGED <<client, pc, k, srv, sga, strip, notice, sent, s2c>>

\* Mutant: what the client agreed to do is looked at.
DataHis == [kind |-> "data", coded |-> ~srv["his"]["BINARY"].on]

\* What the BBS sends; a carriage return is followed by a NUL where binary is not agreed on.
Data == [kind |-> "data", coded |-> ~srv["mine"]["BINARY"].on]

SendData ==
    /\ pc = "session" /\ sent < MaxData /\ sent' = sent + 1
    /\ s2c' = Append(s2c, Data)
    /\ UNCHANGED <<client, c2s, pc, k, more, srv, got, sga, strip, notice>>

\* netclear, when i of what is written has left: only commands stay.
Cleared(i) == SubSeq(s2c, 1, i) \o SelectSeq(SubSeq(s2c, i + 1, Len(s2c)), LAMBDA x : x.kind # "data")

\* Abort output.
Clear ==
    /\ Reads /\ Head(c2s).kind = "ao"
    /\ \E i \in 0..Len(s2c) : s2c' = Append(Cleared(i), [kind |-> "mark"])
    /\ UNCHANGED <<client, pc, k, srv, got, sga, strip, notice, sent>>

-----------------------------------------------------------------------------
(* The client: any that follows the same rules.  It takes data as they are *)
(* while the daemon's BINARY is on and was not turned down.                *)

C == [st |-> cl, out |-> <<>>]
Answers(m) == cl' = m.st /\ c2s' = c2s \o m.out

ClientHears ==
    /\ s2c # <<>> /\ s2c' = Tail(s2c)
    /\ LET x == Head(s2c)
           s == Other(x.side)
           m == IF s = "mine" /\ x.on /\ x.opt \in able.mute THEN C ELSE Hear(C, s, x.opt, x.on, x.opt \in able[s])
       IN  IF x.kind = "option"
           THEN /\ Answers(m)
                /\ raw' = IF x.opt = "BINARY" /\ s = "his" THEN x.on /\ Option("his", "BINARY", FALSE) \notin Range(m.out) ELSE raw
                /\ UNCHANGED garbled
           ELSE /\ c2s' = IF x.kind = "send" /\ cl["mine"][x.opt].on THEN Append(c2s, [kind |-> "is", opt |-> x.opt]) ELSE c2s
                /\ garbled' = (garbled \/ (x.kind = "data" /\ x.coded = raw))
                /\ UNCHANGED <<cl, raw>>
    /\ UNCHANGED <<daemon, able, asks>>

Volunteer ==
    /\ asks < MaxAsks /\ asks' = asks + 1
    /\ \/ \E o \in Volunteers, s \in Sides, on \in BOOLEAN :
             /\ on => o \in able[s]
             /\ Answers(Ask(C, s, o, on))
       \/ pc = "session" /\ c2s' = Append(c2s, [kind |-> "ao"]) /\ UNCHANGED cl
    /\ UNCHANGED <<daemon, able, raw, garbled, s2c>>

Runs == Start \/ Query \/ Told \/ Greet \/ Sized \/ Enter \/ HearOption \/ HearTerm \/ Clear

Next == Runs \/ SendData \/ ClientHears \/ Volunteer

\* Both ends run, and what is sent arrives.
Spec == Init /\ [][Next]_vars /\ WF_vars(Runs) /\ WF_vars(ClientHears)

-----------------------------------------------------------------------------
(* Properties. *)

Quiet == pc = "session" /\ s2c = <<>> /\ c2s = <<>>

\* When nothing is under way both ends mean the same about every option, whoever asked for
\* what and whatever requests were crossed.
Agree == Quiet => \A s \in Sides, o \in Opts \ able.mute : srv[s][o].want = cl[Other(s)][o].want

\* No data are sent while the ends differ on how: they arrive as they were sent.
Clean == ~garbled

\* The BBS is started in the end, though nothing but answers ends the waiting, and the ends
\* do not go on answering each other.
Settles == <>[](pc = "session" /\ s2c = <<>> /\ c2s = <<>>)
=============================================================================
