------------------------------ MODULE RunStdio ------------------------------
(***************************************************************************)
(* runstdio (main/stdiohan.c): a node runs a program for its user and       *)
(* relays the terminal until the program ends.  Three parties move:         *)
(*   the node    master_loop, one step per check of its polling loop        *)
(*   the child   sets up its terminal, signals SIGUSR2, executes, writes,   *)
(*               reads, stops, detaches from its terminal, exits            *)
(*   the caller  types, and may lose the carrier                            *)
(* Output is counted in pieces of one read(2), input in keys.               *)
(***************************************************************************)
EXTENDS Integers

CONSTANTS
    Modes,      \* parameter inp of runstdio: 0 .. 4
    TermAfter,  \* seconds from hangup to SIGTERM (10)
    KillAfter,  \* seconds from hangup to SIGKILL (20)
    Room,       \* keys the terminal holds for a child that does not read
    MaxTyped,   \* bound: keys the caller types
    MaxOut      \* bound: pieces of output the child writes

ASSUME ModesAssumption == Modes \subseteq 0 .. 4
ASSUME TimesAssumption == /\ TermAfter \in Nat
                          /\ KillAfter \in Nat
                          /\ TermAfter < KillAfter
ASSUME BoundsAssumption == Room \in Nat /\ MaxTyped \in Nat /\ MaxOut \in Nat

Pipe    == 2      \* PTY_MODE_PIPE: the child has the serial line itself
ToFile  == 3      \* the child's output goes to a file, its input is the terminal
NotHung == -1     \* hangup_time is 0
Late    == KillAfter + 1

VARIABLES
    mode,     \* mode of this run
    loop,     \* where master_loop is
    ready,    \* what the last select found
    initd,    \* child_initialized
    hangup,   \* seconds since hangup_time, or NotHung
    termed,   \* sigterm_raised
    online,   \* the caller is still there
    kid,      \* state of the child process
    told,     \* its stop has yet to be reported to waitpid
    pend,     \* signals sent to the child and not delivered
    deaf,     \* signals the program it executes ignores
    slave,    \* the child's side of the terminal
    outq,     \* pieces of output nobody has read
    wrote,    \* pieces the child has written
    slain,    \* history: a signal ended the child
    totype,   \* keys the caller has yet to type
    inq       \* keys the child has yet to read

child == <<kid, told, deaf, slave, wrote, slain>>
term  == <<outq, totype, inq>>
runvars == <<mode, loop, ready, initd, hangup, termed, online, kid, told, pend, deaf,
             slave, outq, wrote, slain, totype, inq>>

Dead  == {"zombie", "gone"}
Start == {"check", "wait"}
Loop  == {"select", "carrier", "type", "read", "reap", "hang"}

RunInit ==
    /\ mode \in Modes
    /\ loop = "check"
    /\ ready = {}
    /\ initd = FALSE
    /\ hangup = NotHung
    /\ termed = FALSE
    /\ online = TRUE
    /\ kid = "init"
    /\ told = FALSE
    /\ pend = {}
    /\ deaf \in SUBSET {"HUP", "TERM"}
    /\ slave = "unopened"
    /\ outq = 0 /\ wrote = 0 /\ slain = FALSE
    /\ totype = MaxTyped
    /\ inq = 0

Goto(l) == loop' = l

\* kill(2): a signal to a zombie is lost.
Kill(sigs) == pend' = IF kid \in Dead THEN pend ELSE pend \cup sigs

-----------------------------------------------------------------------------
(* The node: waiting for the child's setup.                                 *)

CheckInit ==
    /\ loop = "check"
    /\ Goto(IF initd THEN "select" ELSE "wait")
    /\ UNCHANGED <<mode, ready, initd, hangup, termed, online, child, pend, term>>

\* waitpid(WNOHANG | WUNTRACED) gives 0 for a child that runs, its number once
\* for a child that ended or stopped, and -1 when there is no child any more;
\* the loop goes on unless it gives 0.
WaitInit ==
    /\ loop = "wait"
    /\ Goto(IF kid \in {"init", "run"} \/ (kid = "stopped" /\ ~told) THEN "select" ELSE "check")
    /\ kid' = IF kid = "zombie" THEN "gone" ELSE kid
    /\ told' = FALSE
    /\ UNCHANGED <<mode, ready, initd, hangup, termed, online, pend, deaf, slave, wrote, slain, term>>

-----------------------------------------------------------------------------
(* The node: one round of the loop, do_comm first.                          *)

Interactive == mode \notin {Pipe, ToFile}

\* select fails with something else than EINTR: the child is hung up, and the
\* rest of do_comm is left out.
SelectFails ==
    /\ loop = "select"
    /\ hangup = NotHung
    /\ hangup' = 0
    /\ Kill({"HUP"})
    /\ Goto("reap")
    /\ UNCHANGED <<mode, ready, initd, termed, online, child, term>>

\* A signal, that of a child's end say, interrupts select: nothing is looked at in
\* this round but the child.
Interrupted ==
    /\ loop = "select"
    /\ Goto("reap")
    /\ UNCHANGED <<mode, ready, initd, hangup, termed, online, child, pend, term>>

\* The terminal is readable when there is output, and when the child's side has
\* been closed (the read then fails with EIO).
Select ==
    /\ loop = "select"
    /\ \E typed \in BOOLEAN :
          /\ typed => totype > 0 /\ online
          /\ ready' = (IF typed THEN {"key"} ELSE {}) \cup
                      (IF outq > 0 \/ slave = "closed" THEN {"out"} ELSE {})
    /\ Goto("carrier")
    /\ UNCHANGED <<mode, initd, hangup, termed, online, child, pend, term>>

\* A lost carrier starts the clock, once.
CheckCarrier ==
    /\ loop = "carrier"
    /\ IF ~online /\ hangup = NotHung
       THEN hangup' = 0 /\ Kill({"HUP"})
       ELSE UNCHANGED <<hangup, pend>>
    /\ Goto("type")
    /\ UNCHANGED <<mode, ready, initd, termed, online, child, term>>

\* A key from the line (mode 1) or the console goes to the terminal.
\* safe_write blocks while the terminal is full, until the child reads or its
\* side is closed.
Forward ==
    /\ loop = "type"
    /\ IF "key" \in ready
       THEN /\ totype' = totype - 1
            /\ IF Interactive /\ slave # "closed" /\ kid \notin Dead
               THEN inq < Room /\ inq' = inq + 1
               ELSE UNCHANGED inq
       ELSE UNCHANGED <<totype, inq>>
    /\ Goto("read")
    /\ UNCHANGED <<mode, ready, initd, hangup, termed, online, child, pend, outq>>

\* One read of the terminal or the pipe.  A failed read of the terminal starts
\* the clock too; the pipe just comes to its end.
ReadOut ==
    /\ loop = "read"
    /\ IF "out" \notin ready THEN UNCHANGED <<outq, hangup, pend>>
       ELSE IF outq > 0
       THEN /\ outq' = outq - 1
            /\ UNCHANGED <<hangup, pend>>
       ELSE /\ IF mode # Pipe /\ hangup = NotHung
               THEN hangup' = 0 /\ Kill({"HUP"})
               ELSE UNCHANGED <<hangup, pend>>
            /\ UNCHANGED outq
    /\ Goto("reap")
    /\ UNCHANGED <<mode, ready, initd, termed, online, child, totype, inq>>

\* Mutant: any child waitpid reports is taken to have ended.
ReapAny ==
    /\ loop = "reap"
    /\ \/ /\ kid \in {"init", "run"} \/ (kid = "stopped" /\ ~told)
          /\ Goto("hang")
          /\ UNCHANGED <<kid, told, pend>>
       \/ /\ kid \in Dead \/ told
          /\ Goto("done")
          /\ kid' = IF kid = "zombie" THEN "gone" ELSE kid
          /\ told' = FALSE
          /\ UNCHANGED pend
    /\ UNCHANGED <<mode, ready, initd, hangup, termed, online, deaf, slave, wrote, slain, term>>

\* Mutant: without WUNTRACED a stopped child is not reported.
ReapTraced ==
    /\ loop = "reap"
    /\ Goto(IF kid \in Dead THEN "done" ELSE "hang")
    /\ kid' = IF kid = "zombie" THEN "gone" ELSE kid
    /\ UNCHANGED <<mode, ready, initd, hangup, termed, online, told, pend, deaf, slave, wrote, slain, term>>

\* A stopped child is killed, a dead one reaped, and the loop is left.
Reap ==
    /\ loop = "reap"
    /\ \/ /\ kid \in {"init", "run"} \/ (kid = "stopped" /\ ~told)
          /\ Goto("hang")
          /\ UNCHANGED <<kid, told, pend>>
       \/ /\ kid = "stopped" /\ told
          /\ told' = FALSE
          /\ Kill({"KILL"})
          /\ Goto("select")
          /\ UNCHANGED kid
       \/ /\ kid \in Dead
          /\ kid' = "gone"
          /\ Goto("done")
          /\ UNCHANGED <<told, pend>>
    /\ UNCHANGED <<mode, ready, initd, hangup, termed, online, deaf, slave, wrote, slain, term>>

\* Mutant: the first threshold is used for both signals.
EscalateAtOnce ==
    /\ loop = "hang"
    /\ Kill((IF hangup > TermAfter /\ ~termed THEN {"TERM"} ELSE {}) \cup
            (IF hangup > TermAfter THEN {"KILL"} ELSE {}))
    /\ termed' = (termed \/ hangup > TermAfter)
    /\ Goto("select")
    /\ UNCHANGED <<mode, ready, initd, hangup, online, child, term>>

\* Mutant: a child that ignores SIGTERM is left alone.
EscalateNoForce ==
    /\ loop = "hang"
    /\ Kill(IF hangup > TermAfter /\ ~termed THEN {"TERM"} ELSE {})
    /\ termed' = (termed \/ hangup > TermAfter)
    /\ Goto("select")
    /\ UNCHANGED <<mode, ready, initd, hangup, online, child, term>>

\* SIGTERM after 10 seconds, once; SIGKILL after 20.
Escalate ==
    /\ loop = "hang"
    /\ Kill((IF hangup > TermAfter /\ ~termed THEN {"TERM"} ELSE {}) \cup
            (IF hangup > KillAfter THEN {"KILL"} ELSE {}))
    /\ termed' = (termed \/ hangup > TermAfter)
    /\ Goto("select")
    /\ UNCHANGED <<mode, ready, initd, hangup, online, child, term>>

Master == \/ CheckInit \/ WaitInit
          \/ SelectFails \/ Interrupted \/ Select \/ CheckCarrier \/ Forward \/ ReadOut
          \/ Reap \/ Escalate

-----------------------------------------------------------------------------
(* The child.                                                               *)

\* The setup succeeds: SIGUSR2 is sent and the program executed.
KidStarts ==
    /\ kid = "init"
    /\ kid' = "run"
    /\ initd' = TRUE
    /\ slave' = IF mode = Pipe THEN slave ELSE "open"
    /\ UNCHANGED <<mode, loop, ready, hangup, termed, online, told, pend, deaf, wrote, slain, term>>

KidEnds(signalled) ==
    /\ kid' = "zombie"
    /\ slain' = signalled
    /\ told' = FALSE
    /\ pend' = {}

\* The terminal cannot be opened, or not be set up: _exit(1).
SetupFails ==
    /\ kid = "init"
    /\ mode # Pipe
    /\ KidEnds(FALSE)
    /\ slave' \in {"unopened", "closed"}
    /\ UNCHANGED <<mode, loop, ready, initd, hangup, termed, online, deaf, wrote, term>>

\* The end of every other child closes its side.
Closed == IF mode # Pipe THEN "closed" ELSE slave

KidExits ==
    /\ kid = "run"
    /\ KidEnds(FALSE)
    /\ slave' = Closed
    /\ UNCHANGED <<mode, loop, ready, initd, hangup, termed, online, deaf, wrote, term>>

KidWrites ==
    /\ kid = "run"
    /\ wrote < MaxOut
    /\ wrote' = wrote + 1
    /\ \/ mode = ToFile /\ UNCHANGED outq
       \/ mode = Pipe /\ outq' = outq + 1
       \/ mode \notin {ToFile, Pipe} /\ slave = "open" /\ outq' = outq + 1
    /\ UNCHANGED <<mode, loop, ready, initd, hangup, termed, online, kid, told, pend, deaf,
                   slave, slain, totype, inq>>

KidReads ==
    /\ kid = "run"
    /\ inq > 0
    /\ inq' = inq - 1
    /\ UNCHANGED <<mode, loop, ready, initd, hangup, termed, online, child, pend, outq, totype>>

\* SIGTSTP from a ^Z of the caller, SIGTTIN, ...
KidStops ==
    /\ kid = "run"
    /\ kid' = "stopped"
    /\ told' = TRUE
    /\ UNCHANGED <<mode, loop, ready, initd, hangup, termed, online, pend, deaf, slave, wrote, slain, term>>

\* The program gives up its terminal and runs on.
KidDetaches ==
    /\ kid = "run"
    /\ slave = "open"
    /\ slave' = "closed"
    /\ UNCHANGED <<mode, loop, ready, initd, hangup, termed, online, kid, told, pend, deaf, wrote, slain, term>>

\* Until it executes the program the child has the node's own handler for
\* SIGHUP, which changes nothing.  A stopped child takes only SIGKILL.
Deliver ==
    /\ kid \in {"init", "run", "stopped"}
    /\ \/ /\ \E s \in pend : \/ s = "KILL"
                             \/ kid = "run" /\ s \notin deaf
                             \/ kid = "init" /\ s = "TERM"
          /\ KidEnds(TRUE)
          /\ slave' = Closed
       \/ /\ kid # "stopped"
          /\ \E s \in pend : /\ s \in deaf \/ (kid = "init" /\ s = "HUP")
                             /\ s # "KILL"
                             /\ pend' = pend \ {s}
          /\ UNCHANGED <<kid, told, slave, slain>>
    /\ UNCHANGED <<mode, loop, ready, initd, hangup, termed, online, deaf, wrote, term>>

-----------------------------------------------------------------------------
(* The caller and the clock.                                                *)

LoseCarrier ==
    /\ online
    /\ loop # "done"
    /\ online' = FALSE
    /\ UNCHANGED <<mode, loop, ready, initd, hangup, termed, child, pend, term>>

Tick ==
    /\ hangup \in 0 .. KillAfter
    /\ loop # "done"
    /\ hangup' = hangup + 1
    /\ UNCHANGED <<mode, loop, ready, initd, termed, online, child, pend, term>>

Child == \/ KidStarts \/ SetupFails \/ KidExits \/ KidWrites \/ KidReads
         \/ KidStops \/ KidDetaches

RunNext == Master \/ Child \/ Deliver \/ LoseCarrier \/ Tick

\* The node's loop runs on, at the latest every 50 ms, and is not interrupted in every
\* round for ever; signals are delivered; time passes.  Nothing is asked of the child or
\* of the caller.
RunFairness == WF_runvars(Master) /\ SF_runvars(Select) /\ WF_runvars(Deliver) /\ WF_runvars(Tick)

RunSpec == RunInit /\ [][RunNext]_runvars /\ RunFairness

-----------------------------------------------------------------------------
(* Properties *)

RunTypeOK ==
    /\ mode \in Modes
    /\ loop \in Start \cup Loop \cup {"done"}
    /\ ready \subseteq {"key", "out"}
    /\ initd \in BOOLEAN /\ slain \in BOOLEAN
    /\ hangup \in NotHung .. Late
    /\ termed \in BOOLEAN
    /\ online \in BOOLEAN
    /\ kid \in {"init", "run", "stopped"} \cup Dead
    /\ told \in BOOLEAN
    /\ pend \subseteq {"HUP", "TERM", "KILL"}
    /\ deaf \subseteq {"HUP", "TERM"}
    /\ slave \in {"unopened", "open", "closed"}
    /\ outq \in 0 .. MaxOut /\ wrote \in 0 .. MaxOut
    /\ totype \in 0 .. MaxTyped /\ inq \in 0 .. MaxTyped

\* runstdio never returns to the menu with its program still there: the child
\* is dead and reaped, it no longer shares the line with the node.
NoChildLeft == loop = "done" => kid = "gone"

\* A program that runs is forced to end only when its 20 seconds to terminate
\* properly are over (stdiohan.c:232).
GraceKept == "KILL" \in pend /\ kid \in {"init", "run"} => hangup = Late

\* The clock that ends in SIGKILL is started once and never set back, however
\* often the carrier is found lost or a read fails.
ClockRuns == [][hangup # NotHung => hangup' >= hangup]_runvars

\* The node hangs in a write to a terminal that is full.
Jammed == loop = "type" /\ "key" \in ready /\ Interactive /\ slave # "closed" /\ kid \notin Dead /\ inq >= Room

\* A caller who hangs up gets the node back: whatever the program ignores, the
\* loop ends, but where the node hangs for good in a write of a key to a program that does
\* not read (stdiohan.c:136).  CarrierLossEndsAlways states it without the exception, and is
\* refuted.
CarrierLossEnds == ~online /\ loop \in Loop ~> loop = "done" \/ []Jammed
CarrierLossEndsAlways == ~online /\ loop \in Loop ~> loop = "done"

\* The end of the program ends the loop.
ExitEnds == kid \in Dead /\ loop \in Loop ~> loop = "done"

\* So does a program that stops (stdiohan.c:223), if the stop was not already
\* reported while the node was waiting for the setup, and if the node does not hang in a
\* write to it.
StopEnds == kid = "stopped" /\ told /\ loop \in Loop ~> loop = "done" \/ []Jammed

\* The wait for the setup falls through when the child ceases to exist
\* (stdiohan.c:212).
FallsThrough == kid \in Dead ~> loop \notin Start

\* The output of a program that ended by itself, however quickly, was shown
\* (docs/HISTORY:209).
OutputShown == loop = "done" /\ ~slain /\ online /\ hangup = NotHung => outq = 0
============================================================================
