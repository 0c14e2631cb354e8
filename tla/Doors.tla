------------------------------- MODULE Doors -------------------------------
(***************************************************************************)
(* One node, the doors it runs and the user it waits for: the node's side  *)
(* of the door protocol (main/doorport.c), the library's side of it        *)
(* (lib/libdd.c, writedm), the wait for a key under the idle clock         *)
(* (main/hotkey.c), the prompt (main/prompt.c), the sysop's chat           *)
(* (main/linechat.c) and the messages other nodes send to this one's       *)
(* socket (processmsg).                                                    *)
(*                                                                         *)
(* The node is one thread whose calls nest: a door asks for a command, the *)
(* command runs a door, that door asks for a key, and a message that comes *)
(* while the node waits for the key opens a chat.  `stack' is that nesting *)
(* of calls, innermost first.  A frame is                                  *)
(*   prompt  at the top of Prompt's loop for the main menu                 *)
(*   hot     in read_input's select: for the prompt of the main menu       *)
(*           (main) or of a door (ask), for a door's key or for the chat   *)
(*   cmd     executing a command, which may run doors one after another    *)
(*   bye     the same for the logoff batch                                 *)
(*   accept, loop, read, end                                               *)
(*           in door_loop for `door': waiting for it to connect, in the    *)
(*           select, in the read of a node message, after the loop         *)
(*   dos     in rundosdoor's waitpid                                       *)
(*   kill    in kill_children                                              *)
(***************************************************************************)
EXTENDS Naturals, Sequences, SequencesExt, FiniteSets

CONSTANTS
  Messages,   \* the node messages other nodes send, in that order, by their
              \* commands: olm, chat or kick
  Requests,   \* what a door asks: show, key, ask, cmd, close
  MaxAsk,     \* bounds: the runs of door programs, numbered as they start, and
              \* the requests of each
  MaxKeys,    \* bound: keys typed by the user or the sysop
  MaxFaults,  \* bound: doors that die in an exchange, losses of the carrier
              \* and ends of the daily time
  Checker     \* a background checker of this node is running

ASSUME DoorsAssumption ==
  /\ Messages \in Seq({"olm", "chat", "kick"})
  /\ Requests \subseteq {"show", "key", "ask", "cmd", "close"}
  /\ MaxAsk \in Seq(Nat) /\ MaxKeys \in Nat /\ MaxFaults \in Nat
  /\ Checker \in BOOLEAN

Doors == DOMAIN MaxAsk
None == 0

VARIABLES
  stack,     \* the node's nested calls
  pids,      \* child_pid_list, the last door first
  doorcnt,   \* doorcnt
  proc,      \* the state of each door's process
  conn,      \* the door has connected to the socket of its level
  req,       \* the request in the door's socket
  ans,       \* an answer the door has not read
  asked,     \* how many requests the door has written
  ran,       \* how many requests the node has executed for it
  last,      \* the struct door_loop keeps from one round to the next
  carrier, timeup, line, keys,
  faults,    \* how many of the faults MaxFaults bounds have happened
  queue, olms, shown, sent,
  node       \* "up", or "killed" by its own signal

procvars == <<proc, conn, req, ans, asked>>
uservars == <<carrier, timeup, line, keys, faults>>
msgvars == <<queue, olms, shown, sent>>
vars == <<stack, pids, doorcnt, proc, conn, req, ans, asked, ran, last,
          carrier, timeup, line, keys, faults, queue, olms, shown, sent, node>>

Frame(at, d) == [at |-> at, for |-> "main", door |-> d, warned |-> FALSE]
Hot(what, d) == [at |-> "hot", for |-> what, door |-> d, warned |-> FALSE]
Top == Head(stack)
At(where) == stack # <<>> /\ node = "up" /\ Top.at = where
Become(at) == <<[Top EXCEPT !.at = at]>> \o Tail(stack)

Alive == {"start", "run", "wait", "closing"}
Living == {d \in Doors : proc[d] \in Alive}

(* ispid: a process that has exited answers kill(pid, 0) until somebody    *)
(* waits for it; car of an empty list is 0, and kill(0, 0) succeeds.       *)
IsPid(list, p) == list = <<>> \/ p[Head(list)] # "gone"
Reaped == [d \in Doors |-> IF proc[d] = "zombie" THEN "gone" ELSE proc[d]]

Init ==
  /\ stack = <<Frame("prompt", None)>>
  /\ pids = <<>> /\ doorcnt = 0
  /\ proc = [d \in Doors |-> "idle"]
  /\ conn = [d \in Doors |-> FALSE]
  /\ req = [d \in Doors |-> "none"]
  /\ ans = [d \in Doors |-> FALSE]
  /\ asked = [d \in Doors |-> 0]
  /\ ran = [d \in Doors |-> 0]
  /\ last = [d \in Doors |-> "none"]
  /\ carrier = TRUE /\ timeup = FALSE /\ line = FALSE /\ keys = 0
  /\ faults = 0
  /\ queue = <<>> /\ olms = <<>> /\ shown = <<>> /\ sent = 0
  /\ node = "up"

-----------------------------------------------------------------------------
(* The door program, through the library.                                  *)

(* dd_initdoor finds the socket its node listens on. *)
Connect(d) ==
  /\ proc[d] = "start" /\ At("accept") /\ Top.door = d
  /\ proc' = [proc EXCEPT ![d] = "run"]
  /\ conn' = [conn EXCEPT ![d] = TRUE]
  /\ UNCHANGED <<stack, pids, doorcnt, req, ans, asked, ran, last,
                 uservars, msgvars, node>>

(* mutant: the library does not wait for the answer *)
AskOnly(d, r) ==
  /\ proc[d] = "run" /\ conn[d] /\ asked[d] < MaxAsk[d]
  /\ req' = [req EXCEPT ![d] = r]
  /\ asked' = [asked EXCEPT ![d] = @ + 1]
  /\ UNCHANGED <<stack, pids, doorcnt, proc, conn, ans, ran, last, uservars,
                 msgvars, node>>

(* writedm writes the request and reads; dd_close writes one that the node *)
(* does not answer and reads until the socket is closed.                   *)
Ask(d, r) ==
  /\ proc[d] = "run" /\ conn[d] /\ asked[d] < MaxAsk[d]
  /\ req' = [req EXCEPT ![d] = r]
  /\ asked' = [asked EXCEPT ![d] = @ + 1]
  /\ proc' = [proc EXCEPT ![d] = IF r = "close" THEN "closing" ELSE "wait"]
  /\ UNCHANGED <<stack, pids, doorcnt, conn, ans, ran, last, uservars,
                 msgvars, node>>

TakeAnswer(d) ==
  /\ proc[d] = "wait" /\ ans[d]
  /\ ans' = [ans EXCEPT ![d] = FALSE]
  /\ proc' = [proc EXCEPT ![d] = "run"]
  /\ UNCHANGED <<stack, pids, doorcnt, conn, req, asked, ran, last, uservars,
                 msgvars, node>>

(* The program returns, *)
Exit(d) ==
  /\ proc[d] \in {"start", "run"}
  /\ proc' = [proc EXCEPT ![d] = "zombie"]
  /\ UNCHANGED <<stack, pids, doorcnt, conn, req, ans, asked, ran, last,
                 uservars, msgvars, node>>

Fault == faults < MaxFaults /\ faults' = faults + 1

(* or is killed by another in the middle of an exchange. *)
Dies(d) ==
  /\ proc[d] \in {"wait", "closing"}
  /\ Fault
  /\ proc' = [proc EXCEPT ![d] = "zombie"]
  /\ UNCHANGED <<stack, pids, doorcnt, conn, req, ans, asked, ran, last,
                 carrier, timeup, line, keys, msgvars, node>>

-----------------------------------------------------------------------------
(* Node messages.                                                          *)

(* sendtosock from another node. *)
Send ==
  /\ sent < Len(Messages) /\ stack # <<>>
  /\ sent' = sent + 1
  /\ queue' = Append(queue, sent')
  /\ UNCHANGED <<stack, pids, doorcnt, procvars, ran, last, uservars, olms,
                 shown, node>>

InChat == \E i \in DOMAIN stack : stack[i].for = "chat"

AddOlmFirst(m) == olms' = <<m>> \o olms   \* mutant: AddHead
AddOlm(m) == olms' = Append(olms, m)

(* processmsg for the first message of the socket, with the calls as they  *)
(* stand: an olm is put at the end of the list, a chat is entered, unless  *)
(* one is open, and a kick drops the carrier.                              *)
ProcessMsg(calls) ==
  LET m == Head(queue)
  IN  /\ queue # <<>>
      /\ queue' = Tail(queue)
      /\ IF Messages[m] = "olm" THEN AddOlm(m) ELSE olms' = olms
      /\ carrier' = (carrier /\ Messages[m] # "kick")
      /\ stack' = IF Messages[m] = "chat" /\ ~InChat
                    THEN <<Hot("chat", None)>> \o calls ELSE calls
      /\ UNCHANGED <<shown, sent>>

-----------------------------------------------------------------------------
(* rundoor and door_loop.                                                  *)

Started == Cardinality({d \in Doors : proc[d] # "idle"})

(* Fork and exec, with the socket of this level listening. *)
StartDoor(d) ==
  /\ At("cmd") \/ At("bye")
  /\ d = Started + 1
  /\ proc' = [proc EXCEPT ![d] = "start"]
  /\ stack' = <<Frame("accept", d)>> \o stack
  /\ UNCHANGED <<pids, doorcnt, conn, req, ans, asked, ran, last, uservars,
                 msgvars, node>>

StartDosDoor(d) ==
  /\ At("cmd") \/ At("bye")
  /\ d = Started + 1
  /\ proc' = [proc EXCEPT ![d] = "run"]
  /\ stack' = <<Frame("dos", d)>> \o stack
  /\ UNCHANGED <<pids, doorcnt, conn, req, ans, asked, ran, last, uservars,
                 msgvars, node>>

DosDoorEnds ==
  /\ At("dos") /\ proc[Top.door] = "zombie"
  /\ proc' = [proc EXCEPT ![Top.door] = "gone"]
  /\ stack' = Tail(stack)
  /\ UNCHANGED <<pids, doorcnt, conn, req, ans, asked, ran, last, uservars,
                 msgvars, node>>

Accept ==
  /\ At("accept") /\ conn[Top.door]
  /\ pids' = <<Top.door>> \o pids
  /\ doorcnt' = doorcnt + 1
  /\ stack' = Become("loop")
  /\ UNCHANGED <<procvars, ran, last, uservars, msgvars, node>>

(* Nothing has connected after three seconds: the child is killed.  A door *)
(* whose time is up when rundoor returns takes the carrier with it.        *)
AcceptFails ==
  /\ At("accept") /\ ~conn[Top.door]
  /\ proc' = [proc EXCEPT ![Top.door] = "gone"]
  /\ stack' = Tail(stack)
  /\ carrier' = (carrier /\ ~timeup)
  /\ UNCHANGED <<pids, doorcnt, conn, req, ans, asked, ran, last, timeup,
                 line, keys, faults, msgvars, node>>

(* The end of a round: the loop goes on while the process of the innermost *)
(* door is there, by the list and the processes after the round.           *)
After(list, p, calls) ==
  <<[Head(calls) EXCEPT !.at = IF IsPid(list, p) THEN "loop" ELSE "end"]>>
  \o Tail(calls)

(* The answer is written into the socket of the door the loop serves; the  *)
(* write fails, unnoticed, when the door has gone.                         *)
Answer(calls, list, p) ==
  LET d == Head(calls).door
  IN  /\ ans' = [ans EXCEPT ![d] = p[d] \in Alive]
      /\ stack' = After(list, p, calls)

(* Those that show, get or set something are answered at once; a prompt    *)
(* without a carrier as well.                                              *)
AtOnce(r) == r = "show" \/ (r = "ask" /\ ~carrier)

(* The request just read, by its ddm_command. *)
Execute(d, r) ==
  /\ ran' = [ran EXCEPT ![d] = @ + 1]
  /\ last' = [last EXCEPT ![d] = r]
  /\ IF AtOnce(r) THEN Answer(stack, pids, proc')
     ELSE /\ ans' = ans
          /\ stack' = IF r = "close" THEN Become("end")
                      ELSE IF r = "cmd" THEN Become("cmd")
                      ELSE <<Hot(r, d)>> \o stack

(* A round of the loop: children reaped, then a node message before a      *)
(* request, then a request.                                                *)
RoundMessage ==
  /\ At("loop")
  /\ proc' = Reaped
  /\ ProcessMsg(After(pids, Reaped, stack))
  /\ UNCHANGED <<pids, doorcnt, conn, req, ans, asked, ran, last, timeup,
                 line, keys, faults, node>>

RoundRequest ==
  LET d == Top.door
  IN  /\ At("loop") /\ queue = <<>> /\ req[d] # "none"
      /\ proc' = Reaped
      /\ req' = [req EXCEPT ![d] = "none"]
      /\ Execute(d, req[d])
      /\ UNCHANGED <<pids, doorcnt, conn, asked, uservars, msgvars, node>>

(* The door is gone and its socket closed: the read returns nothing.  If   *)
(* it left an answer unread, the read fails instead, re is negative, and   *)
(* the struct of the round before is executed again.                       *)
RoundClosed ==
  LET d == Top.door
  IN  /\ At("loop") /\ queue = <<>> /\ req[d] = "none" /\ d \notin Living
      /\ proc' = Reaped
      /\ IF ans[d]
           THEN /\ ans' = [ans EXCEPT ![d] = FALSE]
                /\ ran' = [ran EXCEPT ![d] = @ + 1]
                /\ stack' = IF AtOnce(last[d]) THEN After(pids, Reaped, stack)
                            ELSE IF last[d] = "cmd" THEN Become("cmd")
                            ELSE <<Hot(last[d], d)>> \o stack
           ELSE stack' = Become("end") /\ UNCHANGED <<ans, ran>>
      /\ UNCHANGED <<pids, doorcnt, conn, req, asked, last, uservars, msgvars,
                     node>>

(* Two seconds without either: the process may have been reaped. *)
RoundIdle ==
  /\ At("loop") /\ queue = <<>>
  /\ ~IsPid(pids, Reaped)
  /\ proc' = Reaped
  /\ stack' = Become("end")
  /\ UNCHANGED <<pids, doorcnt, conn, req, ans, asked, ran, last, uservars,
                 msgvars, node>>

(* The read of a message that a signal let the loop into (see Interrupt):  *)
(* it returns when a message comes.                                        *)
ReadReturns ==
  /\ At("read")
  /\ ProcessMsg(After(pids, proc, stack))
  /\ UNCHANGED <<pids, doorcnt, procvars, ran, last, timeup, line, keys, faults,
                 node>>

CmdUnanswered ==   \* mutant
  /\ At("cmd") /\ Top.door # None
  /\ stack' = After(pids, proc, stack)
  /\ UNCHANGED <<pids, doorcnt, procvars, ran, last, uservars, msgvars, node>>

(* A command a door asked for has run: its answer. *)
CmdDone ==
  /\ At("cmd") /\ Top.door # None
  /\ Answer(stack, pids, proc)
  /\ UNCHANGED <<pids, doorcnt, proc, conn, req, asked, ran, last, uservars,
                 msgvars, node>>

ShiftNothing(list) == list   \* mutant: car for shift
Shift(list) == IF list = <<>> THEN <<>> ELSE Tail(list)

(* kill_child(shift(child_pid_list)).  When kill_children has emptied the  *)
(* list, the pid is 0 and the signals go to the node's own group: SIGTERM  *)
(* is taken for a loss of the carrier, and waitpid(0) waits five seconds   *)
(* for any child, so that a checker still running is answered by SIGKILL.  *)
LoopEnds ==
  /\ At("end")
  /\ IF pids = <<>>
       THEN /\ carrier' = FALSE
            /\ proc' = Reaped
            /\ node' \in IF Checker THEN {"up", "killed"} ELSE {"up"}
       ELSE /\ proc' = [proc EXCEPT ![Head(pids)] = "gone"]
            /\ carrier' = (carrier /\ ~timeup)
            /\ node' = node
  /\ pids' = Shift(pids)
  /\ doorcnt' = doorcnt - 1
  /\ conn' = [conn EXCEPT ![Top.door] = FALSE]
  /\ stack' = Tail(stack)
  /\ UNCHANGED <<req, ans, asked, ran, last, timeup, line, keys, faults, msgvars>>

-----------------------------------------------------------------------------
(* HotKey and its callers.                                                 *)

(* What HotKey's caller does with the result.  The prompt of the main menu *)
(* and a door's prompt read on until the line is entered or the carrier    *)
(* has gone, *)
MainPrompt(key, has) ==
  /\ line' = (key = "char" \/ (line /\ key # "enter"))
  /\ stack' = <<Frame(IF key = "enter" /\ has THEN "cmd" ELSE "prompt", None)>>

PromptOver(key, has) == key = "enter" \/ ~has

(* and the chat reads on until the sysop's escape or the loss of the       *)
(* carrier; under it is the select or the round it was opened in.          *)
ChatOver(key, has) == key = "esc" \/ ~has

Returned(key, has) ==
  LET calls == Tail(stack)
      again == <<[Top EXCEPT !.at = "hot", !.warned = FALSE]>> \o calls
  IN  \/ Top.for = "main" /\ MainPrompt(key, has) /\ ans' = ans
      \/ /\ Top.for = "key" \/ (Top.for = "ask" /\ PromptOver(key, has))
         /\ Answer(calls, pids, proc) /\ line' = line
      \/ /\ Top.for = "ask" /\ ~PromptOver(key, has)
         /\ stack' = again /\ UNCHANGED <<ans, line>>
      \/ /\ Top.for = "chat"
         /\ stack' = IF ChatOver(key, has) THEN calls ELSE again
         /\ UNCHANGED <<ans, line>>

(* A key, or the two stages of the idle clock: the first warns, the second *)
(* hangs up.  The daily time and the carrier are looked at first, whatever *)
(* ended the select; either kills the doors.                               *)
Killing == <<[Top EXCEPT !.at = "kill"]>> \o Tail(stack)

Key(k) ==
  /\ At("hot") /\ keys < MaxKeys
  /\ keys' = keys + 1
  /\ IF timeup \/ ~carrier
       THEN stack' = Killing /\ UNCHANGED <<ans, line>>
       ELSE Returned(k, TRUE)
  /\ UNCHANGED <<pids, doorcnt, proc, conn, req, asked, ran, last, carrier,
                 timeup, faults, msgvars, node>>

IdleClock ==
  /\ At("hot")
  /\ stack' = IF ~timeup /\ carrier /\ ~Top.warned
                THEN <<[Top EXCEPT !.warned = TRUE]>> \o Tail(stack)
                ELSE Killing
  /\ UNCHANGED <<pids, doorcnt, procvars, ran, last, uservars, msgvars, node>>

HotMessage ==
  /\ At("hot") /\ ~timeup /\ carrier
  /\ ProcessMsg(stack)
  /\ UNCHANGED <<pids, doorcnt, procvars, ran, last, timeup, line, keys, faults,
                 node>>

(* kill_children, one child at a time, the latest first; then dropcarrier, *)
(* and HotKey returns 0.                                                   *)
Victim == Head(pids)

KillChild ==
  /\ At("kill") /\ pids # <<>>
  /\ proc' = [proc EXCEPT ![Victim] = "gone"]
  /\ pids' = Shift(pids)
  /\ UNCHANGED <<stack, doorcnt, conn, req, ans, asked, ran, last, uservars,
                 msgvars, node>>

Dropped ==
  /\ At("kill") /\ pids = <<>>
  /\ carrier' = FALSE
  /\ Returned("none", FALSE)
  /\ UNCHANGED <<pids, doorcnt, proc, conn, req, asked, ran, last, timeup,
                 keys, faults, msgvars, node>>

(* The top of Prompt's loop at the main menu: messages are shown while the *)
(* line is empty.                                                          *)
ShowOlms ==
  /\ At("prompt") /\ ~line /\ olms # <<>>
  /\ shown' = shown \o olms
  /\ olms' = <<>>
  /\ UNCHANGED <<stack, pids, doorcnt, procvars, ran, last, uservars, queue,
                 sent, node>>

Prompt ==
  /\ At("prompt") /\ (line \/ olms = <<>>)
  /\ stack' = IF carrier THEN <<Hot("main", None)>>
                         ELSE <<Frame("bye", None)>>
  /\ UNCHANGED <<pids, doorcnt, procvars, ran, last, uservars, msgvars, node>>

CommandDone ==
  /\ At("cmd") /\ Top.door = None
  /\ stack' = <<Frame("prompt", None)>>
  /\ UNCHANGED <<pids, doorcnt, procvars, ran, last, uservars, msgvars, node>>

CallEnds ==
  /\ At("bye")
  /\ stack' = <<>>
  /\ UNCHANGED <<pids, doorcnt, procvars, ran, last, uservars, msgvars, node>>

-----------------------------------------------------------------------------
(* The line and the clock.                                                 *)

(* SIGHUP: carrieroff clears the carrier.  A select it interrupts returns  *)
(* -1: HotKey returns 0 without killing the doors, while door_loop, which  *)
(* does not look at the result, finds its sets as it made them and reads   *)
(* a node message.                                                         *)
HangUp ==
  /\ carrier /\ stack # <<>> /\ Fault
  /\ carrier' = FALSE
  /\ UNCHANGED <<stack, pids, doorcnt, procvars, ran, last, timeup, line,
                 keys, msgvars, node>>

Interrupt ==
  /\ carrier /\ Fault
  /\ carrier' = FALSE
  /\ \/ At("hot") /\ Returned("none", FALSE) /\ UNCHANGED proc
     \/ At("loop") /\ stack' = Become("read") /\ proc' = Reaped
        /\ UNCHANGED <<ans, line>>
  /\ UNCHANGED <<pids, doorcnt, conn, req, asked, ran, last, timeup, keys,
                 msgvars, node>>

TimeIsUp ==
  /\ ~timeup /\ stack # <<>> /\ Fault
  /\ timeup' = TRUE
  /\ UNCHANGED <<stack, pids, doorcnt, procvars, ran, last, carrier, line,
                 keys, msgvars, node>>

-----------------------------------------------------------------------------
NodeSteps ==
  \/ DosDoorEnds \/ Accept \/ AcceptFails
  \/ RoundMessage \/ RoundRequest \/ RoundClosed \/ RoundIdle \/ ReadReturns
  \/ CmdDone \/ LoopEnds
  \/ IdleClock \/ HotMessage \/ KillChild \/ Dropped
  \/ ShowOlms \/ Prompt \/ CommandDone \/ CallEnds

Next ==
  \/ NodeSteps
  \/ \E d \in Doors : \/ StartDoor(d) \/ StartDosDoor(d)
                      \/ Connect(d) \/ TakeAnswer(d)
                      \/ Exit(d) \/ Dies(d)
                      \/ \E r \in Requests : Ask(d, r)
  \/ Send
  \/ \E k \in {"enter", "char", "esc"} : Key(k)
  \/ HangUp \/ Interrupt \/ TimeIsUp

(* The node's own steps go on, time-outs included.  A door takes the       *)
(* answers it waits for, and one that is not waiting for an answer ends in *)
(* time; nothing makes the user type or the carrier go.                    *)
Fairness ==
  /\ WF_vars(NodeSteps)
  /\ \A d \in Doors : /\ WF_vars(TakeAnswer(d))
                      /\ WF_vars(Exit(d))

Spec == Init /\ [][Next]_vars /\ Fairness

-----------------------------------------------------------------------------
Frames == {"prompt", "hot", "cmd", "bye", "accept", "loop", "read", "end",
           "dos", "kill"}

Calls == [at : Frames, for : {"main", "key", "ask", "chat"},
          door : Doors \cup {None}, warned : BOOLEAN]

TypeOK ==
  /\ stack \in Seq(Calls)
  /\ pids \in Seq(Doors) /\ doorcnt \in Nat
  /\ proc \in [Doors -> Alive \cup {"idle", "zombie", "gone"}]
  /\ conn \in [Doors -> BOOLEAN] /\ ans \in [Doors -> BOOLEAN]
  /\ req \in [Doors -> Requests \cup {"none"}]
  /\ last \in [Doors -> Requests \cup {"none"}]
  /\ asked \in [Doors -> Nat] /\ ran \in [Doors -> Nat]
  /\ \A d \in Doors : asked[d] <= MaxAsk[d]
  /\ carrier \in BOOLEAN /\ timeup \in BOOLEAN /\ line \in BOOLEAN
  /\ keys \in 0 .. MaxKeys /\ faults \in 0 .. MaxFaults
  /\ \A q \in {queue, olms, shown} : q \in Seq(DOMAIN Messages)
  /\ sent \in 0 .. Len(Messages)
  /\ node \in {"up", "killed"}

(* The loops under way, and their doors. *)
Serves(f) == f.for = "main" /\ f.door # None
Loops(calls) == {i \in DOMAIN calls :
                   Serves(calls[i]) /\ calls[i].at \notin {"accept", "dos"}}
Served(calls) == {d \in Doors : \E i \in Loops(calls) : calls[i].door = d}

(* doorcnt, from which the socket of a level has its name, counts the      *)
(* loops under way, and child_pid_list names the innermost of their doors  *)
(* in order (but while they are being killed): never a door whose loop has *)
(* ended, never one out of turn.  Those missing from it are dead, so that  *)
(* no living door is served unlisted.                                      *)
Nesting ==
  /\ \A i, j \in Loops(stack) : i < j => stack[i].door > stack[j].door
  /\ doorcnt = Cardinality(Served(stack))
  /\ \A i, j \in DOMAIN pids : i < j => pids[i] > pids[j]
  /\ Range(pids) \subseteq Served(stack)
  /\ At("kill") \/ \A p \in Range(pids), d \in Served(stack) :
                     d > p => d \in Range(pids)
  /\ Living \cap Served(stack) \subseteq Range(pids)

(* A door outlives neither rundoor nor rundosdoor: the program of every    *)
(* living process is one that some call of the node still attends to.      *)
NoOrphan ==
  node = "up" =>
    \A d \in Living : \E i \in DOMAIN stack : stack[i].door = d

(* Requests and answers are paired: a door that is not waiting has had     *)
(* each of its requests executed once, and no answer is left over for its  *)
(* next one; a door that waits has at most one request outstanding.        *)
Paired ==
  \A d \in Living :
    /\ proc[d] \in {"start", "run"} =>
         ran[d] = asked[d] /\ ~ans[d] /\ req[d] = "none"
    /\ proc[d] \in {"wait", "closing"} =>
         /\ ran[d] = asked[d] - (IF req[d] = "none" THEN 0 ELSE 1)
         /\ ans[d] => req[d] = "none"

IsOlm(m) == Messages[m] = "olm"

Ascending(s) == \A i, j \in DOMAIN s : i < j => s[i] < s[j]

(* Messages to the user are shown in the order they were sent, none twice  *)
(* and none left out, however the waits and the chats are nested: those    *)
(* shown and those to be shown are all that were read from the socket, and *)
(* those in the socket are the last that were sent.                        *)
OlmsInOrder ==
  LET read == sent - Len(queue)
  IN  /\ \A i \in DOMAIN queue : queue[i] = read + i
      /\ Ascending(shown \o olms)
      /\ Range(shown \o olms) = {m \in 1 .. read : IsOlm(m)}

(* The doors are killed the latest first (the comment at kill_children):   *)
(* the process the node kills has no living door above it.                 *)
LatestFirst ==
  [][\A d \in Living : proc'[d] = "gone" =>
       \A i, j \in DOMAIN stack :
         (i < j /\ stack[j].door = d /\ stack[i].door # d)
           => stack[i].door \notin Living]_vars

(* A door that waits is answered or ends: behind a nested door, a chat or  *)
(* a user who does not type.  The exceptions are the node that killed      *)
(* itself and the one that reads a message nobody sends.                   *)
Answered ==
  \A d \in Doors :
    proc[d] \in {"wait", "closing"}
      ~> (proc[d] \notin {"wait", "closing"} \/ node = "killed" \/ At("read"))

(* The program does not get stuck on a loss of the carrier: the call ends. *)
NotStuck == ~carrier ~> (stack = <<>> \/ node = "killed")
=============================================================================
