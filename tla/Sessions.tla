------------------------------ MODULE Sessions ------------------------------
(***************************************************************************)
(* Callers, their nodes and their records.  Processes know of each other    *)
(* only through files: nodeinfoN.data says which process has node N and     *)
(* which user it serves, dd_sockN leads to its datagram socket, and         *)
(* userbase.dat holds the records.  Every process that works for a user     *)
(* loads the whole record, changes its copy, and writes it back in the end. *)
(* Of a record only the number of credited uploads is kept here; calls of   *)
(* user.c are atomic (UserBase).  An entry of a process that is dead is     *)
(* the same as none, since isnode asks for its pid.                         *)
(***************************************************************************)
EXTENDS Integers, FiniteSets

CONSTANTS
    Callers,     \* node processes started for a telnet call
    Modems,      \* node processes that wait on a line, with a fixed node
    Uploaders,   \* processes started for a file that came by ftp
    LineNode,    \* node number of each modem process
    Telnet1st, TelnetMax,   \* range of node numbers for telnet calls
    Multinode,   \* multinode.dat: the node numbers, and T, L and F entries, in order
    Users,
    Nobody,      \* slot -1
    Nil,         \* no process
    Allow2,      \* ALLOW2LOGINS
    Crash,       \* processes may be killed
    Room,        \* datagrams a socket holds
    MaxFiles     \* bound: files uploaded

Sessions    == Callers \cup Modems
Procs       == Sessions \cup Uploaders
TelnetNodes == Telnet1st .. Telnet1st + TelnetMax - 1
NodeNums    == TelnetNodes \cup {LineNode[m] : m \in Modems}

ASSUME ProcsAssumption == /\ Callers \cap Modems = {}
                          /\ Sessions \cap Uploaders = {}
                          /\ Nil \notin Procs
ASSUME NodesAssumption == /\ Telnet1st \in Nat \ {0} /\ TelnetMax \in Nat \ {0}
                          /\ LineNode \in [Modems -> Nat \ {0}]
                          /\ \A m, n \in Modems : m # n => LineNode[m] # LineNode[n]
                          /\ \A m \in Modems : LineNode[m] \notin TelnetNodes
ASSUME MultinodeAssumption == /\ DOMAIN Multinode \subseteq Nat \ {0}
                              /\ \A i \in DOMAIN Multinode : Multinode[i] \in Nat \ {0}
ASSUME UsersAssumption == Nobody \notin Users
ASSUME BoundsAssumption == /\ Allow2 \in BOOLEAN /\ Crash \in BOOLEAN
                           /\ Room \in Nat /\ MaxFiles \in Nat

VARIABLES
    pc,      \* where each process is
    num,     \* the node number it has or looks at
    user,    \* its copy of a record
    info,    \* nodeinfoN.data: process and user slot
    path,    \* dd_sockN: whose socket it leads to
    queue,   \* credits in each process's socket
    target,  \* the node a credit is sent to
    db,      \* userbase.dat: uploads credited to each user
    earned,  \* history: files each user has uploaded
    mishap   \* history: situations the code does not provide for: two calls got
             \* one node ("clash"), two prompts for one user's password ("prompts"),
             \* a record in two hands in a way that loses one's changes, a datagram
             \* that is lost or goes astray, a copy lost with its process ("record")

vars == <<pc, num, user, info, path, queue, target, db, earned, mishap>>

NoUser == [id |-> Nobody, ul |-> 0]
NoInfo == [pid |-> Nil, slot |-> Nobody]

\* A modem process has made its node and its socket before it waits.
Init ==
    /\ pc = [p \in Procs |-> IF p \in Modems THEN "wait" ELSE "off"]
    /\ num = [p \in Procs |-> IF p \in Modems THEN LineNode[p] ELSE 0]
    /\ user = [p \in Procs |-> NoUser]
    /\ info = [n \in NodeNums |->
                  IF \E m \in Modems : LineNode[m] = n
                  THEN [pid |-> CHOOSE m \in Modems : LineNode[m] = n, slot |-> Nobody]
                  ELSE NoInfo]
    /\ path = [n \in NodeNums |-> info[n].pid]
    /\ queue = [p \in Procs |-> 0]
    /\ target = [p \in Procs |-> 0]
    /\ db = [u \in Users |-> 0]
    /\ earned = [u \in Users |-> 0]
    /\ mishap = {}

Goto(p, l) == pc' = [pc EXCEPT ![p] = l]
Under(cond, name) == IF cond THEN {name} ELSE {}

isnode(n) == info[n].pid # Nil

\* The user a node serves as far as others can see: onlinestat is set when
\* the password was right.
Online == {"in", "send"}
Slot(p) == IF pc[p] \in Online THEN user[p].id ELSE Nobody
Entry(p, u) == [pid |-> p, slot |-> u]

\* The nodes looked at for an entry of multinode.dat (isonline, who, olm,
\* tagged_by_somebody).  getfreetnode gives the telnet range to the T entry;
\* these look through it when they come to an L, and at a T they look
\* through the range of local logins, which are left out here.
TKind == 254
LKind == 253
FKind == 252
Scanned(e) == {n \in NodeNums : \/ e = LKind /\ n \in TelnetNodes
                                \/ e \notin {TKind, LKind, FKind} /\ n = e}
AllScanned == \A n \in NodeNums : \E i \in DOMAIN Multinode : n \in Scanned(Multinode[i])

\* isonline goes through the entries and returns the first node that has the user.
Having(u, i) == {n \in Scanned(Multinode[i]) : info[n].slot = u}
NodesOf(u)   == UNION {Having(u, i) : i \in DOMAIN Multinode}
isonline(u)  == {n \in NodesOf(u) :
                    \E i \in DOMAIN Multinode :
                       /\ n \in Having(u, i) /\ \A k \in Having(u, i) : n <= k
                       /\ \A j \in DOMAIN Multinode : j < i => Having(u, j) = {}}

\* Processes that have a copy of u's record and may write it back.
Holders(u) == {p \in Procs : /\ user[p].id = u
                             /\ pc[p] \in {"passwd", "in", "send", "check", "post", "save"}}

Credit(p) == /\ user' = [user EXCEPT ![p].ul = @ + 1]
             /\ earned' = [earned EXCEPT ![user[p].id] = @ + 1]

\* What goes with a process.
Forget(p) == /\ num' = [num EXCEPT ![p] = 0]
             /\ user' = [user EXCEPT ![p] = NoUser]
             /\ queue' = [queue EXCEPT ![p] = 0]

-----------------------------------------------------------------------------
(* A telnet call gets a node.                                               *)

StartCall(c) ==
    /\ pc[c] = "off"
    /\ \E i \in DOMAIN Multinode : Multinode[i] = TKind
    /\ num' = [num EXCEPT ![c] = Telnet1st]
    /\ Goto(c, "look")
    /\ UNCHANGED <<user, info, path, queue, target, db, earned, mishap>>

\* getfreetnode: the next number that is not a node's, or none.
LookForNode(c) ==
    /\ pc[c] = "look"
    /\ \/ /\ ~isnode(num[c])
          /\ Goto(c, "claim")
          /\ UNCHANGED num
       \/ /\ isnode(num[c])
          /\ num[c] + 1 \in TelnetNodes
          /\ num' = [num EXCEPT ![c] = @ + 1]
          /\ UNCHANGED pc
       \/ /\ isnode(num[c])
          /\ num[c] + 1 \notin TelnetNodes
          /\ num' = [num EXCEPT ![c] = 0]
          /\ Goto(c, "off")
    /\ UNCHANGED <<user, info, path, queue, target, db, earned, mishap>>

\* The first changenodestatus makes the node's file, whoever has made one since.
ClaimNode(c) ==
    /\ pc[c] = "claim"
    /\ info' = [info EXCEPT ![num[c]] = Entry(c, Nobody)]
    /\ mishap' = mishap \cup Under(\E p \in Sessions \ {c} : num[p] = num[c] /\ pc[p] # "look",
                                   "clash")
    /\ Goto(c, "bind")
    /\ UNCHANGED <<num, user, path, queue, target, db, earned>>

\* create_internode_socket, then on to the login prompt.
BindSocket(c) ==
    /\ pc[c] = "bind"
    /\ path' = [path EXCEPT ![num[c]] = c]
    /\ queue' = [queue EXCEPT ![c] = 0]
    /\ Goto(c, "login")
    /\ UNCHANGED <<num, user, info, target, db, earned, mishap>>

\* A call comes in on the line; the socket is the old one.
AnswerModem(m) ==
    /\ pc[m] = "wait"
    /\ user' = [user EXCEPT ![m] = NoUser]
    /\ info' = [info EXCEPT ![num[m]] = Entry(m, Nobody)]
    /\ Goto(m, "login")
    /\ UNCHANGED <<num, path, queue, target, db, earned, mishap>>

-----------------------------------------------------------------------------
(* Login.                                                                   *)

\* Mutant: ALLOW2LOGINS is read the wrong way round.
CheckLogonAnyway(p) ==
    /\ pc[p] = "login"
    /\ \E u \in Users : user' = [user EXCEPT ![p] = [id |-> u, ul |-> db[u]]]
    /\ Goto(p, "passwd")
    /\ UNCHANGED <<num, info, path, queue, target, db, earned, mishap>>

\* A user found on line is refused, after the password; otherwise the record
\* is loaded and the password asked for.
CheckLogon(p) ==
    /\ pc[p] = "login"
    /\ \E u \in Users :
          \/ /\ ~Allow2 /\ NodesOf(u) # {}
             /\ Goto(p, "refuse")
             /\ UNCHANGED <<user, mishap>>
          \/ /\ Allow2 \/ NodesOf(u) = {}
             /\ user' = [user EXCEPT ![p] = [id |-> u, ul |-> db[u]]]
             /\ mishap' = mishap \cup Under(Holders(u) # {}, "record")
                                 \cup Under(\E q \in Holders(u) : pc[q] = "passwd", "prompts")
             /\ Goto(p, "passwd")
    /\ UNCHANGED <<num, info, path, queue, target, db, earned>>

\* alreadyonline, or three wrong passwords.
Refuse(p) ==
    /\ pc[p] = "refuse"
    /\ Goto(p, "leave") \/ Goto(p, "login")
    /\ UNCHANGED <<num, user, info, path, queue, target, db, earned, mishap>>

\* The password is right: getin, and the node's file names the user.
RightPassword(p) ==
    /\ pc[p] = "passwd"
    /\ info' = [info EXCEPT ![num[p]] = Entry(p, user[p].id)]
    /\ Goto(p, "in")
    /\ UNCHANGED <<num, user, path, queue, target, db, earned, mishap>>

\* Three wrong ones, or the carrier is lost: nothing is saved.
WrongPassword(p) ==
    /\ pc[p] = "passwd"
    /\ Goto(p, "leave")
    /\ UNCHANGED <<num, user, info, path, queue, target, db, earned, mishap>>

-----------------------------------------------------------------------------
(* The session.                                                             *)

\* Any later changenodestatus, in case somebody else wrote to the file.
ChangeNodeStatus(p) ==
    /\ pc[p] \in {"login", "refuse", "passwd"} \cup Online
    /\ info[num[p]] # Entry(p, Slot(p))
    /\ info' = [info EXCEPT ![num[p]] = Entry(p, Slot(p))]
    /\ UNCHANGED <<pc, num, user, path, queue, target, db, earned, mishap>>

\* Mutant: an upload by ftp is not told to the user's node.
UploadQuietly(p, from) ==
    /\ pc[p] = from
    /\ earned[user[p].id] < MaxFiles
    /\ Credit(p)
    /\ Goto(p, IF p \in Uploaders THEN "save" ELSE "in")
    /\ UNCHANGED <<num, info, path, queue, target, db, mishap>>

\* addulbytes: the credit goes to the first node that serves the user, unless
\* that is this very node, or one above it.  An ftp process has a node number
\* above all others.
Upload(p, from) ==
    LET serving == {n \in isonline(user[p].id) : p \in Uploaders \/ n < num[p]}
    IN  /\ pc[p] = from
        /\ earned[user[p].id] < MaxFiles
        /\ \/ /\ \E n \in serving : target' = [target EXCEPT ![p] = n]
              /\ Goto(p, IF p \in Uploaders THEN "post" ELSE "send")
              /\ UNCHANGED <<user, earned>>
           \/ /\ serving = {}
              /\ Credit(p)
              /\ Goto(p, IF p \in Uploaders THEN "save" ELSE "in")
              /\ UNCHANGED target
        /\ UNCHANGED <<num, info, path, queue, db, mishap>>

\* sendtosock does not wait: the datagram is lost if there is no socket, or no
\* room in it.
SendCredit(p) ==
    LET to == path[target[p]]
        ok == to # Nil /\ queue[to] < Room
    IN  /\ pc[p] \in {"send", "post"}
        /\ queue' = IF ok THEN [queue EXCEPT ![to] = @ + 1] ELSE queue
        /\ mishap' = mishap \cup Under(~ok, "record")
                            \cup Under(ok /\ to \notin Holders(user[p].id), "record")
        /\ Credit(p)
        /\ target' = [target EXCEPT ![p] = 0]
        /\ Goto(p, IF p \in Uploaders THEN "save" ELSE "in")
        /\ UNCHANGED <<num, info, path, db>>

\* read_input and processmsg, while the process waits for a key.
ReceiveCredit(p) ==
    /\ pc[p] \in {"login", "refuse", "passwd", "in"}
    /\ queue[p] > 0
    /\ queue' = [queue EXCEPT ![p] = @ - 1]
    /\ user' = IF user[p].id = Nobody THEN user ELSE [user EXCEPT ![p].ul = @ + 1]
    /\ UNCHANGED <<pc, num, info, path, target, db, earned, mishap>>

\* saveuserbase, in the midst of a session.
SaveEdit(p) ==
    /\ pc[p] = "in"
    /\ db' = [db EXCEPT ![user[p].id] = user[p].ul]
    /\ UNCHANGED <<pc, num, user, info, path, queue, target, earned, mishap>>

\* getin's end.  The node's file names the user until it is written again.
Logoff(p) ==
    /\ pc[p] = "in"
    /\ db' = [db EXCEPT ![user[p].id] = user[p].ul]
    /\ mishap' = mishap \cup Under(queue[p] > 0, "record")
                        \cup Under(\E q \in Uploaders : q \in Holders(user[p].id), "record")
    /\ Goto(p, "leave")
    /\ UNCHANGED <<num, user, info, path, queue, target, earned>>

\* clear, at the end of a process: the files of the node go, whosever they are.
HangUp(c) ==
    /\ pc[c] = "leave"
    /\ info' = [info EXCEPT ![num[c]] = NoInfo]
    /\ path' = [path EXCEPT ![num[c]] = Nil]
    /\ Forget(c)
    /\ Goto(c, "off")
    /\ UNCHANGED <<target, db, earned, mishap>>

\* Mutant: the line does not say that it waits.
WaitUnseen(m) ==
    /\ pc[m] = "leave"
    /\ user' = [user EXCEPT ![m] = NoUser]
    /\ Goto(m, "wait")
    /\ UNCHANGED <<num, info, path, queue, target, db, earned, mishap>>

\* A modem process waits for the next call, with the socket it has.
WaitForCall(m) ==
    /\ pc[m] = "leave"
    /\ info' = [info EXCEPT ![num[m]] = Entry(m, Nobody)]
    /\ user' = [user EXCEPT ![m] = NoUser]
    /\ Goto(m, "wait")
    /\ UNCHANGED <<num, path, queue, target, db, earned, mishap>>

-----------------------------------------------------------------------------
(* A file that came by ftp: cmdlineupload.                                  *)

LoadForUpload(p) ==
    /\ pc[p] = "off"
    /\ \E u \in Users :
          /\ user' = [user EXCEPT ![p] = [id |-> u, ul |-> db[u]]]
          /\ mishap' = mishap \cup Under(\E q \in Holders(u) :
                                            q \in Uploaders \/ pc[q] = "passwd", "record")
    /\ Goto(p, "check")
    /\ UNCHANGED <<num, info, path, queue, target, db, earned>>

\* The file is not taken; the record is saved all the same.
RejectFile(p) ==
    /\ pc[p] = "check"
    /\ Goto(p, "save")
    /\ UNCHANGED <<num, user, info, path, queue, target, db, earned, mishap>>

\* A session that is on line when it is saved writes its own, later, number.
SaveUpload(p) ==
    /\ pc[p] = "save"
    /\ db' = [db EXCEPT ![user[p].id] = user[p].ul]
    /\ user' = [user EXCEPT ![p] = NoUser]
    /\ Goto(p, "off")
    /\ UNCHANGED <<num, info, path, queue, target, earned, mishap>>

-----------------------------------------------------------------------------
\* A process is killed: its files stay, but isnode does not find it and
\* nothing can be sent to it.
Kill(p) ==
    /\ Crash
    /\ pc[p] # "off"
    /\ info' = [n \in NodeNums |-> IF info[n].pid = p THEN NoInfo ELSE info[n]]
    /\ path' = [n \in NodeNums |-> IF path[n] = p THEN Nil ELSE path[n]]
    /\ mishap' = mishap \cup Under(user[p].id # Nobody, "record")
    /\ Forget(p)
    /\ target' = [target EXCEPT ![p] = 0]
    /\ Goto(p, "off")
    /\ UNCHANGED <<db, earned>>

CallerNext(c) == StartCall(c) \/ LookForNode(c) \/ ClaimNode(c) \/ BindSocket(c)
                 \/ HangUp(c) \/ Kill(c)
ModemNext(m)  == AnswerModem(m) \/ WaitForCall(m)
SessionNext(p) ==
    \/ CheckLogon(p) \/ Refuse(p) \/ RightPassword(p) \/ WrongPassword(p)
    \/ ChangeNodeStatus(p) \/ Upload(p, "in") \/ SendCredit(p) \/ ReceiveCredit(p)
    \/ SaveEdit(p) \/ Logoff(p)
UploaderNext(p) ==
    \/ LoadForUpload(p) \/ Upload(p, "check") \/ RejectFile(p) \/ SendCredit(p)
    \/ SaveUpload(p) \/ Kill(p)

Next == \/ \E c \in Callers : CallerNext(c)
        \/ \E m \in Modems : ModemNext(m)
        \/ \E p \in Sessions : SessionNext(p)
        \/ \E p \in Uploaders : UploaderNext(p)

Spec == Init /\ [][Next]_vars

-----------------------------------------------------------------------------
Stages == {"off", "look", "claim", "bind", "wait", "login", "refuse", "passwd", "in", "send",
           "leave", "check", "post", "save"}


\* Types, and which process is where (the variables' comments).
TypeOK ==
    /\ pc \in [Procs -> Stages]
    /\ num \in [Procs -> NodeNums \cup {0}]
    /\ user \in [Procs -> [id : Users \cup {Nobody}, ul : Nat]]
    /\ info \in [NodeNums -> [pid : Sessions \cup {Nil}, slot : Users \cup {Nobody}]]
    /\ path \in [NodeNums -> Sessions \cup {Nil}]
    /\ queue \in [Procs -> 0..Room]
    /\ target \in [Procs -> NodeNums \cup {0}]
    /\ db \in [Users -> Nat] /\ earned \in [Users -> Nat]
    /\ mishap \subseteq {"clash", "prompts", "record"}
    /\ \A p \in Procs : pc[p] \in {"passwd", "in", "send", "check", "post", "save"}
                           => user[p].id \in Users
    /\ \A p \in Procs : pc[p] \in {"send", "post"} => target[p] \in NodeNums

\* Where no two calls have got the same node, what others see of a node is
\* right: its file names the process that has it, and its user once on line,
\* and messages to it arrive there (who, isonline, olm).
Presence ==
    "clash" \notin mishap =>
        \A p \in Sessions :
            /\ pc[p] \in {"bind", "wait", "login", "refuse", "passwd"} \cup Online
                  => info[num[p]] = Entry(p, Slot(p))
            /\ pc[p] \in {"wait", "login", "refuse", "passwd", "leave"} \cup Online
                  => path[num[p]] = p

\* On a board where multinode.dat has an L entry beside its T, so that isonline
\* looks at every node, two sessions of one user do not happen where they are
\* not allowed, unless two prompts for the user's password were open at once,
\* or two calls got one node (checklogon, getfreetnode).
OneSessionUnlessPrompts ==
    (~Allow2 /\ AllScanned /\ mishap \cap {"clash", "prompts"} = {}) =>
        \A p, q \in Sessions :
            (pc[p] \in Online /\ pc[q] \in Online /\ user[p].id = user[q].id) => p = q

\* "Allow multiple logins at once" set to N (config.html): nobody is on line
\* twice.  (Refuted by two prompts at once; and by two telnet calls one after
\* the other where multinode.dat has a T entry and no L.)
OneSession ==
    ~Allow2 => \A p, q \in Sessions :
        (pc[p] \in Online /\ pc[q] \in Online /\ user[p].id = user[q].id) => p = q

\* Where isonline looks at every node, an upload is credited exactly once, by
\* whichever process it came, when the user's record was in one process's hands at a time but for an ftp
\* upload during a session that lasts longer, and no datagram was lost.
CreditExact ==
    (AllScanned /\ mishap = {}) => \A u \in Users : Holders(u) = {} => db[u] = earned[u]
============================================================================
