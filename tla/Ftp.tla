-------------------------------- MODULE Ftp --------------------------------
(***************************************************************************)
(* The FTP server: one process for each control connection, with the login *)
(* of the BBS and a slot file for each user on line, the data connection   *)
(* of PORT or PASV, transfers that urgent data may interrupt, and what     *)
(* becomes of a file sent to it: put on line by a child (daydream -u), or  *)
(* fetched by the user's own node from his directory ul.                   *)
(*                                                                         *)
(* A file is its number.  Commands that only answer are one action; types, *)
(* modes and the files a user may fetch are left out.                      *)
(***************************************************************************)
EXTENDS Integers, FiniteSets

CONSTANTS
    Servers, Users, Names,
    Nobody, NoName,
    OneLogin,   \* more than one connection of a user is not allowed (CFG_FLAGS)
    MaxSlots,   \* CFG_MAXFTPUSERS
    MaxTries,   \* wrong passwords after which the server leaves
    MaxFiles    \* bound: files sent

ASSUME FtpAssumption ==
    /\ Nobody \notin Servers \cup Users /\ NoName \notin Names
    /\ OneLogin \in BOOLEAN /\ {MaxSlots, MaxTries, MaxFiles} \subseteq Nat

Slots == 1..MaxSlots
NoFile == 0

VARIABLES
    srv,      \* a server: see Fresh
    slots,    \* the slot files: process and user
    ul,       \* the files in the directory ul of a user, by name
    temp,     \* what the children of a user have in his temporary directory, by name
    shelf,    \* files on line, by name
    dropped,  \* history: files a child or a node was done with that are not on line, or were replaced
    next, sent, raced   \* history: files made, confirmed and not removed; a slot taken twice

disk == <<ul, temp, shelf, dropped>>
history == <<next, sent, raced>>
vars == <<srv, slots, disk, history>>

NoJob == [cmd |-> "none", name |-> NoName, file |-> NoFile]
None == [x \in Names |-> NoFile]
NoSlot == [pid |-> Nobody, user |-> Nobody]

\* A server that has not been called yet: what it does; whether its client is gone, and
\* without a word; the login; infoname and the result
\* of its scan of the slots; the data connections of PASV and PORT; a name to rename; the
\* upload conference; a command that came as urgent data; the transfer; whether, as history,
\* a list was aborted since a data connection was closed.
Fresh ==
    [pc |-> "free", gone |-> FALSE, mute |-> FALSE, pw |-> Nobody, asked |-> FALSE, logged |-> FALSE, tries |-> 0,
     slot |-> 0, found |-> 0, pdata |-> "none", data |-> "none", from |-> NoName, ulconf |-> FALSE,
     tmpline |-> "none", job |-> NoJob, left |-> FALSE]

Init ==
    /\ srv = [p \in Servers |-> Fresh] /\ slots = [i \in Slots |-> NoSlot]
    /\ ul = [u \in Users |-> None] /\ temp = [u \in Users |-> None] /\ shelf = None /\ dropped = {}
    /\ next = 1 /\ sent = {} /\ raced = FALSE

Set(p, r) == srv' = [srv EXCEPT ![p] = r]
Live(q) == q \in Servers /\ srv[q].pc # "free"
Mine(p) == ul[srv[p].pw]

\* A slot file that names a process that has ended is as good as none.
Orphaned(p) == [i \in Slots |-> IF slots[i].pid = p THEN [slots[i] EXCEPT !.pid = Nobody] ELSE slots[i]]

\* dologout: the slot file is removed by its name; exit leaves it behind.
Leave(p) ==
    /\ srv' = [srv EXCEPT ![p] = Fresh]
    /\ slots' = IF srv[p].slot = 0 THEN Orphaned(p) ELSE [Orphaned(p) EXCEPT ![srv[p].slot] = NoSlot]

Exit(p) == srv' = [srv EXCEPT ![p] = Fresh] /\ slots' = Orphaned(p)

Connect(p) ==
    /\ srv[p].pc = "free" /\ Set(p, [srv[p] EXCEPT !.pc = "cmd"])
    /\ UNCHANGED <<slots, disk, history>>

\* A client that closes its connections, or is cut off and neither closes nor answers.
Vanish(p) ==
    /\ Live(p) /\ ~srv[p].gone
    /\ \E m \in BOOLEAN : Set(p, [srv[p] EXCEPT !.gone = TRUE, !.mute = m])
    /\ UNCHANGED <<slots, disk, history>>

-----------------------------------------------------------------------------
(* Commands.  A command that came as urgent data is read before the next. *)

Line(p, c) == IF srv[p].tmpline = "none" THEN ~srv[p].gone ELSE srv[p].tmpline = c
Reads(p, c) == srv[p].pc = "cmd" /\ Line(p, c)

\* Most commands forget the name of RNFR.
Cmd(p, r) == Set(p, [r EXCEPT !.from = NoName, !.tmpline = "none"])

\* CWD, CDUP, PWD, MKD and RMD: the two last are not even answered when they succeed.
Directory(p) ==
    /\ Reads(p, "CWD") /\ srv[p].logged /\ Cmd(p, srv[p])
    /\ UNCHANGED <<slots, disk, history>>

\* Types, modes, status; also the line that is not understood, and an ABOR too late.
Answer(p) ==
    /\ Reads(p, "STAT") /\ Cmd(p, srv[p])
    /\ UNCHANGED <<slots, disk, history>>

Quit(p) ==
    /\ Reads(p, "QUIT") /\ Leave(p)
    /\ UNCHANGED <<disk, history>>

\* The alarm runs while a command is awaited, and a lost connection is then an end of file.
Timeout(p) ==
    /\ srv[p].pc = "cmd" /\ srv[p].tmpline = "none" /\ Leave(p)
    /\ UNCHANGED <<disk, history>>

\* Mutant: the login before is not ended.
UserKept(p) ==
    /\ Reads(p, "USER")
    /\ \E u \in Users : Cmd(p, [srv[p] EXCEPT !.pw = u, !.asked = TRUE])
    /\ UNCHANGED <<slots, disk, history>>

\* USER ends the login before, but not the slot taken for it; an unknown user is refused
\* with the password still expected.
User(p) ==
    /\ Reads(p, "USER")
    /\ \E u \in Users \cup {Nobody} :
         Cmd(p, [srv[p] EXCEPT !.logged = FALSE, !.pw = u, !.asked = @ \/ u # Nobody])
    /\ UNCHANGED <<slots, disk, history>>

\* With no user there is no record to compare with: a crash.
PassWrong(p) ==
    /\ Reads(p, "PASS") /\ ~srv[p].logged /\ srv[p].asked
    /\ IF srv[p].pw = Nobody \/ srv[p].tries >= MaxTries THEN Exit(p)
       ELSE /\ Cmd(p, [srv[p] EXCEPT !.asked = FALSE, !.pw = Nobody, !.tries = @ + 1])
            /\ UNCHANGED slots
    /\ UNCHANGED <<disk, history>>

\* A slot file is cut to nothing before it is written, at each block of a transfer: read in
\* between it is taken for a copy of the one read before, or for what was on the stack.
Seen(torn, junk) ==
    LET seen[i \in Slots] == IF i \notin torn THEN slots[i] ELSE IF i = 1 THEN junk ELSE seen[i - 1]
    IN  seen

\* The last slot that is empty or whose process is dead, if the user is in none.
Free(s) == {i \in Slots : s[i].pid = Nobody}
Twice(s, u) == OneLogin /\ \E i \in Slots \ Free(s) : s[i].user = u
Found(s, u) == IF Twice(s, u) \/ Free(s) = {} THEN 0 ELSE CHOOSE i \in Free(s) : \A j \in Free(s) : j <= i

PassRight(p) ==
    /\ Reads(p, "PASS") /\ ~srv[p].logged /\ srv[p].asked /\ srv[p].pw # Nobody
    /\ \E torn \in SUBSET {srv[q].slot : q \in {o \in Servers : srv[o].pc = "xfer"}},
          junk \in {NoSlot, [pid |-> p, user |-> Nobody]} :
         Cmd(p, [srv[p] EXCEPT !.asked = FALSE, !.logged = TRUE, !.tries = 0, !.pc = "slot",
                               !.found = Found(Seen(torn, junk), srv[p].pw)])
    /\ UNCHANGED <<slots, disk, history>>

\* The slot is written, whoever has taken it since; without one the login is undone, but
\* infoname no longer names the slot of a login before.
TakeSlot(p) ==
    /\ srv[p].pc = "slot"
    /\ LET i == srv[p].found
       IN  IF i = 0
           THEN /\ Set(p, [srv[p] EXCEPT !.pc = "cmd", !.slot = 0, !.logged = FALSE, !.pw = Nobody])
                /\ UNCHANGED <<slots, raced>>
           ELSE /\ Set(p, [srv[p] EXCEPT !.pc = "cmd", !.slot = i, !.found = 0])
                /\ slots' = [slots EXCEPT ![i] = [pid |-> p, user |-> srv[p].pw]]
                /\ raced' = (raced \/ i \notin Free(slots) \/ Twice(slots, srv[p].pw))
    /\ UNCHANGED <<disk, next, sent>>

-----------------------------------------------------------------------------
(* The data connection. *)

\* PASV opens a socket, unless no port is free; one that was open before is forgotten.
\* PORT closes it.
Passive(p) ==
    /\ Reads(p, "PASV") /\ srv[p].logged
    /\ \E d \in {"listen", "none"} : Cmd(p, [srv[p] EXCEPT !.pdata = d])
    /\ UNCHANGED <<slots, disk, history>>

Port(p) ==
    /\ Reads(p, "PORT") /\ Cmd(p, [srv[p] EXCEPT !.pdata = "none"])
    /\ UNCHANGED <<slots, disk, history>>

\* Where dataconn goes: a connection from before is used again, in PORT mode.
Opening(p) ==
    IF srv[p].pdata # "none" THEN "accept" ELSE IF srv[p].data = "open" THEN "xfer" ELSE "connect"

Retrieve(p) ==
    /\ Reads(p, "RETR") /\ srv[p].logged
    /\ Cmd(p, [srv[p] EXCEPT !.pc = Opening(p), !.job.cmd = "RETR"])
    /\ UNCHANGED <<slots, disk, history>>

List(p) ==
    /\ Reads(p, "NLST") /\ srv[p].logged
    /\ Cmd(p, [srv[p] EXCEPT !.pc = Opening(p), !.job.cmd = "NLST"])
    /\ UNCHANGED <<slots, disk, history>>

\* gunique: a name that is free, if the one given is not; there may be none.
Unique(p, x) == IF Mine(p)[x] = NoFile THEN {x} ELSE {y \in Names : Mine(p)[y] = NoFile}

\* STOR cuts a file of that name to nothing, APPE and a restart keep it, STOU takes a name
\* that is free, all before there is a data connection.
Store(p) ==
    /\ \E x \in Names, c \in {"STOR", "STOU", "APPE"} :
         /\ Reads(p, c) /\ srv[p].logged /\ shelf[x] = NoFile
         /\ \E y \in IF c = "STOU" THEN Unique(p, x) ELSE {x} :
              LET old == Mine(p)[y]
                  id == IF old = NoFile THEN next ELSE old
              IN  /\ id <= MaxFiles
                  /\ Cmd(p, [srv[p] EXCEPT !.pc = Opening(p), !.job = [cmd |-> "STOR", name |-> y, file |-> id]])
                  /\ ul' = [ul EXCEPT ![srv[p].pw][y] = id]
                  /\ sent' = IF c = "STOR" THEN sent \ {id} ELSE sent
                  /\ next' = IF old = NoFile THEN next + 1 ELSE next
    /\ UNCHANGED <<slots, temp, shelf, dropped, raced>>

\* Mutant: only the connection of PASV is forgotten.
ClosedHalf(r) == [r EXCEPT !.pdata = "none", !.left = FALSE]
Closed(r) == [r EXCEPT !.pdata = "none", !.data = "none", !.left = FALSE]
Done(p, r) == Set(p, [r EXCEPT !.pc = "cmd", !.job = NoJob])

\* One that is on line is turned down, and with it the data connection.
StoreRefused(p) ==
    /\ Reads(p, "STOR") /\ srv[p].logged /\ shelf # None
    /\ Cmd(p, Closed(srv[p]))
    /\ UNCHANGED <<slots, disk, history>>

\* The client connects to the socket of PASV.  accept waits for as long as it takes; on a
\* socket that is connected it fails.
Accept(p) ==
    /\ srv[p].pc = "accept"
    /\ \/ srv[p].pdata = "listen" /\ ~srv[p].gone /\ Set(p, [srv[p] EXCEPT !.pdata = "open", !.pc = "xfer"])
       \/ srv[p].pdata = "open" /\ Done(p, [srv[p] EXCEPT !.pdata = "none"])
    /\ UNCHANGED <<slots, disk, history>>

Dial(p) ==
    /\ srv[p].pc = "connect"
    /\ \/ ~srv[p].gone /\ Set(p, [srv[p] EXCEPT !.data = "open", !.pc = "xfer"])
       \/ Done(p, [srv[p] EXCEPT !.data = "none"])
    /\ UNCHANGED <<slots, disk, history>>

\* The slot file tells the bytes of each block: updateinfo.
Update(p) ==
    /\ srv[p].pc = "xfer"
    /\ slots' = [slots EXCEPT ![srv[p].slot] = [pid |-> p, user |-> srv[p].pw]]
    /\ UNCHANGED <<srv, disk, history>>

\* What is sent to a peer that has closed brings SIGPIPE, and with it the end of the server.
Send(p) ==
    /\ srv[p].pc = "xfer" /\ srv[p].job.cmd # "STOR"
    /\ \/ Done(p, Closed(srv[p])) /\ UNCHANGED slots
       \/ Leave(p)
    /\ UNCHANGED <<disk, history>>

\* Mutant: a peer that has closed is waited for.
ReceiveMore(p) ==
    /\ srv[p].pc = "xfer" /\ srv[p].job.cmd = "STOR" /\ ~srv[p].gone
    /\ Done(p, Closed(srv[p])) /\ sent' = sent \cup {srv[p].job.file}
    /\ UNCHANGED <<slots, disk, next, raced>>

\* The end of what the client sends is the end of the file, after which a child may put it
\* on line; an error is reported, and what has come stays in ul.  The read has no time
\* limit: of a client that was cut off it does not return.
Receive(p) ==
    /\ srv[p].pc = "xfer" /\ srv[p].job.cmd = "STOR" /\ ~srv[p].mute
    /\ \/ /\ IF srv[p].ulconf THEN Set(p, [Closed(srv[p]) EXCEPT !.pc = "check"]) ELSE Done(p, Closed(srv[p]))
          /\ sent' = sent \cup {srv[p].job.file}
       \/ Done(p, Closed(srv[p])) /\ UNCHANGED sent
    /\ UNCHANGED <<slots, disk, next, raced>>

\* Urgent data during a transfer.  ABOR ends it, but what NLST had opened stays open; STAT
\* is answered, and left to be read again; any other command waits.
Urgent(p) ==
    /\ srv[p].pc = "xfer" /\ ~srv[p].gone
    /\ \/ Done(p, IF srv[p].job.cmd = "NLST" THEN [srv[p] EXCEPT !.left = TRUE] ELSE Closed(srv[p]))
       \/ \E c \in {"STAT", "QUIT"} : srv[p].tmpline = "none" /\ Set(p, [srv[p] EXCEPT !.tmpline = c])
    /\ UNCHANGED <<slots, disk, history>>

-----------------------------------------------------------------------------
(* Files. *)

\* SITE UPLOAD.  No login is asked for: with no user there is no record to look at.
SetUlConf(p) ==
    /\ Reads(p, "UPLOAD")
    /\ IF srv[p].pw = Nobody THEN Exit(p) ELSE Cmd(p, [srv[p] EXCEPT !.ulconf = TRUE]) /\ UNCHANGED slots
    /\ UNCHANGED <<disk, history>>

Delete(p) ==
    /\ Reads(p, "DELE") /\ srv[p].logged /\ Cmd(p, srv[p])
    /\ \E x \in Names :
         /\ Mine(p)[x] # NoFile /\ sent' = sent \ {Mine(p)[x]}
         /\ ul' = [ul EXCEPT ![srv[p].pw][x] = NoFile]
    /\ UNCHANGED <<slots, temp, shelf, dropped, next, raced>>

RenameFrom(p) ==
    /\ Reads(p, "RNFR") /\ srv[p].logged
    /\ \E x \in Names : Mine(p)[x] # NoFile /\ Set(p, [srv[p] EXCEPT !.from = x, !.tmpline = "none"])
    /\ UNCHANGED <<slots, disk, history>>

\* The file may be gone by then; one of the other name is replaced.
RenameTo(p) ==
    /\ Reads(p, "RNTO") /\ srv[p].from # NoName /\ Cmd(p, srv[p])
    /\ \E y \in Names \ {srv[p].from} :
         LET id == Mine(p)[srv[p].from]
         IN  /\ id # NoFile
             /\ sent' = sent \ {Mine(p)[y]}
             /\ ul' = [ul EXCEPT ![srv[p].pw][srv[p].from] = NoFile, ![srv[p].pw][y] = id]
    /\ UNCHANGED <<slots, temp, shelf, dropped, next, raced>>

\* The child moves the file to the temporary directory of the user, if it is still in ul,
\* to put it on line.
Fetch(p) ==
    /\ srv[p].pc = "check" /\ Set(p, [srv[p] EXCEPT !.pc = "child"])
    /\ LET x == srv[p].job.name
           u == srv[p].pw
       IN  IF ul[u][x] = NoFile THEN UNCHANGED <<ul, temp>>
           ELSE /\ temp' = [temp EXCEPT ![u][x] = ul[u][x]]
                /\ ul' = [ul EXCEPT ![u][x] = NoFile]
    /\ UNCHANGED <<slots, shelf, dropped, history>>

\* handleupload says that it has done with a file when that is on line, in the place of one
\* of its name where duplicates are not looked for, but also when it is a duplicate, when its
\* archive is broken and was removed, and when the list of the area cannot be written.
Settled(x, id) ==
    \/ /\ shelf' = [shelf EXCEPT ![x] = id]
       /\ dropped' = dropped \cup ({shelf[x]} \ {NoFile})
    \/ UNCHANGED shelf /\ dropped' = dropped \cup {id}

\* Mutant: one that is turned down is left for the directory to be emptied.
HandleLost(p) ==
    /\ srv[p].pc = "child" /\ Done(p, srv[p])
    /\ LET x == srv[p].job.name
           id == temp[srv[p].pw][x]
       IN  \/ id # NoFile /\ Settled(x, id)
           \/ UNCHANGED <<shelf, dropped>>
    /\ temp' = [temp EXCEPT ![srv[p].pw] = None]
    /\ UNCHANGED <<slots, ul, history>>

\* One that is turned down (its name, no archive, no description) goes back under its name.
\* At the end the directory is emptied.
Handle(p) ==
    /\ srv[p].pc = "child" /\ Done(p, srv[p])
    /\ LET x == srv[p].job.name
           u == srv[p].pw
           id == temp[u][x]
       IN  /\ \/ id = NoFile /\ UNCHANGED <<ul, shelf, dropped>>
              \/ id # NoFile /\ Settled(x, id) /\ UNCHANGED ul
              \/ id # NoFile /\ ul' = [ul EXCEPT ![u][x] = id] /\ UNCHANGED <<shelf, dropped>>
           /\ temp' = [temp EXCEPT ![u] = None]
    /\ UNCHANGED <<slots, history>>

\* On his node the user has the files in ul taken for an upload, whole or not.  What he puts
\* off there is here still in ul.
NodeTakes(u) ==
    /\ \E x \in Names :
         /\ ul[u][x] # NoFile /\ Settled(x, ul[u][x])
         /\ ul' = [ul EXCEPT ![u][x] = NoFile]
    /\ UNCHANGED <<srv, slots, temp, history>>

\* What a server does without a client: a command it has read before is a command too.
Serve(p) ==
    \/ TakeSlot(p) \/ Accept(p) \/ Dial(p) \/ Send(p) \/ Fetch(p) \/ Handle(p) \/ Timeout(p)
    \/ srv[p].gone /\ Receive(p)
    \/ srv[p].tmpline # "none" /\ (Answer(p) \/ Quit(p))

Login(p) == User(p) \/ PassWrong(p) \/ PassRight(p) \/ Quit(p)
Transfers(p) == Passive(p) \/ Port(p) \/ Answer(p) \/ Directory(p) \/ Retrieve(p) \/ Store(p) \/ StoreRefused(p) \/ List(p)
OnFiles(p) == Delete(p) \/ RenameFrom(p) \/ RenameTo(p) \/ SetUlConf(p)
Commands(p) == Login(p) \/ Transfers(p) \/ OnFiles(p)

Next ==
    \/ \E p \in Servers : Serve(p) \/ Receive(p) \/ Update(p) \/ Connect(p) \/ Vanish(p) \/ Commands(p) \/ Urgent(p)
    \/ \E u \in Users : NodeTakes(u)

\* A server that runs goes on, and so does the child it waits for.
Spec == Init /\ [][Next]_vars /\ \A p \in Servers : WF_vars(Serve(p))

-----------------------------------------------------------------------------
(* Properties. *)

\* Every server with a login has a slot file that names it and its user, no two of them the
\* same one, and no user has two where that is not allowed: the limit counts the live ones.
\* Two scans at a time, or one that reads a file being rewritten, are known to break it.
WithinSlots ==
    ~raced =>
        \A p \in Servers :
            srv[p].logged /\ srv[p].pc # "slot" =>
                /\ srv[p].slot \in Slots /\ slots[srv[p].slot] = [pid |-> p, user |-> srv[p].pw]
                /\ OneLogin => \A q \in Servers \ {p} : srv[q].logged /\ srv[q].pc # "slot" => srv[q].pw # srv[p].pw

\* A file whose arrival was confirmed, and which the user has neither removed nor sent anew,
\* is in his directory, with the child that looks at it, or on line, unless handleupload was
\* done with it otherwise (dropped) or another took its name; with two logins of a user one
\* child may empty the directory of the other.
Kept ==
    \A id \in sent :
        \/ raced \/ ~OneLogin \/ id \in dropped
        \/ \E x \in Names : shelf[x] = id \/ \E u \in Users : id \in {ul[u][x], temp[u][x]}

\* Between transfers no data connection is left that the next one would take for its own:
\* an error, a refusal and an abort close it, but for a list that is aborted.
NoneLeft ==
    \A p \in Servers : srv[p].pc = "cmd" /\ ~srv[p].left => "open" \notin {srv[p].data, srv[p].pdata}

\* A server whose client is gone ends and gives its slot back, unless it waits for a data
\* connection or for the data of a client that was cut off, which nothing limits.
Stuck(p) ==
    \/ srv[p].pc = "accept" /\ srv[p].pdata = "listen"
    \/ srv[p].pc = "xfer" /\ srv[p].job.cmd = "STOR" /\ srv[p].mute

SilentEnds ==
    \A p \in Servers : srv[p].gone ~> srv[p].pc = "free" \/ Stuck(p)
=============================================================================
