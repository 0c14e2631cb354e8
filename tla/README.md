# DayDream BBS: a verification project in TLA+

DayDream is a multi-node bulletin board for Unix.  Every caller is served by a
process of its own (a *node*: `main/daydream`, started by inetd, by a getty or
waiting on a modem); the nodes share nothing but files under `$DAYDREAM`, small
status files and Unix datagram sockets under `/tmp`.  Tools run by cron or by the
sysop (`utils/`) work on the same files while callers are on line.  The program
has no server process that puts things in order: what the files hold is right
only if each process takes its steps in an order that the others can bear.  This
directory models those orders, checks them with TLC, and proves with TLAPS the
results that matter most.

Paths below are relative to the repository's `src/`.

## 1. The system

| component | state it keeps | operations | hard behaviour | module |
|---|---|---|---|---|
| message bases (`main/entermsg.c`, `readmsgs.c`, `replymsg.c`, `lib/libddcommon.c`, `utils/fixbases.c`, `msgbaseopt.c`, `robowriter.c`) | for each base a pointer file (lowest and highest number, `flock`ed), a header array file (`flock`ed), one text file per message | enter, reply, read, keep, edit, delete; post by tool; rebuild pointers; purge and renumber | headers are rewritten at a *file offset* remembered from an earlier read; two files, two locks, no common transaction; the tools renumber while nodes read | `MsgBase` |
| program runner (`main/stdiohan.c`) | the child, its terminal, carrier flag, the clock of its end | start, relay of keys and output, loss of carrier, SIGHUP, SIGTERM, SIGKILL, reaping | signals and exit of the child in every order with the loop's steps | `RunStdio` |
| user base (`main/user.c`, `main/misc.c`, `lib/libddcommon.c`) | `userbase.dat`, an array of records; an fcntl lock on the whole file, taken by polling | get by slot, get by name, write | short writes, kills and full disks while a record is written; a lock that is never free | `UserStore`, `UserBase` |
| nodes and login (`main/daydream.c`, `unix.c`, `who.c`, `misc.c`, `enterbbs.c`) | one status file and socket per node, the session | claim a node, log in, enter, leave, clear | check-then-act on the status files across the password prompt | `Sessions` |
| accounts (`main/newuser.c`, `edituser.c`, `usered.c`, `domenu.c`) | a copy of the record in each session and editor | apply, edit, delete, save at the end of a call | whole-record copies with several writers; slot search and save are two calls | `Accounts` |
| last read pointers, mail scan (`main/joinconf.c`, `mailscan.c`) | one file of pointers per base, by slot; the session's copy; the bases tagged | join a conference or a base, read, scan, leave | how far mail was looked for is decided by a number file that is ahead of the headers | `Accounts` |
| file areas, tags, downloads (`main/tagedit.c`, `download.c`, `movefile.c`, `enterbbs.c`) | files and their list, tags, saved tags, a broken upload's part | tag, untag, send, charge, move | the transfer's log decides what is charged | `Files` |
| uploads and checker (`main/upload.c`, `ftpul.c`) | received files, a forked checker with a copy of the record, its result file | receive, check, file, credit | the checker works on the caller's record while the node does; a signal at any time | `Files` |
| doors (`main/doorport.c`, `lib/libdd.c`) | a stream socket per level of nesting, the list of doors' processes | request and answer, the end from either side | loops nest in one thread: door, command, door, key, chat | `Doors` |
| messages between nodes, chat (`main/olm.c`, `typetext.c`, `linechat.c`) | datagram socket, the list of messages not yet shown | send, receive in HotKey, chat, kick | a message may open a chat inside a door's wait for a key | `Doors` |
| keyboard, prompt, idle clock (`main/hotkey.c`, `prompt.c`) | idle clock, time left | wait for a key, warn, hang up | kills the doors on the way out | `Doors` |
| hydra (`hydracom/`) | a sending and a receiving machine at each end | batches both ways at once | lost and late packets, retries, timers, descriptors | `Hydra` |
| zmodem (`ddz/`) | sender, receiver, two logs | a list of files one way | damaged, lost and late packets; what a close does | `ZModem` |
| echomail tosser (`utils/tosser.c`) | packets, archives, flow files, message bases | export, import, route, pack | its packets lie where it unpacks; kills at any step | `Tosser` |
| ftp server (`ddftp/`, `main/ftpul.c`) | slot files, data connections, a user's directory | login, transfers, urgent data, hand-over of a file | slots scanned and written later; aborts leave connections | `Ftp` |
| telnet daemon (`telnetd/`) | options of each side, requests under way | negotiate, start the BBS, pass data | requests of both ends cross and look like answers | `Telnet` |
| the rest: menus and texts, waiting for a call, node monitor, log rotation, configuration compiler and converters, statistics, example doors, viewers | | | see section 8 | - |

How they interact: a node *calls* the components of the first rows in one thread
of control, so within a node nothing overlaps but signal handlers and forked
children; *between* processes the interaction is through shared files (locked or
not), status files, datagrams and signals.  The models therefore have one step
per system call that another process can see, and any number of processes.  Where
a module leans on another it says so: `Sessions`, `Accounts` and `Files` take the
calls of `user.c` to be atomic, which is what `UserBase` shows of them; the files a
transfer leaves in the log are those `Transfer` promises, which `Hydra` and
`ZModem` implement; `Tosser` takes the writing of a header as one step, which
`MsgBase` opens up; the upload of a file by ftp ends in `Ftp` where `Sessions`
(the credit) and `Files` (the checking) begin.

What makes each component correct:

- message bases: numbers ascend and are never given twice, the pointer file
  covers the headers and never goes back, a node changes only the message it
  shows, what is posted is not lost;
- program runner: the loop ends, in time, with the child dead and reaped; a
  child gets its grace period;
- user base: calls are atomic and end;
- accounts and login: what was decided about an account stays, one user on one
  node where the configuration says so, credit goes to its owner;
- mail: what is new is offered once, and what was read stays read;
- uploads and downloads: no file is lost, the list is that of the files, each file
  is credited once and charged at least once, ratios are kept;
- doors: loops, processes and answers stay paired; messages keep their order;
- protocols: what the receiver keeps is a prefix of what the sender had, a log
  line speaks the truth, and both programs end;
- tosser: mail reaches every link, once;
- ftp and telnet: slots are told apart and given back, a confirmed file is not
  lost, both ends come to mean the same.

## 2. The modules

| module | models | uses |
|---|---|---|
| `MsgBase`, `MCMsgBase`, `MsgBase_proofs` | the message bases with nodes, posting tools and maintenance tools, one action per file operation | - |
| `RunStdio`, `Doors_proofs` | runstdio: the node's loop, the child, its terminal, the clock | - |
| `UserStore` | abstract: what user.c promises its callers | - |
| `UserBase`, `MCUserBase`, `UserBase_proofs` | user.c: polling lock, reads, partial writes, failures; implements `UserStore` | `UserStore` by INSTANCE |
| `Sessions`, `MCSessions`, `Sessions_proofs` | telnet calls, modem nodes and ftp uploads: nodes, login, presence, copies of records, upload credits sent between processes | - |
| `Accounts`, `MCAccounts`, `Accounts_proofs` | applying, records and their copies, last read pointers, the scan for mail | - |
| `Files`, `MCFiles`, `Files_proofs` | uploads, the checker, tags, downloads, areas, credits | - |
| `Doors`, `MCDoors`, `Doors_proofs` | one node, its doors, its user, messages and chat | - |
| `Transfer` | abstract: what a file transfer promises whoever relies on its log | - |
| `Hydra`, `MCHydra` | hydracom at both ends of a line; implements `Transfer` | `Transfer` by INSTANCE |
| `ZModem`, `MCZModem`, `Sessions_proofs` | ddsz and ddrz; implements `Transfer` | `Transfer` by INSTANCE |
| `Tosser`, `MCTosser`, `Tosser_proofs` | the tosser on several systems, with a mailer | - |
| `Ftp`, `MCFtp`, `Ftp_proofs` | the ftp server's processes, and what becomes of a file | - |
| `Telnet`, `MCTelnet` | option negotiation between the daemon and a client | - |

An MC module gives the constants of its module their small values and, where one
set of values will not do, a constraint `Casts` that lets each of several casts
(who is at work, with what) run its course without mixing them.  Definitions
marked "mutant" are slips of the pen a careful reader might let pass; each property
is known to catch one.

In most modules a history variable (`mishap`, `raced`, `shared`, `lost`, `again`,
`misled`, `dropped`, the field `left` of an ftp server) records the situations the
program does not provide for.  A property is claimed as long as the mishaps that would
break it have not happened, so that the names of the mishaps are the list of what is
known not to be safe.  Where a hazard of PROJECT.json is itself such a situation, the
property shows nothing of what follows it; section 6 lists those.

### MsgBase

State and code: `ptr[b]` is `msgbase.ptr`, `dat[b]` the header array
`msgbase.dat`, `text[b][n]` the file of message *n* with its attachments; each
process has its `current_msgbase` (`base`), the pointers as it last read them
(`ptrs`), the reader's header window with the offset it was read from (`buf`),
the header shown (`cur`), and the save it is busy with (`job`, `at`).  One action
is one file operation: `TakeNumber` is `getmsgptrs` and the increment,
`SetMsgPtrs` the write of the pointer file, `SeekEnd` and `AppendHeader` the
`lseek` and `write` of the header, `WriteText` the text file, and likewise for
`readmessages`, `showmsg`, delete, edit header, edit text, keep, reply, and for
`fixbases` and `msgbaseopt`.  `SaveFails` is a failed open anywhere in a save.
`id` and `home` of a header, `saved`, `issued` and `mishap` are history: the
program does not have them.

The code is not safe against everything that can happen to it.  `mishap` records
the situations it does not provide for: two saves at once (`overlap`), deleting a
message still being saved (`early`), a keep that fails half way (`keepfail`),
jumping to another base from the reader (`jump`), maintenance on a base in use or
cut short by the seek error (`repair`).  `Orderly` says none has happened.  The
safety properties are claimed as long as `Orderly` holds; section 3 says what
jumping from the reader and the seek error do to the messages.  Everything else
interleaves freely, readers that hold stale windows in particular: that those do
not bring back an old number or lose a message is what the run is about.

Bounds: two numbers handed out with two nodes (the window written back over an
append, and one message kept, replied to or deleted by the other node), three
with one node and a tool on two bases.  A window is `WindowSize` headers, 100 in the
code and two here, so that a base with three is longer than the window; the search
for a message moves it to any place of the base (`ShowMsg`, `InWindow`), and where it
ends before the headers do is a matter of the offset it is remembered with.

### RunStdio

`loop` is the place in `master_loop` and `do_comm`, one label for each check of the
polling loop; `kid` the child's life, `told` a stop `waitpid` has yet to report,
`pend` the signals on their way, `slave`, `outq`, `inq` the terminal, `hangup` the
seconds since `hangup_time`.  The five modes of the parameter `inp` differ in
where keys come from and output goes (`Interactive`, `Pipe`, `ToFile`).  The child
is anything a program may be: it writes, reads or not, stops, detaches, ignores
SIGHUP and SIGTERM or not, exits when it likes, or fails to set up its terminal.

Fairness: the loop runs on because its `select` has a time-out of 50 ms
(`WF(Master)`), signals do not interrupt that `select` in every round for ever
(`SF(Select)`), the kernel delivers signals (`WF(Deliver)`), time passes
(`WF(Tick)`).  The child and the caller owe nothing.  `KillAfter` is 1 and
`TermAfter` 0 instead of 20 and 10: only the order of the two matters to the loop.
Two keys and room for one in the terminal: the node may hang in `safe_write`, in a
write of a key to a program that does not read (`Jammed`).  `CarrierLossEnds` and
`StopEnds` except just that it hangs there for good (`[]Jammed`); a write that goes on
because the program reads, ends or gives up its terminal is no excuse.
`runstdio` returns, so the run does not check for deadlock.

### UserStore and UserBase

`UserStore` is what the rest of the board believes of `user.c`: an array of
records, read and written whole, with reads that may fail for no visible reason.
`UserBase` has the calls as they are: open, up to 300 polls for an fcntl lock
(`TryLock`, bounded by `Retries`), one `read` per record (`ReadById`,
`ScanByName`), one or more `write`s per record (`WriteSome`: a short write leaves
a record of new and old parts), unlock.  A failed poll makes the reader return -1
and the writer exit (`saveuserbase`).  With `Failures` processes are also killed
anywhere and writes fail on a full disk.  `Atomic` is the refinement: a record is
mapped to its new contents from its first `write` on, since nobody else can look
before the unlock.  A torn record has no counterpart in the store: `cut` remembers
that a writer was stopped half way, and from that step on `Atomic` asks for
nothing.  Kills and full disks before it, and between the calls, are covered.

Fairness: only that a process that polls goes on polling.  The holder of the lock
may hang for ever.

Bounds: two processes, a file that grows from nothing to one record, three parts
to a record (a first, a middle and a last write), two polls.  Two processes are
enough for every clash of a reader with a writer or of two writers; that nothing
changes with more of anything is what the proofs say.

### Sessions

State and code: `info[n]` is `nodeinfoN.data` with the pid of its process and the
slot of its user, `path[n]` the name `dd_sockN`, `queue[p]` the datagrams in a
process's socket, `db` the user base (its calls are atomic, which is `UserBase`'s
part), `user[p]` the copy of a record a process works on, of which only the count
of uploads is kept.  The place `pc[p]` follows a telnet call through
`getfreetnode` (`look`, `claim`), `initterm` (`bind`), `try_login` (`login`,
`refuse`, `passwd`), the session (`in`), a credit on its way to another node
(`send`), and `clear` (`leave`); a modem process keeps its node and socket and
starts from `wait`; `cmdlineupload` goes through `check`, `post` and `save`.
`ChangeNodeStatus` is every later `changenodestatus`, enabled only when somebody
else has written to the file.  A dead process's entry counts as none, since
`isnode` asks whether its pid is alive.

`Multinode` is the list of entries of `multinode.dat`, as `ddcfg` writes them (T is
254, L 253, F 252).  `getfreetnode` gives the telnet range to the T entry
(`main/unix.c:270`), but `isonline`, `who`, `olmall` and the list of tagged files
look through that range when they come to an *L* entry, and at a T through the range
of local logins (`main/misc.c:252-273`).  On a board with both, as in the
distribution's `daydream.cfg`, every node is looked at all the same (`AllScanned`),
the local ones before the telnet ones; on a board with a T and no L nobody who came
by telnet is ever found.  `OneSessionUnlessPrompts` and `CreditExact`, and their
theorems, therefore say `AllScanned`.  Local logins themselves are left out.
`isonline` gives the first node in the order of the entries.

`earned` and `mishap` are history.  `mishap` names the situations the program
does not provide for: `clash`, two calls found the same node free; `prompts`, two
password prompts for one user at once; `record`, a user's record in two hands in
a way that one's changes are lost, or a credit lost or gone astray (socket full,
no socket, caller gone), or a copy that died with its process.

Two disagreements are counted there and not run on their own: a credit sent to a
modem node whose caller has just left is added to the next caller's record
(`main/typetext.c:750`: the socket outlives the call), and a file uploaded by ftp
while its owner types the password is saved by the uploading process and undone
by the session that loaded the record before it (`main/misc.c:198`,
`main/upload.c:72`).

Bounds: three calls on two telnet nodes and a modem line (more calls than nodes,
so that numbers are reused and claims clash) with one user; for credits a call, a
line and an ftp upload of one user, two files, sockets that hold one datagram.

### Accounts

`db` is the user base, `s[n]` a session with its copy of the record, its pointers
and where it came from, `ed[e]` the copy an on-line user editor works on.  Applying
is `LookForSlot` and later `SaveNew` (`newuser.c:143`), so two who apply at once
may be given one account.  `lrp` is `msgbase.lrp` by base and *slot* (a new account
inherits what the slot's last owner left); `ChangeTo` is the change of base, which
writes the pointers of the base before if they have changed.  The scan takes the
highest number from `msgbase.ptr` and looks at as many headers before the end of
`msgbase.dat` as that promises (`Looked`), while another node takes a number,
appends the header and writes the text in three steps (`PostNumber`, `PostHeader`,
`PostText`).  `decided` is what was last made of each slot and by whom, `shared`
the slots written while another process had a copy; `told`, `left` and `passed`
say what a caller was shown, what he left out, and how far he got.

Bounds: two nodes, two persons, one editor, a conference with two bases and one
without any; `MaxWork` = 6, where a post counts one, a call or an edit two: two
posts and two calls, a call and four posts, or three calls and edits.

### Files

A node follows `main[n]`: `menu`, a command begun with its checker forked
(`Fork`), the transfer (`RecFile`, `SendFile`, `BreakOff`, `LeavePart`), the flood of the line,
the end of the checker (`stop`) and the scan of the temporary directory.  The
checker follows the log (`TakeLine`) from a position of its own.  Both run
`handleupload` (`CheckFileName`, `DupeCheck`, `Describe`, `UpdateFileList`,
`NewRename`), a worker's `job` saying which step it is in.  The checker has a copy of the
user's record from the fork and hands it back in `bgdone.N` (`ReportDone`,
`TakeRecord`).  A name says what the code finds out about the file (costs nothing,
has a description, is not allowed).  `part` is the one `badxfer.dat` a user may
have.

A transfer may break off in two ways.  `BreakOff`: ddrz closes the part of a file and
logs it (`ddrz.c:1186`), with the name of the file it has opened anew last, which for a
part gone on with is another's or none (`MyName`; `ddrz.c:660-674` jumps over the line
that sets it).  `LeavePart`: nothing is logged, since the hangup kills ddrz, which
handles SIGTERM only, or since hydracom keeps its `BAD-XFER` files in the directory.  At
the end of the transfer `MakePartial` puts the files the log calls broken off aside, the
last one over the others, also one that has become complete since.  Whatever part stays
is found by the scan like a file, put aside with a lost carrier (`lc`) and taken as an
upload in the next call.
`lc` holds files put aside at a loss of the carrier, `hold` those a sysop
has to look at.  `mishap`: `disk` (a rename fails), `race` (two files of one name pass the
duplicate check), `overwritten` (a credit arrives while the checker has the
record), `list` (movefile writes back a list read before a line was added),
`renamed over`, `two held` and `two left` (a file takes the place of another of its
name), `stays` (a part is in the directory when its transfer is over), `named` (the log
has a line of a file received that is there as a part only), `aside` (a complete file is
put aside as a part).  `NoFileLost` keeps its word about complete files with parts among
them (`stays`); that no part is put on line is said of calls without.

Fairness: of each worker and of the node's own steps after a transfer.  The wait
`main[n] = "stop"` ends for every moment the signal may arrive at.

Bounds: two transfers of two files over two calls on one node; broken transfers of
one file; two nodes with one file of one name each; one node both ways, with tags,
a ratio of one and a sysop who moves a file.

### Doors

`stack` is the node's nesting of calls, innermost first: a door's loop, the command
it asked for, the door that command runs, the wait for that door's key, a chat
that opened there.  `pids` is `child_pid_list`, `doorcnt` the count that names the
sockets, `last` the request the loop keeps from one round to the next, with which a
negative read is taken for the request before.  A fault is a door that dies, a
signal that interrupts a call, the end of the time or the loss of the carrier.

Fairness: the node goes on, a door takes an answer that is there and leaves when
told to.  The user need not type, nobody need send.  `Answered` excepts a node
that reads a message nobody sends (`doorport.c:85`: a signal in the select makes
the loop take the socket for readable) and the node that killed itself.

Bounds: two doors, of which the first asks twice and the second once; one key;
two messages with a chat between them; one fault; a background checker alive.

### Transfer, Hydra and ZModem

`Transfer` says what those who read a transfer's log may rely on: a file grows in
the sender's order, gets its name when it is whole, and is logged only then.
`Hydra` has at each end the states `tx` and `rx`, their counters and descriptors,
and `line` in each direction; the end of one call of `hydra()` and the next call are
steps of their own, since what survives between them (static variables, an open
descriptor's number) is where it goes wrong.  A file that is declined stops the
timer (`hydracom/hydra.c:1670`) and `process_packets` returns without leaving
`hydra()`: it is not offered again, and a node ends such a batch only when nothing
has come for two minutes (`H_BRAINDEAD`), which is what `HEnds` rests on there.  `ZModem` has the sender's and the
receiver's places in `ddsz` and `ddrz`, with attempts and positions.  A packet that
is lost, damaged or late, an error of the disk and a lost carrier are the faults.
Contents are blocks; what a block is worth in bytes does not matter to the order.

Fairness: each end goes on, timers run, and the line delivers or loses what is on it.

Bounds: Hydra: one file each way with one fault, batches of two and one-way links
without; one retry, no fallback, two silent periods.  ZModem: two files of three blocks and
one, or three with one block more of which the first is declined, two faults, three
calls for a file, one for a position, two for the end.  An answer of ddrz does not
say which file it is about.  `misled` is the history of that: a refusal of a file
offered twice was taken for a refusal of the next.  From then on the two sides are at
different files, a file may get the next one's blocks, and `OkMeansAll` and `ZDelivers`
promise nothing more; with three files both fail then, with two they did not.

### Tosser

A copy of a message is its position in `Messages`.  A run goes through `phase`:
export, the archives that have come in, export again, packing; a system has its
own bases, packets and archives and shares with the others only what the mailer
carries.  The scan of the unpack directory takes the run's own packets for packets
that have come in (`SweepPacket`).  `lost` names the copies that were given up and
why they could be; `again` those that may come twice.

`Archive` says which archive a link's packets go to.  That of a point is named by the
point's address; that of a node by the system's own AKA (`utils/tosser.c:653`), so that
all nodes of one AKA share one, which the flow file of each of them names.  The first to
be sent it gets the packets of all (`Mail`): what was for the others is `Astray`, comes
to a link it was not for, and perhaps again on its own way, and not to the others, for
the archive is gone.  Those copies are in `again` and `lost`.  The run has the hub's two
nodes share an archive, as they do in `docs/html/fidonet.html`.

Fairness: of the tosser and of the mailer.  Bounds: a hub and two systems, two
messages of three (echomail, netmail, an area one system does not have), one kill
or failed command on one day, or two days without.

### Ftp

`srv[p]` is a server process with its place, login, slot, connections and
transfer; `slots` the slot files, which are scanned one by one and written later,
and which are empty for a moment at every block of a transfer.  A file is its
number; `ul`, `temp` and `shelf` are the places it may be in, the child (`daydream
-u`) that looks at it being part of the server's steps.  `handleupload` tells the child
that it is done with a file not only when that is on line but also when it is a
duplicate (`main/upload.c:675`), when its archive is broken and was removed (880), and
when the list of the area cannot be written (984); the child then empties its directory
(`main/ftpul.c:60`).  `Settled` has these outcomes, and the replacement of a file of the
same name where duplicates are not looked for; `dropped` is the history of the files
that went that way, of which `Kept` promises nothing.

Fairness: a server that can go on does.  Two waits cannot, since no alarm runs during a
command (`ftpcmd.y:792`): `accept` for a data connection, and the read of the data
(`ddftpd.c:1106`) of a client that was cut off without a word (`mute`).  `SilentEnds`
excepts both (`Stuck`).  Bounds:
two servers, two users, two slots, one file; one server transfers while the other
logs in and out.

### Telnet

`srv` and `cl` hold for every option and side whether it is on, wanted, and how
many requests are under way; `s2c` and `c2s` are the connection.  `pc` and `k`
follow the start of the daemon: ask, wait for the answers one by one, ask for the
terminal, start the BBS.  The client is external: it answers as the protocol asks,
can do what `able` says, and asks for something itself up to twice.  `Clean` is about the
data from the BBS to the client; what the client sends is not modelled.  `Agree` excepts
options the client does not answer about (`able.mute`): there the daemon goes by what it
simulates for itself, and the comment at `telnetd.c:836` that the simulated WILL ECHO
makes it send a refusal is not what the code does, nor what the model does.

Fairness: both ends run.  Bounds: five options, sixteen kinds of client.  Two
kinds are left out because the daemon waits for them for ever: one that offers
NAWS and does not answer DO ECHO (`telnetd.c:823`), and one with both forms of the
environment option.  `Settles` is not true of them.

## 3. The runs

| run | question | properties | bounds |
|---|---|---|---|
| `msgbase` | do nodes, tools and repairs keep a base consistent until a mishap? | `NumbersAscend`, `HighCoversHeaders`, `TextMatchesHeader`, `NoLostMessage` | windows of 2 headers; two nodes, 2 numbers; a node and a tool on two bases, 3 numbers; a node and the repair tools when it is away |
| `stdio_loop` | does the loop end, in time, with the child reaped and its grace kept? | `NoChildLeft`, `GraceKept`, `CarrierLossEnds`, `StopEnds` | modes 1, 2, 3, two keys with room for one, one piece of output |
| `user_base` | are the calls atomic, and does each end? | `Atomic` (refines `UserStore`), `LockWaitEnds` | 2 processes, 1 slot, 3 parts, 2 polls, kills, a full disk |
| `sessions` | is what others see of a node right, is a user on line once, is each upload credited once? | `Presence`, `OneSessionUnlessPrompts`, `CreditExact` | 3 calls, 2 nodes and a modem line; or a call, the line and ftp uploads of 2 files; kills |
| `accounts` | does a decision about an account stay, is all mail offered, is what was read kept? | `Decided`, `NothingOverlooked`, `PointersKept` | see Accounts |
| `files` | is no file lost, the list right, credit exact, the ratio kept, and does the wait for the checker end? | `NoFileLost`, `ListMatches`, `CreditsExact`, `RatioKept`, `StopEnds` | four casts, up to the first mishap |
| `doors` | do nested loops, processes, answers and messages stay paired and in order? | `Nesting`, `Paired`, `OlmsInOrder`, `Answered` | see Doors |
| `hydra` | does hydra implement a transfer, end, and say "completed" rightly? | `HDelivers`, `CompletedMeansAll`, `HEnds` | six links |
| `zmodem` | the same for the zmodem pair | `ZDelivers`, `OkMeansAll`, `ZEnds` | five sessions, 2 faults; the first two until misled |
| `tosser` | does mail reach each link, and once, up to what is counted as given up or doubled? | `OnceEach`, `Arrives` | see Tosser |
| `ftp` | are slots told apart, files kept unless `handleupload` drops them, connections closed, and does a server without a client end? | `WithinSlots`, `Kept`, `NoneLeft`, `SilentEnds` | see Ftp |
| `telnet` | do both ends come to mean the same, is the BBS started, do data arrive unchanged? | `Agree`, `Clean`, `Settles` | sixteen clients |

All of them hold.  The runs do not check for deadlock where the system may stop: a
program has returned, a transfer is over, the bound on work is reached, or the
casts end.  `sessions`, `user_base` and `tosser` do check it.  In `accounts` and
`sessions` the processes of a kind are interchangeable and taken as symmetric; no
liveness is checked there.

### What does not hold

These are stated in the modules, after the properties that are run, and TLC
refutes each one when its run's configuration checks it instead:

| property | module | what happens |
|---|---|---|
| `RepairCovers` | `MsgBase` | fixbases and msgbaseopt seek with `dd_lseek(.., -n, SEEK_END)`, which goes past the end: with two headers the rebuilt pointer is the lowest number |
| `HeadersStayHome` | `MsgBase` | `]` in the reader, then a reply: the window of one base is written into another (`main/readmsgs.c:147`) |
| `FallsThrough` | `RunStdio` | the wait for the setup of the child's terminal goes on for ever when the child has ended (`main/stdiohan.c:216`, against the comment at line 212) |
| `CarrierLossEndsAlways` | `RunStdio` | a second key for a program that does not read blocks the node in a write: a lost carrier is not seen, nor is a stopped program killed (`main/stdiohan.c:136`) |
| `OutputShown` | `RunStdio` | what a program writes between the node's read and its waitpid, before it exits, is thrown away |
| `OneSession` | `Sessions` | the check for another login comes before the password prompt, the entry after it: two prompts at once let a user in twice; and where `multinode.dat` has a T entry and no L, `isonline` looks at no telnet node and never refuses anybody for one (`main/misc.c:252` against `main/unix.c:270`) |
| `NotStuck` | `Doors` | a signal during the door loop's select, then a read of a message nobody sends: a lost carrier is not acted on |
| `SentGoesOn` | `Hydra` | a batch ends by retries or by a timer after an acknowledged file (`hydracom/hydra.c:1451`) |
| `SkipsNoFurther` | `ZModem` | a file is offered again because the refusal was late; the second refusal is taken for the next file, which is never sent, or gets the blocks of the one after it (against `ddz/ddrz.c:872`) |
| `ComplaintsAnswered` | `ZModem` | a complaint about a mapped file kills the sender (`clearerr` on the stream set to NULL, `ddz/ddsz.c:1206`) |
| `NodesGet` | `Tosser` | a hub that imports an archive has lost the headers of its own packets; what it passes on cannot be read (`utils/tosser.c:904`) |

To see them: `RepairCovers` wants one node, no other process and `NumBases = 1`;
`HeadersStayHome` two bases and no constraint; `OneSession` two calls, no kills and
no line, or `Multinode <- BoardNoL` with two calls and no kills; `NotStuck` the messages `<<"olm", "kick">>`; the others the
configuration as it is.  Three more disagreements are counted as mishaps and have
no property: a credit sent to a modem node whose caller has just left is added to
the next caller's record (`main/typetext.c:750`); a file uploaded by ftp while its
owner types the password is credited and then undone (`main/misc.c:198`); two
saves at once lose a message.

Mail for one node of an AKA that another of its nodes fetched (see Tosser) and files
that `handleupload` is done with without putting them on line (see Ftp) are counted
likewise.  `docs/html/fidonet.html:34` says mail of areas that are not known goes to the
base BAD; `parsecfg` looks that base up into a variable of its own, so it is never found,
the rest of the packet is not read, and the model counts it in `lost`.

Two statements of the documents were found wrong while reading, with nothing to
model: `libdd.doc:179` says `dd_hotkey` returns -1 at a loss of the carrier (the
code returns 0), and the Python binding's `getfiles` calls `dd_sendfiles`.

## 4. The proofs

Each theorem holds for every value of the constants its module's assumptions allow:
any number of nodes, processes, users, files and messages, where a run has two or
three.  An invariant that a run checks is seldom inductive; what has to be added is
what the paragraphs below say.  Every inductive invariant was checked by TLC before
it was proved.

`MsgBase_proofs` has no maintenance run (`ASSUME Maintainers = {}`), any size of the
window and as many messages as numbers of 16 bits allow (65535 marks the end of a
window): `TypeOK`, `NumbersAscend`, `HighCoversHeaders`, `TextMatchesHeader`, `NoLostMessage` and the
action property `HighNeverFalls`.  `NumbersAscend` is not inductive: that a window
written back does not disturb the order needs to know that each window is a stretch
of the header file as it is now (`WindowsFit`: same numbers at the same places, the
file may have grown), that at most one process is saving (`OneSaver`), that the
number it took is above every header and not above the pointer file (`NumberTaken`),
and that no position is remembered across an append (part of the same).  `Inv` is
their conjunction, under `Orderly` where it depends on it; one lemma per action group
shows it is kept.  The two properties of the texts need more of the windows than
their numbers.  `Matched`: a window has the very headers it was read from
(`SameIds`), and a text is that of the header of its number, or is one that a keep
has moved ahead of its new header (`Belongs`, `Source`).  `Living`: a saved message
can be read under some number that nobody has flagged, nor will by writing a window
back (`Clean` says it of the file and of every window that may yet be written), or it
is on its way with a keep (`Carried`); a header whose text is still to be written is
not flagged (`Coming`).  Deleting, then, is the only step that takes a number out of
`Clean`, and it takes the message out of `saved`.

Of runstdio, `Doors_proofs` proves at its end, for every `Modes`, `TermAfter`,
`KillAfter` and bound: `ClockRuns`, `NoChildLeft`, and `GraceKept`, whose invariant
adds that the clock never passes `KillAfter + 1` and that a kill of a running child was
sent either by the escalation or to a stopped child.  (The two modules share a proof
module and no state; their names differ where they could clash.)

`UserBase_proofs` proves `WriterAlone`, `ReadsWhole` and the refinement `Atomic`
for any number of processes, slots, parts and polls and any failures.  The locks
come first (`Locked`: who reads or writes has its lock, a write lock is the only
lock).  For the records `FileInv` says that each is whole but the one under a
writer's hands (`Kept`), that this one has the parts written so far in front
(`HalfDone`), and that writers ask for a record there is or the next one (`Asked`,
which holds on because the file only grows).  The refinement follows: only
`WriteSome` moves the store (`StoreStep`), every other step leaves both file and
half-written record alone (`QuietStep`).

`Sessions_proofs` proves `TypeOK`, `Presence`, `OneSessionUnlessPrompts` and
`CreditExact` for any sets of processes, nodes and users, kills included.
`Presence` needs `Apart` (two processes past their claim of a node have different
nodes).  The single session needs more than itself: `Single` says it of every process
from the password prompt on, and that `isonline` finds whoever is past the prompt is
`Presence` again.  `CreditExact` says what is on file when nobody has the record; what
is kept by every step (`Exact`) is that a user is in the hands of one session, of one
upload, or of both with the session past the prompt (`Apiece`), that the session's
copy and the credits in its socket add up to what was earned (`InSession`), that an
upload's copy does when no session has the user (`InUpload`), and the file when there
is neither or nothing but a prompt (`OnFile`).  A credit arrives where it should
because a socket's name leads to the process that has the node (`Paths`), because
`isonline` finds somebody when somebody is on line (`ServedFound`, where the entries
lead to every node; `FoundOnline`: a set of numbers has a least one), and because a session does not send to itself (`Awaited`).

Of ZModem, the second half of `Sessions_proofs` proves the refinement `ZDelivers` and
`OkMeansAll`, for any files, sizes and lists without repetition, any numbers of
attempts, faults and packets on the line.  (The two components share a proof module and
no state.)  The hypothesis `ClosedTwice = {"stop"}` is what the C library does: a
program that closes a file twice is stopped.  It cannot go: if the second close is an
error ddrz unlinks a file that was whole, if it succeeds a file that was unlinked is
logged.  What is proved is `IInv`, `misled` or `Inv`, and what makes `Inv` inductive is
that the receiver leads and how far it can be behind.  `Hands`: the file the receiver
writes is the one the sender is at, and so is all that is on its way to it.  `Offers`: an
offer on its way is of the sender's file, with nothing of another file behind it, or of a
file that has been declined.  `Replies`: of the answers on their way back the positions come first,
and a call for the next file says that this one is whole.  `Past`: files before that
place in the list are whole or passed over without a log line, files behind it were
never sent.  That a block is written in its place is said of the line as a whole
(`Frames`, `InOrder`): between what the receiver has taken last and what the sender will send
next, every block follows the one before it, unless something damaged lies between, for
which the receiver leaves the frame; a packet lost, damaged, cut off or appended keeps the
line in order, which the first lemmas prove of lines of any length.  The names in the
logs (`Names`), what is in the directory (`Begun`) and what a cancelled session leaves
on the line (`Ends`) complete it.

`Accounts_proofs` proves `TypeOK`, `Decided`, `NothingOverlooked` and `PointersKept`
for any nodes, editors, persons, slots, bases and amount of work.  `Decided` rests on
`Copies`: a copy of a record that will be written is what is on file, unless the slot
was written while another had one (`shared`), and on one call a person (`OneCall`).
For the mail, the numbers of a base are 1 to n and every text is there but the one of
the last header (`MailInv`); what the pointers of a session pass was told to the
caller or left by him (`ReadInv`), and what was passed is on file or in the session
that will write it (`Filed`).

`Ftp_proofs` proves `WithinSlots`, `Kept` and `NoneLeft` for any servers, users and
files.  `Inv` says of each server what its place allows (`Sound`: connections,
transfer, login), that the slot a server thinks it has names it, unless two scans have
overlapped (`OwnSlot`; that the servers are no more than the slots is then
`NoMoreThanSlots`), that only the child of a server has files in its temporary
directory, under names free in the user's directory (`Aside`), and that a file being
received is in the user's directory, already on line, or dropped by `handleupload` or a
node (`AtHand`).

`Doors_proofs` proves `Nesting`, `Paired` and `OlmsInOrder`, and with them that no
living program is without a call that attends to it (`NoOrphan`) and that the node
kills its doors the latest first (`LatestFirst`), for any programs, requests, messages,
keys and faults.  The stack of calls is described once (`Shape`: which call may lie on
which) and the rest is about stacks of that shape: a door's place in `pids` is the
number of loops below it (`Numbered`), a request is outstanding where the loop that
will answer it is on the stack (`Exchange`).

`Files_proofs` proves `FilesTypeOK`, `NoFileLost`, `ListMatches`, `CreditsExact` and
`RatioKept` for any nodes, users, names, ratio and amount of work.  None of the five is
inductive, and all rest on the first part of the invariant, `Typed`: beside the types
it has a place of the checker for every place of its node (`Placed`: a checker lives
from the fork to the end of the wait, a signal is on its way or a record lies in
`bgdone.N` in the wait only, and a checker that reads the log of the transfer before
finds no file), whose record each worker has (`Named`), and that what has been sent is
still tagged (`Sends`).  `Loss` keeps the files: if no part stays, none is there but
in a transfer, and no log says of one that it is a file (`PartsAt`); a temporary directory is empty when it is cleaned because the scan
has gone through it (`DrainedAt`), a name that passed the check is free until the
rename unless two raced (`Clear`), and every file is somewhere (`Kept`).  `Lists` says
what a list is while it is not that of the files: those there, those about to be
renamed, and the one being moved, of which a sysop holds a copy of the list
(`InStep`).  `Credits` follows a user's record: the checker has the one that counts
from the fork on, then the file it leaves, then the node (`Keeper`); downloads in all
copies are the same, and what is due is what is paid for and the price of what has
been sent (`PaidAt`); uploads in the keeper's copy are those on line (`EarnedAt`), and
its copy never has fewer than the node's (`WithinAt`); off line, the same is true of
what is on file (`Rested`, `Enough`).  That the charge for everything up to the last
file sent covers each file sent, and counts no more than was tagged, is arithmetic of
tags without repetition (`TaggedAt`, `CountedSplit`).

`Tosser_proofs` proves `OnceEach` for any number of systems, messages, days and
faults, with tossers running on several systems at once, on any links that form a tree
for each area (`TreeAssumption`).  That a system has a message once says nothing of
what is on its way, so the invariant follows each message along the tree (`WayOK`).
`Up` gives each system the one it can get the message from.  From there to the system
it is in at most one place: waiting for export (`WaitsOK`), in the packet (`PackedOK`),
in one archive of one day, in a packet for that system (`SpooledOK`; the packets for
others that share the archive do not count), in one archive that has come in (`CameOK`), in
the files unpacked from that archive (`UnreadOK`), or in the base (`BaseOK`); in any of
these it is once, with the sender's name on it, and the sender has it.  The exception
is the archive that is being read, which stays until all of it is read: what is both
there and in the base is known (`fresh`, in `FreshOK`), and it is just this that a
kill adds to `again`.  An archive that is fetched by one of several nodes that share it
brings in the packets for the others, whose messages are then in `again` and no longer
followed.  A message that a step does not touch stays where it may be
(`Frame`); the rest is one lemma per action, for the one message it moves.

Proved and not part of the standing runs, since the proof says more:
`MsgBase!TypeOK`, `HighNeverFalls`, `ClockRuns`, `WriterAlone`, `ReadsWhole`,
`Sessions!TypeOK`, `Accounts!TypeOK`, `Ftp!TypeOK`, `Doors!TypeOK`, `FilesTypeOK`,
`Typed` of `Tosser_proofs`, `NoOrphan` of `Doors`, `LatestFirst`, and that servers with
a login are no more than the slots.

Only model-checked: everything with maintenance tools, the two safety properties of
`Hydra` (its refinement of `Transfer` among them), `Agree` and `Clean` of `Telnet`,
ZModem when a program that closes a file twice goes on, and all liveness properties (`CarrierLossEnds`, `StopEnds`, `LockWaitEnds`, `Answered`, `HEnds`,
`ZEnds`, `Arrives`, `SilentEnds`, `Settles`), which are out of the prover's reach.
None of the modules declares a RECURSIVE operator, so that they can be proved about as
they are.

## 5. Assumptions

What the proofs and the runs take as given of the constants is in each module's
ASSUMEs: the kinds of processes are disjoint and nobody's name is a user's; bounds are
natural numbers; node numbers are positive and a line's number is its own
(`NodesAssumption`); a message number fits 16 bits and is not 65535 (`NumberAssumption`), and
a window holds at least one header (`WindowAssumption`);
the bases of the conferences form a sequence (`AccountsAssumption`); the links of an
area form a tree, since the tosser does not look whether it has had a message before
(`TreeAssumption` in `Tosser`); a list of files to send has none twice, none is empty,
and what the receiver has of one is its beginning (`LinksAssumption`, `ZSizeAssumption`);
ddrz tries at least once (`TriesAssumption`).  `MaxSlots` bounds the user base in `Accounts`.  Of the
program's surroundings it is assumed:

- A process does not see half of another's `write` of one header or pointer file:
  these are single small writes; records of the user base are not assumed so.
- fcntl locks vanish with their holder; `kill` to a zombie does nothing; a pty is
  readable when its other side is closed.
- No base has more than 65534 messages, and the 32 bit counters of a user's messages
  do not wrap.
- `multinode.dat` lists the nodes by ascending number, so that `isonline` finds the
  lowest; one search of it is one step.
- Calls and uploads are killed; a modem process is not.  Credits are counts of
  files (command 10); the bytes (command 12) travel the same way beside them.
- Processes are killed in `UserBase`, `Sessions` (calls and uploads), `Tosser` and,
  as a fault, `Doors`; not in `MsgBase`, `Files` and `Accounts`.
- A person is on line once and makes one call at a time in `Accounts` and `Files`:
  that two sessions of a user overwrite each other's record is in `Sessions`.
- The line of `Hydra` and `ZModem` keeps the order of packets and does not make
  any up; a damaged packet fails its checksum.
- A telnet client obeys the protocol; a mailer sends what the flow file names.

## 6. Hazards

PROJECT.json lists the hazards of this code with the line each one bites at and
the properties that would catch it.  Some hazards are themselves what a history variable
records.  The model has these situations, but from then on the properties promise
nothing, so that the runs show that nothing else does the harm, not that the program
survives it.  Where a property still covers the rest of what the hazard is about, its
entry names the property and says what is excepted: two calls that claim one node
(`clash`) and a record in two hands (`record`) in Sessions; a record changed between fork
and hand-over and two uploads of one name in Files; a late refusal in ZModem (`misled`);
packets the tosser sweeps itself and archives it is killed with (the copies in `again`
and `lost`; all others are followed); overlapping scans of the ftp slots (`raced`), files
`handleupload` drops (`dropped`) and the two waits without a limit (`Stuck`); an account
decided while another has its record (`shared`), mail being saved while it is scanned
for, and leaving from a conference without bases.  Where it covers nothing, the entry has
no property: two saves at once (`overlap`) and the seek error (`repair`) in MsgBase, a
failed rename in Files, the list an ftp server aborts (`left`), the request executed again
for a door that has died (`doorport.c:92`), and the two kinds of telnet client that are in
no run.  Not in the list, since no property is made of
them: `keepmsg` renames the text before it finds the headers cannot be opened
(`readmsgs.c:795`, mishap `keepfail`); headers appended while msgbaseopt copies
(`msgbaseopt.c:145`, mishap `repair`); two calls that find one node free
(`unix.c:276`, mishap `clash`); a `bgdone.N` of a killed node taken by the next
caller (`upload.c:1371`); a part of a file longer than the next one keeps its end
(`download.c:572`, no `O_TRUNC`); a failed close repeated (`ddrz.c:369`); the log
line of ddsz before the file's end is acknowledged (`ddsz.c:1040`); hydra's log
with whole paths, which makes the node charge all tagged files
(`hydracom/misc.c:369`, modelled in `Passed`); a door that writes a counter back
over a credit (`doorport.c:318`); a door that goes on without its node
(`libdd.c:351`).

## 7. Plan

The components above are in place, and the proofs cover those whose state is shared
between processes.  What is left, in this order:

1. `Agree` and `Clean` in `Telnet`.
2. The step lemmas of `Way!TSpec` in `Hydra`, along the proof for `ZModem`.
3. A killed node in `Files`; two logins of one user in `Accounts`; byte ratios.

## 8. Not modelled, and why

- Menus, texts and display codes: layout, no state that outlives a command; the
  dispatch of a menu's commands is part of `Accounts`.
- Waiting for a call on a serial line: a script of strings sent and awaited, whose
  state is the modem's.  `Sessions` has the node that waits and the call that comes.
- Configuration compiler and converters: one-shot translation of files.
- Log rotation and list cleaning: copies of a file's end, renamed over it; a line
  appended meanwhile is gone, a log entry at worst.
- Statistics tools, the X11 node monitor, the file viewer, the packet snooper: they
  read and print.
- The example doors: the other side of `Doors` and `RunStdio`.
- Within the modelled parts: the file list pager and byte ratios (`Files`), line
  editing and the sysop's control keys (`Doors`), XMODEM and YMODEM, which the node
  never asks for (`ZModem`), the chat of hydracom (`Hydra`), conversion tables and
  SEEN-BY lines (`Tosser`), directories' contents, types and texts (`Ftp`),
  terminals and what suboptions say (`Telnet`), fields of a record other than its
  owner and status (`Accounts`).
- Library code: md5, regular expressions, lists, strings.

PROJECT.json lists every component with its status.
