------------------------------- MODULE Files -------------------------------
(***************************************************************************)
(* Files of a BBS: a node receives files into its temporary directory and  *)
(* puts them on line, itself after the transfer or by a background checker *)
(* forked before it, which follows the log of the transfer and works on a  *)
(* copy of the user's record; it tags files and sends them, and charges    *)
(* the user for what the log says.  A sysop moves files between areas.     *)
(*                                                                         *)
(* Sizes are counted in files, a name says what the code finds out about   *)
(* the file, and a session is one of a user who is on line once.  A node   *)
(* that is killed, what is in a partial file and other conferences are     *)
(* left out.                                                               *)
(***************************************************************************)
EXTENDS Integers, Sequences, SequencesExt, FiniteSetsExt

CONSTANTS
    Nodes, Users, Names,
    Free,       \* names of files that cost nothing
    Diz,        \* names of archives with a file_id.diz
    Invalid,    \* names checkfilename turns down
    Shelf,      \* names of the files on line at first
    Ratio,      \* files a user may have for each upload
    MaxFiles, MaxTransfers, MaxNews, MaxMoves   \* bounds: files received, transfers, credits sent, files moved

ASSUME FilesAssumption == /\ "none" \notin Users \cup Names \cup Shelf
                          /\ {Ratio, MaxFiles, MaxTransfers, MaxNews, MaxMoves} \subseteq Nat

Workers == Nodes \X {"node", "checker"}
NoFile == [no |-> 0, name |-> "none", by |-> "none"]
NoRecord == [id |-> "none", ul |-> 0, dl |-> 0]
Bonus == 1

VARIABLES
    main,      \* what the node is doing
    kind,      \* the command: upload, download (one way), both (Hydra), left (files of the last call)
    job,       \* step of handleupload of each worker, and its file
    user,      \* each worker's copy of the user's record
    temp,      \* files in the temporary directory of the node
    seen,      \* names the scan of temp has met
    log,       \* lines of dszlog.N: direction and name
    last,      \* lines the checker has passed
    sig,       \* SIGUSR1 has been sent to the checker
    bgdone,    \* the record in bgdone.N
    tags,      \* tagged files, in order
    sent,      \* tagged files sent in this transfer
    rec,       \* records in userbase.dat
    flagged,   \* flaggedfiles.dat of each user
    lc,        \* files of each user put aside at a loss of the carrier
    part,      \* badxfer.dat of each user: what was put aside last, the part of a file (its no is 0)
    area, listing, hold, elsewhere,   \* files on line and their list; held; moved
    mover,     \* the list as a sysop's move has read it
    owed, due, received, refused, used, mishap   \* history

nodeVars == <<main, kind, seen, temp, log, tags, sent>>
shared == <<area, listing, hold, elsewhere, mover>>
disk == <<rec, flagged, lc, part>>
history == <<owed, due, received, refused, used, mishap>>
vars == <<nodeVars, job, user, last, sig, bgdone, shared, disk, history>>

NamesIn(dir) == {f.name : f \in dir}
Put(dir, f) == {g \in dir : g.name # f.name} \cup {f}   \* rename over whatever has the name
PutAll(dir, fs) == {g \in dir : g.name \notin NamesIn(fs)} \cup fs
OnShelf(x) == [no |-> 0, name |-> x, by |-> "none"]
Idle(p) == [pc |-> p, file |-> NoFile, held |-> FALSE]
Node(n) == <<n, "node">>
Checker(n) == <<n, "checker">>
Me(n) == user[Node(n)]

Init ==
    /\ main = [n \in Nodes |-> "off"] /\ kind = [n \in Nodes |-> "left"]
    /\ job = [w \in Workers |-> Idle("off")] /\ user = [w \in Workers |-> NoRecord]
    /\ temp = [n \in Nodes |-> {}] /\ seen = temp /\ log = [n \in Nodes |-> <<>>]
    /\ last = [n \in Nodes |-> 0] /\ sig = [n \in Nodes |-> FALSE]
    /\ bgdone = [n \in Nodes |-> NoRecord] /\ tags = log /\ sent = log
    /\ rec = [u \in Users |-> [id |-> u, ul |-> 0, dl |-> 0]]
    /\ flagged = [u \in Users |-> <<>>] /\ lc = [u \in Users |-> {}] /\ part = lc
    /\ area = {OnShelf(x) : x \in Shelf} /\ listing = area /\ hold = {} /\ elsewhere = {}
    /\ mover = [file |-> NoFile, list |-> {}]
    /\ owed = [u \in Users |-> 0] /\ due = owed /\ received = {} /\ refused = {}
    /\ used = [transfers |-> 0, news |-> 0, moves |-> 0] /\ mishap = {}

-----------------------------------------------------------------------------
(* Tags *)

\* recountfiles: the files tagged that are not free; none is tagged twice.
Counted(t) == Cardinality(Range(t) \ Free)

IsFileTagged(t, x) == Contains(t, x)

TooManyAlone(r, t, x) == x \notin Free /\ Ratio # 0 /\ Ratio * r.ul + Bonus < r.dl + 1   \* mutant

\* addtag: the files tagged count as if they had been sent.
TooMany(r, t, x) == x \notin Free /\ Ratio # 0 /\ Ratio * r.ul + Bonus < r.dl + 1 + Counted(t)
AddTag(r, t, x) == IF TooMany(r, t, x) \/ IsFileTagged(t, x) THEN t ELSE Append(t, x)

FlagFile(n, x) ==
    /\ main[n] = "menu" /\ x \in NamesIn(area)
    /\ tags' = [tags EXCEPT ![n] = AddTag(Me(n), @, x)]
    /\ UNCHANGED <<main, kind, seen, temp, log, sent, job, user, last, sig, bgdone, shared, disk, history>>

UnflagFile(n, x) ==
    /\ main[n] = "menu" /\ IsFileTagged(tags[n], x)
    /\ \E i \in DOMAIN tags[n] : tags[n][i] = x /\ tags' = [tags EXCEPT ![n] = RemoveAt(@, i)]
    /\ UNCHANGED <<main, kind, seen, temp, log, sent, job, user, last, sig, bgdone, shared, disk, history>>

\* The tags of the last call, one by one, as far as the file is there and the record allows.
LoadFlagList(n) ==
    LET u == Me(n).id IN
    /\ main[n] = "tags"
    /\ \/ /\ flagged[u] # <<>>
          /\ tags' = [tags EXCEPT ![n] = IF Head(flagged[u]) \in NamesIn(area)
                                         THEN AddTag(Me(n), @, Head(flagged[u])) ELSE @]
          /\ flagged' = [flagged EXCEPT ![u] = Tail(@)]
          /\ UNCHANGED main
       \/ /\ flagged[u] = <<>>
          /\ main' = [main EXCEPT ![n] = "menu"]
          /\ UNCHANGED <<tags, flagged>>
    /\ UNCHANGED <<kind, seen, temp, log, sent, job, user, last, sig, bgdone, shared, rec, lc, part, history>>

-----------------------------------------------------------------------------
(* Calls *)

\* Files put aside in the last call are moved to the temporary directory, which is
\* not cleaned, and taken as an upload.
Login(n, u) ==
    /\ main[n] = "off" /\ \A k \in Nodes : main[k] # "off" => Me(k).id # u
    /\ user' = [user EXCEPT ![Node(n)] = rec[u]]
    /\ temp' = [temp EXCEPT ![n] = IF lc[u] = {} THEN @ ELSE PutAll(@, lc[u])]
    /\ lc' = [lc EXCEPT ![u] = {}]
    /\ main' = [main EXCEPT ![n] = IF lc[u] = {} THEN "tags" ELSE "scan"]
    /\ kind' = [kind EXCEPT ![n] = "left"]
    /\ UNCHANGED <<seen, log, tags, sent, job, last, sig, bgdone, shared, rec, flagged, part, history>>

\* logoff: a caller with files tagged is asked, and may have the list cleared.
LeftTagged(n) == {tags[n], <<>>}

Logoff(n) ==
    /\ main[n] = "menu"
    /\ rec' = [rec EXCEPT ![Me(n).id] = Me(n)]
    /\ \E t \in LeftTagged(n) : flagged' = [flagged EXCEPT ![Me(n).id] = t]
    /\ user' = [user EXCEPT ![Node(n)] = NoRecord]
    /\ tags' = [tags EXCEPT ![n] = <<>>]
    /\ main' = [main EXCEPT ![n] = "off"]
    /\ UNCHANGED <<kind, seen, temp, log, sent, job, last, sig, bgdone, shared, lc, part, history>>

\* A credit from another process is read with the next key: also in the wait after
\* a transfer, when the checker has its copy of the record already.
ReadNews(n) ==
    /\ main[n] \in {"menu", "flood"} /\ used.news < MaxNews
    /\ user' = [user EXCEPT ![Node(n)].ul = @ + 1]
    /\ owed' = [owed EXCEPT ![Me(n).id] = @ + 1]
    /\ used' = [used EXCEPT !.news = @ + 1]
    /\ mishap' = mishap \cup IF job[Checker(n)].pc # "off" THEN {"overwritten"} ELSE {}
    /\ UNCHANGED <<nodeVars, job, last, sig, bgdone, shared, disk, due, received, refused>>

-----------------------------------------------------------------------------
(* Transfers *)

\* initbgchecker: the child starts with the parent's record and no line passed; a
\* fork may fail, or the user may have turned the checker off.
Fork(n, wanted) ==
    IF wanted
    THEN /\ job' = [job EXCEPT ![Checker(n)] = Idle("born")]
         /\ user' = [user EXCEPT ![Checker(n)] = Me(n)]
    ELSE UNCHANGED <<job, user>>

\* cleantemp.  But for the command that receives without a word (RZ) the log goes now, and the
\* part of a file kept from an upload before is fetched back, to be gone on with, or deleted, or
\* left where it is.
CheckForPartialUploads(n, k) ==
    LET u == Me(n).id
        clean == [temp EXCEPT ![n] = {}]
    IN  \/ temp' = (IF k \in {"upload", "both"} THEN clean ELSE temp) /\ UNCHANGED <<part, log>>
        \/ /\ k = "upload" /\ log' = [log EXCEPT ![n] = <<>>]
           /\ \/ temp' = clean /\ part' \in {part, [part EXCEPT ![u] = {}]}
              \/ temp' = [temp EXCEPT ![n] = part[u]] /\ part' = [part EXCEPT ![u] = {}]

Start(n, k, wanted) ==
    /\ main[n] = "menu" /\ job[Checker(n)].pc = "off" /\ used.transfers < MaxTransfers
    /\ kind' = [kind EXCEPT ![n] = k]
    /\ CheckForPartialUploads(n, k) /\ Fork(n, wanted)
    /\ main' = [main EXCEPT ![n] = "begin"] /\ used' = [used EXCEPT !.transfers = @ + 1]
    /\ UNCHANGED <<seen, tags, sent, last, sig, bgdone, shared, rec, flagged, lc, owed, due, received, refused, mishap>>

Upload(n) == \E wanted \in BOOLEAN : Start(n, "upload", wanted)

Download(n) == /\ tags[n] # <<>>
               /\ \/ Start(n, "download", FALSE)
                  \/ \E wanted \in BOOLEAN : Start(n, "both", wanted)

SysopDownload(n) == tags[n] # <<>> /\ Start(n, "sysop", FALSE)

\* The log of the last transfer goes now, with the checker reading already.
DropLog(n) ==
    /\ main[n] = "begin"
    /\ log' = [log EXCEPT ![n] = <<>>] /\ main' = [main EXCEPT ![n] = "transfer"]
    /\ UNCHANGED <<kind, seen, temp, tags, sent, job, user, last, sig, bgdone, shared, disk, history>>

Complete(n) == {f \in temp[n] : f.no # 0}

Part(n, x) == [no |-> 0, name |-> x, by |-> Me(n).id]

\* ddrz logs the name of the file it has opened anew last, also for one whose part it goes on with.
MyName(n) == IF log[n] = <<>> THEN "none" ELSE Last(log[n])[2]
Logged(n, x) == IF kind[n] = "upload" /\ x \in NamesIn(temp[n]) THEN MyName(n) ELSE x

\* A file or a part in the temporary directory, and the log then.
Arrive(n, f, lines) ==
    /\ temp' = [temp EXCEPT ![n] = Put(@, f)] /\ log' = [log EXCEPT ![n] = lines]
    /\ mishap' = mishap \cup IF \E g \in Put(temp[n], f) : g.no = 0 /\ Contains(lines, <<"up", g.name>>)
                             THEN {"named"} ELSE {}

RecFile(n, x) ==
    /\ main[n] = "transfer" /\ kind[n] \in {"upload", "both"} /\ Cardinality(received) < MaxFiles
    /\ x \notin NamesIn(Complete(n))
    /\ Arrive(n, [no |-> Cardinality(received) + 1, name |-> x, by |-> Me(n).id],
              Append(log[n], <<"up", Logged(n, x)>>))
    /\ received' = received \cup {Cardinality(received) + 1}
    /\ UNCHANGED <<main, kind, seen, tags, sent, job, user, last, sig, bgdone, shared, disk,
                   owed, due, refused, used>>

\* A file is broken off by an error or by the sender, and more may follow.
BreakOff(n, x) ==
    /\ main[n] = "transfer" /\ kind[n] = "upload" /\ x \notin NamesIn(Complete(n))
    /\ Arrive(n, Part(n, x), Append(log[n], <<"part", Logged(n, x)>>))
    /\ UNCHANGED <<main, kind, seen, tags, sent, job, user, last, sig, bgdone, shared, disk,
                   owed, due, received, refused, used>>

\* The hangup kills ddrz, which logs nothing more; hydracom logs no part it keeps.
LeavePart(n, x) ==
    /\ main[n] = "transfer" /\ kind[n] \in {"upload", "both"} /\ x \notin NamesIn(Complete(n))
    /\ Arrive(n, Part(n, x), log[n])
    /\ UNCHANGED <<main, kind, seen, tags, sent, job, user, last, sig, bgdone, shared, disk,
                   owed, due, received, refused, used>>

\* A sysop's download is free.
Price(n, s) == IF kind[n] = "sysop" THEN 0 ELSE Counted(s)

\* Files are sent in the order of the tags; the caller may decline some of them.
SendFile(n, i) ==
    /\ main[n] = "transfer" /\ kind[n] # "upload" /\ i \in DOMAIN tags[n]
    /\ tags[n][i] \in NamesIn(area)
    /\ \A j \in i .. Len(tags[n]) : ~Contains(sent[n], tags[n][j])
    /\ sent' = [sent EXCEPT ![n] = Append(@, tags[n][i])]
    /\ log' = [log EXCEPT ![n] = Append(@, <<"down", tags[n][i]>>)]
    /\ due' = [due EXCEPT ![Me(n).id] = @ + Price(n, <<tags[n][i]>>)]
    /\ UNCHANGED <<main, kind, seen, temp, tags, job, user, last, sig, bgdone, shared, disk,
                   owed, received, refused, used, mishap>>

\* analyzedszlog, makepartial: what the log calls broken off is put aside, in the order of the
\* log and over what was put aside before, also a file that is complete by now.
CutOff(n) == {f \in temp[n] : Contains(log[n], <<"part", f.name>>)}
CutAt(n, f) == SelectInSeq(log[n], LAMBDA l : l = <<"part", f.name>>)

MakePartial(n) ==
    /\ temp' = [temp EXCEPT ![n] = @ \ CutOff(n)]
    /\ \/ CutOff(n) = {} /\ UNCHANGED part
       \/ \E f \in CutOff(n) : /\ \A g \in CutOff(n) : CutAt(n, g) <= CutAt(n, f)
                               /\ part' = [part EXCEPT ![Me(n).id] = {f}]
    /\ mishap' = mishap \cup (IF \E f \in CutOff(n) : f.no # 0 THEN {"aside"} ELSE {})
                        \cup (IF \E f \in temp[n] \ CutOff(n) : f.no = 0 THEN {"stays"} ELSE {})

\* sendfiles removes its log when it has read it, recfiles does not.
EndTransfer(n) ==
    /\ main[n] = "transfer" /\ MakePartial(n)
    /\ log' = [log EXCEPT ![n] = IF kind[n] = "upload" THEN @ ELSE <<>>]
    /\ main' = [main EXCEPT ![n] = IF kind[n] \in {"upload", "both"} THEN "flood" ELSE "charge"]
    /\ UNCHANGED <<kind, seen, tags, sent, job, user, last, sig, bgdone, shared, rec, flagged, lc,
                   owed, due, received, refused, used>>

\* Everything up to the last file of the log is paid for and no longer tagged; Hydra
\* logs whole paths, so no tag is that file and all of them are.
Passed(n) == IF sent[n] = <<>> THEN <<>>
             ELSE IF kind[n] = "both" THEN tags[n]
             ELSE SubSeq(tags[n], 1, CHOOSE i \in DOMAIN tags[n] : tags[n][i] = Last(sent[n]))
Charge(n) ==
    /\ main[n] = "charge"
    /\ user' = [user EXCEPT ![Node(n)].dl = @ + Price(n, Passed(n))]
    /\ tags' = [tags EXCEPT ![n] = SubSeq(@, Len(Passed(n)) + 1, Len(@))]
    /\ main' = [main EXCEPT ![n] = "menu"] /\ sent' = [sent EXCEPT ![n] = <<>>]
    /\ UNCHANGED <<kind, seen, temp, log, job, last, sig, bgdone, shared, disk, history>>

-----------------------------------------------------------------------------
(* The background checker *)

Exit(n) == /\ job' = [job EXCEPT ![Checker(n)] = Idle("off")]
           /\ user' = [user EXCEPT ![Checker(n)] = NoRecord]
           /\ last' = [last EXCEPT ![n] = 0] /\ sig' = [sig EXCEPT ![n] = FALSE]

\* A signal before the handler is installed kills the child.
InstallHandler(n) ==
    /\ job[Checker(n)].pc = "born"
    /\ IF sig[n] THEN Exit(n)
       ELSE job' = [job EXCEPT ![Checker(n)] = Idle("idle")] /\ UNCHANGED <<user, last, sig>>
    /\ UNCHANGED <<nodeVars, bgdone, shared, disk, history>>

TakeLine(n) ==
    /\ job[Checker(n)].pc = "idle" /\ last[n] < Len(log[n])
    /\ last' = [last EXCEPT ![n] = @ + 1]
    /\ LET l == log[n][last[n] + 1] IN
       job' = [job EXCEPT ![Checker(n)] =
           IF l[1] = "up" /\ l[2] \in NamesIn(temp[n])
           THEN [pc |-> "name", file |-> CHOOSE f \in temp[n] : f.name = l[2], held |-> FALSE]
           ELSE @]
    /\ UNCHANGED <<nodeVars, user, sig, bgdone, shared, disk, history>>

\* The record is written before the process ends.
ReportDone(n) ==
    /\ job[Checker(n)].pc = "idle" /\ sig[n]
    /\ bgdone' = [bgdone EXCEPT ![n] = user[Checker(n)]] /\ Exit(n)
    /\ UNCHANGED <<nodeVars, shared, disk, history>>

\* After a transfer: ask the checker to end.
StopChecker(n) ==
    /\ main[n] = "flood"
    /\ LET running == job[Checker(n)].pc # "off" IN
       /\ sig' = [sig EXCEPT ![n] = running]
       /\ main' = [main EXCEPT ![n] = IF running THEN "stop" ELSE "scan"]
    /\ UNCHANGED <<kind, seen, temp, log, tags, sent, job, user, last, bgdone, shared, disk, history>>

ForgetRecord(n) ==   \* mutant
    /\ main[n] = "stop" /\ bgdone[n] # NoRecord
    /\ bgdone' = [bgdone EXCEPT ![n] = NoRecord]
    /\ main' = [main EXCEPT ![n] = "scan"]
    /\ UNCHANGED <<kind, seen, temp, log, tags, sent, job, user, last, sig, shared, disk, history>>

TakeRecord(n) ==
    /\ main[n] = "stop" /\ bgdone[n] # NoRecord
    /\ user' = [user EXCEPT ![Node(n)] = bgdone[n]]
    /\ bgdone' = [bgdone EXCEPT ![n] = NoRecord]
    /\ main' = [main EXCEPT ![n] = "scan"]
    /\ UNCHANGED <<kind, seen, temp, log, tags, sent, job, last, sig, shared, disk, history>>

NeverMissed(n) == FALSE /\ UNCHANGED vars   \* mutant

\* The checker is gone and has left nothing.
CheckerGone(n) ==
    /\ main[n] = "stop" /\ bgdone[n] = NoRecord /\ job[Checker(n)].pc = "off"
    /\ main' = [main EXCEPT ![n] = "scan"]
    /\ UNCHANGED <<kind, seen, temp, log, tags, sent, job, user, last, sig, bgdone, shared, disk, history>>

-----------------------------------------------------------------------------
(* handleupload, for the node and for the checker *)

Finished(w) == job' = [job EXCEPT ![w] = Idle(IF w[2] = "node" THEN "off" ELSE "idle")]
Step(w, p) == job' = [job EXCEPT ![w].pc = p]
Unlink(w) == temp' = [temp EXCEPT ![w[1]] = @ \ {job[w].file}]
Refuse(w) == Unlink(w) /\ Finished(w) /\ refused' = refused \cup {job[w].file.no}
At(w, p) == job[w].pc = p
rest == <<main, kind, seen, log, tags, sent, last, sig, bgdone, mover, rec, flagged, part, elsewhere>>

\* The files a node finds in its temporary directory, in any order, the parts that stayed there
\* among them.
ScanTemp(n) ==
    /\ main[n] = "scan" /\ job[Node(n)].pc = "off"
    /\ \E f \in temp[n] :
          /\ f.name \notin seen[n] /\ seen' = [seen EXCEPT ![n] = @ \cup {f.name}]
          /\ job' = [job EXCEPT ![Node(n)] = [pc |-> "name", file |-> f, held |-> FALSE]]
    /\ UNCHANGED <<main, kind, temp, log, tags, sent, user, last, sig, bgdone, shared, disk, history>>

ScanDone(n) ==
    /\ main[n] = "scan" /\ job[Node(n)].pc = "off" /\ NamesIn(temp[n]) \subseteq seen[n]
    /\ main' = [main EXCEPT ![n] = CASE kind[n] = "both" -> "charge" [] kind[n] = "left" -> "tags"
                                     [] OTHER -> "menu"]
    /\ seen' = [seen EXCEPT ![n] = {}]
    /\ UNCHANGED <<kind, temp, log, tags, sent, job, user, last, sig, bgdone, shared, disk, history>>

\* handleupload gives up: the checker leaves the file to the node, and the node puts
\* it aside for the next call.
GiveUp(w) ==
    /\ Finished(w)
    /\ LET f == job[w].file  u == user[w].id IN
       IF w[2] = "checker" THEN UNCHANGED <<temp, lc, mishap>>
       ELSE /\ Unlink(w) /\ lc' = [lc EXCEPT ![u] = Put(@, f)]
            /\ mishap' = mishap \cup IF f.name \in NamesIn(lc[u]) THEN {"two left"} ELSE {}

\* A name that is not allowed is asked for again, and the file renamed at once, over
\* another of the same upload if it has that name.
CheckFileName(w) ==
    /\ At(w, "name")
    /\ LET f == job[w].file IN
       \/ f.name \notin Invalid /\ Step(w, "dupe") /\ UNCHANGED <<temp, lc, mishap>>
       \/ f.name \in Invalid /\ GiveUp(w)
       \/ /\ f.name \in Invalid /\ w[2] = "node"
          /\ \E x \in Names \ Invalid :
                LET g == [f EXCEPT !.name = x] IN
                /\ temp' = [temp EXCEPT ![w[1]] = Put(@ \ {f}, g)]
                /\ job' = [job EXCEPT ![w].pc = "dupe", ![w].file = g]
                /\ mishap' = mishap \cup IF x \in NamesIn(temp[w[1]]) THEN {"renamed over"} ELSE {}
          /\ UNCHANGED lc
    /\ UNCHANGED <<rest, user, area, listing, hold, owed, due, received, refused, used>>

NoDupeCheck(w) ==   \* mutant
    /\ At(w, "dupe") /\ Step(w, "ask")
    /\ UNCHANGED <<rest, user, temp, lc, area, listing, hold, owed, due, received, refused, used, mishap>>

DupeCheck(w) ==
    /\ At(w, "dupe")
    /\ IF job[w].file.name \in NamesIn(area)
       THEN Refuse(w)
       ELSE Step(w, "ask") /\ UNCHANGED <<temp, refused>>
    /\ UNCHANGED <<rest, user, lc, area, listing, hold, owed, due, received, used, mishap>>

\* getarchiver and extract_desc: the file is an archive with a description in it, and
\* it may be broken.
Archive(w) == job[w].file.name \in Diz
Broken(w) == Archive(w)

\* The checker takes what describes itself; a caller stores, holds or deletes the file
\* or is lost at the question.  An archive found broken is deleted too.
Describe(w) ==
    /\ At(w, "ask")
    /\ \/ (w[2] = "node" \/ Archive(w)) /\ Step(w, "list") /\ UNCHANGED <<temp, lc, refused, mishap>>
       \/ w[2] = "node" /\ job' = [job EXCEPT ![w].pc = "list", ![w].held = TRUE] /\ UNCHANGED <<temp, lc, refused, mishap>>
       \/ (w[2] = "node" \/ Broken(w)) /\ Refuse(w) /\ UNCHANGED <<lc, mishap>>
       \/ (w[2] = "node" \/ ~Archive(w)) /\ GiveUp(w) /\ UNCHANGED refused
    /\ UNCHANGED <<rest, user, area, listing, hold, owed, due, received, used>>

ListedAlways(w) == TRUE   \* mutant
Listed(w) == ~job[w].held

\* The description goes on the list before the file is there; a sysop's move that has read the
\* list will write it without this line.  When it cannot be written the file stays where it is.
UpdateFileList(w) ==
    /\ At(w, "list")
    /\ \/ /\ listing' = IF Listed(w) THEN listing \cup {job[w].file} ELSE listing
          /\ Step(w, "move")
          /\ mishap' = mishap \cup IF Listed(w) /\ mover.file # NoFile THEN {"list"} ELSE {}
       \/ Finished(w) /\ mishap' = mishap \cup {"disk"} /\ UNCHANGED listing
    /\ UNCHANGED <<rest, user, temp, lc, area, hold, owed, due, received, refused, used>>

\* Another worker is past the check with a file of this name.
Racing(w) == \E v \in Workers \ {w} : /\ job[v].file.name = job[w].file.name /\ ~job[v].held
                                      /\ job[v].pc \in {"ask", "list", "move"}

AddUlBytes(w) == IF job[w].held THEN user ELSE [user EXCEPT ![w].ul = @ + 1]

\* A rename that fails goes unnoticed.
NewRename(w) ==
    /\ At(w, "move") /\ Finished(w) /\ user' = AddUlBytes(w)
    /\ LET f == job[w].file  u == user[w].id IN
       \/ /\ Unlink(w)
          /\ IF job[w].held
             THEN /\ hold' = Put(hold, f) /\ UNCHANGED <<area, owed>>
                  /\ mishap' = mishap \cup IF f.name \in NamesIn(hold) THEN {"two held"} ELSE {}
             ELSE /\ area' = Put(area, f) /\ owed' = [owed EXCEPT ![u] = @ + 1] /\ UNCHANGED hold
                  /\ mishap' = mishap \cup IF Racing(w) THEN {"race"} ELSE {}
       \/ mishap' = mishap \cup {"disk"} /\ UNCHANGED <<temp, area, hold, owed>>
    /\ UNCHANGED <<rest, lc, listing, due, received, refused, used>>

HandleUpload(w) == \/ CheckFileName(w) \/ DupeCheck(w) \/ Describe(w)
                   \/ UpdateFileList(w) \/ NewRename(w)

-----------------------------------------------------------------------------
(* movefile: the file is renamed and the list of its area read, then written anew. *)

MoveFile(f) ==
    /\ mover.file = NoFile /\ used.moves < MaxMoves /\ f \in area /\ f \in listing
    /\ area' = area \ {f} /\ elsewhere' = elsewhere \cup {f.no}
    /\ mover' = [file |-> f, list |-> listing]
    /\ used' = [used EXCEPT !.moves = @ + 1]
    /\ UNCHANGED <<nodeVars, job, user, last, sig, bgdone, listing, hold, disk,
                   owed, due, received, refused, mishap>>

WriteList ==
    /\ mover.file # NoFile
    /\ listing' = mover.list \ {mover.file} /\ mover' = [file |-> NoFile, list |-> {}]
    /\ UNCHANGED <<nodeVars, job, user, last, sig, bgdone, area, hold, elsewhere, disk, history>>

-----------------------------------------------------------------------------
Calls(n) == \/ \E u \in Users : Login(n, u)
            \/ LoadFlagList(n) \/ Logoff(n) \/ ReadNews(n)
            \/ \E x \in Names : FlagFile(n, x) \/ UnflagFile(n, x)

Transfers(n) == \/ Upload(n) \/ Download(n) \/ SysopDownload(n)
                \/ DropLog(n) \/ EndTransfer(n) \/ Charge(n)
                \/ \E x \in Names : RecFile(n, x) \/ BreakOff(n, x) \/ LeavePart(n, x)
                \/ \E i \in DOMAIN tags[n] : SendFile(n, i)

After(n) == StopChecker(n) \/ TakeRecord(n) \/ CheckerGone(n) \/ ScanTemp(n) \/ ScanDone(n)

Following(n) == InstallHandler(n) \/ TakeLine(n) \/ ReportDone(n)

Next == \/ \E n \in Nodes : Calls(n) \/ Transfers(n) \/ After(n) \/ Following(n)
        \/ \E w \in Workers : HandleUpload(w)
        \/ \E f \in area : MoveFile(f)
        \/ WriteList

\* Processes run; a caller who does not answer is timed out.
Fairness == \A n \in Nodes :
    /\ WF_vars(After(n)) /\ WF_vars(Following(n))
    /\ WF_vars(HandleUpload(Node(n))) /\ WF_vars(HandleUpload(Checker(n)))

FilesSpec == Init /\ [][Next]_vars /\ Fairness

-----------------------------------------------------------------------------
(* Properties *)

Copies == [no : 0 .. MaxFiles, name : Names \cup Shelf, by : Users \cup {"none"}]
Records == [id : Users, ul : Nat, dl : Nat]
Jobs == [pc : {"off", "born", "idle"}, file : {NoFile}, held : {FALSE}]
        \cup [pc : {"name", "dupe", "ask", "list", "move"}, file : Copies, held : BOOLEAN]
Lines == {"up", "down", "part"} \X (Names \cup {"none"})

NoTwin(dir) == \A f, g \in dir : f.name = g.name => f = g

NodeTypes ==
    /\ main \in [Nodes -> {"off", "tags", "menu", "begin", "transfer", "flood", "stop", "scan", "charge"}]
    /\ kind \in [Nodes -> {"upload", "download", "both", "left", "sysop"}]
    /\ seen \in [Nodes -> SUBSET (Names \cup Shelf)]
    /\ last \in [Nodes -> Nat] /\ sig \in [Nodes -> BOOLEAN]
LogTypes == log \in [Nodes -> Seq(Lines)]
TagTypes == tags \in [Nodes -> Seq(Names)] /\ sent \in [Nodes -> Seq(Names)] /\ flagged \in [Users -> Seq(Names)]
JobTypes == /\ job \in [Workers -> Jobs]
            /\ \A w \in Workers : job[w].held => job[w].pc \in {"move", "list"}
RecordTypes == /\ user \in [Workers -> Records \cup {NoRecord}] /\ bgdone \in [Nodes -> Records \cup {NoRecord}]
               /\ rec \in [Users -> Records] /\ owed \in [Users -> Nat] /\ due \in [Users -> Nat]
TempTypes == temp \in [Nodes -> SUBSET Copies] /\ \A n \in Nodes : NoTwin(temp[n])
LeftTypes == /\ lc \in [Users -> SUBSET Copies] /\ part \in [Users -> SUBSET Copies]
             /\ \A u \in Users : NoTwin(lc[u]) /\ NoTwin(part[u])
AreaTypes == /\ area \subseteq Copies /\ listing \subseteq Copies /\ hold \subseteq Copies
             /\ NoTwin(area) /\ NoTwin(hold) /\ mover \in [file : Copies \cup {NoFile}, list : SUBSET Copies]
HistoryTypes ==
    /\ elsewhere \subseteq 0 .. MaxFiles /\ refused \subseteq 0 .. MaxFiles /\ received \subseteq 1 .. MaxFiles
    /\ used \in [transfers : 0 .. MaxTransfers, news : 0 .. MaxNews, moves : 0 .. MaxMoves]
    /\ mishap \subseteq {"overwritten", "list", "stays", "named", "aside", "renamed over", "two left", "two held", "race", "disk"}

\* Every variable has its type; no directory has a name twice, and a file is held only when the
\* caller has been asked.
FilesTypeOK == /\ NodeTypes /\ LogTypes /\ TagTypes /\ JobTypes /\ RecordTypes
               /\ TempTypes /\ LeftTypes /\ AreaTypes /\ HistoryTypes

\* A file received is in a directory of the BBS until somebody refuses it, also when transfers
\* break off and parts stay among the files: unless a disk fails, two files of one name pass the
\* check of handleupload at once, or two are held or left, a file is renamed over another, or
\* the log calls a file broken off that was complete in the end, or complete when only a part
\* is there.  But for that, and a part that stays in the directory when the transfer is over, no
\* part is ever taken for the file, by a checker that reads an old log or by a node.
NoFileLost ==
    mishap \subseteq {"overwritten", "list", "stays"} =>
       /\ received \subseteq refused \cup elsewhere
             \cup {f.no : f \in area \cup hold \cup (UNION {temp[n] : n \in Nodes}) \cup (UNION {lc[u] : u \in Users})}
       /\ "stays" \notin mishap => \A f \in area \cup hold : f.no = 0 => f.by = "none"

\* With all workers at rest the list names the files that are there, unless a disk
\* fails, two files of one name race, or movefile loses a line added meanwhile.
ListMatches ==
    /\ \A w \in Workers : job[w].pc # "move"
    /\ mover.file = NoFile /\ mishap \cap {"disk", "race", "list"} = {}
    => listing = area

\* What a user is credited for uploads is what was put on line, and what he pays for
\* covers every file sent, whoever keeps his record meanwhile: unless a rename fails or
\* a credit comes in while the checker has a copy of the record.
CreditsExact ==
    \A u \in Users : \A r \in {Me(n) : n \in {k \in Nodes : main[k] \in {"menu", "begin"} /\ Me(k).id = u}}
                            \cup (IF \A n \in Nodes : main[n] = "off" \/ Me(n).id # u THEN {rec[u]} ELSE {}) :
       /\ mishap \cap {"disk", "overwritten"} = {} => r.ul = owed[u]
       /\ r.dl >= due[u]

\* What a user has taken and tagged stays within his ratio, also over a call's end and
\* when the checker's record replaces the node's.
RatioKept ==
    Ratio # 0 /\ "overwritten" \notin mishap =>
       \A n \in Nodes : main[n] # "off" => Me(n).dl + Counted(tags[n]) <= Ratio * Me(n).ul + Bonus

\* The wait of a node for its checker ends, whenever the signal arrives.
StopEnds == \A n \in Nodes : main[n] = "stop" ~> main[n] # "stop"
=============================================================================
