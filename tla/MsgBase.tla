------------------------------ MODULE MsgBase ------------------------------
(***************************************************************************)
(* A message base of a conference, shared by the BBS nodes and the         *)
(* stand-alone tools through plain files that nobody locks:                *)
(*   msgbase.ptr  lowest and highest message number      -> ptr[b]         *)
(*   msgbase.dat  the array of message headers           -> dat[b]         *)
(*   msgNNNNN     one text file for each message number  -> text[b][n]     *)
(* Every node works on private copies (the globals highest/lowest, the     *)
(* header window msgbuf, the draft header), so one action below is one     *)
(* file operation of one process.                                          *)
(*                                                                         *)
(* A text stands for msgNNNNN together with its attachments (faNNNNN and   *)
(* msfNNNNN), which are created, and deleted, with it.  A message has an   *)
(* identity (id) that the program does not store: it tells which message   *)
(* a header or a text file is about.                                       *)
(***************************************************************************)
EXTENDS Integers, Sequences, FiniteSets

CONSTANTS
    NumBases,     \* number of message bases in the conference
    Nodes,        \* BBS nodes, each with a user logged on
    Tools,        \* programs that post by themselves: robowriter, tosser
    Maintainers,  \* runs of fixbases and msgbaseopt
    Users,        \* user names
    Name,         \* the name a node or tool posts under
    Sysops,       \* users whose access bits let them act on any message
    All,          \* the receiver of a message to everybody
    Drafts,       \* receivers and privacy an author can choose
    MsgLimit,     \* MSGBASE_MSGLIMIT: headers msgbaseopt leaves in a base
    WindowSize,   \* headers read at a time: 100
    MaxNum        \* bound: message numbers handed out in a behaviour

Procs == Nodes \cup Tools
Bases == 1 .. NumBases
Nums  == 0 .. MaxNum
None  == 0        \* no such file

Header == [num : Nums, id : Nums, home : Bases \cup {0}, from : Users \cup {All},
           to : Users \cup {All}, priv : BOOLEAN, del : BOOLEAN]

ASSUME BasesAssumption == NumBases \in Nat \ {0}

\* Numbers have 16 bits; 65535 marks the end of a window.
ASSUME NumberAssumption == MaxNum \in 1 .. 65534

ASSUME WindowAssumption == WindowSize \in Nat \ {0}

ASSUME ActorsAssumption == /\ Nodes \cap Tools = {}
                           /\ Procs \cap Maintainers = {}

ASSUME NamesAssumption == /\ Name \in [Procs -> Users]
                          /\ Sysops \subseteq Users
                          /\ All \notin Users
                          /\ Drafts \subseteq [to : Users \cup {All}, priv : BOOLEAN]

ASSUME LimitAssumption == MsgLimit \in Nat

VARIABLES
    ptr,     \* msgbase.ptr of each base
    dat,     \* msgbase.dat of each base
    text,    \* text[b][n]: the id of the message in file msg<n>, or None
    base,    \* current_msgbase of each process
    ptrs,    \* lowest and highest as each process last read or set them
    buf,     \* each node's header window: its seek point and its headers
    cur,     \* daheader: a position in the window, or 0
    pc,      \* where each process is
    job,     \* the save a process is busy with
    at,      \* the offset an append was positioned at
    new,     \* msgbase.new of each maintenance run
    issued,  \* message numbers handed out so far (bounded by MaxNum)
    saved,   \* history: messages saved, and not deleted since
    mishap   \* history: situations the file handling does not provide for

disk  == <<ptr, dat, text>>
mem   == <<base, ptrs, buf, cur>>
saves == <<job, at>>
hist  == <<issued, saved, mishap>>
vars  == <<ptr, dat, text, base, ptrs, buf, cur, pc, job, at, new, issued, saved, mishap>>

NoHeader == [num |-> 0, id |-> 0, home |-> 0, from |-> All, to |-> All,
             priv |-> FALSE, del |-> FALSE]
NoJob    == [kind |-> "none", hdr |-> NoHeader, src |-> 0]
NoBuf    == [off |-> 0, hdrs |-> <<>>]

-----------------------------------------------------------------------------
(* Files *)

\* write(2) of headers h at header offset off; a gap past the end reads as 0.
WriteAt(s, off, h) ==
    [i \in 1 .. (IF Len(s) > off + Len(h) THEN Len(s) ELSE off + Len(h)) |->
        IF i > off /\ i <= off + Len(h) THEN h[i - off]
        ELSE IF i <= Len(s) THEN s[i] ELSE NoHeader]

\* readmsgdatas: the window of msgbase.dat that starts at header offset off.
InWindow(s, off) ==
    IF Len(s) > off + WindowSize THEN WindowSize ELSE IF Len(s) > off THEN Len(s) - off ELSE 0
Window(s, off) == [off |-> off, hdrs |-> [i \in 1 .. InWindow(s, off) |-> s[off + i]]]

\* Mutant: the lseek before the write is missing.
WriteBackAtStart(p) == dat' = [dat EXCEPT ![base[p]] = WriteAt(@, 0, buf[p].hdrs)]

\* updatemsgdatas: the whole window goes back to where it was read from, in
\* whatever base is the current one.
WriteBack(p) == dat' = [dat EXCEPT ![base[p]] = WriteAt(@, buf[p].off, buf[p].hdrs)]

\* lseek(fd, off, SEEK_END) as lib/libddcommon.c computes it: a negative
\* offset is subtracted from the size.
dd_lseek(size, off) == IF off < 0 THEN size - off ELSE size + off

\* The header a tool holds after reading the first header and then seeking one
\* header back from the end and reading again: a read past the end of the file
\* leaves the buffer as it was.
LastHeader(s) ==
    LET pos == dd_lseek(Len(s), -1)
    IN  IF pos + 1 \in 1 .. Len(s) THEN s[pos + 1] ELSE s[1]

Init ==
    /\ ptr = [b \in Bases |-> [low |-> 0, high |-> 0]]
    /\ dat = [b \in Bases |-> <<>>]
    /\ text = [b \in Bases |-> [n \in Nums |-> None]]
    /\ base = [p \in Procs |-> 1]
    /\ ptrs = [p \in Procs |-> [low |-> 0, high |-> 0]]
    /\ buf = [p \in Procs |-> NoBuf]
    /\ cur = [p \in Procs |-> 0]
    /\ pc = [p \in Procs \cup Maintainers |-> "idle"]
    /\ job = [p \in Procs |-> NoJob]
    /\ at = [p \in Procs |-> 0]
    /\ new = [m \in Maintainers |-> [b |-> 1, hdrs |-> <<>>, last |-> 0]]
    /\ issued = 0
    /\ saved = {}
    /\ mishap = {}

Goto(p, l) == pc' = [pc EXCEPT ![p] = l]

-----------------------------------------------------------------------------
(* Saving a message: entermsg, keepmsg, robowriter and tosser all take the  *)
(* highest number, write it back incremented, append a header and make the  *)
(* text file.                                                               *)

Under(cond, name) == IF cond THEN {name} ELSE {}

Maintaining == \E m \in Maintainers : pc[m] # "idle"

Saving(p) == pc[p] \in {"set", "rename", "seek", "hdr", "text"}

\* getmsgptrs, highest++, header.MSG_NUMBER = highest
TakeNumber(p, kind, h, src) ==
    /\ issued < MaxNum
    /\ LET top == ptr[base[p]].high + 1
       IN  /\ top <= MaxNum
           /\ ptrs' = [ptrs EXCEPT ![p] = [low |-> ptr[base[p]].low, high |-> top]]
           /\ job' = [job EXCEPT ![p] = [kind |-> kind, src |-> src,
                                         hdr |-> [h EXCEPT !.num = top]]]
    /\ issued' = issued + 1
    /\ mishap' = mishap \cup Under(\E q \in Procs \ {p} : Saving(q), "overlap")
                        \cup Under(Maintaining, "repair")
    /\ Goto(p, "set")

Draft(p, d) == [num |-> 0, id |-> issued + 1, home |-> base[p], from |-> Name[p],
                to |-> d.to, priv |-> d.priv, del |-> FALSE]

EndSave(p, l) == Goto(p, l) /\ job' = [job EXCEPT ![p] = NoJob]

\* A user enters a message from the menu, or a tool posts one.
EnterMsg(p) ==
    /\ pc[p] = "idle"
    /\ \E d \in Drafts : TakeNumber(p, "post", Draft(p, d), 0)
    /\ UNCHANGED <<disk, base, buf, cur, at, new, saved>>

\* Mutant: the new pointers are not written.
PtrsNotSet(p) ==
    /\ pc[p] = "set"
    /\ Goto(p, IF job[p].kind = "keep" THEN "rename" ELSE "seek")
    /\ UNCHANGED <<disk, mem, saves, new, hist>>

SetMsgPtrs(p) ==
    /\ pc[p] = "set"
    /\ ptr' = [ptr EXCEPT ![base[p]] = ptrs[p]]
    /\ Goto(p, IF job[p].kind = "keep" THEN "rename" ELSE "seek")
    /\ UNCHANGED <<dat, text, mem, saves, new, hist>>

\* keepmsg moves the text file to its new number; without one rename() fails
\* and that is ignored.
KeepRename(p) ==
    /\ pc[p] = "rename"
    /\ LET t == text[base[p]]
           n == job[p].hdr.num
           s == job[p].src
       IN  text' = IF t[s] = None \/ s = n THEN text
                   ELSE [text EXCEPT ![base[p]] = [t EXCEPT ![n] = t[s], ![s] = None]]
    /\ Goto(p, "seek")
    /\ UNCHANGED <<ptr, dat, mem, saves, new, hist>>

SeekEnd(p) ==
    /\ pc[p] = "seek"
    /\ at' = [at EXCEPT ![p] = Len(dat[base[p]])]
    /\ Goto(p, "hdr")
    /\ UNCHANGED <<disk, mem, job, new, hist>>

AppendHeader(p) ==
    /\ pc[p] = "hdr"
    /\ dat' = [dat EXCEPT ![base[p]] = WriteAt(@, at[p], <<job[p].hdr>>)]
    /\ at' = [at EXCEPT ![p] = 0]
    /\ \/ /\ job[p].kind = "keep"
          /\ EndSave(p, "reread")
       \/ /\ job[p].kind # "keep"
          /\ Goto(p, "text")
          /\ UNCHANGED job
    /\ UNCHANGED <<ptr, text, mem, new, hist>>

\* The text file is opened with O_TRUNC: what it held is gone.
WriteText(p) ==
    /\ pc[p] = "text"
    /\ text' = [text EXCEPT ![base[p]][job[p].hdr.num] = job[p].hdr.id]
    /\ saved' = saved \cup {<<base[p], job[p].hdr.id>>}
    /\ EndSave(p, IF job[p].kind = "reply" THEN "replied" ELSE "idle")
    /\ UNCHANGED <<ptr, dat, mem, at, new, issued, mishap>>

\* An open(2) of the save fails.  entermsg and the tools give up where they
\* are; keepmsg ignores a pointer file it cannot write, and gives up when it
\* cannot open msgbase.dat, the text being renamed by then.
SaveFails(p) ==
    /\ pc[p] \in {"set", "seek", "text"}
    /\ CASE job[p].kind = "post"  -> EndSave(p, "idle")
         [] job[p].kind = "reply" -> EndSave(p, "replied")
         [] job[p].kind = "keep" /\ pc[p] = "set" -> Goto(p, "rename") /\ UNCHANGED job
         [] OTHER -> EndSave(p, "read")
    /\ mishap' = mishap \cup Under(job[p].kind = "keep", "keepfail")
    /\ UNCHANGED <<disk, mem, at, new, issued, saved>>

-----------------------------------------------------------------------------
(* Reading messages: readmessages and the commands of its prompt.           *)

\* readmessages from the menu starts at most 100 headers from the end, from
\* the mail scan at the header of the mail to read.
ReadMessages(p) ==
    /\ pc[p] = "idle"
    /\ dat[base[p]] # <<>>
    /\ ptrs' = [ptrs EXCEPT ![p] = ptr[base[p]]]
    /\ \E off \in 0 .. Len(dat[base[p]]) - 1 :
          buf' = [buf EXCEPT ![p] = Window(dat[base[p]], off)]
    /\ cur' = [cur EXCEPT ![p] = 0]
    /\ mishap' = mishap \cup Under(Maintaining, "repair")
    /\ Goto(p, "read")
    /\ UNCHANGED <<disk, base, saves, new, issued, saved>>

\* showmsg shows a header that is not deleted, not private to others, and has
\* its text file.
Shown(p, h) ==
    /\ ~h.del
    /\ h.priv => Name[p] \in Sysops \cup {h.from, h.to}
    /\ text[base[p]][h.num] # None

\* The header is looked for in the window and, if it is not there, in windows
\* read anew, up to the end of the base; daheader is then the header shown.
\* Walking backwards past the first message, and a mail that is deleted after
\* the scan listed it, leave daheader on the first header of the window, shown
\* or not; an empty window leaves it on none.
ShowMsg(p) ==
    /\ pc[p] = "read"
    /\ \/ UNCHANGED buf
       \/ \E off \in 0 .. Len(dat[base[p]]) : buf' = [buf EXCEPT ![p] = Window(dat[base[p]], off)]
    /\ \/ \E i \in 1 .. Len(buf'[p].hdrs) :
             /\ i = 1 \/ Shown(p, buf'[p].hdrs[i])
             /\ cur' = [cur EXCEPT ![p] = i]
       \/ buf'[p].hdrs = <<>> /\ cur' = [cur EXCEPT ![p] = 0]
    /\ UNCHANGED <<disk, base, ptrs, pc, saves, new, hist>>

Current(p) == buf[p].hdrs[cur[p]]
IsSysop(p) == Name[p] \in Sysops

MayDelete(p) == IsSysop(p) \/ Name[p] \in {Current(p).from, Current(p).to}
MayEdit(p)   == IsSysop(p) \/ Name[p] = Current(p).from
MayKeep(p)   == IsSysop(p) \/ Name[p] = Current(p).to

\* unlink the text; the deleted flag is set in the window only.  The header
\* may be one whose text its author has yet to write.
Unlink(p) ==
    LET b == base[p]
        n == Current(p).num
    IN  /\ text' = [text EXCEPT ![b][n] = None]
        /\ saved' = saved \ {<<b, text[b][n]>>}
        /\ buf' = [buf EXCEPT ![p].hdrs[cur[p]].del = TRUE]
        /\ mishap' = mishap \cup
                     Under(\E q \in Procs \ {p} : Saving(q) /\ job[q].hdr.num = n, "early")

DeleteMsg(p) ==
    /\ pc[p] = "read"
    /\ cur[p] # 0
    /\ ~Current(p).del
    /\ MayDelete(p)
    /\ Unlink(p)
    /\ UNCHANGED <<ptr, dat, base, ptrs, cur, pc, saves, new, issued>>

\* The new receiver and privacy go into the window, and the window to disk.
EditMsgHdr(p) ==
    /\ pc[p] = "read"
    /\ cur[p] # 0
    /\ ~Current(p).del
    /\ MayEdit(p)
    /\ \E d \in Drafts :
          LET h == [Current(p) EXCEPT !.to = d.to, !.priv = d.priv]
              w == [buf[p].hdrs EXCEPT ![cur[p]] = h]
          IN  /\ buf' = [buf EXCEPT ![p].hdrs = w]
              /\ dat' = [dat EXCEPT ![base[p]] = WriteAt(@, buf[p].off, w)]
    /\ UNCHANGED <<ptr, text, base, ptrs, cur, pc, saves, new, hist>>

EditMsg(p) ==
    /\ pc[p] = "read"
    /\ cur[p] # 0
    /\ ~Current(p).del
    /\ MayEdit(p)
    /\ Goto(p, "edit")
    /\ UNCHANGED <<disk, mem, saves, new, hist>>

\* The editor returns with lines, and the file is opened for writing again,
\* whether it is still there or not; or it returns with none.
EditFile(p) ==
    /\ pc[p] = "edit"
    /\ text' \in {text, [text EXCEPT ![base[p]][Current(p).num] = Current(p).id]}
    /\ Goto(p, "read")
    /\ UNCHANGED <<ptr, dat, mem, saves, new, hist>>

\* Both commands first write the window back, even with nothing to act on.
ReplyMsg(p) ==
    /\ pc[p] = "read"
    /\ WriteBack(p)
    /\ Goto(p, IF cur[p] = 0 THEN "read" ELSE "reply")
    /\ UNCHANGED <<ptr, text, mem, saves, new, hist>>

KeepMsg(p) ==
    /\ pc[p] = "read"
    /\ WriteBack(p)
    /\ Goto(p, IF cur[p] # 0 /\ MayKeep(p) THEN "keep" ELSE "read")
    /\ UNCHANGED <<ptr, text, mem, saves, new, hist>>

\* replymessage: no reply without the text of the message, nor when the author
\* aborts the editor.
ReplyMessage(p) ==
    /\ pc[p] = "reply"
    /\ \/ /\ Goto(p, "replied")
          /\ UNCHANGED <<disk, mem, saves, hist>>
       \/ /\ text[base[p]][Current(p).num] # None
          /\ LET d == [to |-> Current(p).from, priv |-> Current(p).priv]
             IN  TakeNumber(p, "reply", Draft(p, d), Current(p).num)
          /\ UNCHANGED <<disk, base, buf, cur, at, saved>>
    /\ UNCHANGED new

\* The original of a private reply may be deleted on the way out.
Replied(p) ==
    /\ pc[p] = "replied"
    /\ Goto(p, "reread")
    /\ \/ UNCHANGED <<text, saved, buf, mishap>>
       \/ /\ Current(p).priv
          /\ Current(p).to = Name[p]
          /\ ~Current(p).del
          /\ Unlink(p)
    /\ UNCHANGED <<ptr, dat, base, ptrs, cur, saves, new, issued>>

\* The message is saved again under a new number; the old header gets the
\* deleted flag in the window.
KeepTake(p) ==
    /\ pc[p] = "keep"
    /\ TakeNumber(p, "keep", Current(p), Current(p).num)
    /\ buf' = [buf EXCEPT ![p].hdrs[cur[p]].del = TRUE]
    /\ UNCHANGED <<disk, base, cur, at, new, saved>>

\* readmsgdatas from the old seek point ends a reply and a keep.  daheader
\* still points at its old place.
Reread(p) ==
    /\ pc[p] = "reread"
    /\ buf' = [buf EXCEPT ![p] = Window(dat[base[p]], buf[p].off)]
    /\ cur' = [cur EXCEPT ![p] = IF @ <= Len(buf'[p].hdrs) THEN @ ELSE 0]
    /\ Goto(p, "read")
    /\ UNCHANGED <<disk, base, ptrs, saves, new, hist>>

QuitRead(p) ==
    /\ pc[p] = "read"
    /\ buf' = [buf EXCEPT ![p] = NoBuf]
    /\ cur' = [cur EXCEPT ![p] = 0]
    /\ Goto(p, "idle")
    /\ UNCHANGED <<disk, base, ptrs, saves, new, hist>>

\* The [ and ] commands of the reader: changemsgbase, with the window left as
\* it is.
JumpBase(p) ==
    /\ pc[p] = "read"
    /\ \E b \in Bases \cap {base[p] - 1, base[p] + 1} :
          /\ base' = [base EXCEPT ![p] = b]
          /\ ptrs' = [ptrs EXCEPT ![p] = ptr[b]]
    /\ mishap' = mishap \cup {"jump"}
    /\ UNCHANGED <<disk, buf, cur, pc, saves, new, issued, saved>>

\* A node joins another base from the menu; a tool is started on one.
ChangeMsgBase(p) ==
    /\ pc[p] = "idle"
    /\ \E b \in Bases \ {base[p]} :
          /\ base' = [base EXCEPT ![p] = b]
          /\ ptrs' = [ptrs EXCEPT ![p] = ptr[b]]
    /\ UNCHANGED <<disk, buf, cur, pc, saves, new, hist>>

-----------------------------------------------------------------------------
(* Maintenance: fixbases and msgbaseopt, run from the shell or from cron.   *)

\* A pointer file made from the headers alone.
FixedPtr(s) == [low |-> s[1].num, high |-> LastHeader(s).num]

\* Maintenance is meant for a base nobody uses; and what it writes to the
\* pointer file is right only if it gets to the last header.
InUse(m) == Maintaining \/ \E p \in Procs : pc[p] # "idle"
Misses(s) == s # <<>> /\ LastHeader(s).num < s[Len(s)].num

FixBase(m) ==
    /\ pc[m] = "idle"
    /\ \E b \in Bases :
          /\ dat[b] # <<>>
          /\ ptr' = [ptr EXCEPT ![b] = FixedPtr(dat[b])]
          /\ mishap' = mishap \cup Under(InUse(m) \/ Misses(dat[b]), "repair")
    /\ UNCHANGED <<dat, text, mem, pc, saves, new, issued, saved>>

\* Mutant: the test for the text file is the wrong way round.
ScanDropsLive(m) ==
    /\ pc[m] = "idle"
    /\ \E b \in Bases :
          LET dead(h) == text[b][h.num] = None
          IN  new' = [new EXCEPT ![m] = [b |-> b, hdrs |-> SelectSeq(dat[b], dead), last |-> 0]]
    /\ mishap' = mishap \cup Under(InUse(m), "repair")
    /\ Goto(m, "swap")
    /\ UNCHANGED <<disk, mem, saves, issued, saved>>

\* optbase copies the headers that have a text file to msgbase.new.  last is
\* the number left in its variable msg when no header remains in the end: that
\* of the last header it saw, and whatever was there when it saw none ...
OptScan(m) ==
    /\ pc[m] = "idle"
    /\ \E b \in Bases :
          LET live(h) == text[b][h.num] # None
              kept    == SelectSeq(dat[b], live)
              last(s) == s[Len(s)].num
          IN  \E n \in Nums :
                 /\ dat[b] # <<>> => n = last(IF kept = <<>> THEN dat[b] ELSE kept)
                 /\ new' = [new EXCEPT ![m] = [b |-> b, hdrs |-> kept, last |-> n]]
    /\ mishap' = mishap \cup Under(InUse(m), "repair")
    /\ Goto(m, "swap")
    /\ UNCHANGED <<disk, mem, saves, issued, saved>>

\* ... puts it in the place of msgbase.dat, deletes what is over the limit,
\* the oldest first ...
OptSwap(m) ==
    /\ pc[m] = "swap"
    /\ LET b    == new[m].b
           s    == new[m].hdrs
           over == IF Len(s) > MsgLimit THEN Len(s) - MsgLimit ELSE 0
           gone == {s[i].num : i \in 1 .. over}
       IN  /\ dat' = [dat EXCEPT ![b] = SubSeq(s, over + 1, Len(s))]
           /\ text' = [text EXCEPT ![b] = [n \in Nums |-> IF n \in gone THEN None ELSE @[n]]]
           /\ saved' = saved \ {<<b, text[b][n]>> : n \in gone}
    /\ Goto(m, "fix")
    /\ UNCHANGED <<ptr, mem, saves, new, issued, mishap>>

\* ... and rewrites the pointers.
OptPtrs(m) ==
    /\ pc[m] = "fix"
    /\ LET b == new[m].b
           n == new[m].last
       IN  ptr' = [ptr EXCEPT ![b] = IF dat[b] # <<>> THEN FixedPtr(dat[b])
                                     ELSE [low |-> n, high |-> n]]
    /\ mishap' = mishap \cup Under(Misses(dat[new[m].b]), "repair")
    /\ Goto(m, "idle")
    /\ UNCHANGED <<dat, text, mem, saves, new, issued, saved>>

-----------------------------------------------------------------------------
Save(p) == \/ EnterMsg(p) \/ SetMsgPtrs(p) \/ KeepRename(p) \/ SeekEnd(p)
           \/ AppendHeader(p) \/ WriteText(p) \/ SaveFails(p)

Read(p) == \/ ReadMessages(p) \/ ShowMsg(p) \/ DeleteMsg(p) \/ EditMsgHdr(p)
           \/ EditMsg(p) \/ EditFile(p) \/ ReplyMsg(p) \/ KeepMsg(p)
           \/ ReplyMessage(p) \/ Replied(p) \/ KeepTake(p) \/ Reread(p)
           \/ QuitRead(p) \/ JumpBase(p)

Maintain(m) == FixBase(m) \/ OptScan(m) \/ OptSwap(m) \/ OptPtrs(m)

Next == \/ \E p \in Procs : Save(p) \/ ChangeMsgBase(p)
        \/ \E p \in Nodes : Read(p)
        \/ \E m \in Maintainers : Maintain(m)

Spec == Init /\ [][Next]_vars

-----------------------------------------------------------------------------
(* Properties *)

Labels == {"idle", "set", "rename", "seek", "hdr", "text", "read", "edit",
           "reply", "replied", "keep", "reread"}
Headers == Seq(Header)

TypeOK ==
    /\ ptr \in [Bases -> [low : Nums, high : Nums]]
    /\ dat \in [Bases -> Headers]
    /\ text \in [Bases -> [Nums -> Nums]]
    /\ base \in [Procs -> Bases]
    /\ ptrs \in [Procs -> [low : Nums, high : Nums]]
    /\ buf \in [Procs -> [off : Nat, hdrs : Headers]]
    /\ cur \in [Procs -> Nat]
    /\ \A p \in Procs : cur[p] <= Len(buf[p].hdrs)
    /\ pc \in [Procs \cup Maintainers -> Labels \cup {"swap", "fix"}]
    /\ \A p \in Procs : pc[p] \in Labels
    /\ job \in [Procs -> [kind : {"none", "post", "reply", "keep"},
                          hdr : Header, src : Nums]]
    /\ at \in [Procs -> Nat]
    /\ issued \in Nums
    /\ saved \subseteq Bases \X Nums
    /\ mishap \subseteq {"overlap", "early", "keepfail", "jump", "repair"}

\* Nothing the file handling does not provide for has happened: no two saves
\* ran at the same time, nobody deleted a message that was still being saved,
\* no keepmsg failed half way, no reader jumped to another base, no maintenance
\* tool ran on a base in use or wrote a pointer behind the last header.
Orderly == mishap = {}

\* A message number names one header of a base, and headers are in the order
\* of their numbers, which the reader and the mail scan rely on: readers that
\* write stale windows back do not bring an old number back.
Ascending == \A b \in Bases : \A i, j \in 1 .. Len(dat[b]) :
                 i < j => dat[b][i].num < dat[b][j].num

NumbersAscend == Orderly => Ascending

\* msgbase.ptr is never behind the headers, so the next number is a free one.
PtrCovers == \A b \in Bases : \A i \in 1 .. Len(dat[b]) : dat[b][i].num <= ptr[b].high

HighCoversHeaders == Orderly => PtrCovers

\* The message a user sees under a header is the one saved with that header.
TextMatchesHeader ==
    Orderly => \A b \in Bases : \A i \in 1 .. Len(dat[b]) :
                   text[b][dat[b][i].num] \in {None, dat[b][i].id}

Readable(b, id) ==
    \E i \in 1 .. Len(dat[b]) : /\ dat[b][i].id = id
                                /\ ~dat[b][i].del
                                /\ text[b][dat[b][i].num] = id

\* A message a node or tool has finished saving can be read until somebody
\* deletes it, except while keepmsg is moving it to its new number.
SavedIsReadable ==
    \A s \in saved :
       \/ Readable(s[1], s[2])
       \/ \E p \in Procs : /\ pc[p] \in {"rename", "seek", "hdr"}
                           /\ job[p].kind = "keep"
                           /\ base[p] = s[1]
                           /\ job[p].hdr.id = s[2]

NoLostMessage == Orderly => SavedIsReadable

\* A header is found in the base it was saved to: jumping to the next base with
\* ] does not carry headers along.
HeadersStayHome == \A b \in Bases : \A i \in 1 .. Len(dat[b]) : dat[b][i].home = b

\* What fixbases and msgbaseopt would write now is not behind the headers.
RepairCovers ==
    \A b \in Bases : \A i \in 1 .. Len(dat[b]) : dat[b][i].num <= FixedPtr(dat[b]).high

\* Between runs of the maintenance tools the pointer file never goes back, so
\* that no number is handed out twice.
HighNeverFalls ==
    [][Orderly' /\ (\A m \in Maintainers : ~Maintain(m))
          => \A b \in Bases : ptr'[b].high >= ptr[b].high]_vars
============================================================================
