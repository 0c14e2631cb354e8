------------------------------ MODULE Accounts ------------------------------
(***************************************************************************)
(* Accounts and what is kept for them between calls.  Callers apply and    *)
(* are given the first slot that is free, sysops change and delete the     *)
(* records, a session works on its copy and writes it whole; and a session *)
(* keeps, by base, how far the caller has read and how far new mail was    *)
(* looked for, in a file of pointers by slot, while other nodes post.      *)
(*                                                                         *)
(* Calls of user.c are atomic (UserBase), the way of a login past the      *)
(* other nodes is in Sessions, reading through the window of headers in    *)
(* MsgBase.  A record is whose it is and its status, a message is to whom  *)
(* it is and what of it is on disk; names and texts are left out.  A       *)
(* person makes one call at a time.                                        *)
(***************************************************************************)
EXTENDS Integers, Sequences, FiniteSets, SequencesExt

CONSTANTS
    Nodes, Sysops,   \* processes: sessions, and on-line user editors
    Persons, Nobody,
    First,      \* who has an account in the beginning
    Confs,      \* a sequence: of each conference the sequence of its bases
    Bases, NoBase,
    Mailed,     \* bases where mail is entered, with those it is for
    MaxSlots,   \* bound: slots of userbase.dat
    MaxWork     \* bound: a post counts one, a call or an edit two

ASSUME AccountsAssumption ==
    /\ First \in Persons /\ Nobody \notin Persons /\ NoBase \notin Bases
    /\ Nodes \cap Sysops = {} /\ Mailed \subseteq Bases \X Persons
    /\ Confs \in Seq(Seq(Bases)) /\ FlattenSeq(Confs) \in Seq(Bases)
    /\ MaxSlots \in Nat \ {0} /\ MaxWork \in Nat

VARIABLES
    db,       \* userbase.dat
    sel,      \* users/N/selected.dat: the bases tagged, as a set of one set if it is there
    lrp,      \* msgbase.lrp, by base and slot
    high, dat,   \* msgbase.ptr; msgbase.dat with, by message, whether its text is there
    post,     \* the message another node is saving
    s,        \* the sessions: see Free
    ed,       \* the copy each editor works on
    work,     \* counted for the bound
    decided, shared,      \* history: what was last made of each slot, by its applicant or a
                          \* sysop; slots written while another had a copy
    told, left,  \* history, by person and base: his mail he was shown; what he or a save
                 \* under way left behind
    passed       \* history, by base and slot: the highest number passed

mail == <<high, dat, post>>
seen == <<told, left, passed>>
account == <<db, decided, shared>>
vars == <<account, sel, lrp, mail, s, ed, work, seen>>

Slots == 1..MaxSlots
Pointers == [read |-> 0, scan |-> 0]
NoCopy == [id |-> 0, rec |-> [who |-> Nobody, status |-> "deleted"]]
NoPost == [step |-> "none", base |-> NoBase, num |-> 0, to |-> Nobody]

\* A session without a caller: its slot and copy of the record; the slot looked at; tagged
\* bases; the conference and current_msgbase; the base lrpdatname names, lrp and lsp, and
\* what they were when read; highest, while it is scanned; the bases still to scan; as
\* history, whether a message was being saved meanwhile.
Free == [pc |-> "off", id |-> 0, rec |-> NoCopy.rec, k |-> 1, tags |-> {}, conf |-> 1,
         base |-> NoBase, file |-> NoBase, p |-> Pointers, old |-> Pointers, top |-> 0,
         todo |-> <<>>, busy |-> FALSE]

PerBase(v) == [x \in Persons |-> [b \in Bases |-> v]]

Init ==
    /\ db = <<[who |-> First, status |-> "active"]>> /\ decided = db /\ shared = {}
    /\ sel = [i \in Slots |-> {}] /\ lrp = [b \in Bases |-> [i \in Slots |-> Pointers]]
    /\ high = [b \in Bases |-> 0] /\ dat = [b \in Bases |-> <<>>] /\ post = NoPost
    /\ s = [n \in Nodes |-> Free] /\ ed = [e \in Sysops |-> NoCopy] /\ work = 0
    /\ told = PerBase({}) /\ left = PerBase({}) /\ passed = [b \in Bases |-> [i \in Slots |-> 0]]

Bigger(a, b) == IF a > b THEN a ELSE b
Upto(a, b) == (a + 1)..b
Who(n) == s[n].rec.who
Put(d, i, r) == [j \in 1..Bigger(i, Len(d)) |-> IF j = i THEN r ELSE d[j]]

\* Who else has a copy of a record, or is about to make one in its slot.
Holders(i) == {n \in Nodes : s[n].id = i} \cup {e \in Sysops : ed[e].id = i}

Work(w) == work + w <= MaxWork /\ work' = work + w

\* writeubent of something n decides about a slot, if it is his to decide.
Decide(n, i, r, his) ==
    /\ db' = Put(db, i, r) /\ decided' = IF his THEN Put(decided, i, r) ELSE decided
    /\ shared' = IF Holders(i) \subseteq {n} THEN shared ELSE shared \cup {i}

-----------------------------------------------------------------------------
(* Applying. *)

HasAccount(x) == \E i \in DOMAIN db : db[i].who = x /\ db[i].status # "deleted"
Calls(x) == \E n \in Nodes : Who(n) = x

Apply(n, x) ==
    /\ s[n].pc = "off" /\ Work(2)
    /\ ~HasAccount(x) /\ ~Calls(x)
    /\ s' = [s EXCEPT ![n] = [Free EXCEPT !.pc = "apply", !.rec = [who |-> x, status |-> "new"]]]
    /\ UNCHANGED <<account, sel, lrp, mail, ed, seen>>

\* Mutant: only an active account is thought to be in use.
VacantNew(i) == i > Len(db) \/ db[i].status # "active"

\* The first that does not exist or was deleted.
Vacant(i) == i > Len(db) \/ db[i].status = "deleted"

LookForSlot(n) ==
    /\ s[n].pc = "apply" /\ s[n].k \in Slots
    /\ s' = [s EXCEPT ![n] = IF Vacant(s[n].k) THEN [s[n] EXCEPT !.pc = "found", !.id = s[n].k, !.k = 1] ELSE [s[n] EXCEPT !.k = @ + 1]]
    /\ UNCHANGED <<account, sel, lrp, mail, ed, work, seen>>

\* He is let in, or has to log in.
LetIn(n) == s' \in {[s EXCEPT ![n].pc = "enter"], [s EXCEPT ![n] = Free]}

\* The directory of the slot is emptied; its pointers stay, and mail from before is not the
\* newcomer's.
SaveNew(n) ==
    /\ s[n].pc = "found" /\ LetIn(n)
    /\ Decide(n, s[n].id, s[n].rec, s[n].id > Len(decided) \/ decided[s[n].id].status = "deleted") /\ sel' = [sel EXCEPT ![s[n].id] = {}]
    /\ left' = [left EXCEPT ![Who(n)] = [b \in Bases |-> 1..high[b]]]
    /\ passed' = [b \in Bases |-> [passed[b] EXCEPT ![s[n].id] = 0]]
    /\ UNCHANGED <<lrp, mail, ed, work, told>>

-----------------------------------------------------------------------------
(* Conferences and bases. *)

\* Mutant: pointers are written if something was read.
FlushedRead(v) == IF v.file # NoBase /\ v.old.read # v.p.read THEN [lrp EXCEPT ![v.file][v.id] = v.p] ELSE lrp

Flushed(v) == IF v.file # NoBase /\ v.old # v.p THEN [lrp EXCEPT ![v.file][v.id] = v.p] ELSE lrp

\* changemsgbase: the pointers of the base before are written, those of the next read.
ChangeTo(n, v, b) ==
    LET l == Flushed(v)
    IN  /\ lrp' = l
        /\ s' = [s EXCEPT ![n] = [v EXCEPT !.base = b, !.file = b, !.p = l[b][v.id], !.old = l[b][v.id]]]

\* joinconf: a conference may have no base.
Join(n, v, c) ==
    IF Confs[c] = <<>> THEN s' = [s EXCEPT ![n] = [v EXCEPT !.conf = c, !.base = NoBase]] /\ UNCHANGED lrp
    ELSE ChangeTo(n, [v EXCEPT !.conf = c], Confs[c][1])

JoinConf(n, c) ==
    /\ s[n].pc = "menu" /\ c # s[n].conf /\ Join(n, s[n], c)
    /\ UNCHANGED <<account, sel, mail, ed, work, seen>>

ChangeMsgBase(n, b) ==
    /\ s[n].pc = "menu" /\ b \in Range(Confs[s[n].conf]) \ {s[n].base} /\ ChangeTo(n, s[n], b)
    /\ UNCHANGED <<account, sel, mail, ed, work, seen>>

-----------------------------------------------------------------------------
(* A call. *)

Login(n, i) ==
    /\ s[n].pc = "off" /\ Work(2)
    /\ db[i].status # "deleted" /\ ~Calls(db[i].who)
    /\ s' = [s EXCEPT ![n] = [Free EXCEPT !.pc = "enter", !.id = i, !.rec = db[i]]]
    /\ UNCHANGED <<account, sel, lrp, mail, ed, seen>>

Tagged(n) == IF sel[s[n].id] = {} THEN Bases ELSE UNION sel[s[n].id]

\* enterbbs, with user_joinconference c: mail is scanned if he wants it.
Enter(n, c) ==
    /\ s[n].pc = "enter"
    /\ LET v == [s[n] EXCEPT !.tags = Tagged(n), !.conf = c, !.pc = "menu"]
       IN  IF Who(n) # Nobody /\ s[n].rec.status = "frozen"
           THEN s' = [s EXCEPT ![n].pc = "leave"] /\ UNCHANGED lrp
           ELSE \/ Join(n, v, c)
                \/ s' = [s EXCEPT ![n] = [v EXCEPT !.pc = "scan", !.todo = FlattenSeq(Confs)]] /\ UNCHANGED lrp
    /\ UNCHANGED <<account, sel, mail, ed, work, seen>>

\* tagmessageareas.
Tag(n, b) ==
    /\ s[n].pc = "menu" /\ Work(2)
    /\ LET t == IF b \in s[n].tags THEN s[n].tags \ {b} ELSE s[n].tags \cup {b}
       IN  s' = [s EXCEPT ![n].tags = t] /\ sel' = [sel EXCEPT ![s[n].id] = {t}]
    /\ UNCHANGED <<account, lrp, mail, ed, seen>>

\* tagconfs: the conferences are not told apart here, but the whole of selcfg is written.
TagConfs(n) ==
    /\ s[n].pc = "menu" /\ Work(2)
    /\ sel' = [sel EXCEPT ![s[n].id] = {s[n].tags}]
    /\ UNCHANGED <<account, lrp, mail, s, ed, seen>>

\* edituser, ended with C.
EditUser(n) ==
    /\ s[n].pc = "menu" /\ Work(2)
    /\ db' = Put(db, s[n].id, s[n].rec)
    /\ UNCHANGED <<decided, shared, sel, lrp, mail, s, ed, seen>>

\* The end of getin: current_msgbase is changed to once more for the sake of the pointers,
\* which are lost where there is none; and the record is written.
Leave(n) ==
    LET v == s[n]
        lost == IF v.base = NoBase THEN {v.file} \ {NoBase} ELSE {}
    IN  /\ v.pc \in {"menu", "leave"}
        /\ s' = [s EXCEPT ![n] = Free] /\ db' = Put(db, v.id, v.rec)
        /\ lrp' = IF lost = {} THEN Flushed(v) ELSE lrp
        /\ passed' = [b \in Bases |-> IF b \in lost THEN [passed[b] EXCEPT ![v.id] = Bigger(v.old.read, v.old.scan)]
                                      ELSE passed[b]]
        /\ UNCHANGED <<decided, shared, sel, mail, ed, work, told, left>>

-----------------------------------------------------------------------------
(* Reading, and the scan for new mail. *)

Header(b, k) == {h \in Range(dat[b]) : h.num = k}
Complete(b) == {h \in Range(dat[b]) : h.text}
His(x, b, nums) == {h.num : h \in {g \in Complete(b) : g.num \in nums /\ g.to = x}}

\* The pointers become q, he was shown the mail in t, and what else is in l was left behind.
Pass(n, b, q, t, l) ==
    LET x == Who(n)
    IN  /\ told' = [told EXCEPT ![x][b] = @ \cup His(x, b, t)]
        /\ left' = [left EXCEPT ![x][b] = @ \cup (l \ told[x][b])]
        /\ passed' = [passed EXCEPT ![b][s[n].id] = Bigger(@, Bigger(q.read, q.scan))]

\* showmsg of k, by Enter or by its number: lrp is set before the text is opened, and goes on
\* past a message that is being saved.
Read(n, k) ==
    LET b == s[n].base
        unread == {h.num : h \in {g \in Range(dat[b]) : g.num > s[n].p.read}}
        next == {h.num : h \in {g \in Complete(b) : g.num \in unread}}
        q == [s[n].p EXCEPT !.read = Bigger(@, k)]
    IN  /\ s[n].pc = "menu" /\ b # NoBase /\ Header(b, k) # {}
        /\ s' = [s EXCEPT ![n].p = q]
        /\ \/ /\ k \in unread /\ \A j \in next : j >= k
              /\ Pass(n, b, q, {k}, {post.num} \cap 1..k)
           \/ Pass(n, b, q, {k}, (Upto(s[n].p.read, k) \ {h.num : h \in Header(b, k) \cap Complete(b)}))
        /\ UNCHANGED <<account, sel, lrp, mail, ed, work>>

StartScan(n) ==
    /\ s[n].pc = "menu"
    /\ s' = [s EXCEPT ![n] = [@ EXCEPT !.pc = "scan", !.todo = FlattenSeq(Confs)]]
    /\ UNCHANGED <<account, sel, lrp, mail, ed, work, seen>>

\* The bases tagged that are still to be scanned, by their places in the order of the conferences.
Scans(v) == {i \in DOMAIN v.todo : v.todo[i] \in v.tags}

ScanBase(n) ==
    /\ s[n].pc = "scan"
    /\ \E i \in Scans(s[n]) :
         LET b == s[n].todo[i]
             rest == SubSeq(s[n].todo, i + 1, Len(s[n].todo))
         IN  /\ \A j \in Scans(s[n]) : i <= j
             /\ ChangeTo(n, [s[n] EXCEPT !.pc = "base", !.todo = rest, !.top = high[b], !.busy = post.base = b], b)
    /\ UNCHANGED <<account, sel, mail, ed, work, seen>>

\* Mutant: as many as there should be new ones, but one.
LookedLess(b, top, from) == SubSeq(dat[b], Bigger(0, Len(dat[b]) - (top - from - 1)) + 1, Len(dat[b]))

\* Headers are looked at from as many before the end of the file as there should be new ones,
\* and two.
Looked(b, top, from) == SubSeq(dat[b], Bigger(0, Len(dat[b]) - (top - from + 2)) + 1, Len(dat[b]))

ScanHeaders(n) ==
    LET v == s[n]
        b == v.base
        from == Bigger(v.p.read, v.p.scan)
        new == {h.num : h \in {g \in Range(Looked(b, v.top, from)) : g.num > from /\ g.text /\ g.to = Who(n)}}
        end == [v.p EXCEPT !.scan = v.top]
        next == [v EXCEPT !.pc = "scan", !.top = 0, !.busy = FALSE, !.p = end]
    IN  /\ v.pc = "base"
        /\ IF v.top > from /\ new # {}
           THEN /\ s' = [s EXCEPT ![n] = [v EXCEPT !.pc = "list", !.p.scan = from]]
                /\ Pass(n, b, v.p, new, {})
           ELSE /\ s' = [s EXCEPT ![n] = next]
                /\ Pass(n, b, end, {}, IF v.busy THEN Upto(from, v.top) ELSE {})
        /\ UNCHANGED <<account, sel, lrp, mail, ed, work>>

\* lsp becomes the number of each message listed that he reads, or a number he gives, or
\* highest if he has all marked; or he does nothing.
Answer(n, k) ==
    LET v == s[n]
        q == [v.p EXCEPT !.scan = k]
    IN  /\ v.pc = "list" /\ k \in v.p.scan..high[v.base]
        /\ s' = [s EXCEPT ![n] = [v EXCEPT !.pc = "scan", !.top = 0, !.busy = FALSE, !.p = q]]
        /\ Pass(n, v.base, q, {}, Upto(IF v.busy THEN v.p.scan ELSE v.top, k))
        /\ UNCHANGED <<account, sel, lrp, mail, ed, work>>

EndScan(n) ==
    /\ s[n].pc = "scan" /\ Scans(s[n]) = {} /\ Join(n, [s[n] EXCEPT !.pc = "menu", !.todo = <<>>], s[n].conf)
    /\ UNCHANGED <<account, sel, mail, ed, work, seen>>

-----------------------------------------------------------------------------
(* The editor of users, and another node that saves a message. *)

EdLoad(e, i) ==
    /\ ed[e].id = 0 /\ Work(2)
    /\ db[i].status # "deleted" /\ ed' = [ed EXCEPT ![e] = [id |-> i, rec |-> db[i]]]
    /\ UNCHANGED <<account, sel, lrp, mail, s, seen>>

\* What the commands of the editor make of a record; one deleted loses its names.
Edited(r, st) == IF st = "deleted" THEN NoCopy.rec ELSE [r EXCEPT !.status = st]

\* SA; the slot of a record deleted keeps its directory and pointers.
EdSave(e, st) ==
    /\ ed[e].id # 0 /\ ed' = [ed EXCEPT ![e] = NoCopy]
    /\ Decide(e, ed[e].id, Edited(ed[e].rec, st), TRUE)
    /\ UNCHANGED <<sel, lrp, mail, s, work, seen>>

EdAbort(e) ==
    /\ ed[e].id # 0 /\ ed' = [ed EXCEPT ![e] = NoCopy]
    /\ UNCHANGED <<account, sel, lrp, mail, s, work, seen>>

\* entermsg takes the next number, then writes the header, then the text.
PostNumber(b, x) ==
    /\ post = NoPost /\ Work(1) /\ HasAccount(x)
    /\ high' = [high EXCEPT ![b] = @ + 1]
    /\ post' = [step |-> "number", base |-> b, num |-> high[b] + 1, to |-> x]
    /\ UNCHANGED <<account, sel, lrp, dat, s, ed, seen>>

Disturbed == [n \in Nodes |-> IF s[n].pc = "base" /\ s[n].base = post.base THEN [s[n] EXCEPT !.busy = TRUE] ELSE s[n]]

PostHeader ==
    /\ post.step = "number" /\ post' = [post EXCEPT !.step = "header"] /\ s' = Disturbed
    /\ dat' = [dat EXCEPT ![post.base] = Append(@, [num |-> post.num, to |-> post.to, text |-> FALSE])]
    /\ UNCHANGED <<account, sel, lrp, high, ed, work, seen>>

PostText ==
    /\ post.step = "header" /\ post' = NoPost
    /\ dat' = [dat EXCEPT ![post.base][Len(dat[post.base])].text = TRUE]
    /\ UNCHANGED <<account, sel, lrp, high, s, ed, work, seen>>

-----------------------------------------------------------------------------
\* What a caller asks for at the menu, where his access allows it: nothing else there changes
\* an account, a pointer or the bases tagged.
Commands(n) ==
    \/ \E c \in DOMAIN Confs : JoinConf(n, c)
    \/ \E b \in Bases : ChangeMsgBase(n, b) \/ Tag(n, b)
    \/ \E k \in 1..MaxWork : Read(n, k)
    \/ TagConfs(n) \/ EditUser(n) \/ StartScan(n)

Session(n) ==
    \/ \E x \in Persons : Apply(n, x)
    \/ LookForSlot(n) \/ SaveNew(n)
    \/ \E i \in DOMAIN db : Login(n, i)
    \/ \E c \in DOMAIN Confs : Enter(n, c)
    \/ Commands(n) \/ Leave(n)
    \/ ScanBase(n) \/ ScanHeaders(n) \/ EndScan(n)
    \/ \E k \in 0..MaxWork : Answer(n, k)

Editor(e) == EdAbort(e) \/ (\E i \in DOMAIN db : EdLoad(e, i)) \/ \E st \in {"active", "frozen", "deleted"} : EdSave(e, st)

Next ==
    \/ \E n \in Nodes : Session(n)
    \/ \E e \in Sysops : Editor(e)
    \/ \E m \in Mailed : PostNumber(m[1], m[2])
    \/ PostHeader \/ PostText

Spec == Init /\ [][Next]_vars

-----------------------------------------------------------------------------
(* Properties. *)

\* What was decided about an account stays, whoever writes his copy back or applies, unless
\* it was decided while another had a copy: an account is taken over or lost, or a deleted
\* one alive again, only by two who apply at once or by a record changed under a caller or an
\* editor.
Decided == \A i \in DOMAIN db \ shared : db[i] = decided[i]

SlotOf(x) == {i \in DOMAIN db \ shared : db[i].who = x /\ db[i].status # "deleted"}

\* The pointers that will count for x, those of his session if it has the base.
PointersOf(x, b) ==
    LET open == {n \in Nodes : Who(n) = x /\ s[n].file = b}
    IN  IF open = {} THEN {lrp[b][i] : i \in SlotOf(x)} ELSE {s[n].p : n \in {m \in open : s[m].id \notin shared}}

\* New mail is offered: of what his pointers have passed a caller was shown all, but what he
\* left out himself and what was being saved when he read or when it was looked for.
NothingOverlooked ==
    \A x \in Persons, b \in Bases : \A q \in PointersOf(x, b) :
        His(x, b, 1..Bigger(q.read, q.scan)) \subseteq told[x][b] \cup left[x][b]

\* What a caller has passed is on file when he has left, whatever bases and conferences he
\* went through, unless he left from a conference without a base.
PointersKept ==
    \A x \in Persons : ~Calls(x) => \A b \in Bases, i \in SlotOf(x) :
        passed[b][i] <= Bigger(lrp[b][i].read, lrp[b][i].scan)
=============================================================================
