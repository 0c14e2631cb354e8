-------------------------- MODULE Accounts_proofs --------------------------
(* Proofs about accounts and pointers, for any number of nodes, sysops,     *)
(* persons and slots, any conferences and any amount of mail.               *)
EXTENDS Accounts, TLAPS

-----------------------------------------------------------------------------
(* Types. *)

Inside == {"enter", "menu", "scan", "base", "list", "leave"}
Stages == {"off", "apply", "found"} \cup Inside
NoRec == NoCopy.rec
Recs == [who : Persons, status : {"new", "active", "frozen"}] \cup {NoRec}
Pairs == [read : Nat, scan : Nat]
Headers == [num : Nat, to : Persons, text : BOOLEAN]
Posts == [step : {"none", "number", "header"}, base : Bases \cup {NoBase}, num : Nat, to : Persons \cup {Nobody}]
Records ==
    [pc : Stages, id : 0..MaxSlots, rec : Recs, k : Nat \ {0}, tags : SUBSET Bases, conf : Nat,
     base : Bases \cup {NoBase}, file : Bases \cup {NoBase}, p : Pairs, old : Pairs, top : Nat,
     todo : Seq(Bases), busy : BOOLEAN]

AccountOK ==
    /\ db \in Seq(Recs) /\ decided \in Seq(Recs) /\ Len(decided) = Len(db) /\ Len(db) \in Slots
    /\ shared \subseteq Slots /\ ed \in [Sysops -> [id : 0..MaxSlots, rec : Recs]]
FilesOK ==
    /\ sel \in [Slots -> SUBSET SUBSET Bases] /\ lrp \in [Bases -> [Slots -> Pairs]]
    /\ high \in [Bases -> Nat] /\ dat \in [Bases -> Seq(Headers)] /\ post \in Posts /\ work \in Nat
HistoryOK ==
    /\ told \in [Persons -> [Bases -> SUBSET Nat]] /\ left \in [Persons -> [Bases -> SUBSET Nat]]
    /\ passed \in [Bases -> [Slots -> Nat]]
TypeOK == AccountOK /\ FilesOK /\ HistoryOK /\ s \in [Nodes -> Records]

\* What a session says of itself.  A base it is in is the one its pointers are of.
Top(q) == Bigger(q.read, q.scan)
Sound(r) ==
    /\ r.pc = "off" => r.rec = NoRec
    /\ r.pc # "off" => r.rec # NoRec
    /\ IF r.pc \in {"off", "apply"} THEN r.id = 0 ELSE r.id # 0
    /\ r.pc \notin Inside => r.file = NoBase
    /\ r.base # NoBase => r.file = r.base
    /\ r.pc \in {"menu", "scan", "base", "list"} => r.conf \in DOMAIN Confs
    /\ r.pc \in {"base", "list"} => r.base # NoBase
    /\ r.pc = "list" => Top(r.p) = r.p.scan
Typed == TypeOK /\ \A n \in Nodes : Sound(s[n])

-----------------------------------------------------------------------------
(* Accounts: a copy is what is on file, unless the slot was written meanwhile. *)

In(n) == s[n].pc \in Inside
OneCall == \A m, n \in Nodes : m # n /\ Who(m) = Who(n) => Who(m) = Nobody
Copies ==
    /\ \A n \in Nodes : In(n) => s[n].id \in DOMAIN db /\ (s[n].id \notin shared => s[n].rec = db[s[n].id])
    /\ \A e \in Sysops : ed[e].id # 0 =>
           /\ ed[e].id \in DOMAIN db /\ ed[e].rec # NoRec
           /\ ed[e].id \notin shared => ed[e].rec = db[ed[e].id]
Applying ==
    \A n \in Nodes :
        /\ s[n].pc = "apply" => s[n].k <= Len(db) + 1
        /\ s[n].pc = "found" =>
               /\ s[n].id <= Len(db) + 1
               /\ s[n].id \in DOMAIN db \ shared => decided[s[n].id] = NoRec
AccountsInv == OneCall /\ Copies /\ Applying /\ Decided

-----------------------------------------------------------------------------
(* Mail: numbers are in order, and all texts but the last one's are there. *)

Saving(b, step) == post.step = step /\ post.base = b
MailInv ==
    /\ post.step = "none" <=> post = NoPost
    /\ post # NoPost => post.base \in Bases /\ post.to \in Persons /\ post.num = high[post.base]
    /\ \A b \in Bases :
           /\ high[b] = IF Saving(b, "number") THEN Len(dat[b]) + 1 ELSE Len(dat[b])
           /\ Saving(b, "header") => Len(dat[b]) > 0 /\ dat[b][Len(dat[b])].to = post.to
           /\ \A k \in DOMAIN dat[b] :
                  dat[b][k].num = k /\ (dat[b][k].text \/ (Saving(b, "header") /\ k = Len(dat[b])))

-----------------------------------------------------------------------------
(* Reading: what the pointers of an account have passed was shown or left behind. *)

\* The message k of b is for x, be it that its number alone is taken.
For(x, b, k) ==
    \/ k \in DOMAIN dat[b] /\ dat[b][k].to = x
    \/ Saving(b, "number") /\ post.num = k /\ post.to = x
Covered(x, b, m) == \A k \in 1..m : For(x, b, k) => k \in told[x][b] \cup left[x][b]

\* Pointers on file, for an account nobody else has or had a copy of meanwhile.
SlotRead(b, i) ==
    /\ Top(lrp[b][i]) <= high[b]
    /\ i \in DOMAIN db \ shared /\ db[i] # NoRec => Covered(db[i].who, b, Top(lrp[b][i]))
\* Pointers of a session; while it scans, what they will become.
OpenRead(n) ==
    /\ s[n].file # NoBase => Top(s[n].p) <= high[s[n].file]
    /\ s[n].pc \in {"base", "list"} => Top(s[n].p) <= s[n].top /\ s[n].top <= high[s[n].base]
    /\ s[n].pc = "base" /\ ~s[n].busy => s[n].top = Len(dat[s[n].base]) /\ ~Saving(s[n].base, "header")
    /\ In(n) /\ s[n].id \notin shared =>
           /\ s[n].file # NoBase => Covered(Who(n), s[n].file, Top(s[n].p))
           /\ s[n].pc = "list" /\ ~s[n].busy => Covered(Who(n), s[n].base, s[n].top)
LeftRead == \A x \in Persons, b \in Bases : left[x][b] \subseteq 1..high[b]
ReadInv == LeftRead /\ (\A b \in Bases, i \in Slots : SlotRead(b, i)) /\ \A n \in Nodes : OpenRead(n)

-----------------------------------------------------------------------------
(* Pointers: what was passed is on file, or in the session that will write it there. *)

FiledOpen(n) ==
    In(n) /\ s[n].id \notin shared =>
        /\ s[n].file # NoBase => lrp[s[n].file][s[n].id] = s[n].old
        /\ \A b \in Bases : passed[b][s[n].id] <= IF s[n].file = b THEN Top(s[n].p) ELSE Top(lrp[b][s[n].id])
FiledSlot(i) ==
    i \in DOMAIN db \ shared /\ db[i] # NoRec /\ (\A n \in Nodes : In(n) => s[n].id # i) =>
        \A b \in Bases : passed[b][i] <= Top(lrp[b][i])
Filed == (\A n \in Nodes : FiledOpen(n)) /\ \A i \in Slots : FiledSlot(i)

Inv == Typed /\ AccountsInv /\ MailInv /\ ReadInv /\ Filed

-----------------------------------------------------------------------------
(* Sequences of records. *)

LEMMA SeqFun ==
    ASSUME NEW S, NEW n \in Nat, NEW f \in [1..n -> S]
    PROVE  f \in Seq(S) /\ Len(f) = n
  OBVIOUS

\* A file with one record of it written is the one before with that record.
HasPut(d, e, i, r) ==
  /\ e \in Seq(Recs) /\ Len(e) = IF i > Len(d) THEN i ELSE Len(d)
  /\ e[i] = r /\ \A j \in DOMAIN d \ {i} : e[j] = d[j]

LEMMA PutSeq ==
    ASSUME NEW d \in Seq(Recs), NEW i \in 1..(Len(d) + 1), NEW r \in Recs
    PROVE  HasPut(d, Put(d, i, r), i, r)
  <1> DEFINE n == Bigger(i, Len(d))
             f == [j \in 1..n |-> IF j = i THEN r ELSE d[j]]
  <1>1. n \in Nat /\ n = (IF i > Len(d) THEN i ELSE Len(d))
    BY DEF Bigger
  <1>2. \A j \in 1..n : j = i \/ j \in 1..Len(d)
    BY <1>1
  <1>3. f \in [1..n -> Recs]
    BY <1>2
  <1>4. f \in Seq(Recs) /\ Len(f) = n
    <2> HIDE DEF f, n
    <2> QED
      BY <1>1, <1>3, SeqFun
  <1>5. i \in 1..n /\ DOMAIN d = 1..Len(d) /\ 1..Len(d) \subseteq 1..n
    BY <1>1
  <1>6. f[i] = r /\ \A j \in DOMAIN d \ {i} : f[j] = d[j]
    BY <1>5
  <1>7. Put(d, i, r) = f
    BY DEF Put
  <1>8. HasPut(d, f, i, r)
    <2> HIDE DEF f, n
    <2> QED
      BY <1>1, <1>4, <1>6 DEF HasPut
  <1> QED
    BY <1>7, <1>8

-----------------------------------------------------------------------------
(* The steps of a session keep its record sound. *)

LEMMA FreeSound == Free \in Records /\ Sound(Free) /\ NoRec \in Recs
  <1>1. Pointers \in Pairs /\ NoRec \in Recs /\ <<>> \in Seq(Bases) /\ 0 \in 0..MaxSlots
    BY AccountsAssumption DEF Pointers, Pairs, Recs
  <1>2. Free \in Records
    BY <1>1 DEF Free, Records, Stages, NoRec
  <1>3. Sound(Free)
    BY DEF Free, Sound, Inside, NoRec
  <1> QED
    BY <1>1, <1>2, <1>3

\* The others stay as they are.
Others(n) == \A m \in Nodes \ {n} : s'[m] = s[m]
Turn(n) == s' \in [Nodes -> Records] /\ Sound(s'[n]) /\ Others(n)

LEMMA TurnTo ==
    ASSUME Typed, NEW n \in Nodes, NEW r \in Records, Sound(r), s' = [s EXCEPT ![n] = r]
    PROVE  Turn(n) /\ s'[n] = r
  BY DEF Typed, TypeOK, Turn, Others

LEMMA Confs1 ==
    /\ \A c \in DOMAIN Confs : c \in Nat /\ Range(Confs[c]) \subseteq Bases
    /\ \A c \in DOMAIN Confs : Confs[c] # <<>> => Confs[c][1] \in Bases
  <1>1. \A c \in DOMAIN Confs : c \in Nat /\ Confs[c] \in Seq(Bases)
    BY AccountsAssumption
  <1> QED
    BY <1>1 DEF Range

\* What a change of base does: the pointers of the one before are written, those of b read.
Changes(n, b) ==
    /\ Turn(n) /\ lrp' = Flushed(s[n])
    /\ s'[n].id = s[n].id /\ s'[n].rec = s[n].rec /\ In(n)'
    /\ s'[n].base = b /\ s'[n].file = b /\ s'[n].p = lrp'[b][s[n].id] /\ s'[n].old = s'[n].p

LrpOK == lrp \in [Bases -> [Slots -> Pairs]]

LEMMA FlushedOK ==
    ASSUME Typed, NEW v \in Records, v.file # NoBase => v.id \in Slots
    PROVE  Flushed(v) \in [Bases -> [Slots -> Pairs]]
  BY DEF Typed, TypeOK, FilesOK, Flushed, Records

LEMMA InSlots == ASSUME Typed, NEW n \in Nodes
                 PROVE  /\ s[n] \in Records /\ Sound(s[n])
                        /\ In(n) \/ s[n].pc = "found" => s[n].id \in Slots
  BY AccountsAssumption DEF Typed, TypeOK, Records, Sound, In, Inside, Slots, Stages

LEMMA ChangeEffect ==
    ASSUME Typed, NEW n \in Nodes, In(n), NEW v \in Records, NEW b \in Bases, ChangeTo(n, v, b),
           v.file = s[n].file, v.p = s[n].p, v.old = s[n].old, v.id = s[n].id, v.rec = s[n].rec,
           v.pc \in {"menu", "scan", "base"}, v.conf \in DOMAIN Confs
    PROVE  /\ Changes(n, b) /\ LrpOK'
           /\ s'[n].pc = v.pc /\ s'[n].top = v.top /\ s'[n].busy = v.busy
  <1> DEFINE l == Flushed(v)
             r == [v EXCEPT !.base = b, !.file = b, !.p = l[b][v.id], !.old = l[b][v.id]]
  <1>1. s[n] \in Records /\ Sound(s[n]) /\ v.id \in Slots
    BY InSlots
  <1>2. l \in [Bases -> [Slots -> Pairs]] /\ l = Flushed(s[n])
    <2>1. l = Flushed(s[n])
      BY DEF Flushed
    <2> QED
      BY <1>1, <2>1, FlushedOK
  <1>3. lrp' = l /\ s' = [s EXCEPT ![n] = r]
    BY DEF ChangeTo
  <1>4. l[b][v.id] \in Pairs
    BY <1>1, <1>2
  <1> HIDE DEF l
  <1>5. r \in Records
    BY <1>4 DEF Records
  <1>6. /\ r.id = v.id /\ r.rec = v.rec /\ r.pc = v.pc /\ r.base = b /\ r.file = b /\ r.p = l[b][v.id]
        /\ r.old = l[b][v.id] /\ r.top = v.top /\ r.busy = v.busy /\ r.conf = v.conf
    BY DEF Records
  <1> HIDE DEF r
  <1>7. b # NoBase /\ v.rec # NoRec /\ v.id # 0
    BY <1>1, AccountsAssumption DEF Sound, In, Inside
  <1>8. Sound(r)
    BY <1>6, <1>7 DEF Sound, Inside
  <1>9. Turn(n) /\ s'[n] = r
    BY <1>3, <1>5, <1>8, TurnTo
  <1> QED
    BY <1>2, <1>3, <1>6, <1>9 DEF Changes, In, LrpOK, Inside

\* Nothing happens to the account or the pointers of a session that stays in.
Same(n) ==
    /\ Turn(n) /\ UNCHANGED lrp /\ In(n) /\ In(n)'
    /\ s'[n].id = s[n].id /\ s'[n].rec = s[n].rec /\ s'[n].file = s[n].file
    /\ s'[n].p = s[n].p /\ s'[n].old = s[n].old

LEMMA SameTo ==
    ASSUME Typed, NEW n \in Nodes, In(n), NEW r \in Records, s' = [s EXCEPT ![n] = r], UNCHANGED lrp,
           r.id = s[n].id, r.rec = s[n].rec, r.file = s[n].file, r.p = s[n].p, r.old = s[n].old,
           r.base \in {s[n].base, NoBase},
           (r.pc \in {"menu", "scan"} /\ r.conf \in DOMAIN Confs) \/ r.pc = "leave"
    PROVE  Same(n) /\ s'[n].pc = r.pc /\ LrpOK'
  <1>1. s[n] \in Records /\ Sound(s[n])
    BY InSlots
  <1>2. Sound(r)
    BY <1>1 DEF Sound, In, Inside
  <1>3. Turn(n) /\ s'[n] = r
    BY <1>2, TurnTo
  <1> QED
    BY <1>3 DEF Same, In, Inside, LrpOK, Typed, TypeOK, FilesOK

LEMMA JoinEffect ==
    ASSUME Typed, NEW n \in Nodes, In(n), NEW v \in Records, NEW c \in DOMAIN Confs, Join(n, v, c),
           v.file = s[n].file, v.p = s[n].p, v.old = s[n].old, v.id = s[n].id, v.rec = s[n].rec, v.pc = "menu"
    PROVE  (Same(n) \/ \E b \in Bases : Changes(n, b)) /\ LrpOK' /\ s'[n].pc = "menu"
  <1>0. c \in Nat
    BY Confs1
  <1>1. CASE Confs[c] = <<>>
    <2> DEFINE r == [v EXCEPT !.conf = c, !.base = NoBase]
    <2>1. s' = [s EXCEPT ![n] = r] /\ UNCHANGED lrp
      BY <1>1 DEF Join
    <2>2. r \in Records
      BY <1>0 DEF Records
    <2>3. /\ r.id = s[n].id /\ r.rec = s[n].rec /\ r.file = s[n].file /\ r.p = s[n].p /\ r.old = s[n].old
          /\ r.base = NoBase /\ r.pc = "menu" /\ r.conf = c
      BY DEF Records
    <2> HIDE DEF r
    <2> QED
      BY <2>1, <2>2, <2>3, SameTo
  <1>2. CASE Confs[c] # <<>>
    <2> DEFINE r == [v EXCEPT !.conf = c]
    <2>1. ChangeTo(n, r, Confs[c][1]) /\ Confs[c][1] \in Bases
      BY <1>2, Confs1 DEF Join
    <2>2. r \in Records
      BY <1>0 DEF Records
    <2>3. /\ r.id = s[n].id /\ r.rec = s[n].rec /\ r.file = s[n].file /\ r.p = s[n].p /\ r.old = s[n].old
          /\ r.pc = "menu" /\ r.conf = c
      BY DEF Records
    <2> HIDE DEF r
    <2> QED
      BY <2>1, <2>2, <2>3, ChangeEffect
  <1> QED
    BY <1>1, <1>2

\* What a caller does in menus; a base may be entered.
Elsewhere == <<decided, shared, high, dat, post, ed, told, left, passed>>
Moves(n) ==
    /\ Same(n) \/ \E b \in Bases : Changes(n, b)
    /\ In(n) /\ s'[n].pc \in {"menu", "scan", "leave"} /\ LrpOK' /\ UNCHANGED Elsewhere

LEMMA MoveSteps ==
    ASSUME Typed, NEW n \in Nodes,
           \/ \E c \in DOMAIN Confs : JoinConf(n, c) \/ Enter(n, c)
           \/ \E b \in Bases : ChangeMsgBase(n, b) \/ Tag(n, b)
           \/ TagConfs(n) \/ EditUser(n) \/ StartScan(n) \/ EndScan(n)
    PROVE  Moves(n) /\ (UNCHANGED db \/ db' = Put(db, s[n].id, s[n].rec))
  <1> DEFINE r == s[n]
  <1>0. r \in Records /\ Sound(r)
    BY InSlots
  <1>s. /\ s \in [Nodes -> Records]
        /\ r.pc \in {"menu", "scan"} => In(n) /\ r.conf \in DOMAIN Confs
    BY DEF Typed, TypeOK, Sound, In, Inside
  <1>f. FlattenSeq(Confs) \in Seq(Bases) /\ <<>> \in Seq(Bases)
    BY AccountsAssumption
  <1> USE DEF Elsewhere, account, mail, seen
  <1>1. ASSUME NEW c \in DOMAIN Confs, JoinConf(n, c)
        PROVE  Moves(n) /\ UNCHANGED db
    BY <1>0, <1>s, <1>1, JoinEffect DEF JoinConf, Moves
  <1>2. ASSUME NEW c \in DOMAIN Confs, Enter(n, c)
        PROVE  Moves(n) /\ UNCHANGED db
    <2> DEFINE v == [r EXCEPT !.tags = Tagged(n), !.conf = c, !.pc = "menu"]
    <2>0. In(n) /\ r.pc = "enter" /\ r.id \in Slots /\ c \in Nat
      BY <1>2, InSlots, Confs1 DEF Enter, In, Inside
    <2>1. Tagged(n) \in SUBSET Bases
      BY <2>0 DEF Tagged, Typed, TypeOK, FilesOK
    <2>2. v \in Records
      BY <1>0, <2>0, <2>1 DEF Records, Stages, Inside
    <2>3. /\ v.id = r.id /\ v.rec = r.rec /\ v.file = r.file /\ v.p = r.p /\ v.old = r.old /\ v.base = r.base
          /\ v.pc = "menu" /\ v.conf = c
      BY <1>0 DEF Records
    <2>4. UNCHANGED <<db, Elsewhere>>
      BY <1>2 DEF Enter
    <2>5. CASE s' = [s EXCEPT ![n].pc = "leave"] /\ UNCHANGED lrp
      <3> DEFINE w == [r EXCEPT !.pc = "leave"]
      <3>1. w \in Records
        BY <1>0 DEF Records, Stages, Inside
      <3>2. s' = [s EXCEPT ![n] = w] /\ UNCHANGED lrp
        BY <1>s, <2>5
      <3>3. /\ w.id = r.id /\ w.rec = r.rec /\ w.file = r.file /\ w.p = r.p /\ w.old = r.old /\ w.base = r.base
            /\ w.pc = "leave"
        BY <1>0 DEF Records
      <3> HIDE DEF w, v
      <3> QED
        BY <2>0, <2>4, <3>1, <3>2, <3>3, SameTo DEF Moves
    <2>6. CASE Join(n, v, c)
      <3> HIDE DEF v
      <3> QED
        BY <2>0, <2>2, <2>3, <2>4, <2>6, JoinEffect DEF Moves
    <2>7. CASE s' = [s EXCEPT ![n] = [v EXCEPT !.pc = "scan", !.todo = FlattenSeq(Confs)]] /\ UNCHANGED lrp
      <3> HIDE DEF v
      <3> DEFINE w == [v EXCEPT !.pc = "scan", !.todo = FlattenSeq(Confs)]
      <3>1. w \in Records
        BY <1>f, <2>2 DEF Records, Stages, Inside
      <3>3. /\ w.id = r.id /\ w.rec = r.rec /\ w.file = r.file /\ w.p = r.p /\ w.old = r.old /\ w.base = r.base
            /\ w.pc = "scan" /\ w.conf = c
        BY <2>2, <2>3 DEF Records
      <3> HIDE DEF w
      <3> QED
        BY <2>0, <2>4, <2>7, <3>1, <3>3, SameTo DEF Moves, w
    <2> HIDE DEF v
    <2> QED
      BY <1>2, <2>5, <2>6, <2>7, Zenon DEF Enter, v
  <1>3. ASSUME NEW b \in Bases, ChangeMsgBase(n, b)
        PROVE  Moves(n) /\ UNCHANGED db
    BY <1>0, <1>s, <1>3, ChangeEffect DEF ChangeMsgBase, Moves
  <1>4. ASSUME NEW b \in Bases, Tag(n, b)
        PROVE  Moves(n) /\ UNCHANGED db
    <2>1. PICK t \in SUBSET Bases : s' = [s EXCEPT ![n].tags = t]
      <3>1. r.tags \in SUBSET Bases
        BY <1>0 DEF Records
      <3> QED
        BY <1>4, <3>1 DEF Tag
    <2> DEFINE w == [r EXCEPT !.tags = t]
    <2>2. s' = [s EXCEPT ![n] = w] /\ w \in Records
      BY <1>0, <1>s, <2>1 DEF Records
    <2>3. r.pc = "menu" /\ UNCHANGED <<lrp, db, Elsewhere>>
      BY <1>4 DEF Tag
    <2>4. /\ w.id = r.id /\ w.rec = r.rec /\ w.file = r.file /\ w.p = r.p /\ w.old = r.old /\ w.base = r.base
          /\ w.pc = "menu" /\ w.conf = r.conf
      BY <1>0, <2>3 DEF Records
    <2> HIDE DEF w
    <2> QED
      BY <1>s, <2>2, <2>3, <2>4, SameTo DEF Moves
  <1>5. ASSUME TagConfs(n) \/ EditUser(n)
        PROVE  Moves(n) /\ (UNCHANGED db \/ db' = Put(db, s[n].id, s[n].rec))
    <2>1. r.pc = "menu" /\ UNCHANGED <<lrp, s, Elsewhere>> /\ (UNCHANGED db \/ db' = Put(db, s[n].id, s[n].rec))
      BY <1>5 DEF TagConfs, EditUser
    <2>2. s' = [s EXCEPT ![n] = r]
      BY <1>s, <2>1
    <2> QED
      BY <1>0, <1>s, <2>1, <2>2, SameTo DEF Moves
  <1>6. ASSUME StartScan(n)
        PROVE  Moves(n) /\ UNCHANGED db
    <2> DEFINE w == [r EXCEPT !.pc = "scan", !.todo = FlattenSeq(Confs)]
    <2>1. w \in Records
      BY <1>0, <1>f DEF Records, Stages, Inside
    <2>2. r.pc = "menu" /\ s' = [s EXCEPT ![n] = w] /\ UNCHANGED <<lrp, db, Elsewhere>>
      BY <1>6 DEF StartScan
    <2>3. /\ w.id = r.id /\ w.rec = r.rec /\ w.file = r.file /\ w.p = r.p /\ w.old = r.old /\ w.base = r.base
          /\ w.pc = "scan" /\ w.conf = r.conf
      BY <1>0 DEF Records
    <2> HIDE DEF w
    <2> QED
      BY <1>s, <2>1, <2>2, <2>3, SameTo DEF Moves
  <1>7. ASSUME EndScan(n)
        PROVE  Moves(n) /\ UNCHANGED db
    <2> DEFINE v == [r EXCEPT !.pc = "menu", !.todo = <<>>]
    <2>1. v \in Records
      BY <1>0, <1>f DEF Records, Stages, Inside
    <2>2. r.pc = "scan" /\ Join(n, v, r.conf) /\ UNCHANGED <<db, Elsewhere>>
      BY <1>7 DEF EndScan
    <2>3. /\ v.id = r.id /\ v.rec = r.rec /\ v.file = r.file /\ v.p = r.p /\ v.old = r.old /\ v.pc = "menu"
      BY <1>0 DEF Records
    <2> HIDE DEF v
    <2> QED
      BY <1>s, <2>1, <2>2, <2>3, JoinEffect DEF Moves
  <1> QED
    BY <1>1, <1>2, <1>3, <1>4, <1>5, <1>6, <1>7

-----------------------------------------------------------------------------
(* Reading and scanning. *)

LEMMA HisNat ==
    ASSUME Typed, NEW b \in Bases, NEW x, NEW t
    PROVE  His(x, b, t) \subseteq Nat
  <1>1. Range(dat[b]) \subseteq Headers
    BY DEF Typed, TypeOK, FilesOK, Range
  <1> QED
    BY <1>1 DEF His, Complete, Headers

\* History grows by what is shown, in one base, for one caller and one slot.
Grows(n, b, q, t, l) ==
    LET x == Who(n)
        i == s[n].id
    IN  /\ told'[x][b] = told[x][b] \cup His(x, b, t) /\ left'[x][b] = left[x][b] \cup (l \ told[x][b])
        /\ passed'[b][i] = Bigger(passed[b][i], Top(q))
        /\ \A y \in Persons, c \in Bases : <<y, c>> # <<x, b>> => told'[y][c] = told[y][c] /\ left'[y][c] = left[y][c]
        /\ \A c \in Bases, j \in Slots : <<c, j>> # <<b, i>> => passed'[c][j] = passed[c][j]

LEMMA PassGrows ==
    ASSUME Typed, NEW n \in Nodes, In(n), NEW b \in Bases, NEW q \in Pairs, NEW t, NEW l \in SUBSET Nat,
           Pass(n, b, q, t, l)
    PROVE  HistoryOK' /\ Grows(n, b, q, t, l)
  <1> DEFINE x == Who(n)
             i == s[n].id
             h == His(x, b, t)
  <1>0. HistoryOK
    BY DEF Typed, TypeOK
  <1>1. x \in Persons /\ i \in Slots
    BY InSlots DEF In, Inside, Sound, Records, Recs, Who
  <1>2. h \in SUBSET Nat
    BY HisNat
  <1>3. Top(q) \in Nat /\ Bigger(passed[b][i], Top(q)) \in Nat
    BY <1>0, <1>1 DEF HistoryOK, Top, Bigger, Pairs
  <1>4. /\ told' = [told EXCEPT ![x][b] = @ \cup h]
        /\ left' = [left EXCEPT ![x][b] = @ \cup (l \ told[x][b])]
        /\ passed' = [passed EXCEPT ![b][i] = Bigger(passed[b][i], Top(q))]
    BY DEF Pass, Top
  <1> HIDE DEF x, i, h
  <1>5. told' \in [Persons -> [Bases -> SUBSET Nat]] /\ left' \in [Persons -> [Bases -> SUBSET Nat]]
    BY <1>0, <1>1, <1>2, <1>4 DEF HistoryOK
  <1>6. passed' \in [Bases -> [Slots -> Nat]]
    BY <1>0, <1>1, <1>3, <1>4 DEF HistoryOK
  <1>7. /\ told'[x][b] = told[x][b] \cup h /\ left'[x][b] = left[x][b] \cup (l \ told[x][b])
        /\ passed'[b][i] = Bigger(passed[b][i], Top(q))
    BY <1>0, <1>1, <1>4 DEF HistoryOK
  <1>8. \A y \in Persons, c \in Bases : <<y, c>> # <<x, b>> => told'[y][c] = told[y][c] /\ left'[y][c] = left[y][c]
    BY <1>0, <1>1, <1>4 DEF HistoryOK
  <1>9. \A c \in Bases, j \in Slots : <<c, j>> # <<b, i>> => passed'[c][j] = passed[c][j]
    BY <1>0, <1>1, <1>4 DEF HistoryOK
  <1> QED
    BY <1>5, <1>6, <1>7, <1>8, <1>9 DEF HistoryOK, Grows, x, i, h

\* The session stays in its base, with pointers q, and history grows.
Beside == <<account, sel, lrp, mail, ed, work>>
Passes(n, q, t, l) ==
    /\ Turn(n) /\ In(n) /\ In(n)' /\ UNCHANGED Beside /\ q \in Pairs /\ HistoryOK'
    /\ s[n].base \in Bases /\ s[n].file = s[n].base /\ Grows(n, s[n].base, q, t, l)
    /\ s'[n].id = s[n].id /\ s'[n].rec = s[n].rec /\ s'[n].base = s[n].base /\ s'[n].file = s[n].file
    /\ s'[n].old = s[n].old

LEMMA PassesTo ==
    ASSUME Typed, NEW n \in Nodes, In(n), NEW r \in Records, s' = [s EXCEPT ![n] = r], NEW q \in Pairs, NEW t,
           NEW l \in SUBSET Nat, Pass(n, s[n].base, q, t, l), UNCHANGED Beside, s[n].base # NoBase,
           r.id = s[n].id, r.rec = s[n].rec, r.base = s[n].base, r.file = s[n].file, r.old = s[n].old,
           r.conf = s[n].conf, r.pc \in {"menu", "scan", "list"}, r.pc = "list" => Top(r.p) = r.p.scan,
           s[n].conf \in DOMAIN Confs
    PROVE  Passes(n, q, t, l) /\ s'[n] = r
  <1>1. s[n] \in Records /\ Sound(s[n])
    BY InSlots
  <1>2. s[n].base \in Bases /\ s[n].file = s[n].base
    BY <1>1 DEF Records, Sound
  <1>3. Sound(r)
    BY <1>1 DEF Sound, In, Inside
  <1>4. Turn(n) /\ s'[n] = r
    BY <1>3, TurnTo
  <1>5. HistoryOK' /\ Grows(n, s[n].base, q, t, l)
    BY <1>2, PassGrows
  <1> QED
    BY <1>2, <1>4, <1>5 DEF Passes, In, Inside

\* showmsg of k, which is on file.
ReadsTo(n, k, q, l) ==
    LET b == s[n].base
        from == s[n].p.read
    IN  /\ Passes(n, q, {k}, l) /\ s'[n].pc = "menu" /\ s'[n].p = q
        /\ k \in Nat /\ Header(b, k) # {} /\ q.read = Bigger(from, k) /\ q.scan = s[n].p.scan
        /\ \/ /\ \A h \in Range(dat[b]) : h.num > from /\ h.text => h.num >= k
              /\ l = {post.num} \cap 1..k
           \/ l = Upto(from, k) \ {h.num : h \in Header(b, k) \cap Complete(b)}

LEMMA ReadEffect ==
    ASSUME Typed, NEW n \in Nodes, NEW k \in 1..MaxWork, Read(n, k)
    PROVE  \E q, l : ReadsTo(n, k, q, l)
  <1> DEFINE b == s[n].base
             from == s[n].p.read
             unread == {h.num : h \in {g \in Range(dat[b]) : g.num > from}}
             next == {h.num : h \in {g \in Complete(b) : g.num \in unread}}
             q == [s[n].p EXCEPT !.read = Bigger(@, k)]
             r == [s[n] EXCEPT !.p = q]
  <1>0. s[n] \in Records /\ Sound(s[n]) /\ k \in Nat /\ s \in [Nodes -> Records]
    BY InSlots, AccountsAssumption DEF Typed, TypeOK
  <1>1. /\ s[n].pc = "menu" /\ b # NoBase /\ Header(b, k) # {} /\ s' = [s EXCEPT ![n].p = q]
        /\ \/ (\A j \in next : j >= k) /\ Pass(n, b, q, {k}, {post.num} \cap 1..k)
           \/ Pass(n, b, q, {k}, Upto(from, k) \ {h.num : h \in Header(b, k) \cap Complete(b)})
        /\ UNCHANGED Beside
    BY Zenon DEF Read, Beside
  <1>2. q \in Pairs /\ q.read = Bigger(from, k) /\ q.scan = s[n].p.scan
    BY <1>0 DEF Records, Pairs, Bigger
  <1>3. r \in Records /\ s' = [s EXCEPT ![n] = r]
    BY <1>0, <1>1, <1>2 DEF Records
  <1>4. /\ r.id = s[n].id /\ r.rec = s[n].rec /\ r.base = s[n].base /\ r.file = s[n].file /\ r.old = s[n].old
        /\ r.conf = s[n].conf /\ r.pc = "menu" /\ r.p = q
    BY <1>0, <1>1 DEF Records
  <1>5. In(n) /\ s[n].conf \in DOMAIN Confs
    BY <1>0, <1>1 DEF In, Inside, Sound
  <1>6. ASSUME \A j \in next : j >= k
        PROVE  \A h \in Range(dat[b]) : h.num > from /\ h.text => h.num >= k
    <2> SUFFICES ASSUME NEW h \in Range(dat[b]), h.num > from, h.text PROVE h.num \in next
      BY <1>6
    <2>1. h \in Complete(b) /\ h.num \in unread
      BY DEF Complete
    <2> QED
      BY <2>1
  <1>7. /\ {post.num} \cap 1..k \in SUBSET Nat
        /\ Upto(from, k) \ {h.num : h \in Header(b, k) \cap Complete(b)} \in SUBSET Nat
    BY <1>0 DEF Records, Pairs, Upto
  <1> HIDE DEF q, r, next, unread
  <1>8. CASE (\A j \in next : j >= k) /\ Pass(n, b, q, {k}, {post.num} \cap 1..k)
    <2>1. Passes(n, q, {k}, {post.num} \cap 1..k) /\ s'[n] = r
      BY <1>1, <1>2, <1>3, <1>4, <1>5, <1>7, <1>8, PassesTo
    <2>2. ReadsTo(n, k, q, {post.num} \cap 1..k)
      BY <1>0, <1>1, <1>2, <1>4, <1>6, <1>8, <2>1 DEF ReadsTo
    <2> QED
      BY <2>2
  <1>9. CASE Pass(n, b, q, {k}, Upto(from, k) \ {h.num : h \in Header(b, k) \cap Complete(b)})
    <2> DEFINE l == Upto(from, k) \ {h.num : h \in Header(b, k) \cap Complete(b)}
    <2>0. l \in SUBSET Nat
      BY <1>7
    <2>1. Passes(n, q, {k}, l) /\ s'[n] = r
      <3> HIDE DEF l
      <3> QED
        BY <1>1, <1>2, <1>3, <1>4, <1>5, <1>9, <2>0, PassesTo DEF l
    <2>2. ReadsTo(n, k, q, l)
      BY <1>0, <1>1, <1>2, <1>4, <2>1 DEF ReadsTo
    <2> QED
      BY <2>2
  <1> QED
    BY <1>1, <1>8, <1>9

\* The scan goes to the next base that is tagged.
Scanning(n, b) ==
    /\ Changes(n, b) /\ In(n) /\ LrpOK' /\ UNCHANGED <<db, Elsewhere>>
    /\ s'[n].pc = "base" /\ s'[n].top = high[b] /\ s'[n].busy = (post.base = b)

LEMMA ScanEffect ==
    ASSUME Typed, NEW n \in Nodes, ScanBase(n)
    PROVE  \E b \in Bases : Scanning(n, b)
  <1>0. s[n] \in Records /\ Sound(s[n]) /\ s[n].pc = "scan"
    BY InSlots DEF ScanBase
  <1>1. PICK i \in Scans(s[n]) :
             LET b == s[n].todo[i]
                 rest == SubSeq(s[n].todo, i + 1, Len(s[n].todo))
             IN  ChangeTo(n, [s[n] EXCEPT !.pc = "base", !.todo = rest, !.top = high[b], !.busy = post.base = b], b)
    BY DEF ScanBase
  <1> DEFINE b == s[n].todo[i]
             rest == SubSeq(s[n].todo, i + 1, Len(s[n].todo))
             v == [s[n] EXCEPT !.pc = "base", !.todo = rest, !.top = high[b], !.busy = post.base = b]
  <1>2. s[n].todo \in Seq(Bases) /\ i \in DOMAIN s[n].todo
    BY <1>0 DEF Records, Scans
  <1>3. b \in Bases /\ rest \in Seq(Bases)
    BY <1>2
  <1>4. high[b] \in Nat
    BY <1>3 DEF Typed, TypeOK, FilesOK
  <1>5. ChangeTo(n, v, b)
    BY <1>1
  <1> HIDE DEF b, rest
  <1>6. v \in Records
    BY <1>0, <1>3, <1>4 DEF Records, Stages, Inside
  <1>7. /\ v.file = s[n].file /\ v.p = s[n].p /\ v.old = s[n].old /\ v.id = s[n].id /\ v.rec = s[n].rec
        /\ v.pc = "base" /\ v.conf = s[n].conf /\ v.top = high[b] /\ v.busy = (post.base = b)
    BY <1>0 DEF Records
  <1>8. In(n) /\ s[n].conf \in DOMAIN Confs
    BY <1>0 DEF Sound, In, Inside
  <1> HIDE DEF v
  <1>9. Changes(n, b) /\ LrpOK' /\ s'[n].pc = v.pc /\ s'[n].top = v.top /\ s'[n].busy = v.busy
    BY <1>3, <1>5, <1>6, <1>7, <1>8, ChangeEffect
  <1>10. UNCHANGED <<db, Elsewhere>>
    BY DEF ScanBase, Elsewhere, account, mail, seen
  <1> QED
    BY <1>3, <1>7, <1>8, <1>9, <1>10 DEF Scanning

\* The new mail found in a base: of it a list, or the end of that base.
News(n) ==
    {h.num : h \in {g \in Range(Looked(s[n].base, s[n].top, Top(s[n].p))) :
                        g.num > Top(s[n].p) /\ g.text /\ g.to = Who(n)}}
Lists(n) ==
    /\ Passes(n, s[n].p, News(n), {}) /\ s[n].pc = "base" /\ s[n].top > Top(s[n].p)
    /\ s'[n].pc = "list" /\ s'[n].p = [s[n].p EXCEPT !.scan = Top(s[n].p)]
    /\ s'[n].top = s[n].top /\ s'[n].busy = s[n].busy
Ends(n) ==
    LET end == [s[n].p EXCEPT !.scan = s[n].top]
    IN  /\ Passes(n, end, {}, IF s[n].busy THEN Upto(Top(s[n].p), s[n].top) ELSE {}) /\ s[n].pc = "base"
        /\ s'[n].pc = "scan" /\ s'[n].p = end /\ (s[n].top <= Top(s[n].p) \/ News(n) = {})

LEMMA TopNat == \A q \in Pairs : Top(q) \in Nat /\ q.read <= Top(q) /\ q.scan <= Top(q)
  BY DEF Pairs, Top, Bigger

LEMMA HeadersEffect ==
    ASSUME Typed, NEW n \in Nodes, ScanHeaders(n)
    PROVE  Lists(n) \/ Ends(n)
  <1> DEFINE v == s[n]
             from == Top(v.p)
             end == [v.p EXCEPT !.scan = v.top]
             next == [v EXCEPT !.pc = "scan", !.top = 0, !.busy = FALSE, !.p = end]
             list == [v EXCEPT !.pc = "list", !.p.scan = from]
             l == IF v.busy THEN Upto(from, v.top) ELSE {}
  <1>0. v \in Records /\ Sound(v) /\ v.p \in Pairs /\ v.top \in Nat /\ from \in Nat
    BY InSlots, TopNat DEF Records
  <1>1. v.pc = "base" /\ UNCHANGED Beside
    BY DEF ScanHeaders, Beside
  <1>2. \/ v.top > from /\ s' = [s EXCEPT ![n] = list] /\ Pass(n, v.base, v.p, News(n), {})
        \/ /\ v.top <= from \/ News(n) = {}
           /\ s' = [s EXCEPT ![n] = next] /\ Pass(n, v.base, end, {}, l)
    <2>1. News(n) = {h.num : h \in {g \in Range(Looked(v.base, v.top, from)) : g.num > from /\ g.text /\ g.to = Who(n)}}
      BY DEF News
    <2>2. from = Bigger(v.p.read, v.p.scan)
      BY DEF Top
    <2> HIDE DEF next, list, end, from
    <2>3. IF v.top > from /\ News(n) # {}
          THEN s' = [s EXCEPT ![n] = list] /\ Pass(n, v.base, v.p, News(n), {})
          ELSE s' = [s EXCEPT ![n] = next] /\ Pass(n, v.base, end, {}, l)
      BY <2>1, <2>2, Zenon DEF ScanHeaders, next, list, end
    <2> QED
      BY <1>0, <2>3
  <1>3. v.base # NoBase /\ In(n) /\ v.conf \in DOMAIN Confs
    BY <1>0, <1>1 DEF Sound, In, Inside
  <1>4. end \in Pairs /\ [v.p EXCEPT !.scan = from] \in Pairs /\ Top([v.p EXCEPT !.scan = from]) = from
    BY <1>0 DEF Pairs, Top, Bigger
  <1>5. l \in SUBSET Nat /\ {} \in SUBSET Nat
    BY <1>0 DEF Upto
  <1>6. next \in Records
    BY <1>0, <1>4 DEF Records, Stages, Inside
  <1>7. list = [v EXCEPT !.pc = "list", !.p = [v.p EXCEPT !.scan = from]]
    BY <1>0 DEF Records
  <1>8. list \in Records
    BY <1>0, <1>4, <1>7 DEF Records, Stages, Inside
  <1>9. /\ next.id = v.id /\ next.rec = v.rec /\ next.base = v.base /\ next.file = v.file /\ next.old = v.old
        /\ next.conf = v.conf /\ next.pc = "scan" /\ next.p = end
    BY <1>0 DEF Records
  <1>10. /\ list.id = v.id /\ list.rec = v.rec /\ list.base = v.base /\ list.file = v.file /\ list.old = v.old
         /\ list.conf = v.conf /\ list.pc = "list" /\ list.p = [v.p EXCEPT !.scan = from]
         /\ list.top = v.top /\ list.busy = v.busy
    BY <1>0, <1>7 DEF Records
  <1>a. [v.p EXCEPT !.scan = from].scan = from
    BY <1>0 DEF Pairs
  <1> HIDE DEF next, list
  <1>11. CASE v.top > from /\ s' = [s EXCEPT ![n] = list] /\ Pass(n, v.base, v.p, News(n), {})
    <2>0. list.pc \in {"menu", "scan", "list"} /\ Top(list.p) = list.p.scan
      BY <1>4, <1>10, <1>a
    <2>1. Passes(n, v.p, News(n), {}) /\ s'[n] = list
      <3> HIDE DEF from
      <3> QED
        BY <1>0, <1>1, <1>3, <1>5, <1>8, <1>10, <1>11, <2>0, PassesTo
    <2>2. s'[n].pc = "list" /\ s'[n].p = [v.p EXCEPT !.scan = from] /\ s'[n].top = v.top /\ s'[n].busy = v.busy
      BY <1>10, <2>1
    <2> QED
      BY <1>1, <1>11, <2>1, <2>2, Zenon DEF Lists
  <1>12. CASE /\ v.top <= from \/ News(n) = {}
              /\ s' = [s EXCEPT ![n] = next] /\ Pass(n, v.base, end, {}, l)
    <2> HIDE DEF l, end
    <2>1. Passes(n, end, {}, l) /\ s'[n] = next
      BY <1>1, <1>3, <1>4, <1>5, <1>6, <1>9, <1>12, PassesTo
    <2> QED
      BY <1>1, <1>9, <1>12, <2>1 DEF Ends, l, end
  <1> QED
    BY <1>2, <1>11, <1>12

\* What he makes of the list.
Answers(n, k) ==
    LET q == [s[n].p EXCEPT !.scan = k]
    IN  /\ Passes(n, q, {}, Upto(IF s[n].busy THEN s[n].p.scan ELSE s[n].top, k)) /\ s[n].pc = "list"
        /\ s'[n].pc = "scan" /\ s'[n].p = q /\ k \in s[n].p.scan..high[s[n].base]

LEMMA AnswerEffect ==
    ASSUME Typed, NEW n \in Nodes, NEW k \in 0..MaxWork, Answer(n, k)
    PROVE  Answers(n, k)
  <1> DEFINE v == s[n]
             q == [v.p EXCEPT !.scan = k]
             r == [v EXCEPT !.pc = "scan", !.top = 0, !.busy = FALSE, !.p = q]
             l == Upto(IF v.busy THEN v.p.scan ELSE v.top, k)
  <1>0. v \in Records /\ Sound(v) /\ v.p \in Pairs /\ v.top \in Nat /\ k \in Nat
    BY InSlots, AccountsAssumption DEF Records
  <1>1. /\ v.pc = "list" /\ k \in v.p.scan..high[v.base] /\ UNCHANGED Beside
        /\ s' = [s EXCEPT ![n] = r] /\ Pass(n, v.base, q, {}, l)
    BY DEF Answer, Beside
  <1>3. v.base # NoBase /\ In(n) /\ v.conf \in DOMAIN Confs
    BY <1>0, <1>1 DEF Sound, In, Inside
  <1>4. q \in Pairs /\ l \in SUBSET Nat
    BY <1>0 DEF Pairs, Upto
  <1>5. r \in Records
    BY <1>0, <1>4 DEF Records, Stages, Inside
  <1>6. /\ r.id = v.id /\ r.rec = v.rec /\ r.base = v.base /\ r.file = v.file /\ r.old = v.old
        /\ r.conf = v.conf /\ r.pc = "scan" /\ r.p = q
    BY <1>0 DEF Records
  <1> HIDE DEF r
  <1>7. Passes(n, q, {}, l) /\ s'[n] = r
    <2> HIDE DEF q, l
    <2> QED
      BY <1>1, <1>3, <1>4, <1>5, <1>6, PassesTo
  <1> QED
    BY <1>1, <1>6, <1>7 DEF Answers

-----------------------------------------------------------------------------
(* Calls begin and end. *)

\* The slot looked at is taken for vacant, or the next is looked at.
Begins(n) ==
    /\ Turn(n) /\ UNCHANGED <<account, sel, lrp, mail, ed, seen>> /\ s'[n].file = NoBase
    /\ \/ /\ s[n].pc = "off" /\ s'[n].pc = "apply" /\ s'[n].k = 1 /\ ~Calls(s'[n].rec.who)
       \/ /\ s[n].pc = "apply" /\ s'[n].pc = "apply" /\ ~Vacant(s[n].k) /\ s'[n].k = s[n].k + 1
          /\ s'[n].rec = s[n].rec
       \/ /\ s[n].pc = "apply" /\ s'[n].pc = "found" /\ Vacant(s[n].k) /\ s'[n].id = s[n].k
          /\ s'[n].rec = s[n].rec
       \/ /\ s[n].pc = "off" /\ s'[n].pc = "enter" /\ s'[n].id \in DOMAIN db /\ s'[n].rec = db[s'[n].id]
          /\ ~Calls(s'[n].rec.who)

LEMMA BeginSteps ==
    ASSUME Typed, NEW n \in Nodes,
           (\E x \in Persons : Apply(n, x)) \/ LookForSlot(n) \/ (\E i \in DOMAIN db : Login(n, i))
    PROVE  Begins(n)
  <1>0. s[n] \in Records /\ Sound(s[n])
    BY InSlots
  <1>1. ASSUME NEW x \in Persons, Apply(n, x)
        PROVE  Begins(n)
    <2> DEFINE r == [Free EXCEPT !.pc = "apply", !.rec = [who |-> x, status |-> "new"]]
    <2>1. s[n].pc = "off" /\ ~Calls(x) /\ s' = [s EXCEPT ![n] = r] /\ UNCHANGED <<account, sel, lrp, mail, ed, seen>>
      BY <1>1 DEF Apply
    <2>2. [who |-> x, status |-> "new"] \in Recs \ {NoRec} /\ [who |-> x, status |-> "new"].who = x
      BY DEF Recs, NoRec, NoCopy
    <2>3. r \in Records
      BY <2>2, FreeSound DEF Records, Stages
    <2>4. /\ r.pc = "apply" /\ r.rec = [who |-> x, status |-> "new"] /\ r.id = 0 /\ r.file = NoBase /\ r.base = NoBase
          /\ r.k = 1
      BY DEF Free
    <2> HIDE DEF r
    <2>5. Sound(r)
      BY <2>2, <2>4 DEF Sound, Inside
    <2>6. Turn(n) /\ s'[n] = r
      BY <2>1, <2>3, <2>5, TurnTo
    <2> QED
      BY <2>1, <2>2, <2>4, <2>6 DEF Begins
  <1>2. ASSUME LookForSlot(n)
        PROVE  Begins(n)
    <2> DEFINE v == s[n]
               r == [v EXCEPT !.pc = "found", !.id = v.k, !.k = 1]
               w == [v EXCEPT !.k = @ + 1]
    <2>1. /\ v.pc = "apply" /\ v.k \in Slots /\ UNCHANGED <<account, sel, lrp, mail, ed, seen>>
          /\ s' = [s EXCEPT ![n] = IF Vacant(v.k) THEN r ELSE w]
      BY <1>2 DEF LookForSlot
    <2>2. v.k \in 0..MaxSlots /\ v.k # 0 /\ v.k + 1 \in Nat \ {0}
      BY <2>1, AccountsAssumption DEF Slots
    <2>c. r \in Records
      <3>0. "found" \in Stages /\ 1 \in Nat \ {0} /\ v.pc \in Stages /\ v.k \in Nat \ {0} /\ v.id \in 0..MaxSlots
        BY <1>0 DEF Records, Stages
      <3>1. \A i \in 0..MaxSlots : [v EXCEPT !.pc = "found", !.id = i, !.k = 1] \in Records
        BY <1>0, <3>0 DEF Records
      <3>2. v.k \in 0..MaxSlots
        BY <2>2
      <3> QED
        BY <3>1, <3>2
    <2>d. w \in Records
      <3>1. \A j \in Nat \ {0} : [v EXCEPT !.k = j] \in Records
        BY <1>0 DEF Records
      <3>2. v.k + 1 \in Nat \ {0}
        BY <2>2
      <3> QED
        BY <3>1, <3>2
    <2>3. r \in Records /\ w \in Records
      BY <2>c, <2>d
    <2>4. r.pc = "found" /\ r.id = v.k /\ r.rec = v.rec /\ r.file = v.file /\ r.base = v.base
      BY <1>0 DEF Records
    <2>a. w.pc = v.pc /\ w.id = v.id /\ w.rec = v.rec /\ w.file = v.file /\ w.base = v.base
      BY <1>0 DEF Records
    <2>b. w.k = v.k + 1
      BY <1>0 DEF Records
    <2> HIDE DEF r, w
    <2>5. Sound(r) /\ Sound(w) /\ v.file = NoBase
      BY <1>0, <2>1, <2>2, <2>4, <2>a DEF Sound, Inside
    <2>6. CASE Vacant(v.k)
      <3>1. Turn(n) /\ s'[n] = r
        BY <2>1, <2>3, <2>5, <2>6, TurnTo
      <3> QED
        BY <2>1, <2>4, <2>5, <2>6, <3>1 DEF Begins
    <2>7. CASE ~Vacant(v.k)
      <3>1. Turn(n) /\ s'[n] = w
        BY <2>1, <2>3, <2>5, <2>7, TurnTo
      <3> QED
        BY <2>1, <2>a, <2>b, <2>5, <2>7, <3>1 DEF Begins
    <2> QED
      BY <2>6, <2>7
  <1>3. ASSUME NEW i \in DOMAIN db, Login(n, i)
        PROVE  Begins(n)
    <2> DEFINE r == [Free EXCEPT !.pc = "enter", !.id = i, !.rec = db[i]]
    <2>1. /\ s[n].pc = "off" /\ db[i].status # "deleted" /\ ~Calls(db[i].who) /\ s' = [s EXCEPT ![n] = r]
          /\ UNCHANGED <<account, sel, lrp, mail, ed, seen>>
      BY <1>3 DEF Login
    <2>2. db[i] \in Recs /\ db[i] # NoRec /\ i \in 0..MaxSlots /\ i # 0
      <3>1. db \in Seq(Recs) /\ Len(db) \in 1..MaxSlots
        BY DEF Typed, TypeOK, AccountOK, Slots
      <3> QED
        BY <2>1, <3>1, AccountsAssumption DEF NoRec, NoCopy
    <2>3. r \in Records
      BY <2>2, FreeSound DEF Records, Stages, Inside
    <2>4. r.pc = "enter" /\ r.rec = db[i] /\ r.id = i /\ r.file = NoBase /\ r.base = NoBase
      BY DEF Free
    <2> HIDE DEF r
    <2>5. Sound(r)
      BY <2>2, <2>4 DEF Sound, Inside
    <2>6. Turn(n) /\ s'[n] = r
      BY <2>1, <2>3, <2>5, TurnTo
    <2> QED
      BY <2>1, <2>4, <2>6 DEF Begins
  <1> QED
    BY <1>1, <1>2, <1>3

\* Let in, or sent to log in; his slot is written.
Saved(n) ==
    LET x == Who(n)
        i == s[n].id
    IN  /\ Turn(n) /\ s[n].pc = "found" /\ UNCHANGED <<lrp, mail, ed, work, told>>
        /\ \/ s'[n].pc = "enter" /\ s'[n].id = i /\ s'[n].rec = s[n].rec /\ s'[n].file = NoBase
           \/ s'[n] = Free
        /\ Decide(n, i, s[n].rec, i > Len(decided) \/ decided[i].status = "deleted")
        /\ sel' \in [Slots -> SUBSET SUBSET Bases] /\ HistoryOK'
        /\ \A b \in Bases : left'[x][b] = 1..high[b] /\ passed'[b][i] = 0
        /\ \A y \in Persons \ {x}, b \in Bases : left'[y][b] = left[y][b]
        /\ \A b \in Bases, j \in Slots \ {i} : passed'[b][j] = passed[b][j]

LEMMA SaveEffect ==
    ASSUME Typed, NEW n \in Nodes, SaveNew(n)
    PROVE  Saved(n)
  <1> DEFINE v == s[n]
             x == Who(n)
             i == v.id
             r == [v EXCEPT !.pc = "enter"]
  <1>0. v \in Records /\ Sound(v) /\ v.pc = "found" /\ i \in Slots /\ s \in [Nodes -> Records]
    BY InSlots DEF SaveNew, Typed, TypeOK
  <1>1. x \in Persons /\ v.file = NoBase /\ v.base = NoBase /\ v.rec # NoRec
    BY <1>0 DEF Sound, Records, Recs, Who, Inside
  <1>2. /\ s' \in {[s EXCEPT ![n].pc = "enter"], [s EXCEPT ![n] = Free]}
        /\ Decide(n, i, v.rec, i > Len(decided) \/ decided[i].status = "deleted")
        /\ sel' = [sel EXCEPT ![i] = {}] /\ left' = [left EXCEPT ![x] = [b \in Bases |-> 1..high[b]]]
        /\ passed' = [b \in Bases |-> [passed[b] EXCEPT ![i] = 0]]
        /\ UNCHANGED <<lrp, mail, ed, work, told>>
    BY Zenon DEF SaveNew, LetIn
  <1>3. sel' \in [Slots -> SUBSET SUBSET Bases]
    BY <1>2 DEF Typed, TypeOK, FilesOK
  <1>4. [b \in Bases |-> 1..high[b]] \in [Bases -> SUBSET Nat] /\ HistoryOK
    BY DEF Typed, TypeOK, FilesOK
  <1>5. left' \in [Persons -> [Bases -> SUBSET Nat]]
    BY <1>1, <1>2, <1>4 DEF HistoryOK
  <1>6. \A b \in Bases : [passed[b] EXCEPT ![i] = 0] \in [Slots -> Nat]
    BY <1>4 DEF HistoryOK
  <1>7. passed' \in [Bases -> [Slots -> Nat]]
    BY <1>2, <1>6
  <1>8. HistoryOK'
    BY <1>2, <1>4, <1>5, <1>7 DEF HistoryOK
  <1>9. \A b \in Bases : left'[x][b] = 1..high[b] /\ passed'[b][i] = 0
    BY <1>0, <1>1, <1>2, <1>4 DEF HistoryOK
  <1>10. /\ \A y \in Persons \ {x}, b \in Bases : left'[y][b] = left[y][b]
         /\ \A b \in Bases, j \in Slots \ {i} : passed'[b][j] = passed[b][j]
    BY <1>0, <1>1, <1>2, <1>4 DEF HistoryOK
  <1>11. r \in Records /\ r.pc = "enter" /\ r.id = i /\ r.rec = v.rec /\ r.file = v.file /\ r.base = v.base
    BY <1>0 DEF Records, Stages, Inside
  <1>12. Sound(r)
    <2> HIDE DEF r
    <2> QED
      BY <1>0, <1>1, <1>11 DEF Sound, Inside
  <1>13. Turn(n) /\ (s'[n] = r \/ s'[n] = Free)
    <2>1. s' = [s EXCEPT ![n] = r] \/ s' = [s EXCEPT ![n] = Free]
      BY <1>0, <1>2
    <2> HIDE DEF r
    <2> QED
      BY <2>1, <1>11, <1>12, FreeSound, TurnTo
  <1> HIDE DEF r
  <1> QED
    BY <1>0, <1>1, <1>2, <1>3, <1>8, <1>9, <1>10, <1>11, <1>13 DEF Saved

\* Gone: the pointers are written, but where there is no base to change to.
Leaves(n) ==
    LET f == s[n].file
        i == s[n].id
    IN  /\ Turn(n) /\ In(n) /\ s'[n] = Free /\ db' = Put(db, i, s[n].rec)
        /\ UNCHANGED <<decided, shared, sel, mail, ed, work, told, left>> /\ HistoryOK' /\ LrpOK'
        /\ \/ lrp' = Flushed(s[n]) /\ UNCHANGED passed
           \/ /\ f # NoBase /\ UNCHANGED lrp /\ passed'[f][i] = Top(s[n].old)
              /\ \A b \in Bases, j \in Slots : <<b, j>> # <<f, i>> => passed'[b][j] = passed[b][j]

LEMMA LeaveEffect ==
    ASSUME Typed, NEW n \in Nodes, Leave(n)
    PROVE  Leaves(n)
  <1> DEFINE v == s[n]
             lost == IF v.base = NoBase THEN {v.file} \ {NoBase} ELSE {}
  <1>0. v.pc \in {"menu", "leave"} /\ s' = [s EXCEPT ![n] = Free] /\ db' = Put(db, v.id, v.rec)
    BY DEF Leave
  <1>1. lrp' = (IF lost = {} THEN Flushed(v) ELSE lrp)
    BY DEF Leave
  <1>2. passed' = [b \in Bases |-> IF b \in lost THEN [passed[b] EXCEPT ![v.id] = Top(v.old)] ELSE passed[b]]
    BY DEF Leave, Top
  <1>3. UNCHANGED <<decided, shared, sel, mail, ed, work, told, left>>
    BY DEF Leave
  <1>4. v \in Records /\ Sound(v) /\ In(n) /\ v.id \in Slots
    BY <1>0, InSlots DEF In, Inside
  <1>5. Turn(n) /\ s'[n] = Free
    BY <1>0, FreeSound, TurnTo
  <1>6. HistoryOK /\ LrpOK /\ Top(v.old) \in Nat
    BY <1>4, TopNat DEF Typed, TypeOK, FilesOK, LrpOK, Records
  <1>7. CASE lost = {}
    <2>1. lrp' = Flushed(v)
      BY <1>1, <1>7
    <2>2. passed' = passed
      BY <1>2, <1>6, <1>7 DEF HistoryOK
    <2>3. LrpOK'
      BY <1>4, <2>1, FlushedOK DEF LrpOK
    <2>4. HistoryOK'
      BY <1>3, <1>6, <2>2 DEF HistoryOK
    <2> QED
      BY <1>0, <1>3, <1>4, <1>5, <2>1, <2>2, <2>3, <2>4 DEF Leaves
  <1>8. CASE lost # {}
    <2>1. v.file # NoBase /\ lost = {v.file} /\ v.file \in Bases
      BY <1>4, <1>8 DEF Records
    <2>2. lrp' = lrp /\ LrpOK'
      BY <1>1, <1>6, <1>8 DEF LrpOK
    <2>3. passed' = [b \in Bases |-> IF b = v.file THEN [passed[b] EXCEPT ![v.id] = Top(v.old)] ELSE passed[b]]
      BY <1>2, <2>1
    <2>4. passed' \in [Bases -> [Slots -> Nat]]
      BY <1>6, <2>3 DEF HistoryOK
    <2>5. HistoryOK'
      BY <1>3, <1>6, <2>4 DEF HistoryOK
    <2>6. /\ passed'[v.file][v.id] = Top(v.old)
          /\ \A b \in Bases, j \in Slots : <<b, j>> # <<v.file, v.id>> => passed'[b][j] = passed[b][j]
      BY <1>4, <1>6, <2>1, <2>3 DEF HistoryOK
    <2> QED
      BY <1>0, <1>3, <1>4, <1>5, <2>1, <2>2, <2>5, <2>6 DEF Leaves
  <1> QED
    BY <1>7, <1>8

-----------------------------------------------------------------------------
(* Records on file. *)

\* Of the slots nobody else had a copy of, only i is changed.
Decides(n, i, r, his) ==
    /\ db' \in Seq(Recs) /\ decided' \in Seq(Recs) /\ Len(decided') = Len(db') /\ Len(db') \in Slots
    /\ DOMAIN db' = DOMAIN db \cup {i} /\ Len(db) <= Len(db') /\ shared \subseteq shared' /\ shared' \subseteq Slots
    /\ db'[i] = r /\ (his => decided'[i] = r)
    /\ \A j \in DOMAIN db \ {i} : db'[j] = db[j] /\ decided'[j] = decided[j]
    /\ \A j \in shared' \ shared : j = i
    /\ i \notin shared' => Holders(i) \subseteq {n} /\ i \notin shared

LEMMA DecideEffect ==
    ASSUME Typed, NEW n, NEW i \in Slots, i <= Len(db) + 1, NEW r \in Recs, NEW his \in BOOLEAN, Decide(n, i, r, his),
           i > Len(db) => his
    PROVE  Decides(n, i, r, his)
  <1>0. /\ db \in Seq(Recs) /\ decided \in Seq(Recs) /\ Len(decided) = Len(db) /\ Len(db) \in 1..MaxSlots
        /\ shared \subseteq Slots /\ i \in 1..MaxSlots /\ MaxSlots \in Nat
    BY AccountsAssumption DEF Typed, TypeOK, AccountOK, Slots
  <1>1. /\ db' = Put(db, i, r) /\ decided' = (IF his THEN Put(decided, i, r) ELSE decided)
        /\ shared' = (IF Holders(i) \subseteq {n} THEN shared ELSE shared \cup {i})
    BY DEF Decide
  <1>2. i \in 1..(Len(db) + 1) /\ i \in 1..(Len(decided) + 1)
    BY <1>0
  <1>3. /\ db' \in Seq(Recs) /\ Len(db') = (IF i > Len(db) THEN i ELSE Len(db))
        /\ db'[i] = r /\ \A j \in DOMAIN db \ {i} : db'[j] = db[j]
    <2>1. HasPut(db, Put(db, i, r), i, r)
      BY <1>0, <1>2, PutSeq, Zenon
    <2> QED
      BY <1>1, <2>1 DEF HasPut
  <1>4. /\ decided' \in Seq(Recs) /\ Len(decided') = Len(db') /\ (his => decided'[i] = r)
        /\ \A j \in DOMAIN db \ {i} : decided'[j] = decided[j]
    <2>1. CASE his
      <3>1. HasPut(decided, Put(decided, i, r), i, r)
        BY <1>0, <1>2, PutSeq, Zenon
      <3>2. decided' = Put(decided, i, r) /\ DOMAIN decided = DOMAIN db
        BY <1>0, <1>1, <2>1
      <3> QED
        BY <1>0, <1>3, <2>1, <3>1, <3>2 DEF HasPut
    <2>2. CASE ~his
      BY <1>0, <1>1, <1>3, <2>2
    <2> QED
      BY <2>1, <2>2
  <1>5. DOMAIN db' = DOMAIN db \cup {i} /\ Len(db) <= Len(db') /\ Len(db') \in Slots
    <2>1. Len(db) <= Len(db') /\ Len(db') \in Slots
      BY <1>0, <1>2, <1>3 DEF Slots
    <2>2. DOMAIN db = 1..Len(db) /\ DOMAIN db' = 1..Len(db') /\ i \in Nat
      BY <1>0, <1>3
    <2> QED
      BY <1>0, <1>2, <1>3, <2>1, <2>2
  <1>6. /\ shared \subseteq shared' /\ shared' \subseteq Slots /\ \A j \in shared' \ shared : j = i
        /\ i \notin shared' => Holders(i) \subseteq {n} /\ i \notin shared
    BY <1>0, <1>1
  <1> QED
    BY <1>3, <1>4, <1>5, <1>6 DEF Decides

\* A session that writes its copy changes nothing, but in a slot written meanwhile.
Keeps ==
    /\ db' \in Seq(Recs) /\ Len(db') = Len(db) /\ DOMAIN db' = DOMAIN db /\ UNCHANGED <<decided, shared>>
    /\ \A j \in DOMAIN db \ shared : db'[j] = db[j]

LEMMA KeepsCopy ==
    ASSUME Typed, AccountsInv, NEW n \in Nodes, In(n), UNCHANGED <<decided, shared>>,
           UNCHANGED db \/ db' = Put(db, s[n].id, s[n].rec)
    PROVE  Keeps
  <1>0. db \in Seq(Recs) /\ DOMAIN db = 1..Len(db)
    BY DEF Typed, TypeOK, AccountOK
  <1>1. s[n].id \in DOMAIN db /\ (s[n].id \notin shared => s[n].rec = db[s[n].id]) /\ s[n].rec \in Recs
    BY InSlots DEF AccountsInv, Copies, Records
  <1>2. CASE UNCHANGED db
    BY <1>0, <1>2 DEF Keeps
  <1>3. CASE db' = Put(db, s[n].id, s[n].rec)
    <2>1. s[n].id \in 1..(Len(db) + 1) /\ ~(s[n].id > Len(db))
      BY <1>0, <1>1
    <2>2. /\ db' \in Seq(Recs) /\ Len(db') = Len(db)
          /\ db'[s[n].id] = s[n].rec /\ \A j \in DOMAIN db \ {s[n].id} : db'[j] = db[j]
      <3> DEFINE d == Put(db, s[n].id, s[n].rec)
      <3>0. \A i \in 1..(Len(db) + 1), r \in Recs : HasPut(db, Put(db, i, r), i, r)
        BY <1>0, PutSeq, Zenon
      <3>1. HasPut(db, d, s[n].id, s[n].rec)
        BY <1>1, <2>1, <3>0, Zenon
      <3> HIDE DEF d
      <3>2. db' = d
        BY <1>3 DEF d
      <3> QED
        BY <2>1, <3>1, <3>2 DEF HasPut
    <2>3. DOMAIN db' = DOMAIN db
      BY <1>0, <2>2
    <2> QED
      BY <1>1, <2>2, <2>3 DEF Keeps
  <1> QED
    BY <1>2, <1>3

-----------------------------------------------------------------------------
(* Editors, and messages saved. *)

\* An editor takes a copy, drops it or writes what he made of it.
Edits(e) ==
    /\ UNCHANGED <<sel, lrp, mail, s, seen>> /\ \A f \in Sysops \ {e} : ed'[f] = ed[f]
    /\ ed' \in [Sysops -> [id : 0..MaxSlots, rec : Recs]] /\ work' \in Nat
    /\ \/ UNCHANGED account /\ ed'[e].id \in DOMAIN db /\ ed'[e].rec = db[ed'[e].id] /\ ed'[e].rec # NoRec
       \/ UNCHANGED account /\ ed'[e].id = 0
       \/ /\ ed'[e].id = 0 /\ ed[e].id # 0
          /\ \E r \in Recs : Decides(e, ed[e].id, r, TRUE) /\ (r # NoRec => r.who = ed[e].rec.who)

LEMMA EditSteps ==
    ASSUME Typed, AccountsInv, NEW e \in Sysops, Editor(e)
    PROVE  Edits(e)
  <1>0. /\ ed \in [Sysops -> [id : 0..MaxSlots, rec : Recs]] /\ work \in Nat /\ db \in Seq(Recs) /\ DOMAIN db = 1..Len(db)
        /\ Len(db) \in 1..MaxSlots /\ MaxSlots \in Nat
    BY AccountsAssumption DEF Typed, TypeOK, AccountOK, FilesOK, Slots
  <1>1. NoCopy \in [id : 0..MaxSlots, rec : Recs] /\ NoCopy.id = 0
    BY <1>0, FreeSound DEF NoCopy, NoRec
  <1>2. ASSUME EdAbort(e)
        PROVE  Edits(e)
    BY <1>0, <1>1, <1>2 DEF EdAbort, Edits, account
  <1>3. ASSUME NEW i \in DOMAIN db, EdLoad(e, i)
        PROVE  Edits(e)
    <2> DEFINE c == [id |-> i, rec |-> db[i]]
    <2>1. db[i] \in Recs /\ db[i] # NoRec /\ i \in 0..MaxSlots
      BY <1>0, <1>3 DEF EdLoad, NoRec, NoCopy
    <2>2. c \in [id : 0..MaxSlots, rec : Recs]
      BY <2>1
    <2>3. ed' = [ed EXCEPT ![e] = c] /\ UNCHANGED <<account, sel, lrp, mail, s, seen>> /\ work' = work + 2
      BY <1>3 DEF EdLoad, Work
    <2>4. ed'[e] = c /\ c.id = i /\ c.rec = db[i] /\ (\A f \in Sysops \ {e} : ed'[f] = ed[f]) /\ work' \in Nat
      BY <1>0, <2>3
    <2>5. ed' \in [Sysops -> [id : 0..MaxSlots, rec : Recs]]
      <3> HIDE DEF c
      <3> QED
        BY <1>0, <2>2, <2>3
    <2> HIDE DEF c
    <2> QED
      BY <2>1, <2>3, <2>4, <2>5 DEF Edits
  <1>4. ASSUME NEW st \in {"active", "frozen", "deleted"}, EdSave(e, st)
        PROVE  Edits(e)
    <2> DEFINE c == ed[e]
               r == Edited(c.rec, st)
    <2>1. c.id # 0 /\ c.id \in DOMAIN db /\ c.rec # NoRec /\ c.rec \in Recs
      BY <1>0, <1>4 DEF EdSave, AccountsInv, Copies
    <2>2. r \in Recs /\ (r # NoRec => r.who = c.rec.who)
      <3>1. NoRec \in Recs
        BY FreeSound
      <3>2. c.rec \in [who : Persons, status : {"new", "active", "frozen"}]
        BY <2>1 DEF Recs
      <3>3. CASE st = "deleted"
        BY <3>1, <3>3 DEF Edited, NoRec
      <3>4. CASE st # "deleted"
        <4>1. r = [c.rec EXCEPT !.status = st] /\ st \in {"active", "frozen"}
          BY <3>4 DEF Edited
        <4> QED
          BY <3>2, <4>1 DEF Recs
      <3> QED
        BY <3>3, <3>4
    <2>3. ed' = [ed EXCEPT ![e] = NoCopy] /\ Decide(e, c.id, r, TRUE) /\ UNCHANGED <<sel, lrp, mail, s, work, seen>>
      BY <1>4 DEF EdSave
    <2>4. ed'[e].id = 0 /\ (\A f \in Sysops \ {e} : ed'[f] = ed[f]) /\ ed' \in [Sysops -> [id : 0..MaxSlots, rec : Recs]]
      BY <1>0, <1>1, <2>3
    <2>5. c.id \in Slots /\ c.id <= Len(db) + 1
      BY <1>0, <2>1 DEF Slots
    <2> HIDE DEF r
    <2>6. Decides(e, c.id, r, TRUE)
      BY <2>2, <2>3, <2>5, DecideEffect
    <2> QED
      BY <1>0, <2>1, <2>2, <2>3, <2>4, <2>6 DEF Edits
  <1> QED
    BY <1>2, <1>3, <1>4 DEF Editor

\* A message is being saved; of the sessions, those that look at its base are marked.
Posting ==
    /\ UNCHANGED <<account, sel, lrp, ed, seen>> /\ FilesOK' /\ s' \in [Nodes -> Records]
    /\ \A n \in Nodes : /\ s'[n].pc = s[n].pc /\ s'[n].id = s[n].id /\ s'[n].rec = s[n].rec /\ s'[n].k = s[n].k
                        /\ s'[n].conf = s[n].conf /\ s'[n].base = s[n].base /\ s'[n].file = s[n].file
                        /\ s'[n].p = s[n].p /\ s'[n].old = s[n].old /\ s'[n].top = s[n].top
                        /\ s[n].busy => s'[n].busy
Numbered(b, x) ==
    /\ post = NoPost /\ high'[b] = high[b] + 1 /\ (\A c \in Bases \ {b} : high'[c] = high[c]) /\ UNCHANGED dat
    /\ post'.step = "number" /\ post'.base = b /\ post'.num = high[b] + 1 /\ post'.to = x
Headed ==
    LET b == post.base
        new == Len(dat[b]) + 1
    IN  /\ post.step = "number" /\ UNCHANGED high
        /\ post'.step = "header" /\ post'.base = b /\ post'.num = post.num /\ post'.to = post.to
        /\ Len(dat'[b]) = new /\ (\A k \in 1..Len(dat[b]) : dat'[b][k] = dat[b][k])
        /\ dat'[b][new] = [num |-> post.num, to |-> post.to, text |-> FALSE]
        /\ \A c \in Bases \ {b} : dat'[c] = dat[c]
        /\ \A n \in Nodes : s[n].pc = "base" /\ s[n].base = b => s'[n].busy
Texted ==
    LET b == post.base
        last == Len(dat[b])
    IN  /\ post.step = "header" /\ UNCHANGED high /\ post' = NoPost
        /\ Len(dat'[b]) = last /\ (\A k \in 1..(last - 1) : dat'[b][k] = dat[b][k])
        /\ dat'[b][last].num = dat[b][last].num /\ dat'[b][last].to = dat[b][last].to /\ dat'[b][last].text
        /\ \A c \in Bases \ {b} : dat'[c] = dat[c]

LEMMA PostSteps ==
    ASSUME Typed, MailInv, (\E m \in Mailed : PostNumber(m[1], m[2])) \/ PostHeader \/ PostText
    PROVE  Posting /\ ((\E b \in Bases, x \in Persons : Numbered(b, x)) \/ Headed \/ Texted)
  <1>0. /\ high \in [Bases -> Nat] /\ dat \in [Bases -> Seq(Headers)] /\ post \in Posts /\ work \in Nat
        /\ FilesOK /\ s \in [Nodes -> Records]
    BY DEF Typed, TypeOK, FilesOK
  <1>1. ASSUME NEW b \in Bases, NEW x \in Persons, PostNumber(b, x)
        PROVE  Posting /\ Numbered(b, x)
    <2>1. /\ post = NoPost /\ high' = [high EXCEPT ![b] = @ + 1] /\ work' = work + 1
          /\ post' = [step |-> "number", base |-> b, num |-> high[b] + 1, to |-> x]
          /\ UNCHANGED <<account, sel, lrp, dat, s, ed, seen>>
      BY <1>1 DEF PostNumber, Work
    <2>2. high[b] \in Nat /\ high' \in [Bases -> Nat] /\ work' \in Nat
      BY <1>0, <2>1
    <2>3. post' \in Posts
      BY <2>1, <2>2 DEF Posts
    <2>4. FilesOK'
      BY <1>0, <2>1, <2>2, <2>3 DEF FilesOK
    <2>5. Posting
      BY <1>0, <2>1, <2>4 DEF Posting
    <2> QED
      BY <1>0, <2>1, <2>5 DEF Numbered
  <1>2. ASSUME PostHeader
        PROVE  Posting /\ Headed
    <2> DEFINE b == post.base
               h == [num |-> post.num, to |-> post.to, text |-> FALSE]
    <2>1. /\ post.step = "number" /\ post' = [post EXCEPT !.step = "header"] /\ s' = Disturbed
          /\ dat' = [dat EXCEPT ![b] = Append(@, h)] /\ UNCHANGED <<account, sel, lrp, high, ed, work, seen>>
      BY <1>2 DEF PostHeader
    <2>2. b \in Bases /\ post.to \in Persons
      BY <2>1 DEF MailInv, NoPost
    <2>3. h \in Headers /\ dat[b] \in Seq(Headers)
      BY <1>0, <2>2 DEF Posts, Headers
    <2>4. /\ post' \in Posts /\ post'.step = "header" /\ post'.base = b /\ post'.num = post.num
          /\ post'.to = post.to
      BY <1>0, <2>1 DEF Posts
    <2>5. Append(dat[b], h) \in Seq(Headers)
      BY <2>3
    <2> HIDE DEF h
    <2>6. dat' \in [Bases -> Seq(Headers)] /\ dat'[b] = Append(dat[b], h) /\ \A c \in Bases \ {b} : dat'[c] = dat[c]
      BY <1>0, <2>1, <2>2, <2>5
    <2>7. /\ Len(dat'[b]) = Len(dat[b]) + 1 /\ dat'[b][Len(dat[b]) + 1] = h
          /\ \A k \in 1..Len(dat[b]) : dat'[b][k] = dat[b][k]
      BY <2>3, <2>6
    <2>8. FilesOK'
      BY <1>0, <2>1, <2>4, <2>6 DEF FilesOK
    <2>9. \A n \in Nodes : s'[n] = IF s[n].pc = "base" /\ s[n].base = b THEN [s[n] EXCEPT !.busy = TRUE] ELSE s[n]
      BY <2>1 DEF Disturbed
    <2>10. s' \in [Nodes -> Records]
      <3>1. \A n \in Nodes : [s[n] EXCEPT !.busy = TRUE] \in Records
        BY <1>0, ZenonT(40) DEF Records
      <3>2. DOMAIN s' = Nodes /\ s' = [n \in Nodes |-> s'[n]]
        BY <2>1 DEF Disturbed
      <3> QED
        BY <1>0, <2>9, <3>1, <3>2
    <2>11. \A n \in Nodes :
               /\ s'[n].pc = s[n].pc /\ s'[n].id = s[n].id /\ s'[n].rec = s[n].rec /\ s'[n].k = s[n].k
               /\ s'[n].conf = s[n].conf /\ s'[n].base = s[n].base /\ s'[n].file = s[n].file
               /\ s'[n].p = s[n].p /\ s'[n].old = s[n].old /\ s'[n].top = s[n].top
               /\ s'[n].busy = s[n].busy \/ s'[n].busy = TRUE
               /\ s[n].pc = "base" /\ s[n].base = b => s'[n].busy = TRUE
      <3> TAKE n \in Nodes
      <3>1. s[n] \in Records
        BY <1>0
      <3>2. CASE s[n].pc = "base" /\ s[n].base = b
        <4> DEFINE r == [s[n] EXCEPT !.busy = TRUE]
        <4>1. s'[n] = r
          BY <2>9, <3>2
        <4>2. /\ r.pc = s[n].pc /\ r.id = s[n].id /\ r.rec = s[n].rec /\ r.k = s[n].k
              /\ r.conf = s[n].conf /\ r.base = s[n].base /\ r.file = s[n].file
              /\ r.p = s[n].p /\ r.old = s[n].old /\ r.top = s[n].top /\ r.busy = TRUE
          BY <3>1 DEF Records
        <4> HIDE DEF r
        <4> QED
          BY <4>1, <4>2
      <3>3. CASE ~(s[n].pc = "base" /\ s[n].base = b)
        <4>1. s'[n] = s[n]
          BY <2>9, <3>3
        <4> QED
          BY <3>3, <4>1
      <3> QED
        BY <3>2, <3>3
    <2>12. \A n \in Nodes : s[n].busy \in BOOLEAN /\ s'[n].busy \in BOOLEAN
      BY <1>0, <2>10 DEF Records
    <2>13. Posting
      BY <2>1, <2>8, <2>10, <2>11, <2>12 DEF Posting
    <2>14. Headed
      BY <2>1, <2>4, <2>6, <2>7, <2>11 DEF Headed, h
    <2> QED
      BY <2>13, <2>14
  <1>3. ASSUME PostText
        PROVE  Posting /\ Texted
    <2> DEFINE b == post.base
               last == Len(dat[b])
               g == [dat[b][last] EXCEPT !.text = TRUE]
    <2>1. /\ post.step = "header" /\ post' = NoPost /\ dat' = [dat EXCEPT ![b][last].text = TRUE]
          /\ UNCHANGED <<account, sel, lrp, high, s, ed, work, seen>>
      BY <1>3 DEF PostText
    <2>2. b \in Bases /\ last > 0 /\ dat[b] \in Seq(Headers) /\ last \in 1..Len(dat[b])
      <3>1. b \in Bases /\ last > 0
        BY <2>1 DEF MailInv, NoPost, Saving
      <3>2. dat[b] \in Seq(Headers)
        BY <1>0, <3>1
      <3> QED
        BY <3>1, <3>2
    <2>3. g \in Headers /\ g.num = dat[b][last].num /\ g.to = dat[b][last].to /\ g.text
      <3>1. dat[b][last] \in Headers
        BY <2>2
      <3> QED
        BY <3>1 DEF Headers
    <2>4. dat' = [dat EXCEPT ![b] = [dat[b] EXCEPT ![last] = g]]
      BY <1>0, <2>1, <2>2
    <2> HIDE DEF g
    <2>5. /\ [dat[b] EXCEPT ![last] = g] \in Seq(Headers) /\ Len([dat[b] EXCEPT ![last] = g]) = last
      BY <2>2, <2>3
    <2>6. /\ dat' \in [Bases -> Seq(Headers)] /\ Len(dat'[b]) = last /\ dat'[b][last] = g
          /\ \A c \in Bases \ {b} : dat'[c] = dat[c]
      BY <1>0, <2>2, <2>4, <2>5
    <2>7. \A k \in 1..(last - 1) : dat'[b][k] = dat[b][k]
      BY <1>0, <2>2, <2>4
    <2>8. post' \in Posts
      BY <2>1 DEF NoPost, Posts
    <2>9. FilesOK'
      BY <1>0, <2>1, <2>6, <2>8 DEF FilesOK
    <2>10. Posting
      BY <1>0, <2>1, <2>9 DEF Posting
    <2>11. Texted
      BY <2>1, <2>3, <2>6, <2>7 DEF Texted
    <2> QED
      BY <2>10, <2>11
  <1>4. \A m \in Mailed : m[1] \in Bases /\ m[2] \in Persons
    BY AccountsAssumption
  <1> QED
    BY <1>1, <1>2, <1>3, <1>4

-----------------------------------------------------------------------------
(* What the steps of a session come to, and types. *)

Copied(n) == Moves(n) /\ (UNCHANGED db \/ db' = Put(db, s[n].id, s[n].rec))
Passed(n) ==
    \/ \E k, q, l : ReadsTo(n, k, q, l)
    \/ Lists(n) \/ Ends(n) \/ \E k : Answers(n, k)
Acts(n) == Begins(n) \/ Saved(n) \/ Copied(n) \/ Leaves(n) \/ (\E b \in Bases : Scanning(n, b)) \/ Passed(n)

LEMMA SessionSteps ==
    ASSUME Typed, NEW n \in Nodes, Session(n)
    PROVE  Acts(n)
  <1>1. CASE (\E x \in Persons : Apply(n, x)) \/ LookForSlot(n) \/ (\E i \in DOMAIN db : Login(n, i))
    BY <1>1, BeginSteps DEF Acts
  <1>2. CASE SaveNew(n)
    BY <1>2, SaveEffect DEF Acts
  <1>3. CASE \/ \E c \in DOMAIN Confs : JoinConf(n, c) \/ Enter(n, c)
             \/ \E b \in Bases : ChangeMsgBase(n, b) \/ Tag(n, b)
             \/ TagConfs(n) \/ EditUser(n) \/ StartScan(n) \/ EndScan(n)
    BY <1>3, MoveSteps DEF Acts, Copied
  <1>4. CASE Leave(n)
    BY <1>4, LeaveEffect DEF Acts
  <1>5. CASE ScanBase(n)
    BY <1>5, ScanEffect DEF Acts
  <1>6. CASE \E k \in 1..MaxWork : Read(n, k)
    <2>1. PICK k \in 1..MaxWork : Read(n, k)
      BY <1>6
    <2> QED
      BY <2>1, ReadEffect DEF Acts, Passed
  <1>7. CASE ScanHeaders(n)
    BY <1>7, HeadersEffect DEF Acts, Passed
  <1>8. CASE \E k \in 0..MaxWork : Answer(n, k)
    BY <1>8, AnswerEffect DEF Acts, Passed
  <1>9. Session(n) => \/ (\E x \in Persons : Apply(n, x)) \/ LookForSlot(n) \/ (\E i \in DOMAIN db : Login(n, i))
                      \/ SaveNew(n) \/ Leave(n) \/ ScanBase(n) \/ ScanHeaders(n)
                      \/ (\E k \in 1..MaxWork : Read(n, k)) \/ (\E k \in 0..MaxWork : Answer(n, k))
                      \/ (\E c \in DOMAIN Confs : JoinConf(n, c) \/ Enter(n, c))
                      \/ (\E b \in Bases : ChangeMsgBase(n, b) \/ Tag(n, b))
                      \/ TagConfs(n) \/ EditUser(n) \/ StartScan(n) \/ EndScan(n)
    BY DEF Session, Commands
  <1> QED
    BY <1>1, <1>2, <1>3, <1>4, <1>5, <1>6, <1>7, <1>8, <1>9

LEMMA PassedPasses ==
    ASSUME NEW n, Passed(n)
    PROVE  \E q, t, l : Passes(n, q, t, l)
  BY DEF Passed, ReadsTo, Lists, Ends, Answers

LEMMA SelWork ==
    ASSUME Typed, NEW n \in Nodes, Session(n)
    PROVE  sel' \in [Slots -> SUBSET SUBSET Bases] /\ work' \in Nat
  <1>0. sel \in [Slots -> SUBSET SUBSET Bases] /\ work \in Nat /\ s[n] \in Records /\ work + 2 \in Nat
    BY InSlots DEF Typed, TypeOK, FilesOK
  <1>1. \/ UNCHANGED sel
        \/ \E t \in SUBSET Bases : sel' = [sel EXCEPT ![s[n].id] = {t}]
        \/ SaveNew(n)
    <2>1. ASSUME NEW b \in Bases, Tag(n, b)
          PROVE  \E t \in SUBSET Bases : sel' = [sel EXCEPT ![s[n].id] = {t}]
      <3> DEFINE t == IF b \in s[n].tags THEN s[n].tags \ {b} ELSE s[n].tags \cup {b}
      <3>1. t \in SUBSET Bases
        BY <1>0 DEF Records
      <3>2. sel' = [sel EXCEPT ![s[n].id] = {t}]
        BY <2>1 DEF Tag
      <3> HIDE DEF t
      <3> QED
        BY <3>1, <3>2
    <2>2. ASSUME TagConfs(n)
          PROVE  \E t \in SUBSET Bases : sel' = [sel EXCEPT ![s[n].id] = {t}]
      BY <1>0, <2>2 DEF TagConfs, Records
    <2> QED
      BY <2>1, <2>2 DEF Session, Commands, Apply, LookForSlot, Login, Enter, JoinConf, ChangeMsgBase, Read, EditUser,
                        StartScan, Leave, ScanBase, ScanHeaders, EndScan, Answer
  <1>2. sel' \in [Slots -> SUBSET SUBSET Bases]
    <2>1. CASE SaveNew(n)
      BY <2>1, SaveEffect DEF Saved
    <2>2. ASSUME NEW t \in SUBSET Bases, sel' = [sel EXCEPT ![s[n].id] = {t}]
          PROVE  sel' \in [Slots -> SUBSET SUBSET Bases]
      <3>1. {t} \in SUBSET SUBSET Bases
        OBVIOUS
      <3> QED
        BY <1>0, <2>2, <3>1
    <2> QED
      BY <1>0, <1>1, <2>1, <2>2
  <1>3. UNCHANGED work \/ Work(2)
    BY DEF Session, Commands, Apply, LookForSlot, SaveNew, Login, Enter, JoinConf, ChangeMsgBase, Tag, TagConfs, Read,
           EditUser, StartScan, Leave, ScanBase, ScanHeaders, EndScan, Answer
  <1> QED
    BY <1>0, <1>2, <1>3 DEF Work

\* A newcomer's slot: the record is as he applied, and that he has it was decided unless it
\* is another's by then.
SavedTo(n) ==
    \E his \in BOOLEAN :
        /\ Decides(n, s[n].id, s[n].rec, his)
        /\ s[n].id \notin shared => his

LEMMA SavedDecides ==
    ASSUME Typed, AccountsInv, NEW n \in Nodes, Saved(n)
    PROVE  SavedTo(n)
  <1> DEFINE i == s[n].id
             his == i > Len(decided) \/ decided[i].status = "deleted"
  <1>0. /\ db \in Seq(Recs) /\ decided \in Seq(Recs) /\ Len(decided) = Len(db) /\ DOMAIN db = 1..Len(db)
        /\ s[n].pc = "found"
    BY DEF Typed, TypeOK, AccountOK, Saved
  <1>1. i \in Slots /\ i <= Len(db) + 1 /\ s[n].rec \in Recs /\ (i \in DOMAIN db \ shared => decided[i] = NoRec)
    BY <1>0, InSlots DEF AccountsInv, Applying, Records
  <1>2. i \in Nat /\ i # 0
    BY <1>1, AccountsAssumption DEF Slots
  <1>3. his \in BOOLEAN /\ (i > Len(db) => his)
    BY <1>0
  <1>4. i \notin shared => his
    BY <1>0, <1>1, <1>2 DEF NoRec, NoCopy
  <1>5. Decide(n, i, s[n].rec, his)
    BY DEF Saved
  <1> HIDE DEF his
  <1>6. Decides(n, i, s[n].rec, his)
    BY <1>1, <1>3, <1>5, DecideEffect
  <1> QED
    BY <1>3, <1>4, <1>6 DEF SavedTo

LEMMA NextTyped ==
    ASSUME Typed, AccountsInv, MailInv, [Next]_vars
    PROVE  Typed'
  <1>0. /\ AccountOK /\ FilesOK /\ HistoryOK /\ s \in [Nodes -> Records] /\ \A n \in Nodes : Sound(s[n])
    BY DEF Typed, TypeOK
  <1>1. ASSUME NEW n \in Nodes, Session(n)
        PROVE  Typed'
    <2>0. Acts(n)
      BY <1>1, SessionSteps
    <2>1. sel' \in [Slots -> SUBSET SUBSET Bases] /\ work' \in Nat
      BY <1>1, SelWork
    <2>2. Turn(n) => s' \in [Nodes -> Records] /\ \A m \in Nodes : Sound(s'[m])
      BY <1>0 DEF Turn, Others
    <2>k. Keeps /\ UNCHANGED ed => AccountOK'
      BY <1>0 DEF Keeps, AccountOK
    <2>3. CASE Begins(n)
      <3>1. Turn(n) /\ UNCHANGED <<account, lrp, mail, ed, seen>>
        BY <2>3 DEF Begins
      <3>2. AccountOK' /\ FilesOK' /\ HistoryOK'
        BY <1>0, <2>1, <3>1 DEF AccountOK, FilesOK, HistoryOK, account, mail, seen
      <3> QED
        BY <2>2, <3>1, <3>2 DEF Typed, TypeOK
    <2>4. CASE Saved(n)
      <3>1. Turn(n) /\ HistoryOK' /\ UNCHANGED <<lrp, mail, ed>>
        BY <2>4 DEF Saved
      <3>2. AccountOK'
        BY <1>0, <2>4, <3>1, SavedDecides DEF SavedTo, Decides, AccountOK
      <3>3. FilesOK'
        BY <1>0, <2>1, <3>1 DEF FilesOK, mail
      <3> QED
        BY <2>2, <3>1, <3>2, <3>3 DEF Typed, TypeOK
    <2>5. CASE Copied(n)
      <3>1. Turn(n) /\ LrpOK' /\ UNCHANGED Elsewhere /\ In(n)
        BY <2>5 DEF Copied, Moves, Same, Changes
      <3>2. Keeps
        BY <2>5, <3>1, KeepsCopy DEF Copied, Elsewhere
      <3>3. AccountOK' /\ FilesOK' /\ HistoryOK'
        BY <1>0, <2>1, <2>k, <3>1, <3>2 DEF FilesOK, HistoryOK, LrpOK, Elsewhere
      <3> QED
        BY <2>2, <3>1, <3>3 DEF Typed, TypeOK
    <2>6. CASE Leaves(n)
      <3>1. Turn(n) /\ LrpOK' /\ HistoryOK' /\ In(n) /\ db' = Put(db, s[n].id, s[n].rec) /\ UNCHANGED <<decided, shared, mail, ed>>
        BY <2>6 DEF Leaves
      <3>2. Keeps
        BY <3>1, KeepsCopy
      <3>3. AccountOK' /\ FilesOK'
        BY <1>0, <2>1, <2>k, <3>1, <3>2 DEF FilesOK, LrpOK, mail
      <3> QED
        BY <2>2, <3>1, <3>3 DEF Typed, TypeOK
    <2>7. ASSUME NEW b \in Bases, Scanning(n, b)
          PROVE  Typed'
      <3>1. Turn(n) /\ LrpOK' /\ UNCHANGED <<db, Elsewhere>> /\ In(n)
        BY <2>7 DEF Scanning, Changes
      <3>2. Keeps
        BY <3>1, KeepsCopy DEF Elsewhere
      <3>3. AccountOK' /\ FilesOK' /\ HistoryOK'
        BY <1>0, <2>1, <2>k, <3>1, <3>2 DEF FilesOK, HistoryOK, LrpOK, Elsewhere
      <3> QED
        BY <2>2, <3>1, <3>3 DEF Typed, TypeOK
    <2>8. CASE Passed(n)
      <3>1. Turn(n) /\ HistoryOK' /\ UNCHANGED Beside
        BY <2>8, PassedPasses DEF Passes
      <3>2. AccountOK' /\ FilesOK'
        BY <1>0, <3>1 DEF AccountOK, FilesOK, Beside, account, mail
      <3> QED
        BY <2>2, <3>1, <3>2 DEF Typed, TypeOK
    <2> QED
      BY <2>0, <2>3, <2>4, <2>5, <2>6, <2>7, <2>8 DEF Acts
  <1>2. ASSUME NEW e \in Sysops, Editor(e)
        PROVE  Typed'
    <2>1. Edits(e)
      BY <1>2, EditSteps
    <2>2. AccountOK'
      BY <1>0, <2>1 DEF Edits, Decides, AccountOK, account
    <2>3. FilesOK' /\ HistoryOK' /\ UNCHANGED s
      BY <1>0, <2>1 DEF Edits, FilesOK, HistoryOK, mail, seen
    <2> QED
      BY <1>0, <2>2, <2>3 DEF Typed, TypeOK
  <1>3. ASSUME (\E m \in Mailed : PostNumber(m[1], m[2])) \/ PostHeader \/ PostText
        PROVE  Typed'
    <2>1. Posting
      BY <1>3, PostSteps
    <2>2. AccountOK' /\ FilesOK' /\ HistoryOK' /\ s' \in [Nodes -> Records]
      BY <1>0, <2>1 DEF Posting, AccountOK, HistoryOK, account, seen
    <2>3. \A n \in Nodes : Sound(s'[n])
      BY <1>0, <2>1 DEF Posting, Sound
    <2> QED
      BY <2>2, <2>3 DEF Typed, TypeOK
  <1>4. ASSUME UNCHANGED vars
        PROVE  Typed'
    BY <1>0, <1>4 DEF vars, account, mail, seen, Typed, TypeOK, AccountOK, FilesOK, HistoryOK
  <1> QED
    BY <1>1, <1>2, <1>3, <1>4 DEF Next

-----------------------------------------------------------------------------
(* Accounts. *)

LEMMA RecWho == NoRec.who = Nobody /\ \A r \in Recs : r = NoRec \/ (r.who \in Persons /\ r.who # Nobody)
  BY AccountsAssumption DEF Recs, NoRec, NoCopy

LEMMA FreeIs == Free.pc = "off" /\ Free.rec = NoRec /\ Free.id = 0 /\ Free.file = NoBase /\ "off" \notin Inside
  BY DEF Free, NoRec, Inside

\* A caller who stays or leaves.
LEMMA StayAccounts ==
    ASSUME Typed, AccountsInv, Keeps, UNCHANGED ed, NEW n \in Nodes, Others(n),
           \/ In(n) /\ In(n)' /\ s'[n].id = s[n].id /\ s'[n].rec = s[n].rec
           \/ s'[n] = Free
    PROVE  AccountsInv'
  <1>1. \A m \in Nodes : s'[m].rec = s[m].rec \/ s'[m].rec = NoRec
    BY FreeIs DEF Others
  <1>2. OneCall'
    BY <1>1, RecWho DEF AccountsInv, OneCall, Who
  <1>3. \A m \in Nodes : In(m)' => In(m) /\ s'[m].id = s[m].id /\ s'[m].rec = s[m].rec
    BY FreeIs DEF Others, In
  <1>4. Copies'
    BY <1>3 DEF AccountsInv, Copies, Keeps
  <1>5. Applying'
    <2>1. \A m \in Nodes : s'[m].pc \in {"apply", "found"} => s'[m] = s[m]
      BY FreeIs DEF Others, In, Inside
    <2>2. DOMAIN db' = DOMAIN db /\ Len(db') = Len(db) /\ decided' = decided /\ shared' = shared
      BY DEF Keeps
    <2> QED
      BY <2>1, <2>2 DEF AccountsInv, Applying
  <1>6. Decided'
    BY DEF AccountsInv, Decided, Keeps
  <1> QED
    BY <1>2, <1>4, <1>5, <1>6 DEF AccountsInv

LEMMA BeginAccounts ==
    ASSUME Typed, AccountsInv, NEW n \in Nodes, Begins(n)
    PROVE  AccountsInv'
  <1>0. /\ Turn(n) /\ UNCHANGED <<db, decided, shared, ed>> /\ s \in [Nodes -> Records]
        /\ db \in Seq(Recs) /\ DOMAIN db = 1..Len(db) /\ Len(db) \in Nat
    BY DEF Begins, account, Typed, TypeOK, AccountOK
  <1>1. \A m \in Nodes \ {n} : s'[m] = s[m]
    BY <1>0 DEF Turn, Others
  <1>2. OneCall'
    <2>1. s'[n].rec = s[n].rec \/ \A m \in Nodes : Who(m) # s'[n].rec.who
      BY DEF Begins, Calls
    <2> QED
      BY <1>1, <2>1 DEF AccountsInv, OneCall, Who
  <1>3. Copies'
    <2>1. In(n)' => s'[n].id \in DOMAIN db /\ s'[n].rec = db[s'[n].id]
      BY DEF Begins, In, Inside
    <2>2. \A m \in Nodes \ {n} : In(m)' => In(m)
      BY <1>1 DEF In
    <2> QED
      BY <1>0, <1>1, <2>1, <2>2 DEF AccountsInv, Copies
  <1>4. Applying'
    <2>1. s'[n].pc = "apply" => s'[n].k <= Len(db) + 1
      <3>1. CASE s'[n].k = 1
        BY <1>0, <3>1
      <3>2. CASE s[n].pc = "apply" /\ ~Vacant(s[n].k) /\ s'[n].k = s[n].k + 1
        <4>1. s[n].k \in Nat /\ ~(s[n].k > Len(db))
          BY <1>0, <3>2 DEF Vacant, Records
        <4> QED
          BY <1>0, <3>2, <4>1
      <3> QED
        BY <3>1, <3>2 DEF Begins
    <2>2. s'[n].pc = "found" => /\ s'[n].id <= Len(db) + 1
                                /\ s'[n].id \in DOMAIN db \ shared => decided[s'[n].id] = NoRec
      <3> SUFFICES ASSUME s'[n].pc = "found"
                   PROVE  /\ s'[n].id <= Len(db) + 1
                          /\ s'[n].id \in DOMAIN db \ shared => decided[s'[n].id] = NoRec
        OBVIOUS
      <3>1. s[n].pc = "apply" /\ Vacant(s[n].k) /\ s'[n].id = s[n].k
        BY DEF Begins
      <3>2. s[n].k <= Len(db) + 1
        BY <3>1 DEF AccountsInv, Applying
      <3>3. ASSUME s[n].k \in DOMAIN db \ shared
            PROVE  decided[s[n].k] = NoRec
        <4>1. db[s[n].k].status = "deleted" /\ db[s[n].k] \in Recs
          BY <1>0, <3>1, <3>3 DEF Vacant
        <4>2. db[s[n].k] = NoRec
          BY <4>1 DEF Recs
        <4> QED
          BY <3>3, <4>2 DEF AccountsInv, Decided
      <3> QED
        BY <3>1, <3>2, <3>3
    <2> QED
      BY <1>0, <1>1, <2>1, <2>2 DEF AccountsInv, Applying
  <1>5. Decided'
    BY <1>0 DEF AccountsInv, Decided
  <1> QED
    BY <1>2, <1>3, <1>4, <1>5 DEF AccountsInv

\* Those who have a slot that nobody else has a copy of are its one holder.
LEMMA SaveAccounts ==
    ASSUME Typed, AccountsInv, NEW n \in Nodes, Saved(n)
    PROVE  AccountsInv'
  <1> DEFINE i == s[n].id
  <1>0. Turn(n) /\ UNCHANGED ed /\ s[n].pc = "found" /\ i \in Slots
    BY InSlots DEF Saved
  <1>1. PICK his \in BOOLEAN : Decides(n, i, s[n].rec, his) /\ (i \notin shared => his)
    BY SavedDecides DEF SavedTo
  <1>2. \A m \in Nodes \ {n} : s'[m] = s[m]
    BY <1>0 DEF Turn, Others
  <1>3. s'[n].rec = s[n].rec \/ s'[n].rec = NoRec
    BY FreeIs DEF Saved
  <1>4. OneCall'
    BY <1>2, <1>3, RecWho DEF AccountsInv, OneCall, Who
  <1>5. /\ \A m \in Nodes \ {n} : s[m].id = i => i \in shared'
        /\ \A e \in Sysops : ed[e].id = i => i \in shared'
    BY <1>1, AccountsAssumption DEF Decides, Holders
  <1>6. In(n)' => s'[n].id = i /\ s'[n].rec = db'[i] /\ i \in DOMAIN db'
    BY <1>1, FreeIs DEF Saved, Decides, In, Inside
  <1>7. Copies'
    <2>1. ASSUME NEW m \in Nodes, In(m)'
          PROVE  s'[m].id \in DOMAIN db' /\ (s'[m].id \notin shared' => s'[m].rec = db'[s'[m].id])
      <3>1. CASE m = n
        BY <1>6, <2>1, <3>1
      <3>2. CASE m # n
        <4>1. s'[m] = s[m] /\ In(m)
          BY <1>2, <2>1, <3>2 DEF In
        <4>2. s[m].id \in DOMAIN db /\ (s[m].id \notin shared => s[m].rec = db[s[m].id])
          BY <4>1 DEF AccountsInv, Copies
        <4> QED
          BY <1>1, <1>5, <3>2, <4>1, <4>2 DEF Decides
      <3> QED
        BY <3>1, <3>2
    <2>2. ASSUME NEW e \in Sysops, ed'[e].id # 0
          PROVE  /\ ed'[e].id \in DOMAIN db' /\ ed'[e].rec # NoRec
                 /\ ed'[e].id \notin shared' => ed'[e].rec = db'[ed'[e].id]
      <3>1. /\ ed[e].id \in DOMAIN db /\ ed[e].rec # NoRec /\ (ed[e].id \notin shared => ed[e].rec = db[ed[e].id])
            /\ ed' = ed
        BY <1>0, <2>2 DEF AccountsInv, Copies
      <3> QED
        BY <1>1, <1>5, <3>1 DEF Decides
    <2> QED
      BY <2>1, <2>2 DEF Copies
  <1>8. Applying'
    <2>0. /\ DOMAIN db' = DOMAIN db \cup {i} /\ Len(db) \in Nat /\ Len(db') \in Nat /\ Len(db) <= Len(db')
          /\ s \in [Nodes -> Records]
      BY <1>1, AccountsAssumption DEF Decides, Typed, TypeOK, AccountOK, Slots
    <2>1. \A m \in Nodes : s'[m].pc \in {"apply", "found"} => m # n /\ s'[m] = s[m]
      BY <1>2, FreeIs DEF Saved
    <2>2. ASSUME NEW m \in Nodes, s'[m].pc = "apply"
          PROVE  s'[m].k <= Len(db') + 1
      <3>1. s'[m] = s[m] /\ s[m].k <= Len(db) + 1 /\ s[m].k \in Nat
        BY <2>0, <2>1, <2>2 DEF AccountsInv, Applying, Records
      <3> QED
        BY <2>0, <3>1
    <2>3. ASSUME NEW m \in Nodes, s'[m].pc = "found"
          PROVE  /\ s'[m].id <= Len(db') + 1
                 /\ s'[m].id \in DOMAIN db' \ shared' => decided'[s'[m].id] = NoRec
      <3>1. /\ m # n /\ s'[m] = s[m] /\ s[m].id <= Len(db) + 1 /\ s[m].id \in Nat
            /\ s[m].id \in DOMAIN db \ shared => decided[s[m].id] = NoRec
        BY <2>0, <2>1, <2>3 DEF AccountsInv, Applying, Records
      <3>2. s[m].id <= Len(db') + 1
        BY <2>0, <3>1
      <3>3. s[m].id \in DOMAIN db' \ shared' => decided'[s[m].id] = NoRec
        BY <1>1, <1>5, <2>0, <3>1 DEF Decides
      <3> QED
        BY <3>1, <3>2, <3>3
    <2> QED
      BY <2>2, <2>3 DEF Applying
  <1>9. Decided'
    <2>1. ASSUME NEW j \in DOMAIN db' \ shared'
          PROVE  db'[j] = decided'[j]
      <3>1. CASE j = i
        BY <1>1, <2>1, <3>1 DEF Decides
      <3>2. CASE j # i
        BY <1>1, <2>1, <3>2 DEF Decides, AccountsInv, Decided
      <3> QED
        BY <3>1, <3>2
    <2> QED
      BY <2>1 DEF Decided
  <1> QED
    BY <1>4, <1>7, <1>8, <1>9 DEF AccountsInv

LEMMA EditAccounts ==
    ASSUME Typed, AccountsInv, NEW e \in Sysops, Edits(e)
    PROVE  AccountsInv'
  <1>0. UNCHANGED s /\ (\A f \in Sysops \ {e} : ed'[f] = ed[f])
    BY DEF Edits
  <1>1. OneCall'
    BY <1>0 DEF AccountsInv, OneCall, Who
  <1>2. CASE UNCHANGED account /\ (ed'[e].id # 0 => ed'[e].id \in DOMAIN db /\ ed'[e].rec = db[ed'[e].id] /\ ed'[e].rec # NoRec)
    <2>1. Copies'
      BY <1>0, <1>2 DEF AccountsInv, Copies, In, account
    <2>2. Applying' /\ Decided'
      BY <1>0, <1>2 DEF AccountsInv, Applying, Decided, account
    <2> QED
      BY <1>1, <2>1, <2>2 DEF AccountsInv
  <1>3. ASSUME NEW r \in Recs, Decides(e, ed[e].id, r, TRUE), ed'[e].id = 0, ed[e].id # 0
        PROVE  AccountsInv'
    <2> DEFINE i == ed[e].id
    <2>1. /\ \A m \in Nodes : s[m].id = i => i \in shared'
          /\ \A f \in Sysops \ {e} : ed[f].id = i => i \in shared'
      BY <1>3, AccountsAssumption DEF Decides, Holders
    <2>2. i \in DOMAIN db
      BY <1>3 DEF AccountsInv, Copies
    <2>3. Copies'
      <3>1. ASSUME NEW m \in Nodes, In(m)
            PROVE  s[m].id \in DOMAIN db' /\ (s[m].id \notin shared' => s[m].rec = db'[s[m].id])
        BY <1>3, <2>1, <3>1 DEF AccountsInv, Copies, Decides
      <3>2. ASSUME NEW f \in Sysops, ed'[f].id # 0
            PROVE  /\ ed'[f].id \in DOMAIN db' /\ ed'[f].rec # NoRec
                   /\ ed'[f].id \notin shared' => ed'[f].rec = db'[ed'[f].id]
        <4>1. f # e /\ ed'[f] = ed[f]
          BY <1>0, <1>3, <3>2
        <4>2. ed[f].id \in DOMAIN db /\ ed[f].rec # NoRec /\ (ed[f].id \notin shared => ed[f].rec = db[ed[f].id])
          BY <3>2, <4>1 DEF AccountsInv, Copies
        <4> QED
          BY <1>3, <2>1, <4>1, <4>2 DEF Decides
      <3> QED
        BY <1>0, <3>1, <3>2 DEF Copies, In
    <2>4. Applying'
      <3>0. /\ DOMAIN db' = DOMAIN db /\ Len(db) \in Nat /\ Len(db') \in Nat /\ Len(db) <= Len(db')
            /\ s \in [Nodes -> Records]
        BY <1>3, <2>2, AccountsAssumption DEF Decides, Typed, TypeOK, AccountOK, Slots
      <3>1. ASSUME NEW m \in Nodes, s[m].pc = "apply"
            PROVE  s[m].k <= Len(db') + 1
        <4>1. s[m].k <= Len(db) + 1 /\ s[m].k \in Nat
          BY <3>0, <3>1 DEF AccountsInv, Applying, Records
        <4> QED
          BY <3>0, <4>1
      <3>2. ASSUME NEW m \in Nodes, s[m].pc = "found"
            PROVE  s[m].id <= Len(db') + 1 /\ (s[m].id \in DOMAIN db' \ shared' => decided'[s[m].id] = NoRec)
        <4>1. /\ s[m].id <= Len(db) + 1 /\ s[m].id \in Nat
              /\ s[m].id \in DOMAIN db \ shared => decided[s[m].id] = NoRec
          BY <3>0, <3>2 DEF AccountsInv, Applying, Records
        <4>2. s[m].id <= Len(db') + 1
          BY <3>0, <4>1
        <4> QED
          BY <1>3, <2>1, <3>0, <4>1, <4>2 DEF Decides
      <3> QED
        BY <1>0, <3>1, <3>2 DEF Applying
    <2>5. Decided'
      <3>1. ASSUME NEW j \in DOMAIN db' \ shared'
            PROVE  db'[j] = decided'[j]
        <4>1. CASE j = i
          BY <1>3, <4>1 DEF Decides
        <4>2. CASE j # i
          BY <1>3, <3>1, <4>2 DEF Decides, AccountsInv, Decided
        <4> QED
          BY <4>1, <4>2
      <3> QED
        BY <3>1 DEF Decided
    <2> QED
      BY <1>1, <2>3, <2>4, <2>5 DEF AccountsInv
  <1> QED
    BY <1>2, <1>3 DEF Edits

LEMMA NextAccounts ==
    ASSUME Typed, AccountsInv, MailInv, [Next]_vars
    PROVE  AccountsInv'
  <1>1. ASSUME NEW n \in Nodes, Session(n)
        PROVE  AccountsInv'
    <2>0. Acts(n)
      BY <1>1, SessionSteps
    <2>1. CASE Begins(n)
      BY <2>1, BeginAccounts
    <2>2. CASE Saved(n)
      BY <2>2, SaveAccounts
    <2>3. CASE Copied(n)
      <3>1. /\ Others(n) /\ UNCHANGED <<ed, decided, shared>> /\ In(n) /\ In(n)'
            /\ s'[n].id = s[n].id /\ s'[n].rec = s[n].rec
        BY <2>3 DEF Copied, Moves, Same, Changes, Turn, Elsewhere
      <3>2. Keeps
        BY <2>3, <3>1, KeepsCopy DEF Copied
      <3> QED
        BY <3>1, <3>2, StayAccounts
    <2>4. CASE Leaves(n)
      <3>1. Others(n) /\ UNCHANGED <<ed, decided, shared>> /\ In(n) /\ s'[n] = Free /\ db' = Put(db, s[n].id, s[n].rec)
        BY <2>4 DEF Leaves, Turn
      <3>2. Keeps
        BY <3>1, KeepsCopy
      <3> QED
        BY <3>1, <3>2, StayAccounts
    <2>5. ASSUME NEW b \in Bases, Scanning(n, b)
          PROVE  AccountsInv'
      <3>1. /\ Others(n) /\ UNCHANGED <<ed, db, decided, shared>> /\ In(n) /\ In(n)'
            /\ s'[n].id = s[n].id /\ s'[n].rec = s[n].rec
        BY <2>5 DEF Scanning, Changes, Turn, Elsewhere
      <3>2. Keeps
        BY <3>1, KeepsCopy
      <3> QED
        BY <3>1, <3>2, StayAccounts
    <2>6. CASE Passed(n)
      <3>1. /\ Others(n) /\ UNCHANGED <<ed, db, decided, shared>> /\ In(n) /\ In(n)'
            /\ s'[n].id = s[n].id /\ s'[n].rec = s[n].rec
        BY <2>6, PassedPasses DEF Passes, Turn, Beside, account
      <3>2. Keeps
        BY <3>1, KeepsCopy
      <3> QED
        BY <3>1, <3>2, StayAccounts
    <2> QED
      BY <2>0, <2>1, <2>2, <2>3, <2>4, <2>5, <2>6 DEF Acts
  <1>2. ASSUME NEW e \in Sysops, Editor(e)
        PROVE  AccountsInv'
    BY <1>2, EditSteps, EditAccounts
  <1>3. ASSUME (\E m \in Mailed : PostNumber(m[1], m[2])) \/ PostHeader \/ PostText
        PROVE  AccountsInv'
    <2>1. /\ UNCHANGED <<db, decided, shared, ed>>
          /\ \A n \in Nodes : s'[n].pc = s[n].pc /\ s'[n].id = s[n].id /\ s'[n].rec = s[n].rec /\ s'[n].k = s[n].k
      BY <1>3, PostSteps DEF Posting, account
    <2>2. OneCall' /\ Copies' /\ Applying' /\ Decided'
      BY <2>1 DEF AccountsInv, OneCall, Who, Copies, In, Applying, Decided
    <2> QED
      BY <2>2 DEF AccountsInv
  <1>4. ASSUME UNCHANGED vars
        PROVE  AccountsInv'
    BY <1>4 DEF vars, account, AccountsInv, OneCall, Who, Copies, In, Applying, Decided
  <1> QED
    BY <1>1, <1>2, <1>3, <1>4 DEF Next

-----------------------------------------------------------------------------
(* Mail. *)

LEMMA PostMail ==
    ASSUME Typed, MailInv, Posting, (\E b \in Bases, x \in Persons : Numbered(b, x)) \/ Headed \/ Texted
    PROVE  MailInv'
  <1>0. /\ high \in [Bases -> Nat] /\ dat \in [Bases -> Seq(Headers)] /\ post \in Posts
        /\ dat' \in [Bases -> Seq(Headers)] /\ post' \in Posts
    BY DEF Typed, TypeOK, FilesOK, Posting
  <1>1. NoPost.step = "none" /\ NoPost.base \notin Bases
    BY AccountsAssumption DEF NoPost
  <1>2. \A b \in Bases : /\ Len(dat[b]) \in Nat /\ DOMAIN dat[b] = 1..Len(dat[b])
                         /\ Len(dat'[b]) \in Nat /\ DOMAIN dat'[b] = 1..Len(dat'[b])
    BY <1>0
  <1>3. ASSUME NEW b \in Bases, NEW x \in Persons, Numbered(b, x)
        PROVE  MailInv'
    <2>1. /\ post' # NoPost /\ post'.step = "number" /\ post'.base = b /\ post'.to = x /\ post'.num = high'[b]
          /\ UNCHANGED dat
      BY <1>1, <1>3 DEF Numbered
    <2>2. ASSUME NEW c \in Bases
          PROVE  /\ high'[c] = IF post'.base = c THEN Len(dat[c]) + 1 ELSE Len(dat[c])
                 /\ \A k \in DOMAIN dat[c] : dat[c][k].num = k /\ dat[c][k].text
      BY <1>1, <1>3, <2>1 DEF Numbered, MailInv, Saving
    <2> QED
      BY <2>1, <2>2 DEF MailInv, Saving
  <1>4. CASE Headed
    <2> DEFINE b == post.base
               new == Len(dat[b]) + 1
    <2>1. b \in Bases /\ post.to \in Persons /\ post.num = high[b] /\ high[b] = new /\ post.step = "number"
      BY <1>1, <1>4 DEF Headed, MailInv, Saving
    <2>2. /\ post' # NoPost /\ post'.step = "header" /\ post'.base = b /\ post'.to = post.to /\ post'.num = high'[b]
          /\ UNCHANGED high
      BY <1>1, <1>4, <2>1 DEF Headed
    <2>3. /\ Len(dat'[b]) = new /\ dat'[b][new].to = post.to /\ dat'[b][new].num = new
          /\ \A k \in 1..Len(dat[b]) : dat'[b][k] = dat[b][k]
      BY <1>4, <2>1 DEF Headed
    <2>4. \A k \in 1..Len(dat[b]) : dat[b][k].num = k /\ dat[b][k].text
      BY <1>2, <2>1 DEF MailInv, Saving
    <2>5. \A k \in DOMAIN dat'[b] : dat'[b][k].num = k /\ (dat'[b][k].text \/ k = Len(dat'[b]))
      <3> TAKE k \in DOMAIN dat'[b]
      <3>1. k \in 1..Len(dat[b]) \/ k = new
        BY <1>2, <2>1, <2>3
      <3> QED
        BY <2>3, <2>4, <3>1
    <2>6. Len(dat'[b]) > 0 /\ high'[b] = Len(dat'[b])
      BY <1>2, <2>1, <2>2, <2>3
    <2>7. \A c \in Bases \ {b} : /\ dat'[c] = dat[c] /\ high[c] = Len(dat[c])
                                 /\ \A k \in DOMAIN dat[c] : dat[c][k].num = k /\ dat[c][k].text
      BY <1>4, <2>1 DEF Headed, MailInv, Saving
    <2> HIDE DEF b, new
    <2>8. ASSUME NEW c \in Bases
          PROVE  /\ high'[c] = Len(dat'[c])
                 /\ c = b => Len(dat'[c]) > 0 /\ dat'[c][Len(dat'[c])].to = post'.to
                 /\ \A k \in DOMAIN dat'[c] :
                        dat'[c][k].num = k /\ (dat'[c][k].text \/ (c = b /\ k = Len(dat'[c])))
      <3>1. CASE c = b
        BY <2>2, <2>3, <2>5, <2>6, <3>1
      <3>2. CASE c # b
        BY <2>2, <2>7, <3>2
      <3> QED
        BY <3>1, <3>2
    <2> QED
      BY <2>1, <2>2, <2>8, <1>1 DEF MailInv, Saving
  <1>5. CASE Texted
    <2> DEFINE b == post.base
               last == Len(dat[b])
    <2>1. b \in Bases /\ last > 0 /\ high[b] = last /\ post.step = "header"
      BY <1>1, <1>5 DEF Texted, MailInv, Saving
    <2>2. /\ post' = NoPost /\ UNCHANGED high /\ Len(dat'[b]) = last
          /\ \A k \in 1..(last - 1) : dat'[b][k] = dat[b][k]
          /\ dat'[b][last].num = dat[b][last].num /\ dat'[b][last].text
      BY <1>5 DEF Texted
    <2>3. \A k \in 1..last : dat[b][k].num = k /\ (dat[b][k].text \/ k = last)
      BY <1>2, <2>1 DEF MailInv
    <2>4. \A k \in DOMAIN dat'[b] : dat'[b][k].num = k /\ dat'[b][k].text
      <3> TAKE k \in DOMAIN dat'[b]
      <3>1. k \in 1..last /\ (k \in 1..(last - 1) \/ k = last)
        BY <1>2, <2>1, <2>2
      <3>2. CASE k = last
        BY <2>2, <2>3, <3>1, <3>2
      <3>3. CASE k # last
        BY <2>2, <2>3, <3>1, <3>3
      <3> QED
        BY <3>2, <3>3
    <2>5. \A c \in Bases \ {b} : /\ dat'[c] = dat[c] /\ high[c] = Len(dat[c])
                                 /\ \A k \in DOMAIN dat[c] : dat[c][k].num = k /\ dat[c][k].text
      BY <1>5, <2>1 DEF Texted, MailInv, Saving
    <2>6. \A c \in Bases : /\ high'[c] = Len(dat'[c])
                           /\ \A k \in DOMAIN dat'[c] : dat'[c][k].num = k /\ dat'[c][k].text
      BY <2>1, <2>2, <2>4, <2>5
    <2> QED
      BY <1>1, <2>2, <2>6 DEF MailInv, Saving
  <1> QED
    BY <1>3, <1>4, <1>5

LEMMA NextMail ==
    ASSUME Typed, AccountsInv, MailInv, [Next]_vars
    PROVE  MailInv'
  <1>1. ASSUME UNCHANGED mail
        PROVE  MailInv'
    BY <1>1 DEF mail, MailInv, Saving
  <1>2. ASSUME NEW n \in Nodes, Session(n)
        PROVE  UNCHANGED mail
    <2>1. Acts(n)
      BY <1>2, SessionSteps
    <2>2. Passed(n) => UNCHANGED mail
      BY PassedPasses DEF Passes, Beside
    <2> QED
      BY <2>1, <2>2 DEF Acts, Begins, Saved, Copied, Moves, Elsewhere, Leaves, Scanning, mail
  <1>3. ASSUME NEW e \in Sysops, Editor(e)
        PROVE  UNCHANGED mail
    BY <1>3, EditSteps DEF Edits
  <1>4. ASSUME (\E m \in Mailed : PostNumber(m[1], m[2])) \/ PostHeader \/ PostText
        PROVE  MailInv'
    BY <1>4, PostSteps, PostMail
  <1>5. ASSUME UNCHANGED vars
        PROVE  UNCHANGED mail
    BY <1>5 DEF vars
  <1> QED
    BY <1>1, <1>2, <1>3, <1>4, <1>5 DEF Next

-----------------------------------------------------------------------------
(* Mail and pointers. *)

LEMMA Mails ==
    ASSUME Typed, MailInv, NEW b \in Bases
    PROVE  /\ dat[b] \in Seq(Headers) /\ Len(dat[b]) \in Nat /\ DOMAIN dat[b] = 1..Len(dat[b]) /\ high[b] \in Nat
           /\ Len(dat[b]) <= high[b] /\ high[b] <= Len(dat[b]) + 1
           /\ ~Saving(b, "number") => high[b] = Len(dat[b])
           /\ Saving(b, "number") => high[b] = Len(dat[b]) + 1 /\ post.num = high[b]
           /\ Saving(b, "header") => post.num = high[b]
           /\ \A k \in DOMAIN dat[b] : dat[b][k].num = k /\ (dat[b][k].text \/ (Saving(b, "header") /\ k = Len(dat[b])))
  <1>1. dat[b] \in Seq(Headers) /\ high[b] \in Nat
    BY DEF Typed, TypeOK, FilesOK
  <1>2. Len(dat[b]) \in Nat /\ DOMAIN dat[b] = 1..Len(dat[b])
    BY <1>1
  <1>3. high[b] = IF Saving(b, "number") THEN Len(dat[b]) + 1 ELSE Len(dat[b])
    BY DEF MailInv
  <1>4. Saving(b, "number") \/ Saving(b, "header") => post.num = high[b]
    BY DEF MailInv, Saving, NoPost
  <1>5. \A k \in DOMAIN dat[b] : dat[b][k].num = k /\ (dat[b][k].text \/ (Saving(b, "header") /\ k = Len(dat[b])))
    BY DEF MailInv
  <1> QED
    BY <1>1, <1>2, <1>3, <1>4, <1>5

\* What can be for someone has a number.
LEMMA ForHigh ==
    ASSUME Typed, MailInv, NEW b \in Bases, NEW x, NEW k \in Nat, For(x, b, k)
    PROVE  k <= high[b] /\ ((k \in DOMAIN dat[b] /\ dat[b][k].to = x) \/ (Saving(b, "number") /\ k = high[b]))
  <1>1. /\ Len(dat[b]) \in Nat /\ DOMAIN dat[b] = 1..Len(dat[b]) /\ high[b] \in Nat /\ Len(dat[b]) <= high[b]
        /\ Saving(b, "number") => post.num = high[b]
    BY Mails
  <1> QED
    BY <1>1 DEF For

LEMMA HisAll ==
    ASSUME Typed, MailInv, NEW b \in Bases, NEW x, NEW t, NEW j \in DOMAIN dat[b], dat[b][j].text, dat[b][j].to = x, j \in t
    PROVE  j \in His(x, b, t)
  <1> DEFINE g == dat[b][j]
  <1>1. g \in Range(dat[b]) /\ g.num = j
    BY Mails DEF Range
  <1>2. g \in Complete(b)
    BY <1>1 DEF Complete
  <1> HIDE DEF g
  <1> QED
    BY <1>1, <1>2 DEF His, g

\* The headers looked at are all of the new ones, if none was written since highest was read.
LEMMA NewsAll ==
    ASSUME Typed, MailInv, NEW n \in Nodes, OpenRead(n), s[n].pc = "base", ~s[n].busy,
           NEW j \in Nat, j > Top(s[n].p), j <= s[n].top, For(Who(n), s[n].base, j)
    PROVE  j \in News(n) /\ j \in His(Who(n), s[n].base, News(n))
  <1> DEFINE b == s[n].base
             d == dat[b]
             from == Top(s[n].p)
             top == s[n].top
             m == Bigger(0, Len(d) - (top - from + 2)) + 1
  <1>1. b \in Bases /\ from \in Nat /\ s[n] \in Records
    BY InSlots, TopNat DEF Sound, Records
  <1>2. d \in Seq(Headers) /\ Len(d) \in Nat /\ DOMAIN d = 1..Len(d)
    BY <1>1, Mails
  <1>3. top = Len(d) /\ ~Saving(b, "header")
    BY DEF OpenRead
  <1>4. j \in DOMAIN d /\ d[j].to = Who(n) /\ d[j].num = j /\ d[j].text
    <2>1. ~(Saving(b, "number") /\ j = high[b])
      BY <1>1, <1>2, <1>3, Mails
    <2> QED
      BY <1>1, <1>3, <2>1, Mails, ForHigh
  <1>5. m \in Nat /\ m >= 1 /\ m <= j
    BY <1>1, <1>2, <1>3 DEF Bigger
  <1>6. d[j] \in Range(SubSeq(d, m, Len(d)))
    <2> HIDE DEF m, d
    <2>1. j - m + 1 \in DOMAIN SubSeq(d, m, Len(d)) /\ SubSeq(d, m, Len(d))[j - m + 1] = d[j]
      BY <1>2, <1>4, <1>5
    <2> QED
      BY <2>1 DEF Range
  <1>7. d[j] \in Range(Looked(b, top, from))
    BY <1>6 DEF Looked
  <1>8. j \in News(n)
    <2>1. d[j] \in {g \in Range(Looked(s[n].base, s[n].top, Top(s[n].p))) :
                        g.num > Top(s[n].p) /\ g.text /\ g.to = Who(n)}
      BY <1>4, <1>7
    <2> HIDE DEF d
    <2> QED
      BY <1>4, <2>1 DEF News
  <1> QED
    BY <1>1, <1>4, <1>8, HisAll

-----------------------------------------------------------------------------
(* Covered is kept while mail stays and history grows. *)

Grow == \A x \in Persons, b \in Bases : told[x][b] \subseteq told'[x][b] /\ left[x][b] \subseteq left'[x][b]

LEMMA CoveredKept ==
    ASSUME NEW x \in Persons, NEW b \in Bases, NEW m, UNCHANGED mail, Grow, Covered(x, b, m)
    PROVE  Covered(x, b, m)'
  <1>1. \A k : For(x, b, k)' <=> For(x, b, k)
    BY DEF For, Saving, mail
  <1> QED
    BY <1>1 DEF Covered, Grow

\* The pointers of a slot, unless what is on file is what a session writes.
LrpStep(b, i) ==
    \/ lrp'[b][i] = lrp[b][i]
    \/ \E n \in Nodes : In(n) /\ b = s[n].file /\ i = s[n].id /\ lrp'[b][i] = s[n].p

\* The account of a slot is still that of the same person.
DbStep(i) ==
    i \in DOMAIN db' \ shared' /\ db'[i] # NoRec =>
        i \in DOMAIN db \ shared /\ db[i] # NoRec /\ db'[i].who = db[i].who

LEMMA CopyOf ==
    ASSUME Typed, AccountsInv, NEW n \in Nodes, In(n)
    PROVE  /\ s[n].id \in Slots /\ s[n].id \in DOMAIN db /\ s[n].rec # NoRec /\ Who(n) \in Persons
           /\ s[n].id \notin shared => s[n].rec = db[s[n].id]
  <1>1. s[n].rec # NoRec /\ s[n].rec \in Recs /\ s[n].id \in Slots
    BY InSlots DEF Sound, In, Inside, Records
  <1> QED
    BY <1>1, RecWho DEF AccountsInv, Copies, Who

LEMMA SlotKept ==
    ASSUME Typed, AccountsInv, ReadInv, NEW b \in Bases, NEW i \in Slots, LrpStep(b, i), DbStep(i), UNCHANGED mail, Grow
    PROVE  SlotRead(b, i)'
  <1> PICK q : q = lrp'[b][i]
    OBVIOUS
  <1> PICK x : x = db[i].who
    OBVIOUS
  <1>1. Top(q) <= high[b] /\ (i \in DOMAIN db \ shared /\ db[i] # NoRec => Covered(x, b, Top(q)))
    <2>1. CASE lrp'[b][i] = lrp[b][i]
      BY <2>1 DEF ReadInv, SlotRead
    <2>2. ASSUME NEW n \in Nodes, In(n), b = s[n].file, i = s[n].id, lrp'[b][i] = s[n].p
          PROVE  Top(q) <= high[b] /\ (i \in DOMAIN db \ shared /\ db[i] # NoRec => Covered(x, b, Top(q)))
      <3>1. OpenRead(n) /\ b # NoBase
        BY AccountsAssumption DEF ReadInv
      <3>2. i \notin shared => Who(n) = x
        BY <2>2, CopyOf DEF Who
      <3> QED
        BY <2>2, <3>1, <3>2 DEF OpenRead
    <2> QED
      BY <2>1, <2>2 DEF LrpStep
  <1>2. high' = high
    BY DEF mail
  <1>3. ASSUME i \in DOMAIN db' \ shared', db'[i] # NoRec
        PROVE  Covered(x, b, Top(q))' /\ db'[i].who = x
    <2>1. i \in DOMAIN db \ shared /\ db[i] # NoRec /\ db'[i].who = x
      BY <1>3 DEF DbStep
    <2>2. x \in Persons
      BY <2>1, RecWho DEF Typed, TypeOK, AccountOK
    <2>3. Covered(x, b, Top(q))
      BY <1>1, <2>1
    <2> QED
      BY <2>1, <2>2, <2>3, CoveredKept
  <1>4. Top(q) <= high'[b] /\ (i \in DOMAIN db' \ shared' /\ db'[i] # NoRec => Covered(x, b, Top(q))' /\ db'[i].who = x)
    BY <1>1, <1>2, <1>3
  <1> QED
    BY <1>4, Zenon DEF SlotRead

\* The pointers of a session that does nothing.
LEMMA OpenKept ==
    ASSUME Typed, AccountsInv, NEW n \in Nodes, OpenRead(n), s'[n] = s[n], shared \subseteq shared', UNCHANGED mail, Grow
    PROVE  OpenRead(n)'
  <1> PICK r : r = s[n]
    OBVIOUS
  <1>0. r \in Records /\ Sound(r) /\ s'[n] = r
    BY InSlots
  <1>1. high' = high /\ dat' = dat /\ post' = post
    BY DEF mail
  <1>2. /\ r.file # NoBase => Top(r.p) <= high'[r.file]
        /\ r.pc \in {"base", "list"} => Top(r.p) <= r.top /\ r.top <= high'[r.base]
        /\ r.pc = "base" /\ ~r.busy => r.top = Len(dat'[r.base]) /\ ~(post'.step = "header" /\ post'.base = r.base)
    BY <1>1 DEF OpenRead, Saving
  <1>3. ASSUME r.pc \in Inside, r.id \notin shared'
        PROVE  /\ r.file # NoBase => Covered(r.rec.who, r.file, Top(r.p))'
               /\ r.pc = "list" /\ ~r.busy => Covered(r.rec.who, r.base, r.top)'
    <2>1. In(n) /\ r.id \notin shared
      BY <1>3 DEF In
    <2>2. r.rec.who \in Persons /\ r.rec.who = Who(n)
      BY <2>1, CopyOf DEF Who
    <2>3. ASSUME r.file # NoBase
          PROVE  Covered(r.rec.who, r.file, Top(r.p))'
      <3>1. Covered(r.rec.who, r.file, Top(r.p)) /\ r.file \in Bases
        BY <1>0, <2>1, <2>2, <2>3 DEF OpenRead, Records
      <3> QED
        BY <2>2, <3>1, CoveredKept
    <2>4. ASSUME r.pc = "list", ~r.busy
          PROVE  Covered(r.rec.who, r.base, r.top)'
      <3>1. Covered(r.rec.who, r.base, r.top) /\ r.base \in Bases
        BY <1>0, <2>1, <2>2, <2>4 DEF OpenRead, Records, Sound
      <3> QED
        BY <2>2, <3>1, CoveredKept
    <2> QED
      BY <2>3, <2>4
  <1> QED
    BY <1>0, <1>2, <1>3, Zenon DEF OpenRead, Who, In, Saving

-----------------------------------------------------------------------------
(* What is passed was shown or left behind. *)

\* Nothing is read; a session may write its pointers and read others.
LEMMA BesideRead ==
    ASSUME Typed, AccountsInv, ReadInv, UNCHANGED mail, Grow, shared \subseteq shared',
           \A b \in Bases, i \in Slots : LrpStep(b, i), \A i \in Slots : DbStep(i)
    PROVE  \A b \in Bases, i \in Slots : SlotRead(b, i)'
  BY SlotKept

LEMMA FlushedAs ==
    ASSUME Typed, NEW n \in Nodes, In(n), lrp' = Flushed(s[n]) \/ UNCHANGED lrp
    PROVE  /\ \A b \in Bases, i \in Slots : LrpStep(b, i)
           /\ \A b \in Bases, i \in Slots : <<b, i>> # <<s[n].file, s[n].id>> => lrp'[b][i] = lrp[b][i]
           /\ lrp' = Flushed(s[n]) /\ s[n].file # NoBase =>
                  lrp'[s[n].file][s[n].id] = IF s[n].old # s[n].p THEN s[n].p ELSE lrp[s[n].file][s[n].id]
  <1> DEFINE f == s[n].file
             i == s[n].id
  <1>0. lrp \in [Bases -> [Slots -> Pairs]] /\ f \in Bases \cup {NoBase} /\ i \in Slots
    BY InSlots DEF Typed, TypeOK, FilesOK, Records
  <1>1. CASE UNCHANGED lrp \/ f = NoBase \/ s[n].old = s[n].p
    <2>1. UNCHANGED lrp
      BY <1>1 DEF Flushed
    <2>2. lrp' = Flushed(s[n]) /\ f # NoBase => lrp'[f][i] = IF s[n].old # s[n].p THEN s[n].p ELSE lrp[f][i]
      <3> SUFFICES ASSUME lrp' = Flushed(s[n]), f # NoBase, s[n].old # s[n].p PROVE lrp'[f][i] = s[n].p
        BY <2>1
      <3>1. lrp' = [lrp EXCEPT ![f][i] = s[n].p] /\ f \in Bases
        BY <1>0 DEF Flushed
      <3> QED
        BY <1>0, <3>1
    <2> QED
      BY <2>1, <2>2 DEF LrpStep
  <1>2. CASE lrp' = Flushed(s[n]) /\ f # NoBase /\ s[n].old # s[n].p
    <2>1. lrp' = [lrp EXCEPT ![f][i] = s[n].p] /\ f \in Bases
      BY <1>0, <1>2 DEF Flushed
    <2>2. lrp'[f][i] = s[n].p /\ \A b \in Bases, j \in Slots : <<b, j>> # <<f, i>> => lrp'[b][j] = lrp[b][j]
      BY <1>0, <2>1
    <2> QED
      BY <1>2, <2>2 DEF LrpStep
  <1> QED
    BY <1>1, <1>2

LEMMA KeepsSteps ==
    ASSUME Typed, AccountsInv, Keeps
    PROVE  shared \subseteq shared' /\ \A i \in Slots : DbStep(i)
  BY DEF Keeps, DbStep

\* A session that is not in, or without pointers.
LEMMA OpenNone ==
    ASSUME NEW n \in Nodes, s'[n].file = NoBase, s'[n].pc \notin {"base", "list"}
    PROVE  OpenRead(n)'
  BY DEF OpenRead

LEMMA SameRead ==
    ASSUME Typed, AccountsInv, ReadInv, NEW n \in Nodes, Same(n), s'[n].pc \notin {"base", "list"}, UNCHANGED mail, Grow,
           shared' = shared
    PROVE  OpenRead(n)'
  <1> PICK r : r = s'[n]
    OBVIOUS
  <1>0. r.file = s[n].file /\ r.p = s[n].p /\ r.id = s[n].id /\ r.rec = s[n].rec /\ In(n) /\ OpenRead(n)
    BY DEF Same, ReadInv
  <1>1. r.file # NoBase => Top(r.p) <= high'[r.file]
    BY <1>0 DEF OpenRead, mail
  <1>2. ASSUME r.id \notin shared', r.file # NoBase
        PROVE  Covered(r.rec.who, r.file, Top(r.p))'
    <2>1. Covered(r.rec.who, r.file, Top(r.p))
      BY <1>0, <1>2 DEF OpenRead, Who
    <2>2. r.rec.who \in Persons /\ r.file \in Bases
      BY <1>0, <1>2, InSlots, CopyOf DEF Records, Who
    <2> QED
      BY <2>1, <2>2, CoveredKept
  <1>3. r.pc \notin {"base", "list"}
    OBVIOUS
  <1> QED
    BY <1>1, <1>2, <1>3, Zenon DEF OpenRead, Who

LEMMA ChangeRead ==
    ASSUME Typed, AccountsInv, MailInv, Keeps, NEW n \in Nodes, NEW b \in Bases, Changes(n, b), In(n), UNCHANGED mail,
           \A i \in Slots : SlotRead(b, i)',
           \/ s'[n].pc \in {"menu", "scan", "leave"}
           \/ s'[n].pc = "base" /\ s'[n].top = high[b] /\ s'[n].busy = (post.base = b)
    PROVE  OpenRead(n)'
  <1> PICK r : r = s'[n]
    OBVIOUS
  <1> PICK i : i = s[n].id
    OBVIOUS
  <1>0. /\ r.id = i /\ i \in Slots /\ r.rec = s[n].rec /\ r.base = b /\ r.file = b /\ r.p = lrp'[b][i]
        /\ s[n].rec # NoRec /\ i \in DOMAIN db /\ (i \notin shared => s[n].rec = db[i])
    BY CopyOf DEF Changes
  <1>1. SlotRead(b, i)'
    BY <1>0
  <1>2. Top(r.p) <= high'[b]
    BY <1>0, <1>1 DEF SlotRead
  <1>3. ASSUME i \notin shared'
        PROVE  Covered(r.rec.who, b, Top(r.p))'
    <2>1. i \in DOMAIN db' /\ db'[i] = r.rec /\ r.rec # NoRec
      BY <1>0, <1>3 DEF Keeps
    <2> QED
      BY <1>0, <1>1, <1>3, <2>1, Zenon DEF SlotRead
  <1>4. CASE r.pc \in {"menu", "scan", "leave"}
    <2>1. r.pc \notin {"base", "list"}
      BY <1>4
    <2> QED
      BY <1>0, <1>2, <1>3, <2>1, Zenon DEF OpenRead, Who
  <1>5. CASE r.pc = "base" /\ r.top = high[b] /\ r.busy = (post.base = b)
    <2>1. high[b] \in Nat /\ high' = high /\ dat' = dat /\ post' = post
      BY Mails DEF mail
    <2>2. ~r.busy => r.top = Len(dat'[b]) /\ ~Saving(b, "header")'
      BY <1>5, <2>1, Mails DEF Saving
    <2>3. r.top <= high'[b] /\ Top(r.p) <= r.top /\ r.pc # "list"
      BY <1>2, <1>5, <2>1
    <2> QED
      BY <1>0, <1>2, <1>3, <2>2, <2>3, Zenon DEF OpenRead, Who
  <1> QED
    BY <1>4, <1>5

\* Of the messages up to m, those for the caller he had been shown, is shown now, or leaves behind.
ShownTo(n, t, l, m) ==
    LET x == Who(n)
        b == s[n].base
    IN  \A k \in 1..m : For(x, b, k) => k \in told[x][b] \cup left[x][b] \cup His(x, b, t) \cup l

LEMMA PassesGrow ==
    ASSUME Typed, AccountsInv, NEW n \in Nodes, NEW q, NEW t, NEW l, Passes(n, q, t, l)
    PROVE  /\ Grow /\ UNCHANGED mail
           /\ \A m : ShownTo(n, t, l, m) => \A x \in Persons, b \in Bases : x = Who(n) /\ b = s[n].base => Covered(x, b, m)'
  <1> PICK x \in Persons : x = Who(n)
    BY CopyOf DEF Passes
  <1> PICK b \in Bases : b = s[n].base
    BY DEF Passes
  <1>1. /\ told'[x][b] = told[x][b] \cup His(x, b, t) /\ left'[x][b] = left[x][b] \cup (l \ told[x][b])
        /\ \A y \in Persons, c \in Bases : <<y, c>> # <<x, b>> => told'[y][c] = told[y][c] /\ left'[y][c] = left[y][c]
    BY DEF Passes, Grows
  <1>2. Grow
    <2>1. ASSUME NEW y \in Persons, NEW c \in Bases
          PROVE  told[y][c] \subseteq told'[y][c] /\ left[y][c] \subseteq left'[y][c]
      <3>1. CASE <<y, c>> = <<x, b>>
        BY <1>1, <3>1
      <3>2. CASE <<y, c>> # <<x, b>>
        BY <1>1, <3>2
      <3> QED
        BY <3>1, <3>2
    <2> QED
      BY <2>1 DEF Grow
  <1>3. UNCHANGED mail
    BY DEF Passes, Beside, mail
  <1>4. ASSUME NEW m, ShownTo(n, t, l, m)
        PROVE  Covered(x, b, m)'
    <2>1. \A k \in 1..m : For(x, b, k) => k \in told'[x][b] \cup left'[x][b]
      BY <1>1, <1>4 DEF ShownTo
    <2>2. \A k : For(x, b, k)' <=> For(x, b, k)
      BY <1>3 DEF For, Saving, mail
    <2> QED
      BY <2>1, <2>2 DEF Covered
  <1> QED
    BY <1>2, <1>3, <1>4

LEMMA PassesRead ==
    ASSUME Typed, AccountsInv, MailInv, ReadInv, NEW n \in Nodes, NEW q, NEW t, NEW l, Passes(n, q, t, l),
           s'[n].pc \in {"menu", "scan", "list"}, Top(s'[n].p) <= high[s[n].base], l \subseteq 1..high[s[n].base],
           s[n].id \notin shared => ShownTo(n, t, l, Top(s'[n].p)),
           s'[n].pc = "list" =>
               /\ Top(s'[n].p) <= s'[n].top /\ s'[n].top <= high[s[n].base]
               /\ s[n].id \notin shared /\ ~s'[n].busy => ShownTo(n, t, l, s'[n].top)
    PROVE  ReadInv'
  <1> PICK r : r = s'[n]
    OBVIOUS
  <1> PICK x \in Persons : x = Who(n)
    BY CopyOf DEF Passes
  <1> PICK b \in Bases : b = s[n].base
    BY DEF Passes
  <1>1. /\ Grow /\ UNCHANGED mail /\ UNCHANGED <<db, shared, lrp>> /\ Others(n)
        /\ r.rec.who = x /\ r.base = b /\ r.file = b /\ r.id = s[n].id
    BY PassesGrow DEF Passes, Beside, account, Turn, Who
  <1>2. \A b1 \in Bases, i1 \in Slots : SlotRead(b1, i1)'
    BY <1>1, BesideRead DEF LrpStep, DbStep
  <1>3. \A m \in Nodes \ {n} : OpenRead(m)'
    BY <1>1, OpenKept DEF ReadInv, Others
  <1>4. LeftRead'
    <2>1. ASSUME NEW y \in Persons, NEW c \in Bases
          PROVE  left'[y][c] \subseteq 1..high'[c]
      <3>1. left[y][c] \subseteq 1..high[c] /\ high' = high
        BY <1>1 DEF ReadInv, LeftRead, mail
      <3>2. CASE <<y, c>> = <<x, b>>
        <4>1. left'[x][b] = left[x][b] \cup (l \ told[x][b])
          BY DEF Passes, Grows
        <4> QED
          BY <3>1, <3>2, <4>1
      <3>3. CASE <<y, c>> # <<x, b>>
        <4>1. left'[y][c] = left[y][c]
          BY <3>3 DEF Passes, Grows
        <4> QED
          BY <3>1, <4>1
      <3> QED
        BY <3>2, <3>3
    <2> QED
      BY <2>1 DEF LeftRead
  <1>5. OpenRead(n)'
    <2>1. Top(r.p) <= high'[b]
      BY <1>1 DEF mail
    <2>2. r.pc = "list" => Top(r.p) <= r.top /\ r.top <= high'[b]
      BY <1>1 DEF mail
    <2>3. ASSUME r.id \notin shared'
          PROVE  Covered(x, b, Top(r.p))' /\ (r.pc = "list" /\ ~r.busy => Covered(x, b, r.top)')
      <3>1. ShownTo(n, t, l, Top(r.p)) /\ (r.pc = "list" /\ ~r.busy => ShownTo(n, t, l, r.top))
        BY <1>1, <2>3
      <3> QED
        BY <3>1, PassesGrow
    <2>4. r.pc # "base"
      OBVIOUS
    <2> QED
      BY <1>1, <2>1, <2>2, <2>3, <2>4, Zenon DEF OpenRead, Who
  <1>6. \A m \in Nodes : OpenRead(m)'
    BY <1>3, <1>5
  <1> QED
    BY <1>2, <1>4, <1>6 DEF ReadInv

LEMMA Numbers ==
    ASSUME Typed, MailInv, NEW b \in Bases, NEW h \in Range(dat[b])
    PROVE  h.num \in DOMAIN dat[b] /\ dat[b][h.num] = h
  BY Mails DEF Range

LEMMA ReadRead ==
    ASSUME Typed, AccountsInv, MailInv, ReadInv, NEW n \in Nodes, NEW k, NEW q, NEW l, ReadsTo(n, k, q, l)
    PROVE  ReadInv' /\ Top(s'[n].p) = Top(q) /\ Top(q) >= Top(s[n].p)
  <1> PICK b \in Bases : b = s[n].base
    BY DEF ReadsTo, Passes
  <1> DEFINE d == dat[b]
             from == s[n].p.read
  <1>0. Passes(n, q, {k}, l) /\ s'[n].pc = "menu" /\ s'[n].p = q /\ k \in Nat /\ q \in Pairs /\ s[n].file = b /\ In(n)
    BY DEF ReadsTo, Passes
  <1>1. s[n].p \in Pairs /\ from \in Nat /\ s[n].p.scan \in Nat
    BY InSlots DEF Records, Pairs
  <1>2. Top(q) = Bigger(Top(s[n].p), k) /\ Top(s[n].p) \in Nat /\ from <= Top(s[n].p)
    <2>1. q.read = Bigger(from, k) /\ q.scan = s[n].p.scan
      BY DEF ReadsTo
    <2> QED
      BY <1>0, <1>1, <2>1, TopNat DEF Top, Bigger
  <1>3. /\ Len(d) \in Nat /\ DOMAIN d = 1..Len(d) /\ high[b] \in Nat /\ Len(d) <= high[b]
        /\ Saving(b, "number") => high[b] = Len(d) + 1
        /\ Saving(b, "header") => post.num = high[b] /\ high[b] = Len(d)
        /\ \A j \in DOMAIN d : d[j].num = j /\ (d[j].text \/ (Saving(b, "header") /\ j = Len(d)))
    BY Mails DEF Saving
  <1>4. k \in DOMAIN d
    <2>1. PICK h \in Range(d) : h.num = k
      BY DEF ReadsTo, Header
    <2> QED
      BY <2>1, Numbers
  <1>5. /\ Top(s[n].p) <= high[b]
        /\ s[n].id \notin shared => Covered(Who(n), b, Top(s[n].p))
    BY <1>0, AccountsAssumption DEF ReadInv, OpenRead
  <1> DEFINE shown == {h.num : h \in Header(b, k) \cap Complete(b)}
  <1>6. \/ /\ \A h \in Range(d) : h.num > from /\ h.text => h.num >= k
           /\ l = {post.num} \cap 1..k
        \/ l = Upto(from, k) \ shown
    BY DEF ReadsTo
  <1>7. l \subseteq 1..k /\ 1..k \subseteq 1..high[b]
    BY <1>0, <1>1, <1>3, <1>4, <1>6 DEF Upto
  <1>8. ASSUME NEW j \in Nat, j > Top(s[n].p), j <= k, For(Who(n), b, j)
        PROVE  j \in His(Who(n), b, {k}) \cup l
    <2>1. j \in DOMAIN d /\ d[j].to = Who(n) /\ d[j].num = j
      BY <1>3, <1>4, <1>8, ForHigh
    <2>2. CASE d[j].text /\ j = k
      BY <2>1, <2>2, HisAll
    <2>3. CASE d[j].text /\ j # k
      <3>1. d[j] \in Range(d) /\ j > from /\ ~(j >= k)
        BY <1>1, <1>2, <1>8, <1>0, <2>1, <2>3 DEF Range
      <3>2. l = Upto(from, k) \ shown
        BY <1>6, <2>1, <2>3, <3>1
      <3>3. j \notin shown
        BY <2>3 DEF Header
      <3> QED
        BY <1>0, <1>1, <1>8, <3>1, <3>2, <3>3 DEF Upto
    <2>4. CASE ~d[j].text
      <3>1. j = k /\ post.num = j /\ j > from
        BY <1>0, <1>1, <1>2, <1>3, <1>4, <1>8, <2>1, <2>4
      <3>2. j \notin shown
        <4> SUFFICES ASSUME NEW h \in Header(b, k) \cap Complete(b) PROVE FALSE
          BY <3>1 DEF Header
        <4>1. h \in Range(d) /\ h.num = k /\ h.text
          BY DEF Header, Complete
        <4> QED
          BY <2>4, <3>1, <4>1, Numbers
      <3>3. j \in 1..k /\ j \in Upto(from, k)
        BY <1>0, <1>1, <2>1, <3>1, <1>3 DEF Upto
      <3> QED
        BY <1>6, <3>1, <3>2, <3>3
    <2> QED
      BY <2>2, <2>3, <2>4
  <1>9. s[n].id \notin shared => ShownTo(n, {k}, l, Top(q))
    <2> SUFFICES ASSUME s[n].id \notin shared, NEW j \in 1..Top(q), For(Who(n), b, j)
                 PROVE  j \in told[Who(n)][b] \cup left[Who(n)][b] \cup His(Who(n), b, {k}) \cup l
      BY DEF ShownTo
    <2>1. j \in Nat /\ (j \in 1..Top(s[n].p) \/ (j > Top(s[n].p) /\ j <= k))
      BY <1>0, <1>2 DEF Bigger
    <2>2. CASE j \in 1..Top(s[n].p)
      BY <1>5, <2>2 DEF Covered
    <2>3. CASE j > Top(s[n].p) /\ j <= k
      BY <1>8, <2>1, <2>3
    <2> QED
      BY <2>1, <2>2, <2>3
  <1>10. Top(q) <= high[b] /\ Top(q) >= Top(s[n].p)
    BY <1>0, <1>2, <1>3, <1>4, <1>5 DEF Bigger
  <1>11. l \subseteq 1..high[b]
    BY <1>7
  <1> QED
    BY <1>0, <1>9, <1>10, <1>11, PassesRead

LEMMA ScanRead ==
    ASSUME Typed, AccountsInv, MailInv, ReadInv, NEW n \in Nodes, Lists(n) \/ Ends(n)
    PROVE  /\ ReadInv'
           /\ \E q, t, l : Passes(n, q, t, l) /\ Top(s'[n].p) = Top(q) /\ Top(q) >= Top(s[n].p)
  <1> PICK b \in Bases : b = s[n].base
    BY DEF Lists, Ends, Passes
  <1> PICK m : m = Top(s[n].p)
    OBVIOUS
  <1> PICK top : top = s[n].top
    OBVIOUS
  <1>0. s[n].file = b /\ In(n) /\ s[n].pc = "base" /\ s[n] \in Records /\ s[n].p \in Pairs /\ top \in Nat /\ high[b] \in Nat
    BY InSlots, Mails DEF Lists, Ends, Passes, Records
  <1>1. m \in Nat /\ s[n].p.read \in Nat /\ s[n].p.read <= m /\ s[n].p.scan <= m
    BY <1>0, TopNat DEF Pairs
  <1>2. /\ OpenRead(n) /\ m <= top /\ top <= high[b]
        /\ s[n].id \notin shared => Covered(Who(n), b, m)
    BY <1>0, AccountsAssumption DEF ReadInv, OpenRead
  <1>3. ASSUME ~s[n].busy, NEW j \in Nat, j > m, j <= top, For(Who(n), b, j)
        PROVE  j \in News(n) /\ j \in His(Who(n), b, News(n))
    BY <1>0, <1>2, <1>3, NewsAll
  <1>4. ASSUME Lists(n)
        PROVE  ReadInv' /\ Passes(n, s[n].p, News(n), {}) /\ Top(s'[n].p) = m
    <2>1. /\ Passes(n, s[n].p, News(n), {}) /\ s'[n].pc = "list" /\ s'[n].p = [s[n].p EXCEPT !.scan = m]
          /\ s'[n].top = top /\ s'[n].busy = s[n].busy
      BY <1>4 DEF Lists
    <2>2. Top(s'[n].p) = m
      BY <1>0, <1>1, <2>1 DEF Top, Pairs, Bigger
    <2>3. s[n].id \notin shared => ShownTo(n, News(n), {}, m)
      BY <1>2 DEF ShownTo, Covered
    <2>4. ASSUME s[n].id \notin shared, ~s[n].busy
          PROVE  ShownTo(n, News(n), {}, top)
      <3> SUFFICES ASSUME NEW j \in 1..top, For(Who(n), b, j)
                   PROVE  j \in told[Who(n)][b] \cup left[Who(n)][b] \cup His(Who(n), b, News(n)) \cup {}
        BY DEF ShownTo
      <3>1. CASE j <= m
        BY <1>1, <1>2, <2>4, <3>1 DEF Covered
      <3>2. CASE j > m
        BY <1>3, <2>4, <3>2
      <3> QED
        BY <1>1, <3>1, <3>2
    <2>5. {} \subseteq 1..high[b] /\ m <= high[b]
      BY <1>0, <1>1, <1>2
    <2>6. ReadInv'
      BY <1>2, <2>1, <2>2, <2>3, <2>4, <2>5, PassesRead
    <2> QED
      BY <2>1, <2>2, <2>6
  <1>5. ASSUME Ends(n)
        PROVE  ReadInv' /\ \E q, t, l : Passes(n, q, t, l) /\ Top(s'[n].p) = Top(q) /\ Top(q) = top
    <2> PICK q : q = [s[n].p EXCEPT !.scan = top]
      OBVIOUS
    <2> PICK l : l = IF s[n].busy THEN Upto(m, top) ELSE {}
      OBVIOUS
    <2>1. /\ Passes(n, q, {}, l) /\ s'[n].pc = "scan" /\ s'[n].p = q
          /\ top <= m \/ News(n) = {}
      BY <1>5 DEF Ends
    <2>2. Top(q) = top
      BY <1>0, <1>1, <1>2 DEF Top, Pairs, Bigger
    <2>3. ASSUME s[n].id \notin shared
          PROVE  ShownTo(n, {}, l, top)
      <3> SUFFICES ASSUME NEW j \in 1..top, For(Who(n), b, j)
                   PROVE  j \in told[Who(n)][b] \cup left[Who(n)][b] \cup l
        BY DEF ShownTo
      <3>1. CASE j <= m
        BY <1>1, <1>2, <2>3, <3>1 DEF Covered
      <3>2. CASE j > m /\ s[n].busy
        BY <1>0, <1>1, <3>2 DEF Upto
      <3>3. CASE j > m /\ ~s[n].busy
        <4>1. j \in News(n) /\ ~(top <= m)
          BY <1>0, <1>1, <1>3, <3>3
        <4> QED
          BY <2>1, <4>1
      <3> QED
        BY <1>1, <3>1, <3>2, <3>3
    <2>4. l \subseteq 1..high[b]
      BY <1>0, <1>1, <1>2 DEF Upto
    <2>5. ReadInv'
      BY <1>2, <2>1, <2>2, <2>3, <2>4, PassesRead
    <2> QED
      BY <2>1, <2>2, <2>5
  <1> QED
    BY <1>1, <1>2, <1>4, <1>5, <1>0

LEMMA AnswerRead ==
    ASSUME Typed, AccountsInv, MailInv, ReadInv, NEW n \in Nodes, NEW k, Answers(n, k)
    PROVE  /\ ReadInv'
           /\ \E q, t, l : Passes(n, q, t, l) /\ Top(s'[n].p) = Top(q) /\ Top(q) >= Top(s[n].p)
  <1> PICK b \in Bases : b = s[n].base
    BY DEF Answers, Passes
  <1> PICK m : m = Top(s[n].p)
    OBVIOUS
  <1> PICK top : top = s[n].top
    OBVIOUS
  <1> PICK q : q = [s[n].p EXCEPT !.scan = k]
    OBVIOUS
  <1> PICK l : l = Upto(IF s[n].busy THEN s[n].p.scan ELSE top, k)
    OBVIOUS
  <1>0. s[n].file = b /\ In(n) /\ s[n].pc = "list" /\ s[n] \in Records /\ s[n].p \in Pairs /\ top \in Nat /\ high[b] \in Nat
    BY InSlots, Mails DEF Answers, Passes, Records
  <1>1. m \in Nat /\ s[n].p.read \in Nat /\ s[n].p.read <= m /\ s[n].p.scan = m /\ k \in m..high[b] /\ k \in Nat
    <2>1. s[n].p.scan = m /\ k \in s[n].p.scan..high[b]
      BY <1>0, InSlots DEF Sound, Answers
    <2> QED
      BY <1>0, <2>1, TopNat DEF Pairs
  <1>2. /\ m <= top /\ top <= high[b]
        /\ s[n].id \notin shared => Covered(Who(n), b, m) /\ (~s[n].busy => Covered(Who(n), b, top))
    BY <1>0, AccountsAssumption DEF ReadInv, OpenRead
  <1>3. Passes(n, q, {}, l) /\ s'[n].pc = "scan" /\ s'[n].p = q
    BY DEF Answers
  <1>4. Top(q) = k
    BY <1>0, <1>1 DEF Top, Pairs, Bigger
  <1>5. ASSUME s[n].id \notin shared
        PROVE  ShownTo(n, {}, l, k)
    <2> SUFFICES ASSUME NEW j \in 1..k, For(Who(n), b, j)
                 PROVE  j \in told[Who(n)][b] \cup left[Who(n)][b] \cup l
      BY DEF ShownTo
    <2>1. CASE j <= m \/ (~s[n].busy /\ j <= top)
      BY <1>0, <1>1, <1>2, <1>5, <2>1 DEF Covered
    <2>2. CASE j > m /\ (s[n].busy \/ j > top)
      BY <1>0, <1>1, <2>2 DEF Upto
    <2> QED
      BY <1>0, <1>1, <2>1, <2>2
  <1>6. l \subseteq 1..high[b] /\ k <= high[b] /\ k >= m
    BY <1>0, <1>1, <1>2 DEF Upto
  <1>7. ReadInv'
    BY <1>3, <1>4, <1>5, <1>6, PassesRead
  <1> QED
    BY <1>3, <1>4, <1>6, <1>7

LEMMA PassedRead ==
    ASSUME Typed, AccountsInv, MailInv, ReadInv, NEW n \in Nodes, Passed(n)
    PROVE  /\ ReadInv'
           /\ \E q, t, l : Passes(n, q, t, l) /\ Top(s'[n].p) = Top(q) /\ Top(q) >= Top(s[n].p)
  <1>1. ASSUME NEW k, NEW q, NEW l, ReadsTo(n, k, q, l)
        PROVE  ReadInv' /\ Passes(n, q, {k}, l) /\ Top(s'[n].p) = Top(q) /\ Top(q) >= Top(s[n].p)
    BY <1>1, ReadRead DEF ReadsTo
  <1> QED
    BY <1>1, ScanRead, AnswerRead DEF Passed

LEMMA ReadOf ==
    ASSUME \A b \in Bases, i \in Slots : SlotRead(b, i)', \A n \in Nodes : OpenRead(n)', LeftRead'
    PROVE  ReadInv'
  BY DEF ReadInv

\* Nothing is shown, and nothing left behind.
LEMMA StillRead ==
    ASSUME Typed, AccountsInv, ReadInv, UNCHANGED <<mail, told, left>>, shared \subseteq shared',
           \A b \in Bases, i \in Slots : LrpStep(b, i), \A i \in Slots : DbStep(i)
    PROVE  /\ Grow /\ LeftRead' /\ \A b \in Bases, i \in Slots : SlotRead(b, i)'
           /\ \A n \in Nodes : s'[n] = s[n] => OpenRead(n)'
  <1>1. Grow
    BY DEF Grow
  <1>2. LeftRead'
    BY DEF ReadInv, LeftRead, mail
  <1>3. UNCHANGED mail
    OBVIOUS
  <1> QED
    BY <1>1, <1>2, <1>3, BesideRead, OpenKept DEF ReadInv

LEMMA SaveRead ==
    ASSUME Typed, AccountsInv, MailInv, ReadInv, NEW n \in Nodes, Saved(n)
    PROVE  ReadInv'
  <1> PICK x : x = Who(n)
    OBVIOUS
  <1> PICK i : i = s[n].id
    OBVIOUS
  <1>0. /\ UNCHANGED <<lrp, told>> /\ UNCHANGED mail /\ Others(n) /\ s[n].pc = "found" /\ i \in Slots /\ s[n].rec \in Recs
        /\ s[n].rec # NoRec
    BY InSlots DEF Saved, Turn, Sound, Records
  <1>1. x \in Persons /\ s[n].rec.who = x
    BY <1>0, RecWho DEF Who
  <1>2. PICK his \in BOOLEAN : Decides(n, i, s[n].rec, his)
    BY SavedDecides DEF SavedTo
  <1>3. /\ \A b \in Bases : left'[x][b] = 1..high[b] /\ high' = high
        /\ \A y \in Persons \ {x}, b \in Bases : left'[y][b] = left[y][b]
    BY <1>0 DEF Saved, mail
  <1>4. LeftRead'
    BY <1>3, ZenonT(40) DEF ReadInv, LeftRead
  <1>5. Grow
    <2>1. ASSUME NEW y \in Persons, NEW b \in Bases
          PROVE  told[y][b] \subseteq told'[y][b] /\ left[y][b] \subseteq left'[y][b]
      <3>1. left[y][b] \subseteq 1..high[b]
        BY DEF ReadInv, LeftRead
      <3> QED
        BY <1>0, <1>3, <3>1
    <2> QED
      BY <2>1 DEF Grow
  <1>6. \A j \in Slots \ {i} : DbStep(j)
    BY <1>2 DEF Decides, DbStep
  <1>7. \A b \in Bases, j \in Slots : LrpStep(b, j)
    BY <1>0 DEF LrpStep
  <1>8. \A b \in Bases, j \in Slots \ {i} : SlotRead(b, j)'
    BY <1>0, <1>5, <1>6, <1>7, SlotKept
  <1>9. ASSUME NEW b \in Bases
        PROVE  SlotRead(b, i)'
    <2> PICK m : m = Top(lrp[b][i])
      OBVIOUS
    <2>1. m <= high'[b] /\ Top(lrp'[b][i]) = m /\ high[b] \in Nat /\ m \in Nat
      <3>1. lrp[b][i] \in Pairs
        BY <1>0 DEF Typed, TypeOK, FilesOK
      <3> QED
        BY <1>0, <1>3, <3>1, Mails, TopNat DEF ReadInv, SlotRead
    <2>2. Covered(x, b, m)'
      BY <1>3, <2>1 DEF Covered
    <2>3. db'[i].who = x
      BY <1>1, <1>2 DEF Decides
    <2> QED
      BY <2>1, <2>2, <2>3, Zenon DEF SlotRead
  <1>10. \A m \in Nodes \ {n} : OpenRead(m)'
    BY <1>0, <1>2, <1>5, OpenKept DEF ReadInv, Others, Decides
  <1>11. OpenRead(n)'
    BY OpenNone, FreeIs DEF Saved
  <1>12. (\A m \in Nodes : OpenRead(m)') /\ (\A b \in Bases, j \in Slots : SlotRead(b, j)')
    BY <1>8, <1>9, <1>10, <1>11
  <1> QED
    BY <1>4, <1>12, ReadOf

\* A message that gets a number, a header or its text is for nobody it was not for.
LEMMA PostRead ==
    ASSUME Typed, AccountsInv, MailInv, ReadInv, Posting, (\E b \in Bases, x \in Persons : Numbered(b, x)) \/ Headed \/ Texted
    PROVE  ReadInv'
  <1>0. UNCHANGED <<db, shared, lrp, told, left>>
    BY DEF Posting, account, seen
  <1>1. \A b \in Bases : high[b] \in Nat /\ high'[b] \in Nat /\ high[b] <= high'[b]
    <2>1. \A b \in Bases : high[b] \in Nat
      BY Mails
    <2> QED
      BY <2>1 DEF Numbered, Headed, Texted
  <1>2. ASSUME NEW b \in Bases, NEW x \in Persons, NEW k \in Nat, k <= high[b], For(x, b, k)'
        PROVE  For(x, b, k)
    <2>0. /\ Len(dat[b]) \in Nat /\ DOMAIN dat[b] = 1..Len(dat[b]) /\ DOMAIN dat'[b] = 1..Len(dat'[b]) /\ high[b] \in Nat
          /\ Saving(b, "number") => post.num = high[b] /\ high[b] = Len(dat[b]) + 1
      BY Mails DEF Posting, FilesOK
    <2>1. (k \in DOMAIN dat'[b] /\ dat'[b][k].to = x) \/ (post'.step = "number" /\ post'.base = b /\ post'.num = k /\ post'.to = x)
      BY <1>2 DEF For, Saving
    <2>2. ASSUME NEW c \in Bases, NEW y \in Persons, Numbered(c, y)
          PROVE  For(x, b, k)
      <3>1. ~(post'.step = "number" /\ post'.base = b /\ post'.num = k)
        BY <1>2, <2>0, <2>2 DEF Numbered
      <3> QED
        BY <2>1, <2>2, <3>1 DEF For, Numbered
    <2>3. CASE Headed
      <3>1. post'.step # "number" /\ k \in DOMAIN dat'[b] /\ dat'[b][k].to = x
        BY <2>1, <2>3 DEF Headed
      <3>2. CASE b = post.base
        <4>1. post.step = "number" /\ Saving(b, "number") /\ Len(dat'[b]) = Len(dat[b]) + 1
          BY <2>3, <3>2 DEF Headed, Saving
        <4>2. CASE k \in 1..Len(dat[b])
          BY <2>0, <2>3, <3>1, <3>2, <4>2 DEF Headed, For
        <4>3. CASE k = Len(dat[b]) + 1
          <5>1. dat'[b][k].to = post.to
            BY <2>3, <3>2, <4>3 DEF Headed
          <5> QED
            BY <2>0, <3>1, <4>1, <4>3, <5>1 DEF For
        <4> QED
          BY <2>0, <3>1, <4>1, <4>2, <4>3
      <3>3. CASE b # post.base
        BY <2>3, <3>1, <3>3 DEF Headed, For
      <3> QED
        BY <3>2, <3>3
    <2>4. CASE Texted
      <3>1. post'.step # "number" /\ k \in DOMAIN dat'[b] /\ dat'[b][k].to = x
        BY <2>1, <2>4 DEF Texted, NoPost
      <3>2. CASE b = post.base
        <4>1. k \in 1..Len(dat[b])
          BY <2>0, <2>4, <3>1, <3>2 DEF Texted
        <4>2. dat'[b][k].to = dat[b][k].to
          <5>1. k = Len(dat[b]) \/ k \in 1..(Len(dat[b]) - 1)
            BY <2>0, <4>1
          <5> QED
            BY <2>4, <3>2, <5>1 DEF Texted
        <4> QED
          BY <2>0, <3>1, <4>1, <4>2 DEF For
      <3>3. CASE b # post.base
        BY <2>4, <3>1, <3>3 DEF Texted, For
      <3> QED
        BY <3>2, <3>3
    <2> QED
      BY <2>2, <2>3, <2>4
  <1>3. ASSUME NEW b \in Bases, NEW x \in Persons, NEW m \in Nat, m <= high[b], Covered(x, b, m)
        PROVE  Covered(x, b, m)'
    <2>1. \A k \in 1..m : k \in Nat /\ k <= high[b]
      BY <1>1, <1>3
    <2>2. \A k \in 1..m : For(x, b, k)' => For(x, b, k)
      BY <1>2, <2>1
    <2> QED
      BY <1>0, <1>3, <2>2 DEF Covered
  <1>4. ASSUME NEW b \in Bases, NEW i \in Slots
        PROVE  SlotRead(b, i)'
    <2> PICK m : m = Top(lrp[b][i])
      OBVIOUS
    <2> PICK x : x = db[i].who
      OBVIOUS
    <2>1. m \in Nat /\ m <= high[b] /\ m <= high'[b]
      <3>1. lrp[b][i] \in Pairs /\ m <= high[b]
        BY DEF Typed, TypeOK, FilesOK, ReadInv, SlotRead
      <3>2. m \in Nat
        BY <3>1, TopNat
      <3> QED
        BY <1>1, <3>1, <3>2
    <2>2. ASSUME i \in DOMAIN db \ shared, db[i] # NoRec
          PROVE  Covered(x, b, m)'
      <3>1. x \in Persons /\ Covered(x, b, m)
        BY <2>2, RecWho DEF Typed, TypeOK, AccountOK, ReadInv, SlotRead
      <3> QED
        BY <1>3, <2>1, <3>1
    <2>3. lrp'[b][i] = lrp[b][i] /\ db' = db /\ shared' = shared
      BY <1>0
    <2>4. Top(lrp'[b][i]) = m /\ db'[i].who = x
      BY <2>3
    <2> QED
      BY <2>1, <2>2, <2>3, <2>4, Zenon DEF SlotRead
  <1>5. ASSUME NEW n \in Nodes
        PROVE  OpenRead(n)'
    <2> PICK r : r = s[n]
      OBVIOUS
    <2>0. /\ r \in Records /\ Sound(r) /\ r.p \in Pairs /\ Top(r.p) \in Nat /\ r.top \in Nat
          /\ (r.file # NoBase => r.file \in Bases) /\ (r.pc \in {"base", "list"} => r.base \in Bases)
      BY InSlots, TopNat DEF Sound, Records
    <2>1. /\ s'[n].pc = r.pc /\ s'[n].id = r.id /\ s'[n].rec = r.rec /\ s'[n].base = r.base /\ s'[n].file = r.file
          /\ s'[n].p = r.p /\ s'[n].top = r.top /\ (r.busy => s'[n].busy)
      BY DEF Posting
    <2>2. OpenRead(n)
      BY DEF ReadInv
    <2>3. r.file # NoBase => Top(r.p) <= high'[r.file]
      BY <1>1, <2>0, <2>2 DEF OpenRead
    <2>4. r.pc \in {"base", "list"} => Top(r.p) <= r.top /\ r.top <= high'[r.base]
      BY <1>1, <2>0, <2>2 DEF OpenRead
    <2>5. ASSUME r.pc = "base", ~s'[n].busy
          PROVE  r.top = Len(dat'[r.base]) /\ ~Saving(r.base, "header")'
      <3>1. r.top = Len(dat[r.base]) /\ ~Saving(r.base, "header") /\ r.base \in Bases
        BY <2>0, <2>1, <2>2, <2>5 DEF OpenRead
      <3>2. CASE \E b \in Bases, x \in Persons : Numbered(b, x)
        BY <3>1, <3>2 DEF Numbered, Saving
      <3>3. CASE Headed
        <4>1. r.base # post.base
          BY <2>5, <3>3 DEF Headed
        <4> QED
          BY <3>1, <3>3, <4>1 DEF Headed, Saving
      <3>4. CASE Texted
        BY <3>1, <3>4 DEF Texted, Saving, NoPost
      <3> QED
        BY <3>2, <3>3, <3>4
    <2>6. ASSUME r.pc \in Inside, r.id \notin shared
          PROVE  /\ r.file # NoBase => Covered(r.rec.who, r.file, Top(r.p))'
                 /\ r.pc = "list" /\ ~s'[n].busy => Covered(r.rec.who, r.base, r.top)'
      <3>1. r.rec.who \in Persons /\ In(n) /\ r.rec.who = Who(n)
        BY <2>6, CopyOf DEF In, Who
      <3>2. ASSUME r.file # NoBase
            PROVE  Covered(r.rec.who, r.file, Top(r.p))'
        <4>1. Covered(r.rec.who, r.file, Top(r.p)) /\ Top(r.p) <= high[r.file]
          BY <2>2, <2>6, <3>1, <3>2 DEF OpenRead
        <4> QED
          BY <1>3, <2>0, <3>1, <3>2, <4>1
      <3>3. ASSUME r.pc = "list", ~s'[n].busy
            PROVE  Covered(r.rec.who, r.base, r.top)'
        <4>1. Covered(r.rec.who, r.base, r.top) /\ r.top <= high[r.base]
          BY <2>1, <2>2, <2>6, <3>1, <3>3 DEF OpenRead
        <4> QED
          BY <1>3, <2>0, <3>1, <3>3, <4>1
      <3> QED
        BY <3>2, <3>3
    <2> QED
      BY <1>0, <2>1, <2>3, <2>4, <2>5, <2>6, Zenon DEF OpenRead, Who, In
  <1>6. LeftRead'
    <2>1. \A b \in Bases : 1..high[b] \subseteq 1..high'[b]
      BY <1>1
    <2> QED
      BY <1>0, <2>1 DEF ReadInv, LeftRead
  <1> QED
    BY <1>4, <1>5, <1>6, ReadOf

LEMMA EditKeeps ==
    ASSUME Typed, AccountsInv, NEW e \in Sysops, Edits(e)
    PROVE  shared \subseteq shared' /\ \A i \in Slots : DbStep(i)
  <1>1. CASE UNCHANGED account
    BY <1>1 DEF account, DbStep
  <1>2. ASSUME NEW r \in Recs, Decides(e, ed[e].id, r, TRUE), r # NoRec => r.who = ed[e].rec.who, ed[e].id # 0
        PROVE  shared \subseteq shared' /\ \A i \in Slots : DbStep(i)
    <2>1. /\ ed[e].id \in DOMAIN db /\ ed[e].rec # NoRec
          /\ ed[e].id \notin shared => ed[e].rec = db[ed[e].id]
      BY <1>2 DEF AccountsInv, Copies
    <2>2. ASSUME NEW i \in Slots
          PROVE  DbStep(i)
      <3>1. CASE i = ed[e].id
        BY <1>2, <2>1, <3>1 DEF DbStep, Decides
      <3>2. CASE i # ed[e].id
        BY <1>2, <3>2 DEF DbStep, Decides
      <3> QED
        BY <3>1, <3>2
    <2> QED
      BY <1>2, <2>2 DEF Decides
  <1> QED
    BY <1>1, <1>2 DEF Edits

LEMMA NextRead ==
    ASSUME Typed, AccountsInv, MailInv, ReadInv, [Next]_vars
    PROVE  ReadInv'
  <1>1. ASSUME NEW n \in Nodes, Session(n)
        PROVE  ReadInv'
    <2>0. Acts(n)
      BY <1>1, SessionSteps
    <2>1. CASE Begins(n)
      <3>1. UNCHANGED <<mail, told, left>> /\ shared \subseteq shared' /\ UNCHANGED <<lrp, db, shared>> /\ Others(n)
        BY <2>1 DEF Begins, account, seen, Turn
      <3>2. (\A b \in Bases, i \in Slots : LrpStep(b, i)) /\ \A i \in Slots : DbStep(i)
        BY <3>1 DEF LrpStep, DbStep
      <3>3. OpenRead(n)'
        BY <2>1, OpenNone DEF Begins
      <3>4. /\ LeftRead' /\ \A b \in Bases, i \in Slots : SlotRead(b, i)'
            /\ \A m \in Nodes : s'[m] = s[m] => OpenRead(m)'
        BY <3>1, <3>2, StillRead
      <3> QED
        BY <3>1, <3>3, <3>4, ReadOf DEF Others
    <2>2. CASE Saved(n)
      BY <2>2, SaveRead
    <2>3. ASSUME Copied(n) \/ \E b \in Bases : Scanning(n, b)
          PROVE  ReadInv'
      <3>1. /\ UNCHANGED <<mail, told, left>> /\ UNCHANGED <<decided, shared>> /\ Others(n) /\ In(n)
            /\ UNCHANGED lrp \/ lrp' = Flushed(s[n])
        BY <2>3 DEF Copied, Moves, Same, Changes, Elsewhere, mail, Turn, Scanning
      <3>2. Keeps
        BY <2>3, <3>1, KeepsCopy DEF Copied, Scanning
      <3>3. shared \subseteq shared' /\ (\A b \in Bases, i \in Slots : LrpStep(b, i)) /\ \A i \in Slots : DbStep(i)
        BY <3>1, <3>2, KeepsSteps, FlushedAs
      <3>4. /\ Grow /\ LeftRead' /\ \A b \in Bases, i \in Slots : SlotRead(b, i)'
            /\ \A m \in Nodes : s'[m] = s[m] => OpenRead(m)'
        BY <3>1, <3>3, StillRead
      <3>5. UNCHANGED mail
        BY <3>1
      <3>6. OpenRead(n)'
        <4>1. CASE Same(n) /\ s'[n].pc \in {"menu", "scan", "leave"}
          <5>1. s'[n].pc \notin {"base", "list"}
            BY <4>1
          <5> QED
            BY <3>1, <3>4, <3>5, <4>1, <5>1, SameRead
        <4>2. ASSUME NEW b \in Bases, Changes(n, b), \/ s'[n].pc \in {"menu", "scan", "leave"}
                                                     \/ s'[n].pc = "base" /\ s'[n].top = high[b] /\ s'[n].busy = (post.base = b)
              PROVE  OpenRead(n)'
          BY <3>1, <3>2, <3>4, <3>5, <4>2, ChangeRead
        <4> QED
          BY <2>3, <4>1, <4>2 DEF Copied, Moves, Scanning
      <3> QED
        BY <3>1, <3>4, <3>6, ReadOf DEF Others
    <2>4. CASE Leaves(n)
      <3>1. /\ UNCHANGED <<mail, told, left>> /\ UNCHANGED <<decided, shared>> /\ Others(n) /\ In(n) /\ s'[n] = Free
            /\ UNCHANGED lrp \/ lrp' = Flushed(s[n])
        BY <2>4 DEF Leaves, Turn
      <3>2. Keeps
        BY <2>4, <3>1, KeepsCopy DEF Leaves
      <3>3. shared \subseteq shared' /\ (\A b \in Bases, i \in Slots : LrpStep(b, i)) /\ \A i \in Slots : DbStep(i)
        BY <3>1, <3>2, KeepsSteps, FlushedAs
      <3>4. /\ LeftRead' /\ \A b \in Bases, i \in Slots : SlotRead(b, i)'
            /\ \A m \in Nodes : s'[m] = s[m] => OpenRead(m)'
        BY <3>1, <3>3, StillRead
      <3>5. OpenRead(n)'
        BY <3>1, OpenNone, FreeIs
      <3> QED
        BY <3>1, <3>4, <3>5, ReadOf DEF Others
    <2>5. CASE Passed(n)
      BY <2>5, PassedRead
    <2> QED
      BY <2>0, <2>1, <2>2, <2>3, <2>4, <2>5 DEF Acts
  <1>2. ASSUME NEW e \in Sysops, Editor(e)
        PROVE  ReadInv'
    <2>1. Edits(e)
      BY <1>2, EditSteps
    <2>2. UNCHANGED <<mail, told, left>> /\ UNCHANGED s /\ UNCHANGED lrp
      BY <2>1 DEF Edits, seen
    <2>3. shared \subseteq shared' /\ \A i \in Slots : DbStep(i)
      BY <2>1, EditKeeps
    <2>4. \A b \in Bases, i \in Slots : LrpStep(b, i)
      BY <2>2 DEF LrpStep
    <2>5. /\ LeftRead' /\ \A b \in Bases, i \in Slots : SlotRead(b, i)'
          /\ \A m \in Nodes : s'[m] = s[m] => OpenRead(m)'
      BY <2>2, <2>3, <2>4, StillRead
    <2> QED
      BY <2>2, <2>5, ReadOf
  <1>3. ASSUME (\E m \in Mailed : PostNumber(m[1], m[2])) \/ PostHeader \/ PostText
        PROVE  ReadInv'
    BY <1>3, PostSteps, PostRead
  <1>4. ASSUME UNCHANGED vars
        PROVE  ReadInv'
    <2>1. UNCHANGED <<mail, told, left>> /\ shared \subseteq shared' /\ UNCHANGED <<lrp, db, shared>> /\ UNCHANGED s
      BY <1>4 DEF vars, account, seen
    <2>2. (\A b \in Bases, i \in Slots : LrpStep(b, i)) /\ \A i \in Slots : DbStep(i)
      BY <2>1 DEF LrpStep, DbStep
    <2>3. /\ LeftRead' /\ \A b \in Bases, i \in Slots : SlotRead(b, i)'
          /\ \A m \in Nodes : s'[m] = s[m] => OpenRead(m)'
      BY <2>1, <2>2, StillRead
    <2> QED
      BY <2>1, <2>3, ReadOf
  <1> QED
    BY <1>1, <1>2, <1>3, <1>4 DEF Next

-----------------------------------------------------------------------------
(* What was passed is on file, or will be. *)

\* Nobody else calls with the same slot, but one written meanwhile.
LEMMA OneEach ==
    ASSUME Typed, AccountsInv, NEW m \in Nodes, NEW n \in Nodes, In(m), In(n), s[m].id = s[n].id, s[n].id \notin shared
    PROVE  m = n
  <1>1. Who(m) = Who(n) /\ Who(m) \in Persons
    BY CopyOf DEF Who
  <1> QED
    BY <1>1, AccountsAssumption DEF AccountsInv, OneCall

\* Where pointers of others and their numbers stay, so does what is said of them.
LEMMA OpenFiled ==
    ASSUME Typed, NEW m \in Nodes, FiledOpen(m), s'[m] = s[m], shared \subseteq shared',
           In(m) /\ s[m].id \notin shared' =>
               \A b \in Bases : lrp'[b][s[m].id] = lrp[b][s[m].id] /\ passed'[b][s[m].id] = passed[b][s[m].id]
    PROVE  FiledOpen(m)'
  <1> PICK r : r = s[m]
    OBVIOUS
  <1>1. s'[m] = r /\ (r.file # NoBase => r.file \in Bases)
    BY InSlots DEF Records
  <1> SUFFICES ASSUME r.pc \in Inside, r.id \notin shared'
               PROVE  /\ r.file # NoBase => lrp'[r.file][r.id] = r.old
                      /\ \A b \in Bases : passed'[b][r.id] <= IF r.file = b THEN Top(r.p) ELSE Top(lrp'[b][r.id])
    BY <1>1, Zenon DEF FiledOpen, In
  <1>2. r.id \notin shared /\ In(m)
    BY DEF In
  <1>3. \A b \in Bases : lrp'[b][r.id] = lrp[b][r.id] /\ passed'[b][r.id] = passed[b][r.id]
    BY <1>2
  <1> QED
    BY <1>1, <1>2, <1>3 DEF FiledOpen

LEMMA SlotFiled ==
    ASSUME NEW i \in Slots, FiledSlot(i), DbStep(i), \A n \in Nodes : In(n) /\ s[n].id = i => In(n)' /\ s'[n].id = i,
           \A b \in Bases : lrp'[b][i] = lrp[b][i] /\ passed'[b][i] = passed[b][i]
    PROVE  FiledSlot(i)'
  <1> SUFFICES ASSUME i \in DOMAIN db' \ shared', db'[i] # NoRec, \A n \in Nodes : In(n)' => s'[n].id # i, NEW b \in Bases
               PROVE  passed'[b][i] <= Top(lrp'[b][i])
    BY DEF FiledSlot
  <1>1. i \in DOMAIN db \ shared /\ db[i] # NoRec /\ \A n \in Nodes : In(n) => s[n].id # i
    BY DEF DbStep
  <1> QED
    BY <1>1 DEF FiledSlot

LEMMA BeginFiled ==
    ASSUME Typed, AccountsInv, Filed, NEW n \in Nodes, Begins(n)
    PROVE  Filed'
  <1>0. /\ UNCHANGED <<db, shared, lrp, passed>> /\ Others(n) /\ Sound(s'[n]) /\ s'[n].file = NoBase /\ ~In(n)
        /\ NoBase \notin Bases /\ db \in Seq(Recs)
    BY AccountsAssumption DEF Begins, account, seen, Turn, In, Inside, Typed, TypeOK, AccountOK
  <1>1. ASSUME In(n)', s'[n].id \notin shared
        PROVE  \A b \in Bases : passed[b][s'[n].id] <= Top(lrp[b][s'[n].id])
    <2> PICK i : i = s'[n].id
      OBVIOUS
    <2>1. i \in DOMAIN db /\ s'[n].rec = db[i] /\ ~Calls(s'[n].rec.who) /\ db[i] # NoRec
      BY <1>0, <1>1 DEF Begins, In, Inside, Sound
    <2>2. \A m \in Nodes : In(m) => s[m].id # i
      <3> SUFFICES ASSUME NEW m \in Nodes, In(m), s[m].id = i PROVE FALSE
        OBVIOUS
      <3>1. s[m].rec = db[i]
        BY <1>1, CopyOf
      <3> QED
        BY <2>1, <3>1 DEF Calls, Who
    <2>3. i \in Slots
      <3>1. Len(db) \in Slots /\ i \in 1..Len(db)
        BY <1>0, <2>1 DEF Typed, TypeOK, AccountOK
      <3> QED
        BY <3>1, AccountsAssumption DEF Slots
    <2>4. FiledSlot(i)
      BY <2>3 DEF Filed
    <2> QED
      BY <1>1, <2>1, <2>2, <2>4 DEF FiledSlot
  <1>2. FiledOpen(n)'
    BY <1>0, <1>1 DEF FiledOpen
  <1>3. \A m \in Nodes \ {n} : FiledOpen(m)'
    BY <1>0, OpenFiled DEF Others, Filed
  <1>4. \A i \in Slots : FiledSlot(i)'
    <2>1. \A i \in Slots : DbStep(i)
      BY <1>0 DEF DbStep
    <2>2. \A m \in Nodes : In(m) => s'[m] = s[m]
      BY <1>0 DEF Others
    <2>3. \A m \in Nodes, i \in Slots : In(m) /\ s[m].id = i => In(m)' /\ s'[m].id = i
      BY <2>2 DEF In
    <2> QED
      BY <1>0, <2>1, <2>3, SlotFiled DEF Filed
  <1> QED
    BY <1>2, <1>3, <1>4 DEF Filed

LEMMA SaveFiled ==
    ASSUME Typed, AccountsInv, Filed, NEW n \in Nodes, Saved(n)
    PROVE  Filed'
  <1> PICK i : i = s[n].id
    OBVIOUS
  <1>0. UNCHANGED lrp /\ Others(n) /\ s[n].pc = "found" /\ ~In(n) /\ i \in Slots /\ NoBase \notin Bases
    BY InSlots, AccountsAssumption DEF Saved, Turn, In, Inside
  <1>1. PICK his \in BOOLEAN : Decides(n, i, s[n].rec, his)
    BY SavedDecides DEF SavedTo
  <1>2. shared \subseteq shared' /\ \A m \in Nodes \ {n} : s[m].id = i => i \in shared'
    BY <1>1 DEF Decides, Holders
  <1>3. /\ \A b \in Bases : passed'[b][i] = 0 /\ passed'[b][i] <= Top(lrp'[b][i])
        /\ \A b \in Bases, j \in Slots \ {i} : passed'[b][j] = passed[b][j] /\ lrp'[b][j] = lrp[b][j]
    <2>1. \A b \in Bases : Top(lrp[b][i]) \in Nat
      BY <1>0, TopNat DEF Typed, TypeOK, FilesOK
    <2> QED
      BY <1>0, <2>1 DEF Saved
  <1>4. FiledOpen(n)'
    <2>1. In(n)' => s'[n].id = i /\ s'[n].file = NoBase
      BY FreeIs DEF Saved, In
    <2> QED
      BY <1>0, <1>3, <2>1 DEF FiledOpen
  <1>5. ASSUME NEW m \in Nodes \ {n}
        PROVE  FiledOpen(m)'
    <2>1. In(m) => s[m].id \in Slots
      BY InSlots
    <2>2. In(m) /\ s[m].id \notin shared' =>
              \A b \in Bases : lrp'[b][s[m].id] = lrp[b][s[m].id] /\ passed'[b][s[m].id] = passed[b][s[m].id]
      BY <1>2, <1>3, <2>1
    <2> QED
      BY <1>0, <1>2, <2>2, OpenFiled DEF Others, Filed
  <1>6. ASSUME NEW j \in Slots
        PROVE  FiledSlot(j)'
    <2>1. CASE j = i
      BY <1>3, <2>1 DEF FiledSlot
    <2>2. CASE j # i
      <3>1. DbStep(j)
        BY <1>1, <2>2 DEF Decides, DbStep
      <3>2. \A m \in Nodes : In(m) => s'[m] = s[m]
        BY <1>0 DEF Others
      <3>3. \A m \in Nodes : In(m) /\ s[m].id = j => In(m)' /\ s'[m].id = j
        BY <3>2 DEF In
      <3> QED
        BY <1>3, <2>2, <3>1, <3>3, SlotFiled DEF Filed
    <2> QED
      BY <2>1, <2>2
  <1> QED
    BY <1>4, <1>5, <1>6 DEF Filed

\* Only n writes pointers, in its slot, and it stays in or writes what it passed.
LEMMA TurnFiled ==
    ASSUME Typed, AccountsInv, Filed, Keeps, NEW n \in Nodes, In(n), Others(n),
           \A b \in Bases, j \in Slots \ {s[n].id} : lrp'[b][j] = lrp[b][j] /\ passed'[b][j] = passed[b][j],
           \/ In(n)' /\ s'[n].id = s[n].id
           \/ ~In(n)' /\ (s[n].id \notin shared => \A b \in Bases : passed'[b][s[n].id] <= Top(lrp'[b][s[n].id])),
           FiledOpen(n)'
    PROVE  Filed'
  <1> PICK i : i = s[n].id
    OBVIOUS
  <1>0. i \in Slots /\ shared' = shared
    BY InSlots DEF Keeps
  <1>1. ASSUME NEW m \in Nodes \ {n}
        PROVE  FiledOpen(m)'
    <2>1. In(m) /\ s[m].id \notin shared' => s[m].id \in Slots \ {i}
      BY <1>0, InSlots, OneEach
    <2> QED
      BY <1>0, <2>1, OpenFiled DEF Others, Filed
  <1>2. ASSUME NEW j \in Slots
        PROVE  FiledSlot(j)'
    <2>1. CASE j = i
      BY <1>0, <2>1 DEF FiledSlot
    <2>2. CASE j # i
      <3>1. DbStep(j)
        BY KeepsSteps
      <3>2. \A m \in Nodes : In(m) /\ s[m].id = j => s'[m] = s[m]
        BY <2>2 DEF Others
      <3>3. \A m \in Nodes : In(m) /\ s[m].id = j => In(m)' /\ s'[m].id = j
        BY <3>2 DEF In
      <3> QED
        BY <2>2, <3>1, <3>3, SlotFiled DEF Filed
    <2> QED
      BY <2>1, <2>2
  <1> QED
    BY <1>1, <1>2 DEF Filed

\* Once the pointers are written, all is on file.
LEMMA FlushFiled ==
    ASSUME Typed, Filed, NEW n \in Nodes, In(n), s[n].id \notin shared, lrp' = Flushed(s[n]) \/ (s[n].file = NoBase /\ UNCHANGED lrp),
           UNCHANGED passed, NEW b \in Bases
    PROVE  passed'[b][s[n].id] <= Top(lrp'[b][s[n].id])
  <1>1. /\ s[n].file # NoBase => lrp[s[n].file][s[n].id] = s[n].old
        /\ passed[b][s[n].id] <= IF s[n].file = b THEN Top(s[n].p) ELSE Top(lrp[b][s[n].id])
    BY DEF Filed, FiledOpen
  <1>2. s[n].id \in Slots /\ b # NoBase
    BY InSlots, AccountsAssumption
  <1>3. CASE s[n].file = b
    <2>1. lrp' = Flushed(s[n])
      BY <1>2, <1>3
    <2>2. lrp'[b][s[n].id] = s[n].p
      BY <1>1, <1>2, <1>3, <2>1, FlushedAs
    <2> QED
      BY <1>1, <1>3, <2>2
  <1>4. CASE s[n].file # b
    <2>1. lrp'[b][s[n].id] = lrp[b][s[n].id]
      BY <1>2, <1>4, FlushedAs
    <2> QED
      BY <1>1, <1>4, <2>1
  <1> QED
    BY <1>3, <1>4

LEMMA NextFiled ==
    ASSUME Typed, AccountsInv, MailInv, ReadInv, Filed, [Next]_vars
    PROVE  Filed'
  <1>1. ASSUME NEW n \in Nodes, Session(n)
        PROVE  Filed'
    <2> PICK i : i = s[n].id
      OBVIOUS
    <2>0. Acts(n)
      BY <1>1, SessionSteps
    <2>1. CASE Begins(n)
      BY <2>1, BeginFiled
    <2>2. CASE Saved(n)
      BY <2>2, SaveFiled
    <2>3. ASSUME Copied(n) \/ \E b \in Bases : Scanning(n, b)
          PROVE  Filed'
      <3>1. /\ UNCHANGED passed /\ UNCHANGED <<decided, shared>> /\ Others(n) /\ In(n) /\ In(n)' /\ s'[n].id = i
            /\ UNCHANGED lrp \/ lrp' = Flushed(s[n])
            /\ Same(n) \/ \E b \in Bases : Changes(n, b)
        BY <2>3 DEF Copied, Moves, Same, Changes, Elsewhere, Turn, Scanning
      <3>2. Keeps
        BY <2>3, <3>1, KeepsCopy DEF Copied, Scanning
      <3>3. \A b \in Bases, j \in Slots \ {i} : lrp'[b][j] = lrp[b][j] /\ passed'[b][j] = passed[b][j]
        BY <3>1, FlushedAs
      <3>4. FiledOpen(n)'
        <4>1. CASE Same(n)
          <5>1. FiledOpen(n) /\ lrp' = lrp /\ passed' = passed /\ shared' = shared
            BY <3>1, <4>1 DEF Filed, Same
          <5> QED
            BY <4>1, <5>1 DEF FiledOpen, Same
        <4>2. ASSUME NEW b \in Bases, Changes(n, b)
              PROVE  FiledOpen(n)'
          <5>1. /\ s'[n].file = b /\ s'[n].p = lrp'[b][i] /\ s'[n].old = s'[n].p /\ lrp' = Flushed(s[n])
                /\ shared' = shared
            BY <3>1, <4>2 DEF Changes
          <5>2. i \notin shared => \A c \in Bases : passed'[c][i] <= Top(lrp'[c][i])
            BY <3>1, <5>1, FlushFiled
          <5> QED
            BY <3>1, <5>1, <5>2 DEF FiledOpen
        <4> QED
          BY <3>1, <4>1, <4>2
      <3> QED
        BY <3>1, <3>2, <3>3, <3>4, TurnFiled
    <2>4. CASE Leaves(n)
      <3>1. /\ UNCHANGED <<decided, shared>> /\ Others(n) /\ In(n) /\ s'[n] = Free
            /\ UNCHANGED lrp \/ lrp' = Flushed(s[n])
        BY <2>4 DEF Leaves, Turn
      <3>2. Keeps
        BY <2>4, <3>1, KeepsCopy DEF Leaves
      <3>3. ~In(n)' /\ FiledOpen(n)'
        BY <3>1, FreeIs DEF In, FiledOpen
      <3>4. \A b \in Bases, j \in Slots \ {i} : lrp'[b][j] = lrp[b][j] /\ passed'[b][j] = passed[b][j]
        BY <2>4, <3>1, FlushedAs DEF Leaves
      <3>5. ASSUME i \notin shared, NEW b \in Bases
            PROVE  passed'[b][i] <= Top(lrp'[b][i])
        <4>1. CASE lrp' = Flushed(s[n]) /\ UNCHANGED passed
          BY <3>1, <3>5, <4>1, FlushFiled
        <4>2. CASE /\ s[n].file # NoBase /\ UNCHANGED lrp /\ passed'[s[n].file][i] = Top(s[n].old)
                   /\ \A c \in Bases, j \in Slots : <<c, j>> # <<s[n].file, i>> => passed'[c][j] = passed[c][j]
          <5>1. /\ lrp[s[n].file][i] = s[n].old /\ i \in Slots
                /\ passed[b][i] <= IF s[n].file = b THEN Top(s[n].p) ELSE Top(lrp[b][i])
            BY <3>1, <3>5, <4>2, InSlots DEF Filed, FiledOpen
          <5>2. CASE b = s[n].file
            <6>1. lrp[b][i] \in Pairs
              BY <5>1 DEF Typed, TypeOK, FilesOK
            <6> QED
              BY <4>2, <5>1, <5>2, <6>1, TopNat
          <5>3. CASE b # s[n].file
            BY <4>2, <5>1, <5>3
          <5> QED
            BY <5>2, <5>3
        <4> QED
          BY <2>4, <4>1, <4>2 DEF Leaves
      <3> QED
        BY <3>1, <3>2, <3>3, <3>4, <3>5, TurnFiled
    <2>5. CASE Passed(n)
      <3>1. PICK q, t, l : Passes(n, q, t, l) /\ Top(s'[n].p) = Top(q) /\ Top(q) >= Top(s[n].p)
        BY <2>5, PassedRead
      <3> PICK b \in Bases : b = s[n].base
        BY <3>1 DEF Passes
      <3>2. /\ UNCHANGED <<db, decided, shared, lrp>> /\ Others(n) /\ In(n) /\ In(n)' /\ s'[n].id = i
            /\ s'[n].file = b /\ s[n].file = b /\ s'[n].old = s[n].old /\ q \in Pairs /\ s[n].p \in Pairs /\ i \in Slots
        BY <3>1, InSlots DEF Passes, Turn, Beside, account, Records
      <3>3. /\ passed'[b][i] = Bigger(passed[b][i], Top(q))
            /\ \A c \in Bases, j \in Slots : <<c, j>> # <<b, i>> => passed'[c][j] = passed[c][j]
        BY <3>1 DEF Passes, Grows
      <3>4. Keeps
        BY <3>2, KeepsCopy
      <3>5. FiledOpen(n)'
        <4> SUFFICES ASSUME i \notin shared
                     PROVE  /\ lrp'[b][i] = s'[n].old
                            /\ \A c \in Bases : passed'[c][i] <= IF s'[n].file = c THEN Top(s'[n].p) ELSE Top(lrp'[c][i])
          BY <3>2 DEF FiledOpen
        <4>1. /\ b # NoBase => lrp[b][i] = s[n].old
              /\ \A c \in Bases : passed[c][i] <= IF b = c THEN Top(s[n].p) ELSE Top(lrp[c][i])
          BY <3>2 DEF Filed, FiledOpen
        <4>2. passed[b][i] \in Nat /\ Top(q) \in Nat /\ Top(s[n].p) \in Nat /\ b # NoBase
          BY <3>2, TopNat, AccountsAssumption DEF Typed, TypeOK, HistoryOK
        <4>3. passed'[b][i] <= Top(s'[n].p)
          <5>1. passed[b][i] <= Top(s[n].p)
            BY <4>1
          <5> QED
            BY <3>1, <3>3, <4>2, <5>1 DEF Bigger
        <4> QED
          BY <3>2, <3>3, <4>1, <4>2, <4>3
      <3> QED
        BY <3>2, <3>3, <3>4, <3>5, TurnFiled
    <2> QED
      BY <2>0, <2>1, <2>2, <2>3, <2>4, <2>5 DEF Acts
  <1>2. ASSUME NEW e \in Sysops, Editor(e)
        PROVE  Filed'
    <2>1. Edits(e)
      BY <1>2, EditSteps
    <2>2. UNCHANGED <<lrp, passed>> /\ UNCHANGED s
      BY <2>1 DEF Edits, seen
    <2>3. shared \subseteq shared' /\ \A i \in Slots : DbStep(i)
      BY <2>1, EditKeeps
    <2> QED
      <3>1. \A n \in Nodes : FiledOpen(n)'
        BY <2>2, <2>3, OpenFiled DEF Filed
      <3>2. \A i \in Slots : FiledSlot(i)'
        BY <2>2, <2>3, SlotFiled DEF Filed, In
      <3> QED
        BY <3>1, <3>2 DEF Filed
  <1>3. ASSUME (\E m \in Mailed : PostNumber(m[1], m[2])) \/ PostHeader \/ PostText
        PROVE  Filed'
    <2>1. /\ UNCHANGED <<db, shared, lrp, passed>>
          /\ \A n \in Nodes : /\ s'[n].pc = s[n].pc /\ s'[n].id = s[n].id /\ s'[n].file = s[n].file
                              /\ s'[n].p = s[n].p /\ s'[n].old = s[n].old
      BY <1>3, PostSteps DEF Posting, account, seen
    <2>2. \A n \in Nodes : FiledOpen(n)'
      BY <2>1 DEF Filed, FiledOpen, In
    <2>3. \A i \in Slots : FiledSlot(i)'
      BY <2>1 DEF Filed, FiledSlot, In
    <2> QED
      BY <2>2, <2>3 DEF Filed
  <1>4. ASSUME UNCHANGED vars
        PROVE  Filed'
    BY <1>4 DEF vars, account, seen, Filed, FiledOpen, FiledSlot, In
  <1> QED
    BY <1>1, <1>2, <1>3, <1>4 DEF Next

-----------------------------------------------------------------------------
(* The invariant. *)

LEMMA InitInv ==
    ASSUME Init
    PROVE  Inv
  <1> DEFINE r == [who |-> First, status |-> "active"]
  <1>0. MaxSlots \in Nat \ {0} /\ NoBase \notin Bases /\ Nobody \notin Persons /\ First \in Persons /\ 1 \in Slots
    BY AccountsAssumption DEF Slots
  <1>1. /\ db = <<r>> /\ decided = db /\ shared = {} /\ post = NoPost /\ work = 0
        /\ sel = [i \in Slots |-> {}] /\ lrp = [b \in Bases |-> [i \in Slots |-> Pointers]]
        /\ high = [b \in Bases |-> 0] /\ dat = [b \in Bases |-> <<>>]
        /\ s = [n \in Nodes |-> Free] /\ ed = [e \in Sysops |-> NoCopy]
        /\ told = PerBase({}) /\ left = PerBase({}) /\ passed = [b \in Bases |-> [i \in Slots |-> 0]]
    BY DEF Init
  <1>2. r \in Recs
    BY <1>0 DEF Recs
  <1>3. db \in Seq(Recs) /\ Len(db) = 1 /\ DOMAIN db = {1}
    <2> HIDE DEF r
    <2> QED
      BY <1>1, <1>2
  <1>4. Pointers \in Pairs /\ Top(Pointers) = 0 /\ NoCopy \in [id : 0..MaxSlots, rec : Recs] /\ NoCopy.id = 0
    <2>1. NoRec \in Recs
      BY FreeSound
    <2> QED
      BY <1>0, <2>1 DEF Pointers, Pairs, Top, Bigger, NoCopy, NoRec
  <1>5. NoPost \in Posts /\ NoPost.step = "none"
    BY DEF NoPost, Posts
  <1>6. Typed
    <2>1. AccountOK
      BY <1>0, <1>1, <1>3, <1>4 DEF AccountOK
    <2>2. FilesOK
      <3>1. <<>> \in Seq(Headers)
        OBVIOUS
      <3> QED
        BY <1>1, <1>4, <1>5, <3>1 DEF FilesOK
    <2>3. HistoryOK
      BY <1>1 DEF HistoryOK, PerBase
    <2>4. \A n \in Nodes : s[n] = Free
      BY <1>1
    <2>5. s \in [Nodes -> Records] /\ \A n \in Nodes : Sound(s[n])
      BY <1>1, <2>4, FreeSound
    <2> QED
      BY <2>1, <2>2, <2>3, <2>5 DEF Typed, TypeOK
  <1>7. \A n \in Nodes : s[n] = Free /\ ~In(n) /\ s[n].pc = "off" /\ Who(n) = Nobody /\ s[n].file = NoBase
    BY <1>1, FreeIs, RecWho DEF In, Who
  <1>8. AccountsInv
    BY <1>1, <1>4, <1>7 DEF AccountsInv, OneCall, Copies, Applying, Decided
  <1>9. MailInv
    <2>1. \A b \in Bases : high[b] = 0 /\ dat[b] = <<>>
      BY <1>1
    <2>2. Len(<<>>) = 0 /\ DOMAIN <<>> = {}
      OBVIOUS
    <2> QED
      BY <1>1, <1>5, <2>1, <2>2 DEF MailInv, Saving
  <1>10. ReadInv
    <2>1. \A b \in Bases, i \in Slots : lrp[b][i] = Pointers /\ high[b] = 0
      BY <1>1
    <2>2. \A x, b : Covered(x, b, 0)
      BY DEF Covered
    <2>3. \A b \in Bases, i \in Slots : SlotRead(b, i)
      BY <1>4, <2>1, <2>2 DEF SlotRead
    <2>4. \A n \in Nodes : OpenRead(n)
      BY <1>7 DEF OpenRead
    <2>5. LeftRead
      BY <1>1 DEF LeftRead, PerBase
    <2> QED
      BY <2>3, <2>4, <2>5 DEF ReadInv
  <1>11. Filed
    <2>1. \A b \in Bases, i \in Slots : lrp[b][i] = Pointers /\ passed[b][i] = 0
      BY <1>1
    <2> QED
      BY <1>4, <1>7, <2>1 DEF Filed, FiledOpen, FiledSlot
  <1> QED
    BY <1>6, <1>8, <1>9, <1>10, <1>11 DEF Inv

\* The invariant holds in every state: records and mail are well formed, copies are what is on
\* file unless the slot is shared, and pointers pass only what was shown or left behind.
THEOREM InvHolds == Spec => []Inv
  <1>1. Init => Inv
    BY InitInv
  <1>2. Inv /\ [Next]_vars => Inv'
    BY NextTyped, NextAccounts, NextMail, NextRead, NextFiled DEF Inv
  <1> QED
    BY <1>1, <1>2, PTL DEF Spec

\* The records of sessions, editors and files keep their types, slots their bounds, whatever
\* nodes and sysops do at once.
THEOREM TypesHold == Spec => []TypeOK
  <1>1. Inv => TypeOK
    BY DEF Inv, Typed
  <1> QED
    BY <1>1, InvHolds, PTL

\* What an applicant or a sysop decided about an account stays, in every slot that was never
\* written while another had a copy: writeubent of a whole copy undoes nothing there.
THEOREM AccountsStay == Spec => []Decided
  <1>1. Inv => Decided
    BY DEF Inv, AccountsInv
  <1> QED
    BY <1>1, InvHolds, PTL

\* What counts for a person in a base is covered: his pointers on file, or those of his session.
LEMMA PointersCovered ==
    ASSUME Inv, NEW x \in Persons, NEW b \in Bases, NEW q \in PointersOf(x, b)
    PROVE  Covered(x, b, Top(q))
  <1> USE DEF Inv
  <1> DEFINE open == {n \in Nodes : Who(n) = x /\ s[n].file = b}
  <1>1. CASE open = {}
    <2>1. PointersOf(x, b) = {lrp[b][i] : i \in SlotOf(x)}
      BY <1>1 DEF PointersOf
    <2>2. PICK i \in SlotOf(x) : q = lrp[b][i]
      BY <2>1
    <2>3. i \in DOMAIN db \ shared /\ db[i].who = x /\ db[i] # NoRec
      BY <2>2, RecWho, AccountsAssumption DEF SlotOf
    <2>4. i \in Slots
      <3>1. Len(db) \in Slots /\ i \in 1..Len(db)
        BY <2>3 DEF Typed, TypeOK, AccountOK
      <3> QED
        BY <3>1, AccountsAssumption DEF Slots
    <2>5. SlotRead(b, i)
      BY <2>4 DEF ReadInv
    <2> QED
      BY <2>2, <2>3, <2>5 DEF SlotRead
  <1>2. CASE open # {}
    <2>1. PointersOf(x, b) = {s[n].p : n \in {m \in open : s[m].id \notin shared}}
      BY <1>2 DEF PointersOf
    <2>2. PICK n \in open : s[n].id \notin shared /\ q = s[n].p
      BY <2>1
    <2>3. In(n) /\ s[n].file # NoBase
      BY <2>2, InSlots, AccountsAssumption DEF Sound, In
    <2>4. OpenRead(n)
      BY DEF ReadInv
    <2> QED
      BY <2>2, <2>3, <2>4 DEF OpenRead
  <1> QED
    BY <1>1, <1>2

\* New mail is offered: a caller's pointers pass only what he was shown, what he left out
\* himself and what was being saved while he read or scanned.
THEOREM MailOffered == Spec => []NothingOverlooked
  <1>1. Inv => NothingOverlooked
    <2> SUFFICES ASSUME Inv, NEW x \in Persons, NEW b \in Bases, NEW q \in PointersOf(x, b),
                        NEW j \in His(x, b, 1..Top(q))
                 PROVE  j \in told[x][b] \cup left[x][b]
      BY DEF NothingOverlooked, Top
    <2>1. PICK h \in Complete(b) : h.num = j /\ h.num \in 1..Top(q) /\ h.to = x
      BY DEF His
    <2>2. j \in DOMAIN dat[b] /\ dat[b][j] = h
      BY <2>1, Numbers DEF Inv, Complete
    <2>3. For(x, b, j)
      BY <2>1, <2>2 DEF For
    <2>4. Covered(x, b, Top(q))
      BY PointersCovered
    <2> QED
      BY <2>1, <2>3, <2>4 DEF Covered
  <1> QED
    BY <1>1, InvHolds, PTL

\* When a caller has left, the pointers on file have passed all he passed, but where he left
\* from a conference without a base: changemsgbase and the end of getin write them in time.
THEOREM PointersFiled == Spec => []PointersKept
  <1>1. Inv => PointersKept
    <2> SUFFICES ASSUME Inv, NEW x \in Persons, ~Calls(x), NEW b \in Bases, NEW i \in SlotOf(x)
                 PROVE  passed[b][i] <= Top(lrp[b][i])
      BY DEF PointersKept, Top
    <2>1. i \in DOMAIN db \ shared /\ db[i].who = x /\ db[i] # NoRec
      BY RecWho, AccountsAssumption DEF SlotOf
    <2>2. i \in Slots
      <3>1. Len(db) \in Slots /\ i \in 1..Len(db)
        BY <2>1 DEF Inv, Typed, TypeOK, AccountOK
      <3> QED
        BY <3>1, AccountsAssumption DEF Slots
    <2>3. \A n \in Nodes : In(n) => s[n].id # i
      <3> SUFFICES ASSUME NEW n \in Nodes, In(n), s[n].id = i PROVE FALSE
        OBVIOUS
      <3>1. s[n].rec = db[i]
        BY <2>1, CopyOf DEF Inv
      <3> QED
        BY <2>1, <3>1 DEF Calls, Who
    <2>4. FiledSlot(i)
      BY <2>2 DEF Inv, Filed
    <2> QED
      BY <2>1, <2>3, <2>4 DEF FiledSlot
  <1> QED
    BY <1>1, InvHolds, PTL
=============================================================================
