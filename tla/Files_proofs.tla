---------------------------- MODULE Files_proofs ----------------------------
(* Proofs about files, tags and credits, for any number of nodes, users,   *)
(* names and files.  Beside the types the invariant says where each worker *)
(* may be and whose record it has (Typed), what becomes of a file that was *)
(* received (Loss), what a list holds that is being changed (Lists) and    *)
(* who keeps a user's credits meanwhile (Credits).                         *)
EXTENDS Files, FiniteSetTheorems, SequenceTheorems, TLAPS

Busy == {"name", "dupe", "ask", "list", "move"}
Running(n) == job[Checker(n)].pc # "off"
OnLine(n) == main[n] # "off"

\* A node works on a file in its scan only, a checker from the fork to the wait for it.
\* A checker that reads before the log of the last transfer is gone finds no file.
PlacedAt(n) ==
  /\ job[Node(n)].pc \in Busy \cup {"off"}
  /\ job[Node(n)].pc # "off" => main[n] = "scan"
  /\ Running(n) => main[n] \in {"begin", "transfer", "flood", "stop"} /\ kind[n] \in {"upload", "both"}
  /\ main[n] \in {"begin", "transfer"} => kind[n] # "left"
  /\ main[n] \in {"flood", "stop"} => kind[n] \in {"upload", "both"}
  /\ main[n] = "scan" => kind[n] \in {"upload", "both", "left"}
  /\ main[n] = "charge" => kind[n] \in {"download", "both", "sysop"}
  /\ main[n] = "begin" => job[Checker(n)].pc \notin Busy
  /\ main[n] = "begin" /\ kind[n] \in {"upload", "both"} => temp[n] = {} \/ log[n] = <<>>
  /\ bgdone[n] # NoRecord => main[n] = "stop" /\ ~Running(n)
  /\ sig[n] => main[n] = "stop" /\ Running(n)
Placed == \A n \in Nodes : PlacedAt(n)

\* Whose record each worker has.
NamedAt(n) ==
  /\ OnLine(n) => Me(n) \in Records
  /\ Running(n) => user[Checker(n)] \in Records /\ user[Checker(n)].id = Me(n).id
  /\ bgdone[n] # NoRecord => bgdone[n] \in Records /\ bgdone[n].id = Me(n).id
Single == \A m, n \in Nodes : m # n /\ OnLine(m) /\ OnLine(n) => Me(m).id # Me(n).id
OwnRecord == \A u \in Users : rec[u].id = u
Named == (\A n \in Nodes : NamedAt(n)) /\ Single /\ OwnRecord

\* What has been sent is tagged until the transfer is paid for.
SendsAt(n) ==
  /\ sent[n] # <<>> => /\ main[n] \in {"transfer", "flood", "stop", "scan", "charge"}
                       /\ kind[n] \in {"download", "both", "sysop"}
  /\ Range(sent[n]) \subseteq Range(tags[n])
Sends == \A n \in Nodes : SendsAt(n)

Typed == FilesTypeOK /\ Placed /\ Named /\ Sends

-----------------------------------------------------------------------------
Sound == mishap \subseteq {"overwritten", "list", "stays"}
Neat == "stays" \notin mishap

\* A part is not taken for a file: none is left when a transfer is over, and no log has a line
\* that calls one a file.
WholeJobs == Neat => \A w \in Workers : job[w].pc \in Busy => job[w].file.no # 0
WholeLeft == Neat => \A u \in Users : \A f \in lc[u] : f.no # 0
WholeShelf == Neat => \A f \in area \cup hold : f.no = 0 => f.by = "none"
PartsAt(n) == Neat => \A f \in temp[n] : f.no = 0 =>
                        /\ main[n] \in {"begin", "transfer"}
                        /\ \A i \in DOMAIN log[n] : log[n][i] # <<"up", f.name>>
Whole == WholeJobs /\ WholeLeft /\ WholeShelf /\ \A n \in Nodes : PartsAt(n)

\* A temporary directory is empty when it is cleaned: the scan has taken every file.
DrainedAt(n) ==
  /\ main[n] \in {"off", "tags", "menu", "charge"} => temp[n] = {}
  /\ main[n] \in {"begin", "transfer"} /\ kind[n] \in {"download", "sysop"} => temp[n] = {}
  /\ main[n] # "scan" => seen[n] = {}
  /\ main[n] = "scan" => \A f \in temp[n] : f.name \in seen[n] =>
                            job[Node(n)].pc # "off" /\ f = job[Node(n)].file
Drained == \A n \in Nodes : DrainedAt(n)

\* A file received is refused, moved or in a directory.
Held(no) == \/ \E f \in area \cup hold : f.no = no
            \/ \E n \in Nodes : \E f \in temp[n] : f.no = no
            \/ \E u \in Users : \E f \in lc[u] : f.no = no
Known(no) == no \in refused \cup elsewhere \/ Held(no)
Kept == \A no \in received : Known(no)

\* Past the check for duplicates a name is still not on line.
Clear == \A w \in Workers : job[w].pc \in {"ask", "list", "move"} /\ ~job[w].held =>
                               job[w].file.name \notin NamesIn(area)

Loss == /\ "race" \notin mishap => Clear
        /\ Sound => Whole /\ Drained /\ Kept

\* The list has the files on line, those about to be and the one that is being moved.
Pending(w) == job[w].pc = "move" /\ ~job[w].held
InStep ==
  /\ area \subseteq listing
  /\ \A w \in Workers : Pending(w) => job[w].file \in listing
  /\ \A f \in listing : \/ f \in area \/ f = mover.file
                        \/ \E w \in Workers : Pending(w) /\ job[w].file = f
  /\ mover.file # NoFile =>
       /\ mover.list = listing /\ mover.file \notin area
       /\ \A w \in Workers : Pending(w) => job[w].file # mover.file
Lists == mishap \cap {"disk", "race", "list"} = {} => InStep

-----------------------------------------------------------------------------
\* A file is tagged once; what has been sent is paid for when the transfer is.
TaggedAt(n) == /\ IsInjective(tags[n])
               /\ main[n] = "off" => tags[n] = <<>>
               /\ Range(sent[n]) \subseteq Range(Passed(n))

\* The files sent are paid for, or will be.
PaidAt(n) == /\ OnLine(n) => due[Me(n).id] <= Me(n).dl + Price(n, sent[n])
             /\ Running(n) => user[Checker(n)].dl = Me(n).dl
             /\ bgdone[n] # NoRecord => bgdone[n].dl = Me(n).dl

\* Who keeps a user's record: the checker, the file it leaves, or the node.
Keeper(n) == IF Running(n) THEN user[Checker(n)] ELSE IF bgdone[n] # NoRecord THEN bgdone[n] ELSE Me(n)
EarnedAt(n) == /\ OnLine(n) => Keeper(n).ul = owed[Me(n).id]
               /\ Running(n) /\ (main[n] = "begin" \/ job[Checker(n)].pc = "born") =>
                     user[Checker(n)].ul = Me(n).ul

\* What a user has is within his ratio, wherever it is kept.
Enough(r) == r.dl <= Ratio * r.ul + Bonus
WithinAt(n) == OnLine(n) => /\ Me(n).dl + Counted(tags[n]) <= Ratio * Me(n).ul + Bonus
                            /\ Me(n).ul <= Keeper(n).ul

Exact == mishap \cap {"disk", "overwritten"} = {}
Limited == Ratio # 0 /\ "overwritten" \notin mishap
CreditAt(n) == /\ TaggedAt(n) /\ PaidAt(n)
               /\ Exact => EarnedAt(n)
               /\ Limited => WithinAt(n)
OffLine(u) == \A n \in Nodes : OnLine(n) => Me(n).id # u
Rested(u) == /\ due[u] <= rec[u].dl
             /\ Exact => rec[u].ul = owed[u]
Credits == /\ \A n \in Nodes : CreditAt(n)
           /\ \A u \in Users : OffLine(u) => Rested(u)
           /\ Limited => \A u \in Users : Enough(rec[u])

-----------------------------------------------------------------------------
(* Workers.                                                                *)

\* A node has two workers of its own.
LEMMA Hands ==
  /\ \A n \in Nodes : /\ Node(n) \in Workers /\ Node(n)[1] = n /\ Node(n)[2] = "node"
                      /\ Checker(n) \in Workers /\ Checker(n)[1] = n /\ Checker(n)[2] = "checker"
  /\ \A m, n \in Nodes : /\ Node(m) # Checker(n)
                         /\ Node(m) = Node(n) => m = n
                         /\ Checker(m) = Checker(n) => m = n
  /\ \A w \in Workers : w[1] \in Nodes /\ (w = Node(w[1]) \/ w = Checker(w[1])) /\ (w[2] = "node" <=> w = Node(w[1]))
  BY DEF Workers, Node, Checker

\* The steps of the program.
LEMMA Steps ==
  ASSUME Next
  PROVE  \/ \E n \in Nodes : Calls(n) \/ Transfers(n) \/ After(n) \/ Following(n)
         \/ \E w \in Workers : HandleUpload(w)
         \/ \E f \in area : MoveFile(f)
         \/ WriteList
  BY DEF Next

-----------------------------------------------------------------------------
(* Types.                                                                  *)

\* A job goes on, or ends.
LEMMA JobType ==
  ASSUME NEW r \in Jobs
  PROVE  /\ r.pc \in Busy \cup {"off", "born", "idle"}
         /\ r.pc \in Busy <=> r.file \in Copies
         /\ r.pc \in Busy => /\ r.held \in BOOLEAN
                             /\ \A p \in Busy : [r EXCEPT !.pc = p] \in Jobs
                             /\ \A p \in Busy, f \in Copies : [r EXCEPT !.pc = p, !.file = f] \in Jobs
                             /\ \A p \in Busy, h \in BOOLEAN : [r EXCEPT !.pc = p, !.held = h] \in Jobs
  <1>1. NoFile \notin Copies
    BY FilesAssumption DEF NoFile, Copies
  <1> QED
    BY <1>1 DEF Jobs, Busy

LEMMA NewJob ==
  /\ \A p \in {"off", "born", "idle"} : Idle(p) \in Jobs /\ Idle(p).pc = p /\ ~Idle(p).held
  /\ \A f \in Copies : [pc |-> "name", file |-> f, held |-> FALSE] \in Jobs
  BY DEF Jobs, Idle

\* A tag that is added is a new one.
LEMMA AddedTag ==
  ASSUME NEW r, NEW t \in Seq(Names), NEW x \in Names
  PROVE  AddTag(r, t, x) \in Seq(Names)
  BY DEF AddTag

LEMMA Removed ==
  ASSUME NEW t \in Seq(Names), NEW i \in DOMAIN t
  PROVE  /\ RemoveAt(t, i) \in Seq(Names) /\ Len(RemoveAt(t, i)) = Len(t) - 1
         /\ \A j \in 1 .. Len(t) - 1 : RemoveAt(t, i)[j] = IF j < i THEN t[j] ELSE t[j + 1]
  <1>1. SubSeq(t, 1, i - 1) \in Seq(Names) /\ SubSeq(t, i + 1, Len(t)) \in Seq(Names)
    OBVIOUS
  <1>2. Len(SubSeq(t, 1, i - 1)) = i - 1 /\ Len(SubSeq(t, i + 1, Len(t))) = Len(t) - i
    OBVIOUS
  <1>3. /\ \A j \in 1 .. i - 1 : SubSeq(t, 1, i - 1)[j] = t[j]
        /\ \A j \in 1 .. Len(t) - i : SubSeq(t, i + 1, Len(t))[j] = t[i + j]
    OBVIOUS
  <1> DEFINE a == SubSeq(t, 1, i - 1)  b == SubSeq(t, i + 1, Len(t))
  <1>4. RemoveAt(t, i) = a \o b
    BY DEF RemoveAt
  <1> HIDE DEF a, b
  <1>5. a \in Seq(Names) /\ b \in Seq(Names) /\ Len(a) = i - 1 /\ Len(b) = Len(t) - i
        /\ (\A j \in 1 .. i - 1 : a[j] = t[j]) /\ \A j \in 1 .. Len(t) - i : b[j] = t[i + j]
    BY <1>1, <1>2, <1>3 DEF a, b
  <1>6. a \o b \in Seq(Names) /\ Len(a \o b) = Len(t) - 1
    BY <1>5
  <1>7. \A j \in 1 .. Len(t) - 1 : (a \o b)[j] = IF j <= i - 1 THEN a[j] ELSE b[j - (i - 1)]
    BY <1>5
  <1>8. \A j \in 1 .. Len(t) - 1 : (a \o b)[j] = IF j < i THEN t[j] ELSE t[j + 1]
    BY <1>5, <1>7
  <1> QED
    BY <1>4, <1>6, <1>8

\* The program starts with typed state.
LEMMA InitTyped == Init => Typed
  <1> SUFFICES ASSUME Init PROVE Typed
    OBVIOUS
  <1>0. \A x \in Shelf : OnShelf(x) \in Copies /\ OnShelf(x).name = x
    BY FilesAssumption DEF OnShelf, Copies
  <1>1. FilesTypeOK
    BY <1>0, NewJob, FilesAssumption DEF Init, FilesTypeOK, NodeTypes, LogTypes, TagTypes, JobTypes, RecordTypes,
       TempTypes, LeftTypes, AreaTypes, HistoryTypes, Records, NoTwin
  <1>2. \A w \in Workers : job[w] = Idle("off")
    BY DEF Init
  <1>3. Placed
    BY <1>2, Hands, NewJob DEF Init, Placed, PlacedAt, Running
  <1>4. Named
    BY <1>2, Hands, NewJob DEF Init, Named, NamedAt, Single, OwnRecord, Running, OnLine
  <1>5. Sends
    BY DEF Init, Sends, SendsAt, Range
  <1> QED
    BY <1>1, <1>3, <1>4, <1>5 DEF Typed

-----------------------------------------------------------------------------
(* Tags counted.                                                           *)

LEMMA RangeFinite ==
  ASSUME NEW t \in Seq(Names)
  PROVE  IsFiniteSet(Range(t)) /\ IsFiniteSet(Range(t) \ Free)
<1> DEFINE f == [i \in 1 .. Len(t) |-> t[i]]
<1>1. Range(t) = {t[i] : i \in 1 .. Len(t)}
  BY DEF Range
<1>2. IsFiniteSet(1 .. Len(t))
  BY FS_Interval
<1>3. f \in Surjection(1 .. Len(t), Range(t))
  BY <1>1 DEF Surjection
<1>4. IsFiniteSet(Range(t))
  BY <1>2, <1>3, FS_Surjection
<1> QED
  BY <1>4, FS_Subset

LEMMA CountedType ==
  ASSUME NEW t \in Seq(Names)
  PROVE  Counted(t) \in Nat
  BY RangeFinite, FS_CardinalityType DEF Counted

\* The more tags, the more are counted.
LEMMA CountedMore ==
  ASSUME NEW s \in Seq(Names), NEW t \in Seq(Names), Range(s) \subseteq Range(t)
  PROVE  Counted(s) <= Counted(t)
<1>1. Range(s) \ Free \subseteq Range(t) \ Free
  OBVIOUS
<1> QED
  BY <1>1, RangeFinite, FS_Subset DEF Counted

LEMMA PriceType ==
  ASSUME NEW n \in Nodes, NEW t \in Seq(Names)
  PROVE  Price(n, t) \in Nat
  BY CountedType DEF Price

\* What is paid for are the tags up to the last file sent.
LEMMA PassedType ==
  ASSUME NEW n \in Nodes, tags[n] \in Seq(Names), sent[n] \in Seq(Names),
         Range(sent[n]) \subseteq Range(tags[n])
  PROVE  /\ Passed(n) \in Seq(Names)
         /\ Len(Passed(n)) \in 0 .. Len(tags[n]) /\ Passed(n) = SubSeq(tags[n], 1, Len(Passed(n)))
<1>1. CASE sent[n] = <<>>
  <2>1. Passed(n) = <<>> /\ SubSeq(tags[n], 1, 0) = <<>>
    BY <1>1 DEF Passed
  <2> QED
    BY <2>1
<1>2. CASE sent[n] # <<>> /\ kind[n] = "both"
  <2>1. Passed(n) = tags[n] /\ SubSeq(tags[n], 1, Len(tags[n])) = tags[n]
    BY <1>2 DEF Passed
  <2> QED
    BY <2>1
<1>3. CASE sent[n] # <<>> /\ kind[n] # "both"
  <2> DEFINE k == CHOOSE i \in DOMAIN tags[n] : tags[n][i] = Last(sent[n])
  <2>1. Last(sent[n]) \in Range(sent[n])
    BY <1>3 DEF Last, Range
  <2>2. \E i \in DOMAIN tags[n] : tags[n][i] = Last(sent[n])
    BY <2>1 DEF Range
  <2>3. k \in DOMAIN tags[n]
    BY <2>2
  <2>4. Passed(n) = SubSeq(tags[n], 1, k)
    BY <1>3 DEF Passed
  <2> HIDE DEF k
  <2>5. k \in 1 .. Len(tags[n])
    BY <2>3
  <2>6. SubSeq(tags[n], 1, k) \in Seq(Names) /\ Len(SubSeq(tags[n], 1, k)) = k
    BY <2>5
  <2> QED
    BY <2>4, <2>5, <2>6
<1> QED
  BY <1>1, <1>2, <1>3

\* What a step leaves alone keeps its type.
LEMMA Frames ==
  ASSUME FilesTypeOK
  PROVE  /\ UNCHANGED <<main, kind, seen, last, sig>> => NodeTypes'
         /\ UNCHANGED log => LogTypes'
         /\ UNCHANGED <<tags, sent, flagged>> => TagTypes'
         /\ UNCHANGED job => JobTypes'
         /\ UNCHANGED <<user, bgdone, rec, owed, due>> => RecordTypes'
         /\ UNCHANGED temp => TempTypes'
         /\ UNCHANGED <<lc, part>> => LeftTypes'
         /\ UNCHANGED <<area, listing, hold, mover>> => AreaTypes'
         /\ UNCHANGED <<elsewhere, refused, received, used, mishap>> => HistoryTypes'
<1>1. UNCHANGED <<main, kind, seen, last, sig>> => NodeTypes'
  BY DEF FilesTypeOK, NodeTypes
<1>2. UNCHANGED log => LogTypes'
  BY DEF FilesTypeOK, LogTypes
<1>3. UNCHANGED <<tags, sent, flagged>> => TagTypes'
  BY DEF FilesTypeOK, TagTypes
<1>4. UNCHANGED job => JobTypes'
  BY DEF FilesTypeOK, JobTypes
<1>5. UNCHANGED <<user, bgdone, rec, owed, due>> => RecordTypes'
  BY DEF FilesTypeOK, RecordTypes
<1>6. UNCHANGED temp => TempTypes'
  BY DEF FilesTypeOK, TempTypes
<1>7. UNCHANGED <<lc, part>> => LeftTypes'
  BY DEF FilesTypeOK, LeftTypes
<1>8. UNCHANGED <<area, listing, hold, mover>> => AreaTypes'
  BY DEF FilesTypeOK, AreaTypes
<1>9. UNCHANGED <<elsewhere, refused, received, used, mishap>> => HistoryTypes'
  BY DEF FilesTypeOK, HistoryTypes
<1> QED
  BY <1>1, <1>2, <1>3, <1>4, <1>5, <1>6, <1>7, <1>8, <1>9

\* Every step keeps the types: a call,
LEMMA CallsTyped ==
  ASSUME Typed, NEW n \in Nodes, Calls(n)
  PROVE  FilesTypeOK'
<1> USE DEF Typed, nodeVars, shared, disk, history
<1>h. Node(n) \in Workers
  BY Hands
<1>k. OnLine(n) => Me(n) \in Records /\ Me(n).id \in Users
  BY DEF Named, NamedAt, Records
<1>1. ASSUME NEW u \in Users, Login(n, u) PROVE FilesTypeOK'
  <2>0. temp[n] \subseteq Copies /\ lc[u] \subseteq Copies /\ NoTwin(temp[n]) /\ NoTwin(lc[u])
    BY DEF FilesTypeOK, TempTypes, LeftTypes
  <2>1. PutAll(temp[n], lc[u]) \subseteq Copies /\ NoTwin(PutAll(temp[n], lc[u]))
    BY <2>0 DEF PutAll, NoTwin, NamesIn
  <2>2. TempTypes'
    BY <1>1, <2>1 DEF Login, FilesTypeOK, TempTypes
  <2>3. LeftTypes'
    BY <1>1 DEF Login, FilesTypeOK, LeftTypes, NoTwin
  <2>4. RecordTypes'
    BY <1>1, <1>h DEF Login, FilesTypeOK, RecordTypes
  <2>5. NodeTypes'
    BY <1>1 DEF Login, FilesTypeOK, NodeTypes
  <2> QED
    BY <1>1, <2>2, <2>3, <2>4, <2>5, Frames DEF Login, FilesTypeOK
<1>2. CASE LoadFlagList(n)
  <2>1. NodeTypes'
    BY <1>2 DEF LoadFlagList, FilesTypeOK, NodeTypes
  <2>2. TagTypes'
    <3>0. Me(n).id \in Users /\ flagged[Me(n).id] \in Seq(Names) /\ tags[n] \in Seq(Names)
      BY <1>2, <1>k DEF LoadFlagList, OnLine, FilesTypeOK, TagTypes
    <3> DEFINE u == Me(n).id
    <3>1. CASE flagged[u] # <<>> /\ flagged' = [flagged EXCEPT ![u] = Tail(@)]
               /\ tags' = [tags EXCEPT ![n] = IF Head(flagged[u]) \in NamesIn(area)
                                              THEN AddTag(Me(n), @, Head(flagged[u])) ELSE @]
      <4>1. Head(flagged[u]) \in Names /\ Tail(flagged[u]) \in Seq(Names)
        BY <3>0, <3>1
      <4>2. AddTag(Me(n), tags[n], Head(flagged[u])) \in Seq(Names)
        BY <3>0, <4>1, AddedTag
      <4>3. tags' \in [Nodes -> Seq(Names)]
        BY <3>1, <4>2 DEF FilesTypeOK, TagTypes
      <4>4. flagged' \in [Users -> Seq(Names)]
        BY <3>1, <4>1 DEF FilesTypeOK, TagTypes
      <4> QED
        BY <1>2, <4>3, <4>4 DEF LoadFlagList, FilesTypeOK, TagTypes
    <3>2. CASE UNCHANGED <<tags, flagged>>
      BY <1>2, <3>2 DEF LoadFlagList, FilesTypeOK, TagTypes
    <3> QED
      BY <1>2, <3>1, <3>2 DEF LoadFlagList
  <2> QED
    BY <1>2, <2>1, <2>2, Frames DEF LoadFlagList, FilesTypeOK
<1>3. CASE Logoff(n)
  <2>0. Me(n) \in Records /\ Me(n).id \in Users
    BY <1>3, <1>k DEF Logoff, OnLine
  <2>1. RecordTypes'
    BY <1>3, <2>0, <1>h DEF Logoff, FilesTypeOK, RecordTypes
  <2>2. TagTypes'
    <3>1. <<>> \in Seq(Names) /\ tags[n] \in Seq(Names)
      BY DEF FilesTypeOK, TagTypes
    <3>2. PICK t \in {tags[n], <<>>} : flagged' = [flagged EXCEPT ![Me(n).id] = t]
      BY <1>3 DEF Logoff, LeftTagged
    <3> QED
      BY <1>3, <3>1, <3>2 DEF Logoff, FilesTypeOK, TagTypes
  <2>3. NodeTypes'
    BY <1>3 DEF Logoff, FilesTypeOK, NodeTypes
  <2> QED
    BY <1>3, <2>1, <2>2, <2>3, Frames DEF Logoff, FilesTypeOK
<1>4. CASE ReadNews(n)
  <2>0. Me(n) \in Records /\ Me(n).id \in Users
    BY <1>4, <1>k DEF ReadNews, OnLine
  <2>1. [Me(n) EXCEPT !.ul = @ + 1] \in Records
    BY <2>0 DEF Records
  <2>2. RecordTypes'
    BY <1>4, <2>0, <2>1, <1>h DEF ReadNews, Me, FilesTypeOK, RecordTypes
  <2>3. HistoryTypes'
    <3>1. used.news + 1 \in 0 .. MaxNews
      <4>1. used.news \in 0 .. MaxNews /\ used.news < MaxNews
        BY <1>4 DEF ReadNews, FilesTypeOK, HistoryTypes
      <4>2. MaxNews \in Nat
        BY FilesAssumption
      <4> QED
        BY <4>1, <4>2
    <3>2. used' \in [transfers : 0 .. MaxTransfers, news : 0 .. MaxNews, moves : 0 .. MaxMoves]
      BY <1>4, <3>1 DEF ReadNews, FilesTypeOK, HistoryTypes
    <3>3. UNCHANGED <<received, refused, elsewhere>> /\ mishap' \subseteq mishap \cup {"overwritten"}
      BY <1>4 DEF ReadNews
    <3> QED
      BY <3>2, <3>3 DEF FilesTypeOK, HistoryTypes
  <2> QED
    BY <1>4, <2>2, <2>3, Frames DEF ReadNews, FilesTypeOK
<1>5. ASSUME NEW x \in Names, FlagFile(n, x) PROVE FilesTypeOK'
  <2>1. TagTypes'
    BY <1>5, AddedTag DEF FlagFile, FilesTypeOK, TagTypes
  <2> QED
    BY <1>5, <2>1, Frames DEF FlagFile, FilesTypeOK
<1>6. ASSUME NEW x \in Names, UnflagFile(n, x) PROVE FilesTypeOK'
  <2>1. PICK i \in DOMAIN tags[n] : tags' = [tags EXCEPT ![n] = RemoveAt(@, i)]
    BY <1>6 DEF UnflagFile
  <2>2. RemoveAt(tags[n], i) \in Seq(Names)
    BY Removed DEF FilesTypeOK, TagTypes
  <2>3. TagTypes'
    BY <1>6, <2>1, <2>2 DEF UnflagFile, FilesTypeOK, TagTypes
  <2> QED
    BY <1>6, <2>3, Frames DEF UnflagFile, FilesTypeOK
<1> QED
  BY <1>1, <1>2, <1>3, <1>4, <1>5, <1>6 DEF Calls

\* A file that arrives, and its line.
LEMMA ArriveTyped ==
  ASSUME FilesTypeOK, NEW n \in Nodes, NEW f \in Copies, NEW lines \in Seq(Lines), Arrive(n, f, lines)
  PROVE  TempTypes' /\ LogTypes' /\ mishap' \subseteq mishap \cup {"named"}
<1>1. TempTypes'
  <2>1. Put(temp[n], f) \subseteq Copies /\ NoTwin(Put(temp[n], f))
    BY DEF Put, NoTwin, FilesTypeOK, TempTypes
  <2> QED
    BY <2>1 DEF Arrive, FilesTypeOK, TempTypes
<1>2. LogTypes'
  BY DEF Arrive, FilesTypeOK, LogTypes
<1>3. mishap' \subseteq mishap \cup {"named"}
  BY DEF Arrive
<1> QED
  BY <1>1, <1>2, <1>3

LEMMA LineLogged ==
  ASSUME FilesTypeOK, NEW n \in Nodes, NEW x \in Names, NEW d \in {"up", "down", "part"}
  PROVE  Append(log[n], <<d, Logged(n, x)>>) \in Seq(Lines)
<1>1. log[n] \in Seq(Lines)
  BY DEF FilesTypeOK, LogTypes
<1>2. MyName(n) \in Names \cup {"none"}
  <2>1. CASE log[n] = <<>>
    BY <2>1 DEF MyName
  <2>2. CASE log[n] # <<>>
    <3>1. Last(log[n]) \in Lines
      BY <1>1, <2>2 DEF Last
    <3> QED
      BY <2>2, <3>1 DEF MyName, Lines
  <2> QED
    BY <2>1, <2>2
<1>3. <<d, Logged(n, x)>> \in Lines
  BY <1>2 DEF Logged, Lines
<1> QED
  BY <1>1, <1>3

LEMMA PartType ==
  ASSUME Typed, NEW n \in Nodes, NEW x \in Names, OnLine(n)
  PROVE  Part(n, x) \in Copies
<1>1. Me(n).id \in Users
  BY DEF Typed, Named, NamedAt, Records
<1> QED
  BY <1>1, FilesAssumption DEF Part, Copies

\* What is put aside.
LEMMA PartialTyped ==
  ASSUME Typed, NEW n \in Nodes, OnLine(n), MakePartial(n), UNCHANGED lc
  PROVE  TempTypes' /\ LeftTypes' /\ mishap' \subseteq mishap \cup {"aside", "stays"}
<1> USE DEF Typed
<1>1. CutOff(n) \subseteq temp[n]
  BY DEF CutOff
<1> HIDE DEF CutOff
<1>2. TempTypes'
  BY <1>1 DEF MakePartial, NoTwin, FilesTypeOK, TempTypes
<1>3. LeftTypes'
  <2>1. CASE UNCHANGED part
    BY <2>1 DEF FilesTypeOK, LeftTypes
  <2>2. ASSUME NEW f \in CutOff(n), part' = [part EXCEPT ![Me(n).id] = {f}] PROVE LeftTypes'
    <3>1. f \in Copies
      BY <1>1 DEF FilesTypeOK, TempTypes
    <3>2. NoTwin({f})
      BY DEF NoTwin
    <3> QED
      BY <2>2, <3>1, <3>2 DEF FilesTypeOK, LeftTypes
  <2> QED
    BY <2>1, <2>2 DEF MakePartial
<1>4. mishap' \subseteq mishap \cup {"aside", "stays"}
  BY DEF MakePartial
<1> QED
  BY <1>2, <1>3, <1>4

\* a transfer,
LEMMA TransfersTyped ==
  ASSUME Typed, NEW n \in Nodes, Transfers(n)
  PROVE  FilesTypeOK'
<1> USE DEF Typed, nodeVars, shared, disk, history
<1>h. Node(n) \in Workers /\ Checker(n) \in Workers
  BY Hands
<1>0. OnLine(n)
  BY DEF Transfers, Upload, Download, SysopDownload, Start, DropLog, EndTransfer, Charge, RecFile, BreakOff,
         LeavePart, SendFile, OnLine
<1>k. Me(n) \in Records /\ Me(n).id \in Users
  BY <1>0 DEF Named, NamedAt, Records
<1>1. ASSUME NEW k \in {"upload", "download", "both", "sysop"}, NEW wanted \in BOOLEAN, Start(n, k, wanted)
      PROVE  FilesTypeOK'
  <2>1. TempTypes' /\ LogTypes' /\ LeftTypes'
    <3>0. UNCHANGED lc /\ \A u \in Users : NoTwin(part[u]) /\ part[u] \subseteq Copies
      BY <1>1 DEF Start, FilesTypeOK, LeftTypes
    <3>1. LogTypes'
      <4>1. <<>> \in Seq(Lines)
        OBVIOUS
      <4>2. log' = log \/ log' = [log EXCEPT ![n] = <<>>]
        BY <1>1 DEF Start, CheckForPartialUploads
      <4> QED
        BY <4>1, <4>2 DEF FilesTypeOK, LogTypes
    <3>2. TempTypes'
      BY <1>1, <1>k, <3>0 DEF Start, CheckForPartialUploads, FilesTypeOK, TempTypes, NoTwin
    <3>3. LeftTypes'
      BY <1>1, <1>k, <3>0 DEF Start, CheckForPartialUploads, FilesTypeOK, LeftTypes, NoTwin
    <3> QED
      BY <3>1, <3>2, <3>3
  <2>2. JobTypes'
    BY <1>1, <1>h, NewJob DEF Start, Fork, FilesTypeOK, JobTypes
  <2>3. RecordTypes'
    BY <1>1, <1>k, <1>h DEF Start, Fork, FilesTypeOK, RecordTypes
  <2>4. NodeTypes'
    BY <1>1 DEF Start, FilesTypeOK, NodeTypes
  <2>5. HistoryTypes'
    <3>1. used.transfers + 1 \in 0 .. MaxTransfers
      <4>1. used.transfers \in 0 .. MaxTransfers /\ used.transfers < MaxTransfers
        BY <1>1 DEF Start, FilesTypeOK, HistoryTypes
      <4>2. MaxTransfers \in Nat
        BY FilesAssumption
      <4> QED
        BY <4>1, <4>2
    <3>2. used' \in [transfers : 0 .. MaxTransfers, news : 0 .. MaxNews, moves : 0 .. MaxMoves]
      BY <1>1, <3>1 DEF Start, FilesTypeOK, HistoryTypes
    <3>3. UNCHANGED <<received, refused, mishap, elsewhere>>
      BY <1>1 DEF Start
    <3> QED
      BY <3>2, <3>3 DEF FilesTypeOK, HistoryTypes
  <2> QED
    BY <1>1, <2>1, <2>2, <2>3, <2>4, <2>5, Frames DEF Start, FilesTypeOK
<1>2. CASE DropLog(n) \/ EndTransfer(n)
  <2>1. NodeTypes'
    BY <1>2 DEF DropLog, EndTransfer, FilesTypeOK, NodeTypes
  <2>2. LogTypes'
    <3>1. <<>> \in Seq(Lines)
      OBVIOUS
    <3>2. log' = log \/ log' = [log EXCEPT ![n] = <<>>]
      BY <1>2 DEF DropLog, EndTransfer, FilesTypeOK, LogTypes
    <3> QED
      BY <3>1, <3>2 DEF FilesTypeOK, LogTypes
  <2>3. TempTypes' /\ LeftTypes' /\ HistoryTypes'
    <3>1. CASE DropLog(n)
      BY <3>1, Frames DEF DropLog
    <3>2. CASE EndTransfer(n)
      <4>1. MakePartial(n) /\ UNCHANGED <<lc, elsewhere, refused, received, used>>
        BY <3>2 DEF EndTransfer
      <4> QED
        BY <1>0, <4>1, PartialTyped DEF FilesTypeOK, HistoryTypes
    <3> QED
      BY <1>2, <3>1, <3>2
  <2> QED
    BY <1>2, <2>1, <2>2, <2>3, Frames DEF DropLog, EndTransfer, FilesTypeOK
<1>3. CASE Charge(n)
  <2>0. tags[n] \in Seq(Names) /\ sent[n] \in Seq(Names)
    BY DEF FilesTypeOK, TagTypes
  <2>1. Passed(n) \in Seq(Names) /\ Len(Passed(n)) \in Nat
    BY <2>0, PassedType DEF Sends, SendsAt
  <2>2. SubSeq(tags[n], Len(Passed(n)) + 1, Len(tags[n])) \in Seq(Names)
    BY <2>0, <2>1
  <2>3. [Me(n) EXCEPT !.dl = @ + Price(n, Passed(n))] \in Records
    BY <1>k, <2>1, PriceType DEF Records
  <2>4. RecordTypes'
    BY <1>3, <1>h, <2>3 DEF Charge, Me, FilesTypeOK, RecordTypes
  <2>5. TagTypes'
    BY <1>3, <2>2 DEF Charge, FilesTypeOK, TagTypes
  <2>6. NodeTypes'
    BY <1>3 DEF Charge, FilesTypeOK, NodeTypes
  <2> QED
    BY <1>3, <2>4, <2>5, <2>6, Frames DEF Charge, FilesTypeOK
<1>4. ASSUME NEW x \in Names, RecFile(n, x) PROVE FilesTypeOK'
  <2> DEFINE f == [no |-> Cardinality(received) + 1, name |-> x, by |-> Me(n).id]
             lines == Append(log[n], <<"up", Logged(n, x)>>)
  <2>1. IsFiniteSet(received) /\ Cardinality(received) \in Nat
    <3>1. received \subseteq 1 .. MaxFiles /\ IsFiniteSet(1 .. MaxFiles)
      <4>1. MaxFiles \in Int /\ 1 \in Int
        BY FilesAssumption
      <4> QED
        BY <4>1, FS_Interval DEF FilesTypeOK, HistoryTypes
    <3> QED
      BY <3>1, FS_Subset, FS_CardinalityType
  <2>2. f \in Copies /\ f.no \in 1 .. MaxFiles
    BY <1>4, <1>k, <2>1, FilesAssumption DEF RecFile, Copies
  <2>3. Arrive(n, f, lines) /\ received' = received \cup {f.no}
    BY <1>4 DEF RecFile
  <2>4. lines \in Seq(Lines)
    BY LineLogged
  <2> HIDE DEF f, lines
  <2>5. TempTypes' /\ LogTypes' /\ mishap' \subseteq mishap \cup {"named"}
    BY <2>2, <2>3, <2>4, ArriveTyped
  <2>6. HistoryTypes'
    BY <1>4, <2>2, <2>3, <2>5 DEF RecFile, FilesTypeOK, HistoryTypes
  <2> QED
    BY <1>4, <2>5, <2>6, Frames DEF RecFile, FilesTypeOK
<1>5. ASSUME NEW x \in Names, BreakOff(n, x) \/ LeavePart(n, x) PROVE FilesTypeOK'
  <2>1. PICK lines \in Seq(Lines) : Arrive(n, Part(n, x), lines)
    <3>1. log[n] \in Seq(Lines)
      BY DEF FilesTypeOK, LogTypes
    <3> QED
      BY <1>5, <3>1, LineLogged DEF BreakOff, LeavePart
  <2>2. TempTypes' /\ LogTypes' /\ mishap' \subseteq mishap \cup {"named"}
    BY <1>0, <2>1, PartType, ArriveTyped
  <2>3. HistoryTypes'
    BY <1>5, <2>2 DEF BreakOff, LeavePart, FilesTypeOK, HistoryTypes
  <2> QED
    BY <1>5, <2>2, <2>3, Frames DEF BreakOff, LeavePart, FilesTypeOK
<1>6. ASSUME NEW i \in DOMAIN tags[n], SendFile(n, i) PROVE FilesTypeOK'
  <2>1. tags[n] \in Seq(Names) /\ tags[n][i] \in Names
    BY DEF FilesTypeOK, TagTypes
  <2>2. <<"down", tags[n][i]>> \in Lines /\ <<tags[n][i]>> \in Seq(Names)
    BY <2>1 DEF Lines
  <2>3. Price(n, <<tags[n][i]>>) \in Nat
    BY <2>2, PriceType
  <2>4. LogTypes'
    BY <1>6, <2>2 DEF SendFile, FilesTypeOK, LogTypes
  <2>5. TagTypes'
    BY <1>6, <2>1 DEF SendFile, FilesTypeOK, TagTypes
  <2>6. RecordTypes'
    BY <1>6, <1>k, <2>3 DEF SendFile, FilesTypeOK, RecordTypes
  <2> QED
    BY <1>6, <2>4, <2>5, <2>6, Frames DEF SendFile, FilesTypeOK
<1> QED
  BY <1>1, <1>2, <1>3, <1>4, <1>5, <1>6 DEF Transfers, Upload, Download, SysopDownload

\* what the node does after a transfer,
LEMMA AfterTyped ==
  ASSUME Typed, NEW n \in Nodes, After(n)
  PROVE  FilesTypeOK'
<1> USE DEF Typed, nodeVars, shared, disk, history
<1>h. Node(n) \in Workers /\ Checker(n) \in Workers
  BY Hands
<1>1. CASE StopChecker(n) \/ CheckerGone(n) \/ ScanDone(n)
  <2>1. NodeTypes'
    <3>1. CASE StopChecker(n)
      BY <3>1 DEF StopChecker, FilesTypeOK, NodeTypes
    <3>2. CASE CheckerGone(n)
      BY <3>2 DEF CheckerGone, FilesTypeOK, NodeTypes
    <3>3. CASE ScanDone(n)
      BY <3>3 DEF ScanDone, FilesTypeOK, NodeTypes
    <3> QED
      BY <1>1, <3>1, <3>2, <3>3
  <2> QED
    BY <1>1, <2>1, Frames DEF StopChecker, CheckerGone, ScanDone, FilesTypeOK
<1>2. CASE TakeRecord(n)
  <2>1. NodeTypes'
    BY <1>2 DEF TakeRecord, FilesTypeOK, NodeTypes
  <2>2. RecordTypes'
    BY <1>2, <1>h DEF TakeRecord, FilesTypeOK, RecordTypes
  <2> QED
    BY <1>2, <2>1, <2>2, Frames DEF TakeRecord, FilesTypeOK
<1>3. CASE ScanTemp(n)
  <2>1. PICK f \in temp[n] :
           /\ seen' = [seen EXCEPT ![n] = @ \cup {f.name}]
           /\ job' = [job EXCEPT ![Node(n)] = [pc |-> "name", file |-> f, held |-> FALSE]]
    BY <1>3 DEF ScanTemp
  <2>2. f \in Copies /\ f.name \in Names \cup Shelf
    BY DEF FilesTypeOK, TempTypes, Copies
  <2>3. NodeTypes'
    BY <1>3, <2>1, <2>2 DEF ScanTemp, FilesTypeOK, NodeTypes
  <2>4. JobTypes'
    BY <2>1, <2>2, <1>h, NewJob DEF FilesTypeOK, JobTypes
  <2> QED
    BY <1>3, <2>3, <2>4, Frames DEF ScanTemp, FilesTypeOK
<1> QED
  BY <1>1, <1>2, <1>3 DEF After

\* a checker that follows it,
LEMMA FollowingTyped ==
  ASSUME Typed, NEW n \in Nodes, Following(n)
  PROVE  FilesTypeOK'
<1> USE DEF Typed, nodeVars, shared, disk, history
<1>h. Node(n) \in Workers /\ Checker(n) \in Workers
  BY Hands
<1>1. ASSUME Exit(n) PROVE JobTypes' /\ (UNCHANGED <<main, kind, seen>> => NodeTypes')
  <2>1. JobTypes'
    BY <1>1, <1>h, NewJob DEF Exit, FilesTypeOK, JobTypes
  <2>2. UNCHANGED <<main, kind, seen>> => NodeTypes'
    BY <1>1 DEF Exit, FilesTypeOK, NodeTypes
  <2> QED
    BY <2>1, <2>2
<1>2. CASE InstallHandler(n) /\ sig[n]
  <2>1. RecordTypes'
    BY <1>2, <1>h DEF InstallHandler, Exit, FilesTypeOK, RecordTypes
  <2>2. JobTypes' /\ NodeTypes'
    BY <1>1, <1>2 DEF InstallHandler
  <2> QED
    BY <1>2, <2>1, <2>2, Frames DEF InstallHandler, FilesTypeOK
<1>3. CASE InstallHandler(n) /\ ~sig[n]
  <2>1. JobTypes'
    BY <1>3, <1>h, NewJob DEF InstallHandler, FilesTypeOK, JobTypes
  <2> QED
    BY <1>3, <2>1, Frames DEF InstallHandler, FilesTypeOK
<1>4. CASE TakeLine(n)
  <2>1. NodeTypes'
    BY <1>4 DEF TakeLine, FilesTypeOK, NodeTypes
  <2>2. JobTypes'
    <3> DEFINE l == log[n][last[n] + 1]
               f == CHOOSE g \in temp[n] : g.name = l[2]
    <3>1. CASE l[1] = "up" /\ l[2] \in NamesIn(temp[n])
      <4>1. \E g \in temp[n] : g.name = l[2]
        BY <3>1 DEF NamesIn
      <4>2. f \in temp[n]
        BY <4>1
      <4>3. f \in Copies
        BY <4>2 DEF FilesTypeOK, TempTypes
      <4>4. job' = [job EXCEPT ![Checker(n)] = [pc |-> "name", file |-> f, held |-> FALSE]]
        BY <1>4, <3>1 DEF TakeLine
      <4> HIDE DEF f
      <4> QED
        BY <4>3, <4>4, <1>h, NewJob DEF FilesTypeOK, JobTypes
    <3>2. CASE ~(l[1] = "up" /\ l[2] \in NamesIn(temp[n]))
      BY <1>4, <3>2, <1>h DEF TakeLine, FilesTypeOK, JobTypes
    <3> QED
      BY <3>1, <3>2
  <2> QED
    BY <1>4, <2>1, <2>2, Frames DEF TakeLine, FilesTypeOK
<1>5. CASE ReportDone(n)
  <2>1. RecordTypes'
    BY <1>5, <1>h DEF ReportDone, Exit, FilesTypeOK, RecordTypes
  <2>2. JobTypes' /\ NodeTypes'
    BY <1>1, <1>5 DEF ReportDone
  <2> QED
    BY <1>5, <2>1, <2>2, Frames DEF ReportDone, FilesTypeOK
<1> QED
  BY <1>2, <1>3, <1>4, <1>5 DEF Following

\* A worker with a file has the record of the caller who sent it.
LEMMA Hired ==
  ASSUME Typed, NEW w \in Workers, job[w].pc \in Busy
  PROVE  /\ w[1] \in Nodes /\ job[w] \in Jobs /\ job[w].file \in Copies /\ job[w].held \in BOOLEAN
         /\ OnLine(w[1]) /\ user[w] \in Records /\ user[w].id \in Users /\ user[w].id = Me(w[1]).id
         /\ w[2] = "node" => w = Node(w[1]) /\ main[w[1]] = "scan"
         /\ w[2] # "node" => /\ w = Checker(w[1]) /\ Running(w[1])
                             /\ main[w[1]] \in {"transfer", "flood", "stop"}
<1>1. w[1] \in Nodes /\ (w = Node(w[1]) \/ w = Checker(w[1])) /\ (w[2] = "node" <=> w = Node(w[1]))
  BY Hands
<1>2. job[w] \in Jobs
  BY DEF Typed, FilesTypeOK, JobTypes
<1>3. job[w].file \in Copies /\ job[w].held \in BOOLEAN
  BY <1>2, JobType
<1>4. CASE w = Node(w[1])
  <2>1. main[w[1]] = "scan"
    BY <1>1, <1>4 DEF Typed, Placed, PlacedAt, Busy
  <2> QED
    BY <1>1, <1>2, <1>3, <1>4, <2>1 DEF Typed, Named, NamedAt, OnLine, Me, Records
<1>5. CASE w = Checker(w[1]) /\ w # Node(w[1])
  <2>1. Running(w[1])
    BY <1>5 DEF Running, Busy
  <2>2. main[w[1]] \in {"transfer", "flood", "stop"}
    BY <1>1, <1>5, <2>1 DEF Typed, Placed, PlacedAt
  <2> QED
    BY <1>1, <1>2, <1>3, <1>5, <2>1, <2>2 DEF Typed, Named, NamedAt, OnLine, Records
<1> QED
  BY <1>1, <1>4, <1>5

\* How a job ends or goes on.
LEMMA JobEnds ==
  ASSUME Typed, NEW w \in Workers, Finished(w)
  PROVE  /\ JobTypes'
         /\ job'[w] = Idle(IF w[2] = "node" THEN "off" ELSE "idle")
         /\ \A v \in Workers : v # w => job'[v] = job[v]
<1>1. Idle(IF w[2] = "node" THEN "off" ELSE "idle") \in Jobs /\ ~Idle(IF w[2] = "node" THEN "off" ELSE "idle").held
  BY NewJob
<1> QED
  BY <1>1 DEF Finished, Typed, FilesTypeOK, JobTypes

LEMMA JobGoesOn ==
  ASSUME Typed, NEW w \in Workers, job[w].pc \in Busy, NEW p \in Busy, Step(w, p),
         job[w].held => p \in {"list", "move"}
  PROVE  /\ JobTypes'
         /\ job'[w].pc = p /\ job'[w].file = job[w].file /\ job'[w].held = job[w].held
         /\ \A v \in Workers : v # w => job'[v] = job[v]
<1>1. job[w] \in Jobs
  BY DEF Typed, FilesTypeOK, JobTypes
<1>2. [job[w] EXCEPT !.pc = p] \in Jobs
  BY <1>1, JobType
<1>3. job' = [job EXCEPT ![w] = [job[w] EXCEPT !.pc = p]]
  BY DEF Step
<1>4. /\ [job[w] EXCEPT !.pc = p].pc = p /\ [job[w] EXCEPT !.pc = p].file = job[w].file
      /\ [job[w] EXCEPT !.pc = p].held = job[w].held
  BY <1>1 DEF Jobs
<1> QED
  BY <1>2, <1>3, <1>4 DEF Typed, FilesTypeOK, JobTypes

\* Files taken out of a directory leave no twins.
LEMMA UnlinkTyped ==
  ASSUME Typed, NEW w \in Workers, Unlink(w)
  PROVE  TempTypes'
  BY Hands DEF Unlink, Typed, FilesTypeOK, TempTypes, NoTwin

LEMMA PutTyped ==
  ASSUME NEW d \in SUBSET Copies, NEW f \in Copies
  PROVE  Put(d, f) \subseteq Copies /\ (NoTwin(d) => NoTwin(Put(d, f)))
  BY DEF Put, NoTwin

\* What is put aside for the next call.
LEMMA GiveUpTyped ==
  ASSUME Typed, NEW w \in Workers, job[w].pc \in Busy, GiveUp(w)
  PROVE  JobTypes' /\ TempTypes' /\ (UNCHANGED part => LeftTypes') /\ mishap' \subseteq mishap \cup {"two left"}
<1>1. JobTypes'
  BY JobEnds DEF GiveUp
<1>2. CASE w[2] = "checker"
  <2>1. UNCHANGED <<temp, lc, mishap>>
    BY <1>2 DEF GiveUp
  <2> QED
    BY <1>1, <2>1, Frames DEF Typed
<1>3. CASE w[2] # "checker"
  <2>1. Unlink(w) /\ lc' = [lc EXCEPT ![user[w].id] = Put(@, job[w].file)] /\ mishap' \subseteq mishap \cup {"two left"}
    BY <1>3 DEF GiveUp
  <2>2. user[w].id \in Users /\ job[w].file \in Copies
    BY Hired
  <2>3. lc[user[w].id] \subseteq Copies /\ NoTwin(lc[user[w].id])
    BY <2>2 DEF Typed, FilesTypeOK, LeftTypes
  <2>4. Put(lc[user[w].id], job[w].file) \subseteq Copies /\ NoTwin(Put(lc[user[w].id], job[w].file))
    BY <2>2, <2>3, PutTyped
  <2>5. UNCHANGED part => LeftTypes'
    BY <2>1, <2>2, <2>4 DEF Typed, FilesTypeOK, LeftTypes
  <2> QED
    BY <1>1, <2>1, <2>5, UnlinkTyped
<1> QED
  BY <1>2, <1>3

\* a file handled,
LEMMA HandleTyped ==
  ASSUME Typed, NEW w \in Workers, HandleUpload(w)
  PROVE  FilesTypeOK'
<1> USE DEF Typed
<1>h. job[w].pc \in Busy
  BY DEF HandleUpload, CheckFileName, DupeCheck, Describe, UpdateFileList, NewRename, At, Busy
<1>k. /\ w[1] \in Nodes /\ job[w].file \in Copies /\ job[w].file.no \in 0 .. MaxFiles /\ job[w].held \in BOOLEAN
      /\ user[w] \in Records /\ user[w].id \in Users
  BY <1>h, Hired DEF Copies
<1>r. UNCHANGED rest => NodeTypes' /\ LogTypes'
  BY Frames DEF rest
<1>f. UNCHANGED rest /\ UNCHANGED flagged => TagTypes'
  BY Frames DEF rest
<1>1. CASE CheckFileName(w)
  <2>0. UNCHANGED rest /\ UNCHANGED <<user, area, listing, hold, owed, due, received, refused, used>>
    BY <1>1 DEF CheckFileName
  <2>1. JobTypes' /\ TempTypes' /\ LeftTypes' /\ mishap' \subseteq mishap \cup {"two left", "renamed over"}
    <3>1. CASE Step(w, "dupe") /\ UNCHANGED <<temp, lc, mishap>>
      <4>1. ~job[w].held
        BY <1>1 DEF CheckFileName, At, FilesTypeOK, JobTypes
      <4> QED
        BY <1>h, <2>0, <3>1, <4>1, JobGoesOn, Frames DEF Busy, rest
    <3>2. CASE GiveUp(w)
      BY <1>h, <2>0, <3>2, GiveUpTyped DEF rest
    <3>3. ASSUME NEW x \in Names, NEW g, g = [job[w].file EXCEPT !.name = x],
                 temp' = [temp EXCEPT ![w[1]] = Put(@ \ {job[w].file}, g)],
                 job' = [job EXCEPT ![w].pc = "dupe", ![w].file = g],
                 mishap' \subseteq mishap \cup {"renamed over"}, UNCHANGED lc
          PROVE  JobTypes' /\ TempTypes' /\ LeftTypes' /\ mishap' \subseteq mishap \cup {"two left", "renamed over"}
      <4>1. g \in Copies
        BY <1>k, <3>3 DEF Copies
      <4>2. temp[w[1]] \ {job[w].file} \subseteq Copies /\ NoTwin(temp[w[1]] \ {job[w].file})
        BY <1>k DEF FilesTypeOK, TempTypes, NoTwin
      <4>3. Put(temp[w[1]] \ {job[w].file}, g) \subseteq Copies /\ NoTwin(Put(temp[w[1]] \ {job[w].file}, g))
        BY <4>1, <4>2, PutTyped
      <4>4. TempTypes'
        BY <1>k, <3>3, <4>3 DEF FilesTypeOK, TempTypes
      <4>5. job[w] \in Jobs /\ ~job[w].held
        BY <1>1 DEF CheckFileName, At, FilesTypeOK, JobTypes
      <4>6. [job[w] EXCEPT !.pc = "dupe", !.file = g] \in Jobs /\ ~[job[w] EXCEPT !.pc = "dupe", !.file = g].held
        BY <1>h, <4>1, <4>5, JobType DEF Busy, Jobs
      <4>7. job' = [job EXCEPT ![w] = [job[w] EXCEPT !.pc = "dupe", !.file = g]]
        BY <3>3 DEF FilesTypeOK, JobTypes
      <4>8. JobTypes'
        BY <4>6, <4>7 DEF FilesTypeOK, JobTypes
      <4> QED
        BY <2>0, <3>3, <4>4, <4>8, Frames DEF rest
    <3> QED
      BY <1>1, <3>1, <3>2, <3>3 DEF CheckFileName
  <2>2. HistoryTypes'
    BY <2>0, <2>1 DEF rest, FilesTypeOK, HistoryTypes
  <2> QED
    BY <2>0, <2>1, <2>2, <1>r, Frames DEF rest, FilesTypeOK
<1>2. CASE DupeCheck(w)
  <2>0. UNCHANGED rest /\ UNCHANGED <<user, lc, area, listing, hold, owed, due, received, used, mishap>>
    BY <1>2 DEF DupeCheck
  <2>1. JobTypes' /\ TempTypes' /\ refused' \subseteq refused \cup {job[w].file.no}
    <3>1. CASE Refuse(w)
      BY <3>1, JobEnds, UnlinkTyped DEF Refuse
    <3>2. CASE Step(w, "ask") /\ UNCHANGED <<temp, refused>>
      <4>1. ~job[w].held
        BY <1>2 DEF DupeCheck, At, FilesTypeOK, JobTypes
      <4> QED
        BY <1>h, <3>2, <4>1, JobGoesOn, Frames DEF Busy
    <3> QED
      BY <1>2, <3>1, <3>2 DEF DupeCheck
  <2>2. HistoryTypes'
    BY <2>0, <2>1, <1>k DEF rest, FilesTypeOK, HistoryTypes
  <2> QED
    BY <2>0, <2>1, <2>2, <1>r, Frames DEF rest, FilesTypeOK
<1>3. CASE Describe(w)
  <2>0. UNCHANGED rest /\ UNCHANGED <<user, area, listing, hold, owed, due, received, used>>
    BY <1>3 DEF Describe
  <2>1. JobTypes' /\ TempTypes' /\ LeftTypes' /\ refused' \subseteq refused \cup {job[w].file.no}
        /\ mishap' \subseteq mishap \cup {"two left"}
    <3>1. CASE Step(w, "list") /\ UNCHANGED <<temp, lc, refused, mishap>>
      BY <1>h, <2>0, <3>1, JobGoesOn, Frames DEF Busy, rest
    <3>2. CASE job' = [job EXCEPT ![w].pc = "list", ![w].held = TRUE] /\ UNCHANGED <<temp, lc, refused, mishap>>
      <4>1. job[w] \in Jobs
        BY DEF FilesTypeOK, JobTypes
      <4>2. [job[w] EXCEPT !.pc = "list", !.held = TRUE] \in Jobs
            /\ [job[w] EXCEPT !.pc = "list", !.held = TRUE].pc = "list"
        BY <1>h, <4>1, JobType DEF Busy, Jobs
      <4>3. job' = [job EXCEPT ![w] = [job[w] EXCEPT !.pc = "list", !.held = TRUE]]
        BY <3>2 DEF FilesTypeOK, JobTypes
      <4>4. JobTypes'
        BY <4>2, <4>3 DEF FilesTypeOK, JobTypes
      <4> QED
        BY <2>0, <3>2, <4>4, Frames DEF rest
    <3>3. CASE Refuse(w) /\ UNCHANGED <<lc, mishap>>
      BY <2>0, <3>3, JobEnds, UnlinkTyped, Frames DEF Refuse, rest
    <3>4. CASE GiveUp(w) /\ UNCHANGED refused
      BY <1>h, <2>0, <3>4, GiveUpTyped DEF rest
    <3> QED
      BY <1>3, <3>1, <3>2, <3>3, <3>4 DEF Describe
  <2>2. HistoryTypes'
    BY <2>0, <2>1, <1>k DEF rest, FilesTypeOK, HistoryTypes
  <2> QED
    BY <2>0, <2>1, <2>2, <1>r, Frames DEF rest, FilesTypeOK
<1>4. CASE UpdateFileList(w)
  <2>0. UNCHANGED rest /\ UNCHANGED <<user, temp, lc, area, hold, owed, due, received, refused, used>>
    BY <1>4 DEF UpdateFileList
  <2>1. JobTypes'
    BY <1>4, <1>h, JobEnds, JobGoesOn DEF UpdateFileList, Busy
  <2>2. HistoryTypes'
    <3>1. mishap' \subseteq mishap \cup {"list", "disk"}
      BY <1>4 DEF UpdateFileList
    <3> QED
      BY <2>0, <3>1 DEF rest, FilesTypeOK, HistoryTypes
  <2>3. AreaTypes'
    <3>1. listing' \subseteq listing \cup {job[w].file}
      BY <1>4 DEF UpdateFileList
    <3> QED
      BY <2>0, <3>1, <1>k DEF rest, FilesTypeOK, AreaTypes
  <2> QED
    BY <2>0, <2>1, <2>2, <2>3, <1>r, Frames DEF rest, FilesTypeOK
<1>5. CASE NewRename(w)
  <2>0. UNCHANGED rest /\ UNCHANGED <<lc, listing, due, received, refused, used>> /\ Finished(w) /\ user' = AddUlBytes(w)
    BY <1>5 DEF NewRename
  <2>1. JobTypes'
    BY <2>0, JobEnds
  <2>2. TempTypes'
    BY <1>5, UnlinkTyped, Frames DEF NewRename
  <2>3. HistoryTypes'
    <3>1. mishap' \subseteq mishap \cup {"two held", "race", "disk"}
      BY <1>5 DEF NewRename
    <3> QED
      BY <2>0, <3>1 DEF rest, FilesTypeOK, HistoryTypes
  <2>4. RecordTypes'
    <3>1. user' \in [Workers -> Records \cup {NoRecord}]
      <4>1. [user[w] EXCEPT !.ul = @ + 1] \in Records
        BY <1>k DEF Records
      <4> QED
        BY <2>0, <4>1 DEF AddUlBytes, FilesTypeOK, RecordTypes
    <3>2. owed' = owed \/ owed' = [owed EXCEPT ![user[w].id] = @ + 1]
      BY <1>5 DEF NewRename
    <3> QED
      BY <2>0, <3>1, <3>2, <1>k DEF rest, FilesTypeOK, RecordTypes
  <2>5. AreaTypes'
    <3>1. /\ Put(area, job[w].file) \subseteq Copies /\ NoTwin(Put(area, job[w].file))
          /\ Put(hold, job[w].file) \subseteq Copies /\ NoTwin(Put(hold, job[w].file))
      BY <1>k, PutTyped DEF FilesTypeOK, AreaTypes
    <3>2. /\ area' = area \/ area' = Put(area, job[w].file)
          /\ hold' = hold \/ hold' = Put(hold, job[w].file)
      BY <1>5 DEF NewRename
    <3> QED
      BY <2>0, <3>1, <3>2 DEF rest, FilesTypeOK, AreaTypes
  <2> QED
    BY <2>0, <2>1, <2>2, <2>3, <2>4, <2>5, <1>r, Frames DEF rest, FilesTypeOK
<1> QED
  BY <1>1, <1>2, <1>3, <1>4, <1>5 DEF HandleUpload

\* and a sysop who moves files.
LEMMA MovesTyped ==
  ASSUME Typed, WriteList \/ \E f \in area : MoveFile(f)
  PROVE  FilesTypeOK'
<1> USE DEF Typed, nodeVars, shared, disk, history
<1>1. ASSUME NEW f \in area, MoveFile(f) PROVE FilesTypeOK'
  <2>1. f \in Copies /\ f.no \in 0 .. MaxFiles
    BY DEF FilesTypeOK, AreaTypes, Copies
  <2>2. AreaTypes'
    BY <1>1, <2>1 DEF MoveFile, FilesTypeOK, AreaTypes, NoTwin
  <2>3. used.moves + 1 \in 0 .. MaxMoves
    <3>1. used.moves \in 0 .. MaxMoves /\ used.moves < MaxMoves
      BY <1>1 DEF MoveFile, FilesTypeOK, HistoryTypes
    <3>2. MaxMoves \in Nat
      BY FilesAssumption
    <3> QED
      BY <3>1, <3>2
  <2>4. used' \in [transfers : 0 .. MaxTransfers, news : 0 .. MaxNews, moves : 0 .. MaxMoves]
    BY <1>1, <2>3 DEF MoveFile, FilesTypeOK, HistoryTypes
  <2>5. HistoryTypes'
    BY <1>1, <2>1, <2>4 DEF MoveFile, FilesTypeOK, HistoryTypes
  <2> QED
    BY <1>1, <2>2, <2>5, Frames DEF MoveFile, FilesTypeOK
<1>2. CASE WriteList
  <2>1. AreaTypes'
    BY <1>2 DEF WriteList, FilesTypeOK, AreaTypes
  <2> QED
    BY <1>2, <2>1, Frames DEF WriteList, FilesTypeOK
<1> QED
  BY <1>1, <1>2

\* Every step keeps the types.
LEMMA TypesKept == Typed /\ [Next]_vars => FilesTypeOK'
<1> SUFFICES ASSUME Typed, [Next]_vars PROVE FilesTypeOK'
  OBVIOUS
<1>1. CASE UNCHANGED vars
  <2>1. UNCHANGED <<nodeVars, job, user, last, sig, bgdone, shared, disk, history>>
    BY <1>1 DEF vars
  <2> QED
    BY <2>1, Frames DEF Typed, FilesTypeOK, nodeVars, shared, disk, history
<1>2. CASE Next
  BY <1>2, Steps, CallsTyped, TransfersTyped, AfterTyped, FollowingTyped, HandleTyped, MovesTyped
<1> QED
  BY <1>1, <1>2

-----------------------------------------------------------------------------
(* Workers and records.                                                    *)

\* A step of one node leaves the others alone.
Same(m) ==
  /\ main'[m] = main[m] /\ kind'[m] = kind[m] /\ seen'[m] = seen[m] /\ temp'[m] = temp[m]
  /\ log'[m] = log[m] /\ tags'[m] = tags[m] /\ sent'[m] = sent[m]
  /\ last'[m] = last[m] /\ sig'[m] = sig[m] /\ bgdone'[m] = bgdone[m]
  /\ job'[Node(m)] = job[Node(m)] /\ job'[Checker(m)] = job[Checker(m)]
  /\ user'[Node(m)] = user[Node(m)] /\ user'[Checker(m)] = user[Checker(m)]

LEMMA Elsewhere ==
  ASSUME Typed, NEW n \in Nodes, Calls(n) \/ Transfers(n) \/ After(n) \/ Following(n),
         NEW m \in Nodes, m # n
  PROVE  Same(m)
<1> USE DEF Same, nodeVars, shared, disk, history
<1>t. /\ DOMAIN main = Nodes /\ DOMAIN kind = Nodes /\ DOMAIN seen = Nodes /\ DOMAIN temp = Nodes
      /\ DOMAIN log = Nodes /\ DOMAIN tags = Nodes /\ DOMAIN sent = Nodes /\ DOMAIN last = Nodes
      /\ DOMAIN sig = Nodes /\ DOMAIN bgdone = Nodes /\ DOMAIN job = Workers /\ DOMAIN user = Workers
  BY DEF Typed, FilesTypeOK, NodeTypes, LogTypes, TagTypes, RecordTypes, TempTypes, JobTypes
<1>h. /\ Node(m) # Node(n) /\ Node(m) # Checker(n) /\ Checker(m) # Node(n) /\ Checker(m) # Checker(n)
      /\ Node(m) \in Workers /\ Checker(m) \in Workers
  BY Hands
<1>1. CASE Calls(n)
  <2>1. ASSUME NEW u \in Users, Login(n, u) PROVE Same(m)
    BY <2>1, <1>h, <1>t DEF Login
  <2>2. CASE LoadFlagList(n)
    <3>1. main'[m] = main[m] /\ tags'[m] = tags[m]
      BY <2>2, <1>t DEF LoadFlagList
    <3> QED
      BY <2>2, <3>1 DEF LoadFlagList
  <2>3. CASE Logoff(n)
    BY <2>3, <1>h, <1>t DEF Logoff
  <2>4. CASE ReadNews(n)
    BY <2>4, <1>h, <1>t DEF ReadNews
  <2>5. ASSUME NEW x \in Names, FlagFile(n, x) PROVE Same(m)
    BY <2>5, <1>t DEF FlagFile
  <2>6. ASSUME NEW x \in Names, UnflagFile(n, x) PROVE Same(m)
    <3>1. tags'[m] = tags[m]
      BY <2>6, <1>t DEF UnflagFile
    <3> QED
      BY <2>6, <3>1 DEF UnflagFile
  <2> QED
    BY <1>1, <2>1, <2>2, <2>3, <2>4, <2>5, <2>6 DEF Calls
<1>2. CASE Transfers(n)
  <2>1. ASSUME NEW k, NEW wanted, Start(n, k, wanted) PROVE Same(m)
    <3>1. temp'[m] = temp[m]
      BY <2>1, <1>t DEF Start, CheckForPartialUploads
    <3>2. log'[m] = log[m]
      BY <2>1, <1>t DEF Start, CheckForPartialUploads
    <3>3. job'[Node(m)] = job[Node(m)] /\ job'[Checker(m)] = job[Checker(m)]
          /\ user'[Node(m)] = user[Node(m)] /\ user'[Checker(m)] = user[Checker(m)]
      BY <2>1, <1>h, <1>t DEF Start, Fork
    <3>4. main'[m] = main[m] /\ kind'[m] = kind[m]
      BY <2>1, <1>t DEF Start
    <3> QED
      BY <2>1, <3>1, <3>2, <3>3, <3>4 DEF Start
  <2>2. CASE DropLog(n) \/ EndTransfer(n)
    <3>1. main'[m] = main[m] /\ log'[m] = log[m] /\ temp'[m] = temp[m]
      BY <2>2, <1>t DEF DropLog, EndTransfer, MakePartial
    <3> QED
      BY <2>2, <3>1 DEF DropLog, EndTransfer
  <2>3. CASE Charge(n)
    BY <2>3, <1>h, <1>t DEF Charge
  <2>4. ASSUME NEW x \in Names, RecFile(n, x) PROVE Same(m)
    <3>1. temp'[m] = temp[m] /\ log'[m] = log[m]
      BY <2>4, <1>t DEF RecFile, Arrive
    <3> QED
      BY <2>4, <3>1 DEF RecFile
  <2>5. ASSUME NEW x \in Names, BreakOff(n, x) \/ LeavePart(n, x) PROVE Same(m)
    <3>1. temp'[m] = temp[m] /\ log'[m] = log[m]
      BY <2>5, <1>t DEF BreakOff, LeavePart, Arrive
    <3> QED
      BY <2>5, <3>1 DEF BreakOff, LeavePart
  <2>6. ASSUME NEW i \in DOMAIN tags[n], SendFile(n, i) PROVE Same(m)
    BY <2>6, <1>t DEF SendFile
  <2> QED
    BY <1>2, <2>1, <2>2, <2>3, <2>4, <2>5, <2>6 DEF Transfers, Upload, Download, SysopDownload
<1>3. CASE After(n)
  <2>1. CASE StopChecker(n) \/ CheckerGone(n) \/ ScanDone(n)
    <3>1. main'[m] = main[m] /\ sig'[m] = sig[m] /\ seen'[m] = seen[m]
      BY <2>1, <1>t DEF StopChecker, CheckerGone, ScanDone
    <3> QED
      BY <2>1, <3>1 DEF StopChecker, CheckerGone, ScanDone
  <2>2. CASE TakeRecord(n)
    BY <2>2, <1>h, <1>t DEF TakeRecord
  <2>3. CASE ScanTemp(n)
    <3>1. job'[Node(m)] = job[Node(m)] /\ job'[Checker(m)] = job[Checker(m)] /\ seen'[m] = seen[m]
      BY <2>3, <1>h, <1>t DEF ScanTemp
    <3> QED
      BY <2>3, <3>1 DEF ScanTemp
  <2> QED
    BY <1>3, <2>1, <2>2, <2>3 DEF After
<1>4. CASE Following(n)
  <2>0. ASSUME Exit(n)
        PROVE  /\ job'[Node(m)] = job[Node(m)] /\ job'[Checker(m)] = job[Checker(m)]
               /\ user'[Node(m)] = user[Node(m)] /\ user'[Checker(m)] = user[Checker(m)]
               /\ last'[m] = last[m] /\ sig'[m] = sig[m]
    BY <2>0, <1>h, <1>t DEF Exit
  <2>1. CASE InstallHandler(n)
    <3>1. CASE Exit(n)
      BY <2>1, <2>0, <3>1 DEF InstallHandler
    <3>2. CASE job' = [job EXCEPT ![Checker(n)] = Idle("idle")] /\ UNCHANGED <<user, last, sig>>
      BY <2>1, <3>2, <1>h, <1>t DEF InstallHandler
    <3> QED
      BY <2>1, <3>1, <3>2 DEF InstallHandler
  <2>2. CASE TakeLine(n)
    <3>1. job'[Node(m)] = job[Node(m)] /\ job'[Checker(m)] = job[Checker(m)] /\ last'[m] = last[m]
      BY <2>2, <1>h, <1>t DEF TakeLine
    <3> QED
      BY <2>2, <3>1 DEF TakeLine
  <2>3. CASE ReportDone(n)
    BY <2>3, <2>0, <1>h, <1>t DEF ReportDone
  <2> QED
    BY <1>4, <2>1, <2>2, <2>3 DEF Following
<1> QED
  BY <1>1, <1>2, <1>3, <1>4

\* A job ends or goes on; the other workers' do not move.
JobMoves(w) ==
  /\ \A v \in Workers : v # w => job'[v] = job[v]
  /\ \/ job'[w] = Idle(IF w[2] = "node" THEN "off" ELSE "idle")
     \/ job'[w].pc \in Busy

LEMMA Ending ==
  ASSUME Typed, NEW w \in Workers, Finished(w)
  PROVE  JobMoves(w)
  BY JobEnds DEF JobMoves

LEMMA Setting ==
  ASSUME Typed, NEW w \in Workers, NEW r, r.pc \in Busy, job' = [job EXCEPT ![w] = r]
  PROVE  JobMoves(w)
<1>1. DOMAIN job = Workers
  BY DEF Typed, FilesTypeOK, JobTypes
<1> QED
  BY <1>1 DEF JobMoves

LEMMA GoingOn ==
  ASSUME Typed, NEW w \in Workers, NEW p \in Busy, Step(w, p)
  PROVE  JobMoves(w)
<1> DEFINE r == [job[w] EXCEPT !.pc = p]
<1>1. r.pc = p /\ job' = [job EXCEPT ![w] = r]
  <2>1. job[w] \in Jobs
    BY DEF Typed, FilesTypeOK, JobTypes
  <2>2. "pc" \in DOMAIN job[w]
    BY <2>1 DEF Jobs
  <2> QED
    BY <2>2 DEF Step
<1> HIDE DEF r
<1> QED
  BY <1>1, Setting

LEMMA Changing ==
  ASSUME Typed, NEW w \in Workers
  PROVE  /\ \A g : job' = [job EXCEPT ![w].pc = "dupe", ![w].file = g] => JobMoves(w)
         /\ job' = [job EXCEPT ![w].pc = "list", ![w].held = TRUE] => JobMoves(w)
<1>1. job[w] \in Jobs /\ DOMAIN job = Workers
  BY DEF Typed, FilesTypeOK, JobTypes
<1>2. ASSUME NEW g, job' = [job EXCEPT ![w].pc = "dupe", ![w].file = g] PROVE JobMoves(w)
  <2> DEFINE r == [job[w] EXCEPT !.pc = "dupe", !.file = g]
  <2>1. r.pc = "dupe"
    BY <1>1 DEF Jobs
  <2>2. job' = [job EXCEPT ![w] = r]
    BY <1>1, <1>2
  <2> HIDE DEF r
  <2>3. r.pc \in Busy
    BY <2>1 DEF Busy
  <2> QED
    BY <2>2, <2>3, Setting
<1>3. ASSUME job' = [job EXCEPT ![w].pc = "list", ![w].held = TRUE] PROVE JobMoves(w)
  <2> DEFINE r == [job[w] EXCEPT !.pc = "list", !.held = TRUE]
  <2>1. r.pc = "list"
    BY <1>1 DEF Jobs
  <2>2. job' = [job EXCEPT ![w] = r]
    BY <1>1, <1>3
  <2> HIDE DEF r
  <2>3. r.pc \in Busy
    BY <2>1 DEF Busy
  <2> QED
    BY <2>2, <2>3, Setting
<1> QED
  BY <1>2, <1>3

\* What handleupload changes.
LEMMA HandleEffect ==
  ASSUME Typed, NEW w \in Workers, HandleUpload(w)
  PROVE  /\ job[w].pc \in Busy /\ w[1] \in Nodes
         /\ UNCHANGED rest
         /\ JobMoves(w)
         /\ \A v \in Workers : v # w => user'[v] = user[v]
         /\ \A m \in Nodes : m # w[1] => temp'[m] = temp[m]
         /\ user'[w] = user[w] \/ user'[w] = [user[w] EXCEPT !.ul = @ + 1]
<1>h. job[w].pc \in Busy /\ w[1] \in Nodes
  BY Hands DEF HandleUpload, CheckFileName, DupeCheck, Describe, UpdateFileList, NewRename, At, Busy
<1>r. UNCHANGED rest
  BY DEF HandleUpload, CheckFileName, DupeCheck, Describe, UpdateFileList, NewRename
<1>b. Busy = {"name", "dupe", "ask", "list", "move"}
  BY DEF Busy
<1>j. JobMoves(w)
  <2>1. Finished(w) => JobMoves(w)
    BY Ending
  <2>2. Step(w, "dupe") \/ Step(w, "ask") \/ Step(w, "list") \/ Step(w, "move") => JobMoves(w)
    BY <1>b, GoingOn
  <2>3. CASE CheckFileName(w)
    BY <2>1, <2>2, <2>3, Changing DEF CheckFileName, GiveUp
  <2>4. CASE DupeCheck(w)
    BY <2>1, <2>2, <2>4 DEF DupeCheck, Refuse
  <2>5. CASE Describe(w)
    BY <2>1, <2>2, <2>5, Changing DEF Describe, GiveUp, Refuse
  <2>6. CASE UpdateFileList(w) \/ NewRename(w)
    BY <2>1, <2>2, <2>6 DEF UpdateFileList, NewRename
  <2> QED
    BY <2>3, <2>4, <2>5, <2>6 DEF HandleUpload
<1>u. /\ \A v \in Workers : v # w => user'[v] = user[v]
      /\ user'[w] = user[w] \/ user'[w] = [user[w] EXCEPT !.ul = @ + 1]
  <2>1. user' = user \/ user' = [user EXCEPT ![w].ul = @ + 1]
    BY DEF HandleUpload, CheckFileName, DupeCheck, Describe, UpdateFileList, NewRename, AddUlBytes
  <2>2. DOMAIN user = Workers
    BY DEF Typed, FilesTypeOK, RecordTypes
  <2> QED
    BY <2>1, <2>2
<1>t. \A m \in Nodes : m # w[1] => temp'[m] = temp[m]
  <2>1. temp' = temp \/ \E d : temp' = [temp EXCEPT ![w[1]] = d]
    BY DEF HandleUpload, CheckFileName, DupeCheck, Describe, UpdateFileList, NewRename, GiveUp, Refuse, Unlink
  <2>2. DOMAIN temp = Nodes
    BY DEF Typed, FilesTypeOK, TempTypes
  <2> QED
    BY <2>1, <2>2
<1> QED
  BY <1>h, <1>r, <1>j, <1>u, <1>t

LEMMA HandleElsewhere ==
  ASSUME Typed, NEW w \in Workers, HandleUpload(w), NEW m \in Nodes, m # w[1]
  PROVE  Same(m)
<1>1. Node(m) \in Workers /\ Checker(m) \in Workers /\ Node(m) # w /\ Checker(m) # w
  BY Hands
<1> QED
  BY <1>1, HandleEffect, ZenonT(60) DEF Same, rest, JobMoves

\* Where every node is described by a function.
Domains ==
  /\ DOMAIN main = Nodes /\ DOMAIN kind = Nodes /\ DOMAIN seen = Nodes /\ DOMAIN temp = Nodes
  /\ DOMAIN log = Nodes /\ DOMAIN tags = Nodes /\ DOMAIN sent = Nodes /\ DOMAIN last = Nodes
  /\ DOMAIN sig = Nodes /\ DOMAIN bgdone = Nodes /\ DOMAIN job = Workers /\ DOMAIN user = Workers
  /\ DOMAIN rec = Users /\ DOMAIN flagged = Users /\ DOMAIN lc = Users /\ DOMAIN part = Users
  /\ DOMAIN owed = Users /\ DOMAIN due = Users

LEMMA Shapes == Typed => Domains
  BY DEF Domains, Typed, FilesTypeOK, NodeTypes, LogTypes, TagTypes, RecordTypes, TempTypes, JobTypes, LeftTypes

\* What a step keeps of a node.
Settled(n) == PlacedAt(n) /\ NamedAt(n) /\ SendsAt(n)
Stays(n) == OnLine(n)' => OnLine(n) /\ Me(n)'.id = Me(n).id

LEMMA SameSettled ==
  ASSUME NEW m \in Nodes, Same(m), Settled(m)
  PROVE  Settled(m)' /\ Stays(m) /\ OnLine(m)' = OnLine(m) /\ Me(m)' = Me(m)
<1>1. PlacedAt(m)'
  BY DEF Same, Settled, PlacedAt, Running
<1>2. NamedAt(m)'
  BY DEF Same, Settled, NamedAt, Running, OnLine, Me
<1>3. SendsAt(m)'
  BY DEF Same, Settled, SendsAt
<1>4. Stays(m) /\ OnLine(m)' = OnLine(m) /\ Me(m)' = Me(m)
  BY DEF Same, Stays, OnLine, Me
<1> QED
  BY <1>1, <1>2, <1>3, <1>4 DEF Settled

LEMMA HandsOf ==
  ASSUME NEW n \in Nodes
  PROVE  Node(n) \in Workers /\ Checker(n) \in Workers /\ Node(n) # Checker(n)
  BY Hands

\* A call,
LEMMA LoginSettled ==
  ASSUME Typed, NEW n \in Nodes, NEW u \in Users, Login(n, u)
  PROVE  Settled(n)' /\ Me(n)'.id = u
<1>t. Domains
  BY Shapes
<1>h. Node(n) \in Workers /\ Checker(n) \in Workers /\ Node(n) # Checker(n)
  BY HandsOf
<1>s. PlacedAt(n) /\ NamedAt(n) /\ SendsAt(n)
  BY DEF Typed, Placed, Named, Sends
<1>1. main[n] = "off" /\ main'[n] \in {"tags", "scan"} /\ kind'[n] = "left"
  BY <1>t DEF Login, Domains
<1>2. user'[Node(n)] = rec[u] /\ user'[Checker(n)] = user[Checker(n)] /\ rec[u] \in Records /\ rec[u].id = u
  BY <1>t, <1>h DEF Login, Domains, Typed, Named, OwnRecord, FilesTypeOK, RecordTypes
<1>3. PlacedAt(n)'
  BY <1>1, <1>s DEF Login, PlacedAt, Running
<1>4. NamedAt(n)'
  BY <1>1, <1>2, <1>s DEF Login, PlacedAt, NamedAt, Running, OnLine, Me
<1>5. SendsAt(n)'
  BY <1>1, <1>s DEF Login, SendsAt
<1> QED
  BY <1>2, <1>3, <1>4, <1>5 DEF Settled, Me

LEMMA CallsSettled ==
  ASSUME Typed, NEW n \in Nodes, Calls(n), ~ \E u \in Users : Login(n, u)
  PROVE  Settled(n)' /\ Stays(n)
<1> USE DEF nodeVars, shared, disk, history
<1>t. Domains
  BY Shapes
<1>h. Node(n) \in Workers /\ Checker(n) \in Workers /\ Node(n) # Checker(n)
  BY HandsOf
<1>s. PlacedAt(n) /\ NamedAt(n) /\ SendsAt(n)
  BY DEF Typed, Placed, Named, Sends
<1>e. Range(<<>>) = {}
  BY DEF Range
<1>1. CASE LoadFlagList(n)
  <2>0. main[n] = "tags" /\ main'[n] \in {"tags", "menu"}
    BY <1>1, <1>t DEF LoadFlagList, Domains
  <2>1. UNCHANGED <<kind, temp, log, sent, job, user, sig, bgdone>>
    BY <1>1 DEF LoadFlagList
  <2>2. PlacedAt(n)'
    BY <2>0, <2>1, <1>s DEF PlacedAt, Running
  <2>3. NamedAt(n)' /\ Stays(n)
    BY <2>0, <2>1, <1>s DEF NamedAt, Stays, Running, OnLine, Me
  <2>4. SendsAt(n)'
    BY <2>0, <2>1, <1>s, <1>e DEF SendsAt
  <2> QED
    BY <2>2, <2>3, <2>4 DEF Settled
<1>2. CASE Logoff(n)
  <2>0. main[n] = "menu" /\ main'[n] = "off"
    BY <1>2, <1>t DEF Logoff, Domains
  <2>1. UNCHANGED <<kind, temp, log, sent, job, sig, bgdone>> /\ user'[Checker(n)] = user[Checker(n)]
    BY <1>2, <1>t, <1>h DEF Logoff, Domains
  <2>2. PlacedAt(n)'
    BY <2>0, <2>1, <1>s DEF PlacedAt, Running
  <2>3. NamedAt(n)' /\ Stays(n)
    BY <2>0, <2>1, <1>s DEF PlacedAt, NamedAt, Stays, Running, OnLine, Me
  <2>4. SendsAt(n)'
    BY <2>0, <2>1, <1>s, <1>e DEF SendsAt
  <2> QED
    BY <2>2, <2>3, <2>4 DEF Settled
<1>3. CASE ReadNews(n)
  <2>0. UNCHANGED <<main, kind, temp, log, tags, sent, job, sig, bgdone>> /\ OnLine(n)
    BY <1>3 DEF ReadNews, OnLine
  <2>1. Me(n) \in Records
    BY <2>0, <1>s DEF NamedAt
  <2>2. user'[Checker(n)] = user[Checker(n)] /\ user'[Node(n)] = [Me(n) EXCEPT !.ul = @ + 1]
    BY <1>3, <1>t, <1>h DEF ReadNews, Domains, Me
  <2>3. user'[Node(n)] \in Records /\ user'[Node(n)].id = Me(n).id
    BY <2>1, <2>2 DEF Records
  <2>4. PlacedAt(n)'
    BY <2>0, <1>s DEF PlacedAt, Running
  <2>5. NamedAt(n)' /\ Stays(n)
    BY <2>0, <2>2, <2>3, <1>s DEF NamedAt, Stays, Running, OnLine, Me
  <2>6. SendsAt(n)'
    BY <2>0, <1>s DEF SendsAt
  <2> QED
    BY <2>4, <2>5, <2>6 DEF Settled
<1>4. ASSUME NEW x \in Names, FlagFile(n, x) \/ UnflagFile(n, x) PROVE Settled(n)' /\ Stays(n)
  <2>0. UNCHANGED <<main, kind, temp, log, sent, job, user, sig, bgdone>> /\ main[n] = "menu"
    BY <1>4 DEF FlagFile, UnflagFile
  <2>1. PlacedAt(n)'
    BY <2>0, <1>s DEF PlacedAt, Running
  <2>2. NamedAt(n)' /\ Stays(n)
    BY <2>0, <1>s DEF NamedAt, Stays, Running, OnLine, Me
  <2>3. SendsAt(n)'
    BY <2>0, <1>s, <1>e DEF SendsAt
  <2> QED
    BY <2>1, <2>2, <2>3 DEF Settled
<1> QED
  BY <1>1, <1>2, <1>3, <1>4 DEF Calls

\* a transfer,
LEMMA StartSettled ==
  ASSUME Typed, NEW n \in Nodes, NEW k \in {"upload", "download", "both", "sysop"}, NEW wanted \in BOOLEAN,
         wanted => k \in {"upload", "both"}, Start(n, k, wanted)
  PROVE  Settled(n)' /\ Stays(n)
<1> USE DEF nodeVars, shared, disk, history
<1>t. Domains
  BY Shapes
<1>h. Node(n) \in Workers /\ Checker(n) \in Workers /\ Node(n) # Checker(n)
  BY HandsOf
<1>s. PlacedAt(n) /\ NamedAt(n) /\ SendsAt(n)
  BY DEF Typed, Placed, Named, Sends
<1>1. main[n] = "menu" /\ main'[n] = "begin" /\ kind'[n] = k /\ UNCHANGED <<tags, sent, sig, bgdone>> /\ ~Running(n)
  BY <1>t DEF Start, Domains, Running
<1>2. k \in {"upload", "both"} => temp'[n] = {} \/ log'[n] = <<>>
  BY <1>t DEF Start, CheckForPartialUploads, Domains
<1>3. job'[Node(n)] = job[Node(n)] /\ user'[Node(n)] = user[Node(n)]
  BY <1>t, <1>h DEF Start, Fork, Domains
<1>4. \/ job'[Checker(n)] = Idle("born") /\ user'[Checker(n)] = Me(n) /\ wanted
      \/ ~Running(n)'
  BY <1>t, <1>h, <1>1 DEF Start, Fork, Domains, Running
<1>5. Idle("born").pc = "born"
  BY NewJob
<1>6. PlacedAt(n)'
  BY <1>1, <1>2, <1>3, <1>4, <1>5, <1>s DEF PlacedAt, Running, Busy
<1>7. NamedAt(n)' /\ Stays(n)
  BY <1>1, <1>3, <1>4, <1>s DEF PlacedAt, NamedAt, Stays, OnLine, Me
<1>8. SendsAt(n)'
  BY <1>1, <1>s DEF SendsAt
<1> QED
  BY <1>6, <1>7, <1>8 DEF Settled

LEMMA TransfersSettled ==
  ASSUME Typed, NEW n \in Nodes, Transfers(n)
  PROVE  Settled(n)' /\ Stays(n)
<1> USE DEF nodeVars, shared, disk, history
<1>t. Domains
  BY Shapes
<1>h. Node(n) \in Workers /\ Checker(n) \in Workers /\ Node(n) # Checker(n)
  BY HandsOf
<1>s. PlacedAt(n) /\ NamedAt(n) /\ SendsAt(n)
  BY DEF Typed, Placed, Named, Sends
<1>e. Range(<<>>) = {}
  BY DEF Range
<1>1. CASE Upload(n) \/ Download(n) \/ SysopDownload(n)
  BY <1>1, StartSettled DEF Upload, Download, SysopDownload
<1>2. CASE DropLog(n) \/ EndTransfer(n)
  <2>0. UNCHANGED <<kind, tags, sent, job, user, sig, bgdone>>
    BY <1>2 DEF DropLog, EndTransfer
  <2>1. \/ main[n] = "begin" /\ main'[n] = "transfer"
        \/ main[n] = "transfer" /\ main'[n] = IF kind[n] \in {"upload", "both"} THEN "flood" ELSE "charge"
    BY <1>2, <1>t DEF DropLog, EndTransfer, Domains
  <2>2. kind[n] \in {"upload", "download", "both", "left", "sysop"}
    BY DEF Typed, FilesTypeOK, NodeTypes
  <2>3. PlacedAt(n)'
    BY <2>0, <2>1, <2>2, <1>s DEF PlacedAt, Running
  <2>4. NamedAt(n)' /\ Stays(n)
    BY <2>0, <2>1, <1>s DEF NamedAt, Stays, Running, OnLine, Me
  <2>5. SendsAt(n)'
    BY <2>0, <2>1, <1>s DEF SendsAt
  <2> QED
    BY <2>3, <2>4, <2>5 DEF Settled
<1>3. CASE Charge(n)
  <2>0. UNCHANGED <<kind, temp, log, job, sig, bgdone>> /\ main[n] = "charge" /\ main'[n] = "menu" /\ sent'[n] = <<>>
    BY <1>3, <1>t DEF Charge, Domains
  <2>1. Me(n) \in Records
    BY <2>0, <1>s DEF NamedAt, OnLine
  <2>2. user'[Checker(n)] = user[Checker(n)] /\ user'[Node(n)] = [Me(n) EXCEPT !.dl = @ + Price(n, Passed(n))]
    BY <1>3, <1>t, <1>h DEF Charge, Domains, Me
  <2>3. user'[Node(n)].id = Me(n).id
    BY <2>1, <2>2 DEF Records
  <2>4. PlacedAt(n)'
    BY <2>0, <1>s DEF PlacedAt, Running
  <2>5. user'[Node(n)] \in Records
    <3>1. tags[n] \in Seq(Names) /\ sent[n] \in Seq(Names)
      BY DEF Typed, FilesTypeOK, TagTypes
    <3>2. Price(n, Passed(n)) \in Nat
      BY <3>1, <1>s, PassedType, PriceType DEF SendsAt
    <3> QED
      BY <2>1, <2>2, <3>2 DEF Records
  <2>6. NamedAt(n)' /\ Stays(n)
    BY <2>0, <2>2, <2>3, <2>5, <1>s DEF NamedAt, Stays, Running, OnLine, Me
  <2>7. SendsAt(n)'
    BY <2>0, <1>e DEF SendsAt
  <2> QED
    BY <2>4, <2>6, <2>7 DEF Settled
<1>4. ASSUME NEW x \in Names, RecFile(n, x) PROVE Settled(n)' /\ Stays(n)
  <2>0. UNCHANGED <<main, kind, tags, sent, job, user, sig, bgdone>> /\ main[n] = "transfer"
    BY <1>4 DEF RecFile
  <2>1. PlacedAt(n)'
    BY <2>0, <1>s DEF PlacedAt, Running
  <2>2. NamedAt(n)' /\ Stays(n)
    BY <2>0, <1>s DEF NamedAt, Stays, Running, OnLine, Me
  <2>3. SendsAt(n)'
    BY <2>0, <1>s DEF SendsAt
  <2> QED
    BY <2>1, <2>2, <2>3 DEF Settled
<1>5. ASSUME NEW x \in Names, BreakOff(n, x) \/ LeavePart(n, x) PROVE Settled(n)' /\ Stays(n)
  <2>0. UNCHANGED <<main, kind, tags, sent, job, user, sig, bgdone>> /\ main[n] = "transfer"
    BY <1>5 DEF BreakOff, LeavePart
  <2>1. PlacedAt(n)'
    BY <2>0, <1>s DEF PlacedAt, Running
  <2>2. NamedAt(n)' /\ Stays(n)
    BY <2>0, <1>s DEF NamedAt, Stays, Running, OnLine, Me
  <2>3. SendsAt(n)'
    BY <2>0, <1>s DEF SendsAt
  <2> QED
    BY <2>1, <2>2, <2>3 DEF Settled
<1>6. ASSUME NEW i \in DOMAIN tags[n], SendFile(n, i) PROVE Settled(n)' /\ Stays(n)
  <2>0. UNCHANGED <<main, kind, temp, tags, job, user, sig, bgdone>> /\ main[n] = "transfer" /\ kind[n] # "upload"
    BY <1>6 DEF SendFile
  <2>1. PlacedAt(n)'
    BY <2>0, <1>s DEF PlacedAt, Running
  <2>2. NamedAt(n)' /\ Stays(n)
    BY <2>0, <1>s DEF NamedAt, Stays, Running, OnLine, Me
  <2>3. kind[n] \in {"download", "both", "sysop"}
    BY <2>0, <1>s DEF PlacedAt, Typed, FilesTypeOK, NodeTypes
  <2>4. sent'[n] = Append(sent[n], tags[n][i]) /\ sent[n] \in Seq(Names) /\ tags[n][i] \in Names
    BY <1>6, <1>t DEF SendFile, Domains, Typed, FilesTypeOK, TagTypes
  <2>5. Range(sent'[n]) \subseteq Range(sent[n]) \cup {tags[n][i]}
    BY <2>4 DEF Range
  <2>6. tags[n][i] \in Range(tags[n])
    BY DEF Range
  <2>7. SendsAt(n)'
    BY <2>0, <2>3, <2>5, <2>6, <1>s DEF SendsAt
  <2> QED
    BY <2>1, <2>2, <2>7 DEF Settled
<1> QED
  BY <1>1, <1>2, <1>3, <1>4, <1>5, <1>6 DEF Transfers

\* what the node does after it,
LEMMA AfterSettled ==
  ASSUME Typed, NEW n \in Nodes, After(n)
  PROVE  Settled(n)' /\ Stays(n)
<1> USE DEF nodeVars, shared, disk, history
<1>t. Domains
  BY Shapes
<1>h. Node(n) \in Workers /\ Checker(n) \in Workers /\ Node(n) # Checker(n)
  BY HandsOf
<1>s. PlacedAt(n) /\ NamedAt(n) /\ SendsAt(n)
  BY DEF Typed, Placed, Named, Sends
<1>1. CASE StopChecker(n)
  <2>0. /\ UNCHANGED <<kind, temp, log, tags, sent, job, user, bgdone>> /\ main[n] = "flood"
        /\ main'[n] = (IF Running(n) THEN "stop" ELSE "scan") /\ sig'[n] = Running(n)
    BY <1>1, <1>t DEF StopChecker, Domains, Running
  <2>1. PlacedAt(n)'
    BY <2>0, <1>s DEF PlacedAt, Running
  <2>2. NamedAt(n)' /\ Stays(n)
    BY <2>0, <1>s DEF NamedAt, Stays, Running, OnLine, Me
  <2>3. SendsAt(n)'
    BY <2>0, <1>s DEF SendsAt
  <2> QED
    BY <2>1, <2>2, <2>3 DEF Settled
<1>2. CASE TakeRecord(n)
  <2>0. /\ UNCHANGED <<kind, temp, log, tags, sent, job, sig>> /\ main[n] = "stop" /\ main'[n] = "scan"
        /\ user'[Node(n)] = bgdone[n] /\ user'[Checker(n)] = user[Checker(n)]
        /\ bgdone[n] # NoRecord /\ bgdone'[n] = NoRecord
    BY <1>2, <1>t, <1>h DEF TakeRecord, Domains
  <2>1. PlacedAt(n)'
    BY <2>0, <1>s DEF PlacedAt, Running
  <2>2. NamedAt(n)' /\ Stays(n)
    BY <2>0, <1>s DEF PlacedAt, NamedAt, Stays, Running, OnLine, Me
  <2>3. SendsAt(n)'
    BY <2>0, <1>s DEF SendsAt
  <2> QED
    BY <2>1, <2>2, <2>3 DEF Settled
<1>3. CASE CheckerGone(n)
  <2>0. /\ UNCHANGED <<kind, temp, log, tags, sent, job, user, sig, bgdone>> /\ main[n] = "stop"
        /\ main'[n] = "scan" /\ ~Running(n) /\ bgdone[n] = NoRecord
    BY <1>3, <1>t DEF CheckerGone, Domains, Running
  <2>1. PlacedAt(n)'
    BY <2>0, <1>s DEF PlacedAt, Running
  <2>2. NamedAt(n)' /\ Stays(n)
    BY <2>0, <1>s DEF NamedAt, Stays, Running, OnLine, Me
  <2>3. SendsAt(n)'
    BY <2>0, <1>s DEF SendsAt
  <2> QED
    BY <2>1, <2>2, <2>3 DEF Settled
<1>4. CASE ScanTemp(n)
  <2>0. /\ UNCHANGED <<main, kind, temp, log, tags, sent, user, sig, bgdone>> /\ main[n] = "scan"
        /\ job'[Node(n)].pc = "name" /\ job'[Checker(n)] = job[Checker(n)]
    BY <1>4, <1>t, <1>h DEF ScanTemp, Domains
  <2>1. PlacedAt(n)'
    BY <2>0, <1>s DEF PlacedAt, Running, Busy
  <2>2. NamedAt(n)' /\ Stays(n)
    BY <2>0, <1>s DEF NamedAt, Stays, Running, OnLine, Me
  <2>3. SendsAt(n)'
    BY <2>0, <1>s DEF SendsAt
  <2> QED
    BY <2>1, <2>2, <2>3 DEF Settled
<1>5. CASE ScanDone(n)
  <2>0. /\ UNCHANGED <<kind, temp, log, tags, sent, job, user, sig, bgdone>> /\ main[n] = "scan"
        /\ main'[n] = CASE kind[n] = "both" -> "charge" [] kind[n] = "left" -> "tags" [] OTHER -> "menu"
        /\ job[Node(n)].pc = "off"
    BY <1>5, <1>t DEF ScanDone, Domains
  <2>1. PlacedAt(n)'
    BY <2>0, <1>s DEF PlacedAt, Running
  <2>2. NamedAt(n)' /\ Stays(n)
    BY <2>0, <1>s DEF NamedAt, Stays, Running, OnLine, Me
  <2>3. SendsAt(n)'
    BY <2>0, <1>s DEF SendsAt, PlacedAt
  <2> QED
    BY <2>1, <2>2, <2>3 DEF Settled
<1> QED
  BY <1>1, <1>2, <1>3, <1>4, <1>5 DEF After

\* a checker that follows it,
LEMMA ExitDoes ==
  ASSUME Typed, NEW n \in Nodes, Exit(n)
  PROVE  /\ job'[Node(n)] = job[Node(n)] /\ user'[Node(n)] = user[Node(n)]
         /\ job'[Checker(n)].pc = "off" /\ ~Running(n)' /\ user'[Checker(n)] = NoRecord /\ sig'[n] = FALSE
<1>1. Domains
  BY Shapes
<1>2. Idle("off").pc = "off"
  BY NewJob
<1> QED
  BY <1>1, <1>2, HandsOf DEF Exit, Domains, Running

LEMMA FollowingSettled ==
  ASSUME Typed, NEW n \in Nodes, Following(n)
  PROVE  Settled(n)' /\ Stays(n)
<1> USE DEF nodeVars, shared, disk, history
<1>t. Domains
  BY Shapes
<1>h. Node(n) \in Workers /\ Checker(n) \in Workers /\ Node(n) # Checker(n)
  BY HandsOf
<1>s. PlacedAt(n) /\ NamedAt(n) /\ SendsAt(n)
  BY DEF Typed, Placed, Named, Sends
<1>0. UNCHANGED <<main, kind, temp, log, tags, sent>>
  BY DEF Following, InstallHandler, TakeLine, ReportDone
<1>1. SendsAt(n)'
  BY <1>0, <1>s DEF SendsAt
<1>2. CASE InstallHandler(n) /\ Exit(n)
  <2>0. UNCHANGED bgdone
    BY <1>2 DEF InstallHandler
  <2>1. PlacedAt(n)'
    BY <1>0, <1>2, <2>0, <1>s, ExitDoes DEF PlacedAt, Busy
  <2>2. NamedAt(n)' /\ Stays(n)
    BY <1>0, <1>2, <2>0, <1>s, ExitDoes DEF NamedAt, Stays, OnLine, Me
  <2> QED
    BY <1>1, <2>1, <2>2 DEF Settled
<1>3. CASE InstallHandler(n) /\ job' = [job EXCEPT ![Checker(n)] = Idle("idle")] /\ UNCHANGED <<user, last, sig>>
  <2>0. /\ UNCHANGED bgdone /\ job'[Node(n)] = job[Node(n)] /\ job'[Checker(n)].pc = "idle" /\ Running(n)
    BY <1>3, <1>t, <1>h, NewJob DEF InstallHandler, Domains, Running
  <2>1. PlacedAt(n)'
    BY <1>0, <1>3, <2>0, <1>s DEF PlacedAt, Running, Busy
  <2>2. NamedAt(n)' /\ Stays(n)
    BY <1>0, <1>3, <2>0, <1>s DEF NamedAt, Stays, OnLine, Me, Running
  <2> QED
    BY <1>1, <2>1, <2>2 DEF Settled
<1>4. CASE TakeLine(n)
  <2>0. /\ UNCHANGED <<user, sig, bgdone>> /\ job'[Node(n)] = job[Node(n)] /\ Running(n)
        /\ job'[Checker(n)].pc \in {"idle", "name"}
    BY <1>4, <1>t, <1>h DEF TakeLine, Domains, Running
  <2>1. main[n] = "begin" => job'[Checker(n)].pc = "idle"
    <3>1. CASE main[n] = "begin" /\ temp[n] = {}
      <4>1. NamesIn(temp[n]) = {}
        BY <3>1 DEF NamesIn
      <4> QED
        BY <1>4, <4>1, <1>t, <1>h DEF TakeLine, Domains
    <3>2. CASE main[n] = "begin" /\ log[n] = <<>>
      <4>1. last[n] \in Nat
        BY DEF Typed, FilesTypeOK, NodeTypes
      <4> QED
        BY <1>4, <3>2, <4>1 DEF TakeLine
    <3> QED
      BY <2>0, <3>1, <3>2, <1>s DEF PlacedAt
  <2>2. PlacedAt(n)'
    BY <1>0, <2>0, <2>1, <1>s DEF PlacedAt, Running, Busy
  <2>3. NamedAt(n)' /\ Stays(n)
    BY <1>0, <2>0, <1>s DEF NamedAt, Stays, OnLine, Me, Running
  <2> QED
    BY <1>1, <2>2, <2>3 DEF Settled
<1>5. CASE ReportDone(n)
  <2>0. /\ Exit(n) /\ sig[n] /\ bgdone'[n] = user[Checker(n)] /\ Running(n)
    BY <1>5, <1>t DEF ReportDone, Domains, Running
  <2>1. PlacedAt(n)'
    BY <1>0, <2>0, <1>s, ExitDoes DEF PlacedAt, Busy
  <2>2. NamedAt(n)' /\ Stays(n)
    BY <1>0, <2>0, <1>s, ExitDoes DEF NamedAt, Stays, OnLine, Me
  <2> QED
    BY <1>1, <2>1, <2>2 DEF Settled
<1> QED
  BY <1>2, <1>3, <1>4, <1>5 DEF Following, InstallHandler

\* a file handled.
LEMMA HandleSettled ==
  ASSUME Typed, NEW w \in Workers, HandleUpload(w)
  PROVE  Settled(w[1])' /\ Stays(w[1])
<1> DEFINE n == w[1]
<1>0. /\ n \in Nodes /\ job[w].pc \in Busy
      /\ UNCHANGED <<main, kind, log, tags, sent, sig, bgdone>>
      /\ JobMoves(w)
      /\ \A v \in Workers : v # w => user'[v] = user[v]
      /\ user'[w] = user[w] \/ user'[w] = [user[w] EXCEPT !.ul = @ + 1]
  BY HandleEffect DEF rest
<1>1. /\ OnLine(n) /\ user[w] \in Records /\ user[w].id = Me(n).id
      /\ w[2] = "node" => w = Node(n) /\ main[n] = "scan"
      /\ w[2] # "node" => /\ w = Checker(n) /\ Running(n) /\ main[n] \in {"transfer", "flood", "stop"}
  BY <1>0, Hired
<1> HIDE DEF n
<1>h. Node(n) \in Workers /\ Checker(n) \in Workers /\ Node(n) # Checker(n)
  BY <1>0, HandsOf
<1>s. PlacedAt(n) /\ NamedAt(n) /\ SendsAt(n)
  BY <1>0 DEF Typed, Placed, Named, Sends
<1>2. user'[w] \in Records /\ user'[w].id = user[w].id
  BY <1>0, <1>1 DEF Records
<1>3. SendsAt(n)'
  BY <1>0, <1>s DEF SendsAt
<1>4. CASE w[2] = "node"
  <2>1. w = Node(n) /\ main[n] = "scan" /\ job'[Checker(n)] = job[Checker(n)] /\ user'[Checker(n)] = user[Checker(n)]
    BY <1>0, <1>1, <1>4, <1>h DEF JobMoves
  <2>2. job'[Node(n)].pc \in Busy \cup {"off"}
    BY <1>0, <1>4, <2>1, NewJob DEF JobMoves
  <2>3. PlacedAt(n)'
    BY <1>0, <2>1, <2>2, <1>s DEF PlacedAt, Running
  <2>4. NamedAt(n)' /\ Stays(n)
    BY <1>0, <1>1, <1>2, <2>1, <1>s DEF NamedAt, Stays, OnLine, Me, Running
  <2> QED
    BY <1>3, <2>3, <2>4 DEF Settled, n
<1>5. CASE w[2] # "node"
  <2>1. /\ w = Checker(n) /\ main[n] \in {"transfer", "flood", "stop"} /\ Running(n)
        /\ job'[Node(n)] = job[Node(n)] /\ user'[Node(n)] = user[Node(n)]
    BY <1>0, <1>1, <1>5, <1>h DEF JobMoves
  <2>2. job'[Checker(n)].pc # "off"
    BY <1>0, <1>5, <2>1, NewJob DEF JobMoves, Busy
  <2>3. PlacedAt(n)'
    BY <1>0, <2>1, <2>2, <1>s DEF PlacedAt, Running
  <2>4. NamedAt(n)' /\ Stays(n)
    BY <1>0, <1>1, <1>2, <2>1, <2>2, <1>s DEF NamedAt, Stays, OnLine, Me, Running
  <2> QED
    BY <1>3, <2>3, <2>4 DEF Settled, n
<1> QED
  BY <1>4, <1>5

\* A move leaves every node alone, and so does a step that does nothing.
LEMMA IdleSame ==
  ASSUME UNCHANGED <<nodeVars, job, user, last, sig, bgdone>>, NEW m \in Nodes
  PROVE  Same(m)
  BY DEF nodeVars, Same

\* A record written carries the caller's name.
LEMMA OwnRecordKept ==
  ASSUME Typed, [Next]_vars
  PROVE  OwnRecord'
<1>1. CASE UNCHANGED rec
  BY <1>1 DEF Typed, Named, OwnRecord
<1>2. ASSUME NEW n \in Nodes, Logoff(n) PROVE OwnRecord'
  <2>1. rec' = [rec EXCEPT ![Me(n).id] = Me(n)] /\ DOMAIN rec = Users
    BY <1>2 DEF Logoff, Typed, FilesTypeOK, RecordTypes
  <2> QED
    BY <2>1 DEF Typed, Named, OwnRecord
<1>3. CASE UNCHANGED vars
  BY <1>1, <1>3 DEF vars, disk
<1>4. ASSUME NEW n \in Nodes, Calls(n) PROVE OwnRecord'
  <2>1. UNCHANGED rec \/ Logoff(n)
    BY <1>4 DEF Calls, Login, LoadFlagList, ReadNews, FlagFile, UnflagFile, disk
  <2> QED
    BY <1>1, <1>2, <2>1
<1>5. ASSUME NEW n \in Nodes, Transfers(n) \/ After(n) \/ Following(n) PROVE UNCHANGED rec
  <2> USE DEF disk
  <2>1. CASE Transfers(n)
    BY <2>1 DEF Transfers, Upload, Download, SysopDownload, Start, DropLog, EndTransfer, Charge, RecFile, BreakOff, LeavePart, SendFile
  <2>2. CASE After(n)
    BY <2>2 DEF After, StopChecker, TakeRecord, CheckerGone, ScanTemp, ScanDone
  <2>3. CASE Following(n)
    BY <2>3 DEF Following, InstallHandler, TakeLine, ReportDone
  <2> QED
    BY <1>5, <2>1, <2>2, <2>3
<1>6. ASSUME NEW w \in Workers, HandleUpload(w) PROVE UNCHANGED rec
  BY <1>6, HandleEffect DEF rest
<1>7. CASE WriteList \/ \E f \in area : MoveFile(f)
  BY <1>1, <1>7 DEF WriteList, MoveFile, disk
<1> QED
  BY <1>1, <1>3, <1>4, <1>5, <1>6, <1>7, Steps

\* One node acts at most; a user who comes on line is not there yet.
Acts(n) == \A m \in Nodes : m # n => Same(m)

LEMMA Actors ==
  ASSUME Typed, [Next]_vars
  PROVE  \/ \A m \in Nodes : Same(m)
         \/ \E n \in Nodes : Acts(n) /\ Settled(n)' /\ Stays(n)
         \/ \E n \in Nodes, u \in Users : Acts(n) /\ Login(n, u) /\ Settled(n)' /\ Me(n)'.id = u
<1>1. ASSUME NEW n \in Nodes, NEW u \in Users, Login(n, u)
      PROVE  Acts(n) /\ Login(n, u) /\ Settled(n)' /\ Me(n)'.id = u
  <2>1. Calls(n)
    BY <1>1 DEF Calls
  <2> QED
    BY <1>1, <2>1, Elsewhere, LoginSettled DEF Acts
<1>2. ASSUME NEW n \in Nodes, Calls(n), ~ \E u \in Users : Login(n, u)
      PROVE  Acts(n) /\ Settled(n)' /\ Stays(n)
  BY <1>2, Elsewhere, CallsSettled DEF Acts
<1>3. ASSUME NEW n \in Nodes, Transfers(n) \/ After(n) \/ Following(n)
      PROVE  Acts(n) /\ Settled(n)' /\ Stays(n)
  BY <1>3, Elsewhere, TransfersSettled, AfterSettled, FollowingSettled DEF Acts
<1>4. ASSUME NEW w \in Workers, HandleUpload(w)
      PROVE  w[1] \in Nodes /\ Acts(w[1]) /\ Settled(w[1])' /\ Stays(w[1])
  BY <1>4, Hands, HandleElsewhere, HandleSettled DEF Acts
<1>5. CASE WriteList \/ (\E f \in area : MoveFile(f)) \/ UNCHANGED vars
  <2>1. UNCHANGED <<nodeVars, job, user, last, sig, bgdone>>
    BY <1>5 DEF WriteList, MoveFile, vars
  <2> QED
    BY <2>1, IdleSame
<1> QED
  BY <1>1, <1>2, <1>3, <1>4, <1>5, Steps

LEMMA TypedKept == Typed /\ [Next]_vars => Typed'
<1> SUFFICES ASSUME Typed, [Next]_vars PROVE Typed'
  OBVIOUS
<1>1. FilesTypeOK' /\ OwnRecord'
  BY TypesKept, OwnRecordKept
<1>2. \A m \in Nodes : Settled(m)
  BY DEF Typed, Placed, Named, Sends, Settled
<1>3. \A m \in Nodes : Same(m) => Settled(m)' /\ OnLine(m)' = OnLine(m) /\ Me(m)' = Me(m)
  BY <1>2, SameSettled
<1>4. \A m \in Nodes : Settled(m)'
  BY <1>3, Actors DEF Acts
<1>5. Single'
  <2>1. ASSUME NEW n \in Nodes, Acts(n), Stays(n) PROVE Single'
    BY <1>3, <2>1 DEF Acts, Stays, Typed, Named, Single
  <2>2. ASSUME NEW n \in Nodes, NEW u \in Users, Acts(n), Login(n, u), Me(n)'.id = u PROVE Single'
    <3>1. \A m \in Nodes : m # n /\ OnLine(m)' => Me(m)'.id # u
      BY <1>3, <2>2 DEF Acts, Login, OnLine
    <3> QED
      BY <1>3, <2>2, <3>1 DEF Acts, Typed, Named, Single
  <2>3. ASSUME \A m \in Nodes : Same(m) PROVE Single'
    BY <1>3, <2>3 DEF Typed, Named, Single
  <2> QED
    BY <2>1, <2>2, <2>3, Actors
<1> QED
  BY <1>1, <1>4, <1>5 DEF Typed, Placed, Named, Sends, Settled

\* Every variable keeps its type (FilesTypeOK): no directory has a name twice, and only
\* a file about to be put on line is held.
THEOREM FilesTypeCorrect == FilesSpec => []FilesTypeOK
<1>1. Typed => FilesTypeOK
  BY DEF Typed
<1> QED
  BY InitTyped, TypedKept, <1>1, PTL DEF FilesSpec

-----------------------------------------------------------------------------
(* Files received.                                                         *)

\* What has gone wrong is not forgotten.
LEMMA MishapGrows == [Next]_vars => mishap \subseteq mishap'
<1> SUFFICES ASSUME [Next]_vars PROVE mishap \subseteq mishap'
  OBVIOUS
<1> USE DEF history
<1>1. ASSUME NEW n \in Nodes, Calls(n) PROVE mishap \subseteq mishap'
  BY <1>1 DEF Calls, Login, LoadFlagList, Logoff, ReadNews, FlagFile, UnflagFile
<1>2. ASSUME NEW n \in Nodes, Transfers(n) PROVE mishap \subseteq mishap'
  BY <1>2 DEF Arrive, MakePartial, Transfers, Upload, Download, SysopDownload, Start, DropLog, EndTransfer, Charge, RecFile, BreakOff, LeavePart, SendFile
<1>3. ASSUME NEW n \in Nodes, After(n) PROVE mishap \subseteq mishap'
  BY <1>3 DEF After, StopChecker, TakeRecord, CheckerGone, ScanTemp, ScanDone
<1>4. ASSUME NEW n \in Nodes, Following(n) PROVE mishap \subseteq mishap'
  BY <1>4 DEF Following, InstallHandler, TakeLine, ReportDone
<1>5. ASSUME NEW w \in Workers, HandleUpload(w) PROVE mishap \subseteq mishap'
  <2>1. GiveUp(w) => mishap \subseteq mishap'
    BY DEF GiveUp
  <2> QED
    BY <1>5, <2>1 DEF HandleUpload, CheckFileName, DupeCheck, Describe, UpdateFileList, NewRename
<1>6. CASE WriteList \/ (\E f \in area : MoveFile(f)) \/ UNCHANGED vars
  BY <1>6 DEF WriteList, MoveFile, vars
<1> QED
  BY <1>1, <1>2, <1>3, <1>4, <1>5, <1>6, Steps

\* Outside handleupload no file comes on line and no job gets past its first step.
Aside == /\ area' \subseteq area /\ UNCHANGED hold
         /\ \A v \in Workers : job'[v] = job[v] \/ (job[v].pc \notin Busy /\ job'[v].pc \in {"off", "born", "idle", "name"})

LEMMA NodesAside ==
  ASSUME Typed, NEW n \in Nodes, Calls(n) \/ Transfers(n) \/ After(n) \/ Following(n)
  PROVE  Aside
<1> USE DEF shared
<1>t. DOMAIN job = Workers
  BY Shapes DEF Domains
<1>i. /\ Idle("off").pc = "off" /\ Idle("born").pc = "born" /\ Idle("idle").pc = "idle"
      /\ "off" \notin Busy /\ "born" \notin Busy /\ "idle" \notin Busy
  BY NewJob DEF Busy
<1>1. UNCHANGED <<area, hold>>
  <2>1. CASE Calls(n)
    BY <2>1, SMTT(60) DEF Calls, Login, LoadFlagList, Logoff, ReadNews, FlagFile, UnflagFile
  <2>2. CASE Transfers(n)
    BY <2>2 DEF Transfers, Upload, Download, SysopDownload, Start, DropLog, EndTransfer, Charge, RecFile, BreakOff, LeavePart, SendFile
  <2>3. CASE After(n)
    BY <2>3 DEF After, StopChecker, TakeRecord, CheckerGone, ScanTemp, ScanDone
  <2>4. CASE Following(n)
    BY <2>4 DEF Following, InstallHandler, TakeLine, ReportDone
  <2> QED
    BY <2>1, <2>2, <2>3, <2>4
<1>2. \A v \in Workers : job'[v] = job[v] \/ (job[v].pc \notin Busy /\ job'[v].pc \in {"off", "born", "idle", "name"})
  <2>1. CASE UNCHANGED job
    BY <2>1
  <2>2. ASSUME NEW k, NEW wanted, Start(n, k, wanted)
        PROVE  \A v \in Workers : job'[v] = job[v] \/ (job[v].pc \notin Busy /\ job'[v].pc \in {"off", "born", "idle", "name"})
    BY <2>2, <1>t, <1>i DEF Start, Fork
  <2>3. CASE Calls(n)
    BY <2>1, <2>3, SMTT(60) DEF Calls, Login, LoadFlagList, Logoff, ReadNews, FlagFile, UnflagFile
  <2>4. CASE Transfers(n)
    BY <2>1, <2>2, <2>4 DEF Transfers, Upload, Download, SysopDownload, DropLog, EndTransfer, Charge, RecFile, BreakOff, LeavePart, SendFile
  <2>5. CASE After(n)
    <3>1. CASE ScanTemp(n)
      BY <3>1, <1>t, <1>i DEF ScanTemp
    <3> QED
      BY <2>1, <2>5, <3>1 DEF After, StopChecker, TakeRecord, CheckerGone, ScanDone
  <2>6. CASE Following(n)
    <3>1. CASE Exit(n) /\ job[Checker(n)].pc \in {"born", "idle"}
      BY <3>1, <1>t, <1>i DEF Exit
    <3>2. CASE InstallHandler(n)
      BY <3>1, <3>2, <1>t, <1>i DEF InstallHandler
    <3>3. CASE TakeLine(n)
      BY <3>3, <1>t, <1>i DEF TakeLine
    <3> QED
      BY <2>6, <3>1, <3>2, <3>3 DEF Following, ReportDone
  <2> QED
    BY <2>3, <2>4, <2>5, <2>6
<1> QED
  BY <1>1, <1>2 DEF Aside

LEMMA MovesAside ==
  ASSUME WriteList \/ (\E f \in area : MoveFile(f)) \/ UNCHANGED vars
  PROVE  Aside
  BY DEF Aside, WriteList, MoveFile, vars, shared

\* Nobody puts a name on line that another has checked.
LEMMA ClearKept ==
  ASSUME Typed, [Next]_vars, "race" \notin mishap => Clear, "race" \notin mishap'
  PROVE  Clear'
<1>1. Clear
  BY MishapGrows
<1>2. ASSUME Aside PROVE Clear'
  <2>1. NamesIn(area)' \subseteq NamesIn(area)
    BY <1>2 DEF Aside, NamesIn
  <2> QED
    BY <1>1, <1>2, <2>1 DEF Aside, Clear
<1>3. ASSUME NEW w \in Workers, HandleUpload(w) PROVE Clear'
  <2>0. JobMoves(w) /\ job[w].pc \in Busy
    BY <1>3, HandleEffect
  <2>1. \A v \in Workers : v # w => job'[v] = job[v]
    BY <2>0 DEF JobMoves
  <2>2. Finished(w) => job'[w].pc \in {"off", "idle"}
    BY JobEnds, NewJob
  <2>3. job[w] \in Jobs /\ DOMAIN job = Workers
    BY DEF Typed, FilesTypeOK, JobTypes
  <2>4. \A p \in Busy : Step(w, p) => job'[w].pc = p /\ job'[w].file = job[w].file /\ job'[w].held = job[w].held
    BY <2>3 DEF Step, Jobs
  <2>5. ASSUME UNCHANGED area, \/ job'[w].pc \in {"off", "idle", "name", "dupe"} \/ job'[w].held
                               \/ job'[w].file = job[w].file /\ job[w].pc \in {"ask", "list", "move"} /\ ~job[w].held
                               \/ job'[w].file.name \notin NamesIn(area)
        PROVE  Clear'
    BY <1>1, <2>1, <2>5 DEF Clear, NamesIn
  <2>6. CASE CheckFileName(w)
    <3>1. \A g : job' = [job EXCEPT ![w].pc = "dupe", ![w].file = g] => job'[w].pc = "dupe"
      BY <2>3 DEF Jobs
    <3> QED
      BY <2>2, <2>4, <2>5, <2>6, <3>1 DEF CheckFileName, GiveUp, Busy
  <2>7. CASE DupeCheck(w)
    BY <2>2, <2>4, <2>5, <2>7 DEF DupeCheck, Refuse, Busy
  <2>8. CASE Describe(w)
    <3>1. job[w].pc = "ask" /\ ~job[w].held
      BY <2>8 DEF Describe, At, Typed, FilesTypeOK, JobTypes
    <3>2. job' = [job EXCEPT ![w].pc = "list", ![w].held = TRUE] => job'[w].held
      BY <2>3 DEF Jobs
    <3> QED
      BY <2>2, <2>4, <2>5, <2>8, <3>1, <3>2 DEF Describe, GiveUp, Refuse, Busy
  <2>9. CASE UpdateFileList(w)
    BY <2>2, <2>4, <2>5, <2>9 DEF UpdateFileList, At, Busy
  <2>10. CASE NewRename(w)
    <3>1. Finished(w)
      BY <2>10 DEF NewRename
    <3>2. CASE UNCHANGED area
      BY <2>2, <2>5, <3>1, <3>2
    <3>3. CASE area' = Put(area, job[w].file) /\ ~Racing(w) /\ ~job[w].held
      <4>1. \A x \in NamesIn(area)' : x \in NamesIn(area) \/ x = job[w].file.name
        BY <3>3 DEF Put, NamesIn
      <4>2. \A v \in Workers : v # w /\ job[v].pc \in {"ask", "list", "move"} /\ ~job[v].held
                                 => job[v].file.name # job[w].file.name
        BY <3>3 DEF Racing
      <4> QED
        BY <1>1, <2>1, <2>2, <3>1, <4>1, <4>2 DEF Clear
    <3> QED
      BY <2>10, <3>2, <3>3 DEF NewRename
  <2> QED
    BY <1>3, <2>6, <2>7, <2>8, <2>9, <2>10 DEF HandleUpload
<1> QED
  BY <1>2, <1>3, NodesAside, MovesAside, Steps

\* Where the files of the next state are.
LEMMA Found ==
  /\ \A no \in refused' \cup elsewhere' : Known(no)'
  /\ \A f \in area' \cup hold' : Known(f.no)'
  /\ \A n \in Nodes : \A f \in temp'[n] : Known(f.no)'
  /\ \A u \in Users : \A f \in lc'[u] : Known(f.no)'
  BY DEF Known, Held

LEMMA KeptIf ==
  ASSUME Typed, Kept,
         refused \cup elsewhere \subseteq refused' \cup elsewhere',
         \A f \in area \cup hold : Known(f.no)',
         \A n \in Nodes : \A f \in temp[n] : f.no # 0 => Known(f.no)',
         \A u \in Users : \A f \in lc[u] : Known(f.no)',
         \A no \in received' : no \in received \/ Known(no)'
  PROVE  Kept'
<1>1. ASSUME NEW no \in received PROVE Known(no)'
  <2>1. no # 0
    <3>1. received \subseteq 1 .. MaxFiles /\ MaxFiles \in Nat
      BY FilesAssumption DEF Typed, FilesTypeOK, HistoryTypes
    <3> QED
      BY <1>1, <3>1
  <2>2. Known(no)
    BY <1>1 DEF Kept
  <2>3. CASE no \in refused \cup elsewhere
    BY <2>3, Found
  <2>4. CASE Held(no)
    BY <2>1, <2>4 DEF Held
  <2> QED
    BY <2>2, <2>3, <2>4 DEF Known
<1> QED
  BY <1>1 DEF Kept

\* What a step that takes no file away leaves as it is.
LEMMA Untouched ==
  ASSUME mishap \subseteq mishap'
  PROVE  /\ WholeJobs /\ UNCHANGED job => WholeJobs'
         /\ WholeLeft /\ UNCHANGED lc => WholeLeft'
         /\ WholeShelf /\ UNCHANGED <<area, hold>> => WholeShelf'
         /\ Kept /\ UNCHANGED <<received, refused, elsewhere, area, hold, temp, lc>> => Kept'
<1>0. Neat' => Neat
  BY DEF Neat
<1>1. WholeJobs /\ UNCHANGED job => WholeJobs'
  BY <1>0 DEF WholeJobs
<1>2. WholeLeft /\ UNCHANGED lc => WholeLeft'
  BY <1>0 DEF WholeLeft
<1>3. WholeShelf /\ UNCHANGED <<area, hold>> => WholeShelf'
  BY <1>0 DEF WholeShelf
<1>4. Kept /\ UNCHANGED <<received, refused, elsewhere, area, hold, temp, lc>> => Kept'
  BY DEF Kept, Known, Held
<1> QED
  BY <1>1, <1>2, <1>3, <1>4

LEMMA PartsStay ==
  ASSUME NEW n \in Nodes, PartsAt(n), mishap \subseteq mishap',
         temp'[n] \subseteq temp[n], log'[n] = log[n] \/ log'[n] = <<>>,
         temp'[n] = {} \/ main'[n] = "transfer" \/ main'[n] = main[n]
                       \/ (main[n] \notin {"begin", "transfer"} /\ main'[n] \notin {"begin", "transfer"})
  PROVE  PartsAt(n)'
  BY DEF PartsAt, Neat

LEMMA SameSafe ==
  ASSUME NEW m \in Nodes, Same(m), PartsAt(m), DrainedAt(m), mishap \subseteq mishap'
  PROVE  PartsAt(m)' /\ DrainedAt(m)'
<1>1. PartsAt(m)'
  BY DEF Same, PartsAt, Neat
<1>2. DrainedAt(m)'
  BY DEF Same, DrainedAt
<1> QED
  BY <1>1, <1>2

Safe == Whole /\ Drained /\ Kept
SafeAt(n) == PartsAt(n) /\ DrainedAt(n) /\ WholeJobs /\ WholeLeft /\ WholeShelf /\ Kept

\* A call,
LEMMA CallsSafe ==
  ASSUME Typed, Safe, NEW n \in Nodes, Calls(n), mishap \subseteq mishap'
  PROVE  SafeAt(n)'
<1> USE DEF nodeVars, shared, disk, history
<1>t. Domains
  BY Shapes
<1>m. Neat' => Neat
  BY DEF Neat
<1>s. PartsAt(n) /\ DrainedAt(n) /\ WholeJobs /\ WholeLeft /\ WholeShelf /\ Kept
  BY DEF Safe, Whole, Drained
<1>1. ASSUME NEW u \in Users, Login(n, u) PROVE SafeAt(n)'
  <2>0. /\ main[n] = "off" /\ temp[n] = {} /\ seen[n] = {} /\ UNCHANGED <<job, seen, log, area, hold>>
        /\ main'[n] = (IF lc[u] = {} THEN "tags" ELSE "scan") /\ kind'[n] = "left"
        /\ temp'[n] = lc[u] /\ lc'[u] = {}
        /\ \A m \in Nodes : m # n => temp'[m] = temp[m]
        /\ \A v \in Users : v # u => lc'[v] = lc[v]
    <3>1. main[n] = "off" /\ temp[n] = {} /\ seen[n] = {}
      BY <1>1, <1>s DEF Login, DrainedAt
    <3>2. PutAll({}, lc[u]) = lc[u]
      BY DEF PutAll
    <3>3. temp'[n] = lc[u]
      BY <1>1, <3>1, <3>2, <1>t DEF Login, Domains
    <3> QED
      BY <1>1, <3>1, <3>3, <1>t DEF Login, Domains
  <2>1. PartsAt(n)'
    BY <2>0, <1>s, <1>m DEF PartsAt, WholeLeft
  <2>2. DrainedAt(n)'
    BY <2>0 DEF DrainedAt
  <2>3. WholeLeft'
    BY <2>0, <1>s, <1>m DEF WholeLeft
  <2>4. Kept'
    <3>1. UNCHANGED <<received, refused, elsewhere, area, hold>>
      BY <1>1 DEF Login
    <3>2. \A m \in Nodes : \A f \in temp[m] : Known(f.no)'
      BY <2>0, Found
    <3>3. \A v \in Users : \A f \in lc[v] : Known(f.no)'
      BY <2>0, Found
    <3>4. \A f \in area \cup hold : Known(f.no)'
      BY <2>0, Found
    <3> QED
      BY <1>s, <3>1, <3>2, <3>3, <3>4, KeptIf
  <2> QED
    BY <2>0, <2>1, <2>2, <2>3, <2>4, <1>s, Untouched DEF SafeAt
<1>2. CASE LoadFlagList(n) \/ Logoff(n) \/ ReadNews(n) \/ \E x \in Names : FlagFile(n, x) \/ UnflagFile(n, x)
  <2>1. UNCHANGED <<kind, temp, seen, log, job, lc, area, hold, received, refused, elsewhere>>
    BY <1>2 DEF LoadFlagList, Logoff, ReadNews, FlagFile, UnflagFile
  <2>2. main'[n] = main[n] \/ (main[n] \in {"tags", "menu"} /\ main'[n] \in {"menu", "off"})
    <3>1. CASE LoadFlagList(n)
      BY <3>1, <1>t DEF LoadFlagList, Domains
    <3>2. CASE Logoff(n)
      BY <3>2, <1>t DEF Logoff, Domains
    <3> QED
      BY <1>2, <3>1, <3>2 DEF ReadNews, FlagFile, UnflagFile
  <2>3. DrainedAt(n)'
    BY <2>1, <2>2, <1>s DEF DrainedAt
  <2> QED
    BY <2>1, <2>2, <2>3, <1>s, PartsStay, Untouched DEF SafeAt
<1> QED
  BY <1>1, <1>2 DEF Calls

\* a transfer,
LEMMA StartSafe ==
  ASSUME Typed, Safe, NEW n \in Nodes, NEW k \in {"upload", "download", "both", "sysop"}, NEW wanted \in BOOLEAN,
         Start(n, k, wanted), mishap \subseteq mishap'
  PROVE  SafeAt(n)'
<1> USE DEF nodeVars, shared, disk, history
<1>t. Domains
  BY Shapes
<1>m. Neat' => Neat
  BY DEF Neat
<1>s. PartsAt(n) /\ DrainedAt(n) /\ WholeJobs /\ WholeLeft /\ WholeShelf /\ Kept
  BY DEF Safe, Whole, Drained
<1>0. /\ main[n] = "menu" /\ temp[n] = {} /\ seen[n] = {} /\ main'[n] = "begin" /\ kind'[n] = k
      /\ UNCHANGED <<seen, lc, area, hold, received, refused, elsewhere>>
  BY <1>s, <1>t DEF Start, DrainedAt, Domains
<1>1. \/ temp'[n] = {}
      \/ k = "upload" /\ log'[n] = <<>>
  BY <1>0, <1>t DEF Start, CheckForPartialUploads, Domains
<1>2. PartsAt(n)'
  BY <1>0, <1>1 DEF PartsAt
<1>3. DrainedAt(n)'
  BY <1>0, <1>1 DEF DrainedAt
<1>4. WholeJobs'
  <2>1. Idle("born").pc \notin Busy
    BY NewJob DEF Busy
  <2> QED
    BY <2>1, <1>s, <1>m, <1>t DEF Start, Fork, WholeJobs, Domains
<1>5. Kept'
  <2>1. \A m \in Nodes : m # n => temp'[m] = temp[m]
    BY <1>t DEF Start, CheckForPartialUploads, Domains
  <2>2. \A m \in Nodes : \A f \in temp[m] : Known(f.no)'
    BY <1>0, <2>1, Found
  <2>3. /\ \A f \in area \cup hold : Known(f.no)'
        /\ \A v \in Users : \A f \in lc[v] : Known(f.no)'
    BY <1>0, Found
  <2> QED
    BY <1>0, <1>s, <2>2, <2>3, KeptIf
<1> QED
  BY <1>0, <1>2, <1>3, <1>4, <1>5, <1>s, Untouched DEF SafeAt

LEMMA Longer ==
  ASSUME NEW s \in Seq(Lines), NEW l \in Lines, NEW t, t = Append(s, l)
  PROVE  \A i \in DOMAIN t : t[i] = l \/ (i \in DOMAIN s /\ t[i] = s[i])
  OBVIOUS

\* Nothing that arrives takes a file's place.
LEMMA ArriveSafe ==
  ASSUME Typed, Safe, Sound', mishap \subseteq mishap',
         NEW n \in Nodes, NEW f, NEW lines \in Seq(Lines), Arrive(n, f, lines),
         main[n] = "transfer", kind[n] \in {"upload", "both"}, f.name \notin NamesIn(Complete(n)),
         UNCHANGED <<main, kind, seen, job, lc, area, hold, refused, elsewhere>>,
         received' = received \/ received' = received \cup {f.no}
  PROVE  SafeAt(n)'
<1>t. Domains
  BY Shapes
<1>m. Neat' => Neat
  BY DEF Neat
<1>s. PartsAt(n) /\ DrainedAt(n) /\ WholeJobs /\ WholeLeft /\ WholeShelf /\ Kept
  BY DEF Safe, Whole, Drained
<1>1. /\ temp'[n] = Put(temp[n], f) /\ log'[n] = lines
      /\ \A m \in Nodes : m # n => temp'[m] = temp[m]
  BY <1>t DEF Arrive, Domains
<1>2. PartsAt(n)'
  <2>1. \A g \in temp'[n] : g.no = 0 => ~Contains(lines, <<"up", g.name>>)
    BY <1>1 DEF Arrive, Sound
  <2>2. \A e : ~Contains(lines, e) => \A i \in DOMAIN lines : lines[i] # e
    BY DEF Contains
  <2> QED
    BY <1>1, <2>1, <2>2 DEF PartsAt
<1>3. DrainedAt(n)'
  BY <1>s DEF DrainedAt
<1>4. Kept'
  <2>1. \A g \in temp[n] : g.no # 0 => g \in temp'[n]
    BY <1>1 DEF Put, Complete, NamesIn
  <2>2. \A m \in Nodes : \A g \in temp[m] : g.no # 0 => Known(g.no)'
    BY <1>1, <2>1, Found
  <2>3. /\ \A g \in area \cup hold : Known(g.no)'
        /\ \A v \in Users : \A g \in lc[v] : Known(g.no)'
    BY Found
  <2>4. Known(f.no)'
    BY <1>1, Found DEF Put
  <2> QED
    BY <1>s, <2>2, <2>3, <2>4, KeptIf
<1> QED
  BY <1>2, <1>3, <1>4, <1>s, Untouched DEF SafeAt

LEMMA TransfersSafe ==
  ASSUME Typed, Safe, NEW n \in Nodes, Transfers(n), Sound', mishap \subseteq mishap'
  PROVE  SafeAt(n)'
<1> USE DEF nodeVars, shared, disk, history
<1>t. Domains
  BY Shapes
<1>m. Neat' => Neat
  BY DEF Neat
<1>s. PartsAt(n) /\ DrainedAt(n) /\ WholeJobs /\ WholeLeft /\ WholeShelf /\ Kept
  BY DEF Safe, Whole, Drained
<1>l. log[n] \in Seq(Lines) /\ kind[n] \in {"upload", "download", "both", "left", "sysop"}
  BY DEF Typed, FilesTypeOK, LogTypes, NodeTypes
<1>p. PlacedAt(n)
  BY DEF Typed, Placed
<1>1. CASE Upload(n) \/ Download(n) \/ SysopDownload(n)
  BY <1>1, StartSafe DEF Upload, Download, SysopDownload
<1>2. CASE DropLog(n) \/ Charge(n)
  <2>0. UNCHANGED <<kind, temp, seen, job, lc, area, hold, received, refused, elsewhere>>
    BY <1>2 DEF DropLog, Charge
  <2>1. log'[n] = log[n] \/ log'[n] = <<>>
    BY <1>2, <1>t DEF DropLog, Charge, Domains
  <2>2. \/ main[n] = "begin" /\ main'[n] = "transfer"
        \/ main[n] = "charge" /\ main'[n] = "menu"
    BY <1>2, <1>t DEF DropLog, Charge, Domains
  <2>3. DrainedAt(n)'
    BY <2>0, <2>2, <1>s, <1>l, <1>p DEF DrainedAt, PlacedAt
  <2> QED
    BY <2>0, <2>1, <2>2, <2>3, <1>s, PartsStay, Untouched DEF SafeAt
<1>3. ASSUME NEW x \in Names, RecFile(n, x) PROVE SafeAt(n)'
  <2>0. PICK f : f = [no |-> Cardinality(received) + 1, name |-> x, by |-> Me(n).id]
    OBVIOUS
  <2>1. f.name = x /\ f.no = Cardinality(received) + 1
    BY <2>0
  <2>2. /\ UNCHANGED <<main, kind, seen, job, lc, area, hold, refused, elsewhere>>
        /\ main[n] = "transfer" /\ kind[n] \in {"upload", "both"} /\ x \notin NamesIn(Complete(n))
        /\ received' = received \cup {Cardinality(received) + 1}
    BY <1>3 DEF RecFile
  <2>3. PICK lines \in Seq(Lines) : Arrive(n, f, lines)
    BY <1>3, <2>0, LineLogged DEF RecFile, Typed
  <2> QED
    BY <2>1, <2>2, <2>3, ArriveSafe
<1>4. ASSUME NEW x \in Names, BreakOff(n, x) \/ LeavePart(n, x) PROVE SafeAt(n)'
  <2>1. /\ UNCHANGED <<main, kind, seen, job, lc, area, hold, received, refused, elsewhere>>
        /\ main[n] = "transfer" /\ kind[n] \in {"upload", "both"} /\ x \notin NamesIn(Complete(n))
    BY <1>4 DEF BreakOff, LeavePart
  <2>2. PICK lines \in Seq(Lines) : Arrive(n, Part(n, x), lines)
    BY <1>4, <1>l, LineLogged DEF BreakOff, LeavePart, Typed
  <2>3. Part(n, x).name = x
    BY DEF Part
  <2> QED
    BY <2>1, <2>2, <2>3, ArriveSafe
<1>6. CASE EndTransfer(n)
  <2>0. UNCHANGED <<kind, seen, job, lc, area, hold, received, refused, elsewhere>> /\ main[n] = "transfer" /\ MakePartial(n)
    BY <1>6 DEF EndTransfer
  <2>1. main'[n] = IF kind[n] \in {"upload", "both"} THEN "flood" ELSE "charge"
    BY <1>6, <1>t DEF EndTransfer, Domains
  <2>2. temp'[n] = temp[n] \ CutOff(n) /\ \A m \in Nodes : m # n => temp'[m] = temp[m]
    BY <2>0, <1>t DEF MakePartial, Domains
  <2>3. \A f \in CutOff(n) : f.no = 0
    BY <2>0 DEF MakePartial, Sound
  <2>4. Neat' => \A f \in temp'[n] : f.no # 0
    BY <2>0, <2>2 DEF MakePartial, Neat
  <2>5. PartsAt(n)'
    BY <2>4 DEF PartsAt
  <2>6. DrainedAt(n)'
    BY <2>0, <2>1, <2>2, <1>s, <1>l, <1>p DEF DrainedAt, PlacedAt
  <2>7. Kept'
    <3>1. \A m \in Nodes : \A g \in temp[m] : g.no # 0 => Known(g.no)'
      BY <2>2, <2>3, Found
    <3>2. /\ \A g \in area \cup hold : Known(g.no)'
          /\ \A v \in Users : \A g \in lc[v] : Known(g.no)'
      BY <2>0, Found
    <3> QED
      BY <2>0, <1>s, <3>1, <3>2, KeptIf
  <2> QED
    BY <2>0, <2>5, <2>6, <2>7, <1>s, Untouched DEF SafeAt
<1>5. ASSUME NEW i \in DOMAIN tags[n], SendFile(n, i) PROVE SafeAt(n)'
  <2>0. UNCHANGED <<main, kind, temp, seen, job, lc, area, hold, received, refused, elsewhere>>
    BY <1>5 DEF SendFile
  <2>1. log'[n] = Append(log[n], <<"down", tags[n][i]>>) /\ <<"down", tags[n][i]>> \in Lines
    BY <1>5, <1>t DEF SendFile, Domains, Lines, Typed, FilesTypeOK, TagTypes
  <2>2. PartsAt(n)'
    <3>1. \A j \in DOMAIN log'[n] : log'[n][j] = <<"down", tags[n][i]>> \/ (j \in DOMAIN log[n] /\ log'[n][j] = log[n][j])
      BY <2>1, <1>l, Longer
    <3>2. \A x, y : <<"up", x>> # <<"down", y>>
      OBVIOUS
    <3> QED
      BY <2>0, <3>1, <3>2, <1>s, <1>m DEF PartsAt
  <2>3. DrainedAt(n)'
    BY <2>0, <1>s DEF DrainedAt
  <2> QED
    BY <2>0, <2>2, <2>3, <1>s, Untouched DEF SafeAt
<1> QED
  BY <1>1, <1>2, <1>3, <1>4, <1>5, <1>6 DEF Transfers

\* what the node does after it,
LEMMA AfterSafe ==
  ASSUME Typed, Safe, NEW n \in Nodes, After(n), Sound', mishap \subseteq mishap'
  PROVE  SafeAt(n)'
<1> USE DEF nodeVars, shared, disk, history
<1>t. Domains
  BY Shapes
<1>h. Node(n) \in Workers
  BY HandsOf
<1>m. Neat' => Neat
  BY DEF Neat
<1>s. PartsAt(n) /\ DrainedAt(n) /\ WholeJobs /\ WholeLeft /\ WholeShelf /\ Kept
  BY DEF Safe, Whole, Drained
<1>1. CASE StopChecker(n) \/ TakeRecord(n) \/ CheckerGone(n)
  <2>0. UNCHANGED <<kind, temp, seen, log, job, lc, area, hold, received, refused, elsewhere>>
    BY <1>1 DEF StopChecker, TakeRecord, CheckerGone
  <2>1. main[n] \in {"flood", "stop"} /\ main'[n] \in {"stop", "scan"}
    BY <1>1, <1>t DEF StopChecker, TakeRecord, CheckerGone, Domains
  <2>2. DrainedAt(n)'
    BY <2>0, <2>1, <1>s DEF DrainedAt
  <2> QED
    BY <2>0, <2>1, <2>2, <1>s, PartsStay, Untouched DEF SafeAt
<1>2. CASE ScanTemp(n)
  <2>0. UNCHANGED <<main, kind, temp, log, lc, area, hold, received, refused, elsewhere>> /\ main[n] = "scan" /\ job[Node(n)].pc = "off"
    BY <1>2 DEF ScanTemp
  <2>1. PICK f \in temp[n] :
           /\ seen' = [seen EXCEPT ![n] = @ \cup {f.name}]
           /\ job' = [job EXCEPT ![Node(n)] = [pc |-> "name", file |-> f, held |-> FALSE]]
    BY <1>2 DEF ScanTemp
  <2>2. Neat => f.no # 0
    BY <2>0, <1>s DEF PartsAt
  <2>3. WholeJobs'
    BY <2>1, <2>2, <1>s, <1>m, <1>t, <1>h DEF WholeJobs, Domains
  <2>4. DrainedAt(n)'
    <3>1. \A g \in temp[n] : g.name = f.name => g = f
      BY <2>1 DEF Typed, FilesTypeOK, TempTypes, NoTwin
    <3>2. \A g \in temp[n] : g.name \notin seen[n]
      BY <2>0, <1>s DEF DrainedAt
    <3>3. seen'[n] = seen[n] \cup {f.name} /\ job'[Node(n)].pc = "name" /\ job'[Node(n)].file = f
      BY <2>1, <1>t, <1>h DEF Domains
    <3> QED
      BY <2>0, <3>1, <3>2, <3>3 DEF DrainedAt
  <2> QED
    BY <2>0, <2>3, <2>4, <1>s, PartsStay, Untouched DEF SafeAt
<1>3. CASE ScanDone(n)
  <2>0. /\ UNCHANGED <<kind, temp, log, job, lc, area, hold, received, refused, elsewhere>>
        /\ main[n] = "scan" /\ job[Node(n)].pc = "off" /\ NamesIn(temp[n]) \subseteq seen[n]
        /\ main'[n] \in {"charge", "tags", "menu"} /\ seen'[n] = {}
    BY <1>3, <1>t DEF ScanDone, Domains
  <2>1. temp[n] = {}
    BY <2>0, <1>s DEF DrainedAt, NamesIn
  <2>2. DrainedAt(n)'
    BY <2>0, <2>1 DEF DrainedAt
  <2> QED
    BY <2>0, <2>1, <2>2, <1>s, PartsStay, Untouched DEF SafeAt
<1> QED
  BY <1>1, <1>2, <1>3 DEF After

\* a checker that follows it,
LEMMA FollowingSafe ==
  ASSUME Typed, Safe, NEW n \in Nodes, Following(n), mishap \subseteq mishap'
  PROVE  SafeAt(n)'
<1> USE DEF nodeVars, shared, disk, history
<1>t. Domains
  BY Shapes
<1>h. Node(n) \in Workers /\ Checker(n) \in Workers /\ Node(n) # Checker(n)
  BY HandsOf
<1>m. Neat' => Neat
  BY DEF Neat
<1>s. PartsAt(n) /\ DrainedAt(n) /\ WholeJobs /\ WholeLeft /\ WholeShelf /\ Kept
  BY DEF Safe, Whole, Drained
<1>i. Idle("off").pc \notin Busy /\ Idle("idle").pc \notin Busy
  BY NewJob DEF Busy
<1>0. UNCHANGED <<main, kind, temp, seen, log, lc, area, hold, received, refused, elsewhere>>
  BY DEF Following, InstallHandler, TakeLine, ReportDone
<1>1. WholeJobs' /\ job'[Node(n)] = job[Node(n)]
  <2>1. CASE InstallHandler(n) \/ ReportDone(n)
    BY <2>1, <1>i, <1>s, <1>m, <1>t, <1>h DEF InstallHandler, ReportDone, Exit, WholeJobs, Domains
  <2>2. CASE TakeLine(n)
    <3> DEFINE l == log[n][last[n] + 1]
               f == CHOOSE g \in temp[n] : g.name = l[2]
    <3>1. last[n] + 1 \in DOMAIN log[n] /\ l \in Lines
      <4>1. last[n] \in Nat /\ log[n] \in Seq(Lines)
        BY DEF Typed, FilesTypeOK, NodeTypes, LogTypes
      <4>2. last[n] < Len(log[n])
        BY <2>2 DEF TakeLine
      <4> QED
        BY <4>1, <4>2
    <3>2. l = <<l[1], l[2]>>
      BY <3>1 DEF Lines
    <3> HIDE DEF l
    <3>3. CASE l[1] = "up" /\ l[2] \in NamesIn(temp[n])
      <4>1. \E g \in temp[n] : g.name = l[2]
        BY <3>3 DEF NamesIn
      <4>2. f \in temp[n] /\ f.name = l[2]
        BY <4>1
      <4>3. job' = [job EXCEPT ![Checker(n)] = [pc |-> "name", file |-> f, held |-> FALSE]]
        BY <2>2, <3>3 DEF TakeLine, l
      <4> HIDE DEF f
      <4>4. Neat => f.no # 0
        BY <3>1, <3>2, <3>3, <4>2, <1>s DEF PartsAt, l
      <4> QED
        BY <4>3, <4>4, <1>s, <1>m, <1>t, <1>h DEF WholeJobs, Domains
    <3>4. CASE ~(l[1] = "up" /\ l[2] \in NamesIn(temp[n]))
      <4>1. job' = [job EXCEPT ![Checker(n)] = @]
        BY <2>2, <3>4 DEF TakeLine, l
      <4> QED
        BY <4>1, <1>s, <1>m, <1>t, <1>h DEF WholeJobs, Domains
    <3> QED
      BY <3>3, <3>4
  <2> QED
    BY <2>1, <2>2 DEF Following
<1>2. DrainedAt(n)'
  BY <1>0, <1>1, <1>s DEF DrainedAt
<1> QED
  BY <1>0, <1>1, <1>2, <1>s, PartsStay, Untouched DEF SafeAt

\* a file handled,
LEMMA DrainIf ==
  ASSUME Typed, Safe, NEW w \in Workers, HandleUpload(w),
         w[2] # "node" => temp'[w[1]] \subseteq temp[w[1]],
         w[2] = "node" => \A g \in temp'[w[1]] : g.name \in seen[w[1]] => job'[w].pc # "off" /\ g = job'[w].file
  PROVE  DrainedAt(w[1])'
<1> DEFINE n == w[1]
<1>0. n \in Nodes /\ UNCHANGED <<main, kind, seen>>
  BY HandleEffect DEF rest
<1>1. /\ w[2] = "node" => w = Node(n) /\ main[n] = "scan"
      /\ w[2] # "node" => Running(n) /\ main[n] \in {"transfer", "flood", "stop"}
  BY HandleEffect, Hired
<1>2. DrainedAt(n) /\ PlacedAt(n)
  BY <1>0 DEF Safe, Drained, Typed, Placed
<1> HIDE DEF n
<1>3. CASE w[2] = "node"
  <2>1. \A g \in temp'[n] : g.name \in seen[n] => job'[w].pc # "off" /\ g = job'[w].file
    BY <1>3 DEF n
  <2>2. DrainedAt(n)'
    BY <1>0, <1>1, <1>2, <1>3, <2>1 DEF DrainedAt
  <2> QED
    BY <2>2 DEF n
<1>4. CASE w[2] # "node"
  <2>1. temp'[n] \subseteq temp[n]
    BY <1>4 DEF n
  <2>2. DrainedAt(n)'
    BY <1>0, <1>1, <1>2, <1>4, <2>1 DEF DrainedAt, PlacedAt
  <2> QED
    BY <2>2 DEF n
<1> QED
  BY <1>3, <1>4

\* Whatever handleupload does with a file, it is one of these.
Onward(w) == /\ job'[w].pc \in Busy /\ job'[w].file = job[w].file
             /\ UNCHANGED <<temp, lc, area, hold, refused>>
Left(w) == /\ job'[w].pc \notin Busy /\ w[2] # "node"
           /\ UNCHANGED <<temp, lc, area, hold, refused>>
Out(w, f) == /\ job'[w].pc \notin Busy /\ f = job[w].file
             /\ temp' = [temp EXCEPT ![w[1]] = @ \ {f}]
             /\ \/ UNCHANGED <<lc, area, hold>> /\ refused' = refused \cup {f.no}
                \/ /\ lc' = [lc EXCEPT ![user[w].id] = @ \cup {f}] /\ UNCHANGED <<area, hold, refused>>
                \/ hold' = hold \cup {f} /\ UNCHANGED <<lc, area, refused>>
                \/ area' = area \cup {f} /\ UNCHANGED <<lc, hold, refused>>
Renamed(w, f, g) == /\ f = job[w].file /\ g.no = f.no
                    /\ job'[w].pc \in Busy /\ job'[w].file = g
                    /\ temp' = [temp EXCEPT ![w[1]] = (@ \ {f}) \cup {g}]
                    /\ w[2] = "node" /\ UNCHANGED <<lc, area, hold, refused>>
Outcome(w) == \/ Onward(w) \/ Left(w)
              \/ \E f : Out(w, f)
              \/ \E f, g : Renamed(w, f, g)

LEMMA GivingUp ==
  ASSUME Typed, NEW w \in Workers, job[w].pc \in Busy, GiveUp(w), UNCHANGED <<area, hold, refused>>, Sound'
  PROVE  Outcome(w)
<1>1. job'[w].pc \notin Busy
  BY JobEnds, NewJob DEF GiveUp, Busy
<1>2. CASE w[2] = "checker"
  BY <1>1, <1>2 DEF GiveUp, Outcome, Left
<1>3. CASE w[2] # "checker"
  <2>1. PICK f : f = job[w].file
    OBVIOUS
  <2>2. user[w].id \in Users
    BY Hired
  <2>3. f.name \notin NamesIn(lc[user[w].id])
    <3>1. mishap' = mishap \cup IF job[w].file.name \in NamesIn(lc[user[w].id]) THEN {"two left"} ELSE {}
      BY <1>3 DEF GiveUp
    <3> QED
      BY <2>1, <3>1 DEF Sound
  <2>4. Put(lc[user[w].id], f) = lc[user[w].id] \cup {f}
    BY <2>3 DEF Put, NamesIn
  <2>5. Out(w, f)
    BY <1>1, <1>3, <2>1, <2>2, <2>4, Shapes DEF GiveUp, Unlink, Out, Domains
  <2> QED
    BY <2>5 DEF Outcome
<1> QED
  BY <1>2, <1>3

LEMMA Outcomes ==
  ASSUME Typed, Clear, NEW w \in Workers, HandleUpload(w), Sound'
  PROVE  Outcome(w)
<1>h. job[w].pc \in Busy
  BY HandleEffect
<1>b. Busy = {"name", "dupe", "ask", "list", "move"}
  BY DEF Busy
<1>j. job[w] \in Jobs /\ DOMAIN job = Workers
  BY DEF Typed, FilesTypeOK, JobTypes
<1>1. \A p \in Busy : Step(w, p) => job'[w].pc \in Busy /\ job'[w].file = job[w].file
  BY <1>j DEF Step, Jobs
<1>2. Finished(w) => job'[w].pc \notin Busy
  BY JobEnds, NewJob, <1>b
<1>3. Step(w, "dupe") \/ Step(w, "ask") \/ Step(w, "list") \/ Step(w, "move")
        => (UNCHANGED <<temp, lc, area, hold, refused>> => Outcome(w))
  BY <1>1, <1>b DEF Outcome, Onward
<1>4. Refuse(w) /\ UNCHANGED <<lc, area, hold>> => Outcome(w)
  <2>1. PICK f : f = job[w].file
    OBVIOUS
  <2>2. Refuse(w) /\ UNCHANGED <<lc, area, hold>> => Out(w, f)
    BY <1>2, <2>1 DEF Refuse, Unlink, Out
  <2> QED
    BY <2>2 DEF Outcome
<1>5. GiveUp(w) /\ UNCHANGED <<area, hold, refused>> => Outcome(w)
  BY <1>h, GivingUp
<1>6. CASE CheckFileName(w)
  <2>0. UNCHANGED <<area, hold, refused>>
    BY <1>6 DEF CheckFileName
  <2>1. ASSUME NEW x \in Names, NEW g, g = [job[w].file EXCEPT !.name = x], w[2] = "node",
               temp' = [temp EXCEPT ![w[1]] = Put(@ \ {job[w].file}, g)],
               job' = [job EXCEPT ![w].pc = "dupe", ![w].file = g],
               mishap' = mishap \cup IF x \in NamesIn(temp[w[1]]) THEN {"renamed over"} ELSE {}, UNCHANGED lc
        PROVE  Outcome(w)
    <3>1. PICK f : f = job[w].file
      OBVIOUS
    <3>2. job[w].file \in Copies /\ w[1] \in Nodes
      BY <1>h, Hired
    <3>3. g.name = x /\ g.no = f.no
      BY <2>1, <3>1, <3>2 DEF Copies
    <3>4. x \notin NamesIn(temp[w[1]])
      BY <2>1 DEF Sound
    <3>5. Put(temp[w[1]] \ {f}, g) = (temp[w[1]] \ {f}) \cup {g}
      BY <3>3, <3>4 DEF Put, NamesIn
    <3>6. temp' = [temp EXCEPT ![w[1]] = (@ \ {f}) \cup {g}]
      BY <2>1, <3>1, <3>2, <3>5, Shapes DEF Domains
    <3>7. job'[w].pc \in Busy /\ job'[w].file = g
      BY <2>1, <1>b, <1>j DEF Jobs
    <3>8. w[2] = "node" /\ UNCHANGED <<lc, area, hold, refused>>
      BY <2>0, <2>1
    <3>9. Renamed(w, f, g)
      BY <3>1, <3>3, <3>6, <3>7, <3>8 DEF Renamed
    <3> QED
      BY <3>9 DEF Outcome
  <2> QED
    BY <1>3, <1>5, <1>6, <2>0, <2>1 DEF CheckFileName
<1>7. CASE DupeCheck(w)
  BY <1>3, <1>4, <1>7 DEF DupeCheck
<1>8. CASE Describe(w)
  <2>0. UNCHANGED <<area, hold>>
    BY <1>8 DEF Describe
  <2>1. job' = [job EXCEPT ![w].pc = "list", ![w].held = TRUE] => job'[w].pc \in Busy /\ job'[w].file = job[w].file
    BY <1>b, <1>j DEF Jobs
  <2>2. job' = [job EXCEPT ![w].pc = "list", ![w].held = TRUE] /\ UNCHANGED <<temp, lc, refused>> => Outcome(w)
    BY <2>0, <2>1 DEF Outcome, Onward
  <2> QED
    BY <1>3, <1>4, <1>5, <1>8, <2>0, <2>2 DEF Describe
<1>9. CASE UpdateFileList(w)
  BY <1>3, <1>9 DEF UpdateFileList, Sound
<1>10. CASE NewRename(w)
  <2>0. /\ UNCHANGED <<lc, refused>> /\ job'[w].pc \notin Busy /\ Unlink(w)
        /\ \/ hold' = Put(hold, job[w].file) /\ UNCHANGED area /\ job[w].file.name \notin NamesIn(hold)
           \/ area' = Put(area, job[w].file) /\ UNCHANGED hold /\ ~job[w].held
    <3>1. "disk" \notin mishap' /\ "two held" \notin mishap'
      BY DEF Sound
    <3>2. UNCHANGED <<lc, refused>> /\ Finished(w)
      BY <1>10 DEF NewRename
    <3>3. \/ /\ hold' = Put(hold, job[w].file) /\ UNCHANGED area
             /\ mishap' = mishap \cup IF job[w].file.name \in NamesIn(hold) THEN {"two held"} ELSE {}
          \/ area' = Put(area, job[w].file) /\ UNCHANGED hold /\ ~job[w].held
      BY <1>10, <3>1 DEF NewRename
    <3>4. Unlink(w)
      BY <1>10, <3>1 DEF NewRename
    <3> QED
      BY <1>2, <3>1, <3>2, <3>3, <3>4
  <2>1. PICK f : f = job[w].file
    OBVIOUS
  <2>2. ~job[w].held => f.name \notin NamesIn(area)
    BY <1>10, <2>1 DEF NewRename, At, Clear
  <2>3. /\ f.name \notin NamesIn(hold) => Put(hold, f) = hold \cup {f}
        /\ f.name \notin NamesIn(area) => Put(area, f) = area \cup {f}
    BY DEF Put, NamesIn
  <2>4. Out(w, f)
    BY <2>0, <2>1, <2>2, <2>3 DEF Out, Unlink
  <2> QED
    BY <2>4 DEF Outcome
<1> QED
  BY <1>6, <1>7, <1>8, <1>9, <1>10 DEF HandleUpload

LEMMA HandleSafe ==
  ASSUME Typed, Safe, Clear, NEW w \in Workers, HandleUpload(w), Sound', mishap \subseteq mishap'
  PROVE  SafeAt(w[1])'
<1> DEFINE n == w[1]
<1>0. n \in Nodes /\ job[w].pc \in Busy /\ UNCHANGED <<main, kind, seen, log, elsewhere>> /\ JobMoves(w)
  BY HandleEffect DEF rest
<1>r. UNCHANGED received
  BY DEF HandleUpload, CheckFileName, DupeCheck, Describe, UpdateFileList, NewRename
<1>t. Domains
  BY Shapes
<1>m. Neat' => Neat
  BY DEF Neat
<1>s. PartsAt(n) /\ DrainedAt(n) /\ WholeJobs /\ WholeLeft /\ WholeShelf /\ Kept
  BY <1>0 DEF Safe, Whole, Drained
<1>f. (Neat => job[w].file.no # 0) /\ job[w].file \in Copies /\ user[w].id \in Users /\ (w[2] = "node" => w = Node(n) /\ main[n] = "scan")
  BY <1>0, <1>s, Hired DEF WholeJobs
<1>d. w[2] = "node" => \A g \in temp[n] : g.name \in seen[n] => g = job[w].file
  BY <1>f, <1>s DEF DrainedAt
<1>b. "off" \notin Busy
  BY DEF Busy
<1>n. n = w[1]
  OBVIOUS
<1> HIDE DEF n
<1>1. CASE Onward(w)
  <2>0. UNCHANGED <<temp, lc, area, hold, refused>> /\ job'[w].pc \in Busy /\ job'[w].file = job[w].file
    BY <1>1 DEF Onward
  <2>1. DrainedAt(n)'
    BY <1>0, <1>d, <1>b, <1>n, <2>0, DrainIf
  <2>2. WholeJobs'
    BY <1>0, <1>f, <1>s, <1>m, <2>0 DEF JobMoves, WholeJobs
  <2> QED
    BY <1>0, <1>r, <1>n, <1>s, <2>0, <2>1, <2>2, PartsStay, Untouched DEF SafeAt
<1>2. CASE Left(w)
  <2>0. UNCHANGED <<temp, lc, area, hold, refused>> /\ job'[w].pc \notin Busy /\ w[2] # "node"
    BY <1>2 DEF Left
  <2>1. DrainedAt(n)'
    BY <1>0, <1>n, <2>0, DrainIf
  <2>2. WholeJobs'
    BY <1>0, <1>s, <1>m, <2>0 DEF JobMoves, WholeJobs
  <2> QED
    BY <1>0, <1>r, <1>n, <1>s, <2>0, <2>1, <2>2, PartsStay, Untouched DEF SafeAt
<1>3. ASSUME NEW f, Out(w, f) PROVE SafeAt(n)'
  <2>0. /\ f = job[w].file /\ job'[w].pc \notin Busy /\ temp'[n] = temp[n] \ {f}
        /\ \A m \in Nodes : m # n => temp'[m] = temp[m]
    BY <1>3, <1>0, <1>n, <1>t DEF Out, Domains
  <2>1. DrainedAt(n)'
    BY <1>0, <1>d, <1>n, <2>0, DrainIf
  <2>2. WholeJobs'
    BY <1>0, <1>s, <1>m, <2>0 DEF JobMoves, WholeJobs
  <2>3. PartsAt(n)'
    BY <1>0, <1>s, <2>0, PartsStay
  <2>4. /\ WholeLeft' /\ WholeShelf' /\ Known(f.no)'
        /\ refused \subseteq refused' /\ area \subseteq area' /\ hold \subseteq hold'
        /\ \A u \in Users : lc[u] \subseteq lc'[u]
    <3>1. CASE UNCHANGED <<lc, area, hold>> /\ refused' = refused \cup {f.no}
      <4>1. f.no \in refused' \cup elsewhere'
        BY <3>1
      <4> QED
        BY <1>s, <3>1, <4>1, Found, Untouched
    <3>2. CASE lc' = [lc EXCEPT ![user[w].id] = @ \cup {f}] /\ UNCHANGED <<area, hold, refused>>
      <4>1. /\ f \in lc'[user[w].id] /\ \A u \in Users : lc[u] \subseteq lc'[u] /\ \A g \in lc'[u] : g \in lc[u] \/ g = f
        BY <3>2, <1>f, <1>t DEF Domains
      <4>2. WholeLeft'
        BY <4>1, <1>f, <1>s, <1>m, <2>0 DEF WholeLeft
      <4> QED
        BY <1>f, <1>s, <3>2, <4>1, <4>2, Found, Untouched
    <3>3. CASE hold' = hold \cup {f} /\ UNCHANGED <<lc, area, refused>>
      <4>1. WholeShelf'
        BY <1>f, <1>s, <1>m, <2>0, <3>3 DEF WholeShelf
      <4>2. f \in area' \cup hold'
        BY <3>3
      <4> QED
        BY <1>s, <3>3, <4>1, <4>2, Found, Untouched
    <3>4. CASE area' = area \cup {f} /\ UNCHANGED <<lc, hold, refused>>
      <4>1. WholeShelf'
        BY <1>f, <1>s, <1>m, <2>0, <3>4 DEF WholeShelf
      <4>2. f \in area' \cup hold'
        BY <3>4
      <4> QED
        BY <1>s, <3>4, <4>1, <4>2, Found, Untouched
    <3> QED
      BY <1>3, <3>1, <3>2, <3>3, <3>4 DEF Out
  <2>5. Kept'
    <3>1. \A m \in Nodes : \A g \in temp[m] : Known(g.no)'
      BY <2>0, <2>4, Found
    <3>2. \A g \in area \cup hold : Known(g.no)'
      BY <2>4, Found
    <3>3. \A u \in Users : \A g \in lc[u] : Known(g.no)'
      BY <2>4, Found
    <3>4. refused \cup elsewhere \subseteq refused' \cup elsewhere'
      BY <1>0, <2>4
    <3> QED
      BY <1>r, <1>s, <3>1, <3>2, <3>3, <3>4, KeptIf
  <2> QED
    BY <2>1, <2>2, <2>3, <2>4, <2>5 DEF SafeAt
<1>4. ASSUME NEW f, NEW g, Renamed(w, f, g) PROVE SafeAt(n)'
  <2>0. /\ f = job[w].file /\ g.no = f.no /\ job'[w].pc \in Busy /\ job'[w].file = g /\ w[2] = "node"
        /\ temp'[n] = (temp[n] \ {f}) \cup {g} /\ \A m \in Nodes : m # n => temp'[m] = temp[m]
        /\ UNCHANGED <<lc, area, hold, refused>>
    BY <1>4, <1>0, <1>n, <1>t DEF Renamed, Domains
  <2>1. DrainedAt(n)'
    BY <1>0, <1>d, <1>b, <1>n, <2>0, DrainIf
  <2>2. WholeJobs'
    BY <1>0, <1>f, <1>s, <1>m, <2>0 DEF JobMoves, WholeJobs
  <2>3. PartsAt(n)'
    BY <1>0, <1>f, <1>s, <1>m, <2>0 DEF PartsAt
  <2>4. Kept'
    <3>1. Known(g.no)'
      BY <1>0, <2>0, Found
    <3>2. \A m \in Nodes : \A h \in temp[m] : Known(h.no)'
      BY <2>0, <3>1, Found
    <3>3. /\ \A h \in area \cup hold : Known(h.no)'
          /\ \A u \in Users : \A h \in lc[u] : Known(h.no)'
      BY <2>0, Found
    <3> QED
      BY <1>0, <1>r, <1>s, <2>0, <3>2, <3>3, KeptIf
  <2> QED
    BY <1>s, <2>0, <2>1, <2>2, <2>3, <2>4, Untouched DEF SafeAt
<1>5. Outcome(w)
  BY Outcomes
<1> QED
  BY <1>1, <1>2, <1>3, <1>4, <1>5, <1>n DEF Outcome

\* and a move.
LEMMA MovesSafe ==
  ASSUME Typed, Safe, WriteList \/ (\E f \in area : MoveFile(f)) \/ UNCHANGED vars,
         mishap \subseteq mishap'
  PROVE  Safe'
<1> USE DEF nodeVars, shared, disk, history
<1>m. Neat' => Neat
  BY DEF Neat
<1>s. (\A n \in Nodes : PartsAt(n) /\ DrainedAt(n)) /\ WholeJobs /\ WholeLeft /\ WholeShelf /\ Kept
  BY DEF Safe, Whole, Drained
<1>1. UNCHANGED <<nodeVars, job, user, last, sig, bgdone, lc, received, refused, hold>>
  BY DEF WriteList, MoveFile, vars
<1>2. \A n \in Nodes : PartsAt(n)' /\ DrainedAt(n)'
  BY <1>1, <1>s, IdleSame, SameSafe
<1>3. WholeShelf' /\ Kept'
  <2>1. CASE UNCHANGED <<area, elsewhere>>
    BY <1>1, <1>s, <2>1, Untouched
  <2>2. ASSUME NEW f \in area, MoveFile(f) PROVE WholeShelf' /\ Kept'
    <3>1. area' = area \ {f} /\ elsewhere' = elsewhere \cup {f.no}
      BY <2>2 DEF MoveFile
    <3>2. WholeShelf'
      BY <1>1, <1>s, <1>m, <3>1 DEF WholeShelf
    <3>3. f.no \in refused' \cup elsewhere'
      BY <3>1
    <3>4. \A g \in area \cup hold : Known(g.no)'
      BY <1>1, <3>1, <3>3, Found
    <3>5. /\ \A m \in Nodes : \A g \in temp[m] : Known(g.no)'
          /\ \A u \in Users : \A g \in lc[u] : Known(g.no)'
      BY <1>1, Found
    <3>6. refused \cup elsewhere \subseteq refused' \cup elsewhere'
      BY <1>1, <3>1
    <3> QED
      BY <1>1, <1>s, <3>2, <3>4, <3>5, <3>6, KeptIf
  <2> QED
    BY <2>1, <2>2 DEF WriteList, vars
<1> QED
  BY <1>1, <1>2, <1>3, <1>s, Untouched DEF Safe, Whole, Drained

LEMMA LossKept == Typed /\ Loss /\ [Next]_vars => Loss'
<1> SUFFICES ASSUME Typed, Loss, [Next]_vars PROVE Loss'
  OBVIOUS
<1>1. "race" \notin mishap' => Clear'
  BY ClearKept DEF Loss
<1>m. mishap \subseteq mishap'
  BY MishapGrows
<1>2. ASSUME Sound' PROVE Safe'
  <2>1. Sound /\ "race" \notin mishap
    BY <1>2, <1>m DEF Sound
  <2>2. Safe /\ Clear
    BY <2>1 DEF Loss, Safe
  <2>3. \A m \in Nodes : PartsAt(m) /\ DrainedAt(m)
    BY <2>2 DEF Safe, Whole, Drained
  <2>4. ASSUME NEW n \in Nodes, Acts(n), SafeAt(n)' PROVE Safe'
    <3>1. \A m \in Nodes : PartsAt(m)' /\ DrainedAt(m)'
      BY <1>m, <2>3, <2>4, SameSafe DEF Acts, SafeAt
    <3> QED
      BY <2>4, <3>1 DEF SafeAt, Safe, Whole, Drained
  <2>5. ASSUME NEW n \in Nodes, Calls(n) \/ Transfers(n) \/ After(n) \/ Following(n) PROVE Safe'
    <3>1. Acts(n)
      BY <2>5, Elsewhere DEF Acts
    <3>2. SafeAt(n)'
      BY <1>2, <1>m, <2>2, <2>5, CallsSafe, TransfersSafe, AfterSafe, FollowingSafe
    <3> QED
      BY <2>4, <3>1, <3>2
  <2>6. ASSUME NEW w \in Workers, HandleUpload(w) PROVE Safe'
    <3>1. w[1] \in Nodes /\ Acts(w[1])
      BY <2>6, Hands, HandleElsewhere DEF Acts
    <3>2. SafeAt(w[1])'
      BY <1>2, <1>m, <2>2, <2>6, HandleSafe
    <3> QED
      BY <2>4, <3>1, <3>2
  <2> QED
    BY <1>m, <2>2, <2>5, <2>6, MovesSafe, Steps
<1> QED
  BY <1>1, <1>2 DEF Loss, Safe

LEMMA InitLoss == Init => Loss
<1> SUFFICES ASSUME Init PROVE Loss
  OBVIOUS
<1>1. \A w \in Workers : job[w] = Idle("off")
  BY DEF Init
<1>2. Clear /\ WholeJobs
  BY <1>1, NewJob DEF Clear, WholeJobs, Busy
<1>3. WholeLeft /\ WholeShelf /\ Drained /\ Kept /\ \A n \in Nodes : PartsAt(n)
  BY DEF Init, WholeLeft, WholeShelf, Drained, DrainedAt, Kept, PartsAt, OnShelf
<1> QED
  BY <1>2, <1>3 DEF Loss, Whole

\* No file received is lost, also when transfers break off and parts stay among the files, and
\* no part is taken for a file if none stays (NoFileLost): what a node has in its temporary
\* directory is gone through before the directory is cleaned, a name that has been checked is
\* still free when the file is renamed, what comes in takes the place of a part only, and what
\* is put aside as a part is one.
THEOREM FilesKept == FilesSpec => []NoFileLost
<1>1. Loss => NoFileLost
  <2> SUFFICES ASSUME Loss, Sound
               PROVE  /\ received \subseteq refused \cup elsewhere
                            \cup {f.no : f \in area \cup hold \cup (UNION {temp[n] : n \in Nodes}) \cup (UNION {lc[u] : u \in Users})}
                      /\ Neat => \A f \in area \cup hold : f.no = 0 => f.by = "none"
    BY DEF NoFileLost, Sound, Neat
  <2>1. Whole /\ Kept
    BY DEF Loss
  <2>2. \A no \in received : no \in refused \cup elsewhere \/ Held(no)
    BY <2>1 DEF Kept, Known
  <2> DEFINE temps == UNION {temp[n] : n \in Nodes}
             lefts == UNION {lc[u] : u \in Users}
             dirs == area \cup hold \cup temps \cup lefts
             nos == {f.no : f \in dirs}
  <2>3. ASSUME NEW no, Held(no) PROVE no \in nos
    <3>1. /\ \A f \in area \cup hold : f \in dirs
          /\ \A n \in Nodes : \A f \in temp[n] : f \in dirs
          /\ \A u \in Users : \A f \in lc[u] : f \in dirs
      <4>1. \A m \in Nodes : temp[m] \in {temp[n] : n \in Nodes}
        OBVIOUS
      <4>2. \A v \in Users : lc[v] \in {lc[u] : u \in Users}
        OBVIOUS
      <4>3. \A m \in Nodes : temp[m] \subseteq temps
        BY <4>1, Zenon
      <4>4. \A v \in Users : lc[v] \subseteq lefts
        BY <4>2, Zenon
      <4> HIDE DEF temps, lefts
      <4> QED
        BY <4>3, <4>4
    <3> HIDE DEF dirs
    <3>2. \E f \in dirs : f.no = no
      BY <2>3, <3>1 DEF Held
    <3> QED
      BY <3>2
  <2>4. received \subseteq refused \cup elsewhere \cup nos
    <3> HIDE DEF nos
    <3> QED
      BY <2>2, <2>3
  <2>5. Neat => \A f \in area \cup hold : f.no = 0 => f.by = "none"
    BY <2>1 DEF Whole, WholeShelf
  <2> QED
    BY <2>4, <2>5, Zenon
<1> QED
  BY InitTyped, TypedKept, InitLoss, LossKept, <1>1, PTL DEF FilesSpec

-----------------------------------------------------------------------------
(* The list of an area.                                                    *)

Quiet == mishap \cap {"disk", "race", "list"} = {}

\* A node that does something else leaves the list alone.
LEMMA ListAside ==
  ASSUME Aside, UNCHANGED <<area, listing, mover>>, InStep
  PROVE  InStep'
<1>1. \A v \in Workers : Pending(v)' => Pending(v) /\ job'[v] = job[v]
  BY DEF Aside, Pending
<1>2. \A v \in Workers : Pending(v) => Pending(v)' /\ job'[v] = job[v]
  BY DEF Aside, Pending, Busy
<1> QED
  BY <1>1, <1>2 DEF InStep

LEMMA NodesLists ==
  ASSUME Typed, NEW n \in Nodes, Calls(n) \/ Transfers(n) \/ After(n) \/ Following(n), InStep
  PROVE  InStep'
<1>1. UNCHANGED <<area, listing, mover>>
  <2> USE DEF shared
  <2>1. CASE Calls(n)
    BY <2>1, SMTT(60) DEF Calls, Login, LoadFlagList, Logoff, ReadNews, FlagFile, UnflagFile
  <2>2. CASE Transfers(n)
    BY <2>2 DEF Transfers, Upload, Download, SysopDownload, Start, DropLog, EndTransfer, Charge, RecFile, BreakOff, LeavePart, SendFile
  <2>3. CASE After(n)
    BY <2>3 DEF After, StopChecker, TakeRecord, CheckerGone, ScanTemp, ScanDone
  <2>4. CASE Following(n)
    BY <2>4 DEF Following, InstallHandler, TakeLine, ReportDone
  <2> QED
    BY <2>1, <2>2, <2>3, <2>4
<1> QED
  BY <1>1, NodesAside, ListAside

\* A line goes on the list before the file is there, and only while nobody moves another.
LEMMA HandleLists ==
  ASSUME Typed, Clear, NEW w \in Workers, HandleUpload(w), InStep, Quiet'
  PROVE  InStep'
<1>0. JobMoves(w) /\ job[w].pc \in Busy /\ UNCHANGED mover
  BY HandleEffect DEF rest
<1>v. \A v \in Workers : v # w => job'[v] = job[v]
  BY <1>0 DEF JobMoves
<1>j. job[w] \in Jobs /\ DOMAIN job = Workers
  BY DEF Typed, FilesTypeOK, JobTypes
<1>1. \A p \in Busy : Step(w, p) => job'[w].pc = p /\ job'[w].file = job[w].file /\ job'[w].held = job[w].held
  BY <1>j DEF Step, Jobs
<1>2. Finished(w) => job'[w].pc \in {"off", "idle"}
  BY JobEnds, NewJob
<1>3. ASSUME ~Pending(w), ~Pending(w)', UNCHANGED <<area, listing>> PROVE InStep'
  <2>1. \A v \in Workers : Pending(v) <=> Pending(v)'
    BY <1>3, <1>v DEF Pending
  <2>2. \A v \in Workers : Pending(v) => job'[v] = job[v]
    BY <1>3, <1>v
  <2> QED
    BY <1>0, <1>3, <2>1, <2>2 DEF InStep
<1>4. CASE CheckFileName(w)
  <2>1. job[w].pc = "name" /\ UNCHANGED <<area, listing>>
    BY <1>4 DEF CheckFileName, At
  <2>2. \A g : job' = [job EXCEPT ![w].pc = "dupe", ![w].file = g] => job'[w].pc = "dupe"
    BY <1>j DEF Jobs
  <2>3. job'[w].pc # "move"
    BY <1>1, <1>2, <1>4, <2>2 DEF CheckFileName, GiveUp, Busy
  <2> QED
    BY <1>3, <2>1, <2>3 DEF Pending
<1>5. CASE DupeCheck(w)
  <2>1. job[w].pc = "dupe" /\ UNCHANGED <<area, listing>>
    BY <1>5 DEF DupeCheck, At
  <2>2. job'[w].pc # "move"
    BY <1>1, <1>2, <1>5 DEF DupeCheck, Refuse, Busy
  <2> QED
    BY <1>3, <2>1, <2>2 DEF Pending
<1>6. CASE Describe(w)
  <2>1. job[w].pc = "ask" /\ UNCHANGED <<area, listing>>
    BY <1>6 DEF Describe, At
  <2>2. job' = [job EXCEPT ![w].pc = "list", ![w].held = TRUE] => job'[w].pc = "list"
    BY <1>j DEF Jobs
  <2>3. job'[w].pc # "move"
    BY <1>1, <1>2, <1>6, <2>2 DEF Describe, Refuse, GiveUp, Busy
  <2> QED
    BY <1>3, <2>1, <2>3 DEF Pending
<1>7. CASE UpdateFileList(w)
  <2>1. job[w].pc = "list" /\ UNCHANGED area /\ Step(w, "move")
        /\ listing' = (IF job[w].held THEN listing ELSE listing \cup {job[w].file})
        /\ (~job[w].held => mover.file = NoFile)
    BY <1>7 DEF UpdateFileList, At, Listed, Quiet
  <2>2. job'[w].pc = "move" /\ job'[w].file = job[w].file /\ job'[w].held = job[w].held
    BY <1>1, <2>1 DEF Busy
  <2>3. CASE job[w].held
    BY <1>3, <2>1, <2>2, <2>3 DEF Pending
  <2>4. CASE ~job[w].held
    <3>1. \A v \in Workers : Pending(v) => Pending(v)' /\ job'[v] = job[v]
      BY <1>v, <2>1 DEF Pending
    <3>2. \A v \in Workers : Pending(v)' => (Pending(v) /\ job'[v] = job[v]) \/ v = w
      BY <1>v DEF Pending
    <3>3. Pending(w)' /\ job'[w].file = job[w].file
      BY <2>2, <2>4 DEF Pending
    <3>4. listing' = listing \cup {job[w].file} /\ UNCHANGED area /\ mover'.file = NoFile
      BY <1>0, <2>1, <2>4
    <3>5. area' \subseteq listing'
      BY <3>4 DEF InStep
    <3>6. \A v \in Workers : Pending(v)' => job'[v].file \in listing'
      BY <3>2, <3>3, <3>4 DEF InStep
    <3>7. \A f \in listing' : f \in area' \/ f = mover'.file \/ \E v \in Workers : Pending(v)' /\ job'[v].file = f
      <4>1. ASSUME NEW f \in listing'
            PROVE  f \in area' \/ f = mover'.file \/ \E v \in Workers : Pending(v)' /\ job'[v].file = f
        <5>1. CASE f = job[w].file
          BY <3>3, <5>1
        <5>2. CASE f \in listing
          BY <1>0, <3>1, <3>4, <5>2 DEF InStep
        <5> QED
          BY <3>4, <5>1, <5>2
      <4> QED
        BY <4>1
    <3> QED
      BY <3>4, <3>5, <3>6, <3>7 DEF InStep
  <2> QED
    BY <2>3, <2>4
<1>8. CASE NewRename(w)
  <2>1. job[w].pc = "move" /\ Finished(w) /\ UNCHANGED listing
        /\ area' = IF job[w].held THEN area ELSE Put(area, job[w].file)
    BY <1>8 DEF NewRename, At, Quiet
  <2>2. ~Pending(w)'
    BY <1>2, <2>1 DEF Pending
  <2>3. CASE job[w].held
    BY <1>3, <2>1, <2>2, <2>3 DEF Pending
  <2>4. CASE ~job[w].held
    <3>1. area' = area \cup {job[w].file}
      <4>1. job[w].file.name \notin NamesIn(area)
        BY <2>1, <2>4 DEF Clear
      <4> QED
        BY <2>1, <2>4, <4>1 DEF Put, NamesIn
    <3>2. Pending(w) /\ \A v \in Workers : v # w => (Pending(v) <=> Pending(v)') /\ job'[v] = job[v]
      BY <1>v, <2>1, <2>4 DEF Pending
    <3>3. job[w].file \in listing /\ (mover.file # NoFile => job[w].file # mover.file)
      BY <3>2 DEF InStep
    <3>4. area' \subseteq listing'
      BY <2>1, <3>1, <3>3 DEF InStep
    <3>5. \A f \in listing' : f \in area' \/ f = mover'.file \/ \E v \in Workers : Pending(v)' /\ job'[v].file = f
      <4>1. ASSUME NEW f \in listing, NEW v \in Workers, Pending(v), job[v].file = f
            PROVE  f \in area' \/ \E u \in Workers : Pending(u)' /\ job'[u].file = f
        BY <3>1, <3>2, <4>1
      <4>2. \A f \in listing : f \in area' \/ f = mover'.file \/ \E v \in Workers : Pending(v) /\ job[v].file = f
        BY <1>0, <3>1 DEF InStep
      <4> QED
        BY <2>1, <4>1, <4>2
    <3>6. \A v \in Workers : Pending(v)' => job'[v].file \in listing' /\ Pending(v) /\ job'[v] = job[v]
      BY <2>1, <2>2, <3>2 DEF InStep
    <3> QED
      BY <1>0, <2>1, <3>1, <3>3, <3>4, <3>5, <3>6 DEF InStep
  <2> QED
    BY <2>3, <2>4
<1> QED
  BY <1>4, <1>5, <1>6, <1>7, <1>8 DEF HandleUpload

\* A file is moved, and its line goes.
LEMMA MovesLists ==
  ASSUME Typed, Clear, InStep, WriteList \/ (\E f \in area : MoveFile(f)) \/ UNCHANGED vars
  PROVE  InStep'
<1>1. UNCHANGED job
  BY DEF WriteList, MoveFile, vars
<1>2. \A v \in Workers : Pending(v)' <=> Pending(v)
  BY <1>1 DEF Pending
<1>3. CASE UNCHANGED vars
  <2>1. UNCHANGED <<area, listing, mover>>
    BY <1>3 DEF vars, shared
  <2> QED
    BY <1>1, <1>2, <2>1 DEF InStep
<1>4. CASE WriteList
  <2>1. listing' = mover.list \ {mover.file} /\ mover'.file = NoFile /\ mover.file # NoFile /\ UNCHANGED area
    BY <1>4 DEF WriteList
  <2> QED
    BY <1>1, <1>2, <2>1 DEF InStep
<1>5. ASSUME NEW f \in area, MoveFile(f) PROVE InStep'
  <2>1. f \in listing /\ area' = area \ {f} /\ mover' = [file |-> f, list |-> listing] /\ UNCHANGED listing /\ mover.file = NoFile
    BY <1>5 DEF MoveFile
  <2>2. \A v \in Workers : Pending(v) => job[v].file # f
    BY DEF Clear, Pending, NamesIn
  <2>3. NoFile \notin listing
    <3>1. NoFile \notin Copies
      BY FilesAssumption DEF NoFile, Copies
    <3> QED
      BY <3>1 DEF Typed, FilesTypeOK, AreaTypes
  <2> QED
    BY <1>1, <1>2, <2>1, <2>2, <2>3 DEF InStep
<1> QED
  BY <1>3, <1>4, <1>5

LEMMA ListsKept == Typed /\ Loss /\ Lists /\ [Next]_vars => Lists'
<1> SUFFICES ASSUME Typed, Loss, Lists, [Next]_vars, Quiet' PROVE InStep'
  BY DEF Lists, Quiet
<1>1. Quiet /\ "race" \notin mishap
  BY MishapGrows DEF Quiet
<1>2. Clear /\ InStep
  BY <1>1 DEF Loss, Lists, Quiet
<1> QED
  BY <1>2, NodesLists, HandleLists, MovesLists, Steps

\* With nobody at work the list of an area names the files on line (ListMatches): a line is
\* written before its file is renamed, and a sysop's move writes the list it has read.
THEOREM ListsMatch == FilesSpec => []ListMatches
<1>1. Init => Lists
  <2> SUFFICES ASSUME Init PROVE InStep
    BY DEF Lists
  <2>1. \A w \in Workers : ~Pending(w)
    BY NewJob DEF Init, Pending
  <2> QED
    BY <2>1 DEF Init, InStep
<1>2. Typed /\ Lists => ListMatches
  <2> SUFFICES ASSUME Typed, Lists, \A w \in Workers : job[w].pc # "move",
                      mover.file = NoFile, mishap \cap {"disk", "race", "list"} = {}
               PROVE  listing = area
    BY DEF ListMatches
  <2>1. InStep /\ \A w \in Workers : ~Pending(w)
    BY DEF Lists, Pending
  <2>2. NoFile \notin listing
    <3>1. NoFile \notin Copies
      BY FilesAssumption DEF NoFile, Copies
    <3> QED
      BY <3>1 DEF Typed, FilesTypeOK, AreaTypes
  <2> QED
    BY <2>1, <2>2 DEF InStep
<1> QED
  BY InitTyped, TypedKept, InitLoss, LossKept, ListsKept, <1>1, <1>2, PTL DEF FilesSpec

-----------------------------------------------------------------------------
(* Tags and credits.                                                       *)

\* A name more counts one at most.
LEMMA CountedAppend ==
  ASSUME NEW s \in Seq(Names), NEW x \in Names, NEW t, t = Append(s, x)
  PROVE  Counted(t) = Counted(s) + IF x \in Free \/ x \in Range(s) THEN 0 ELSE 1
<1>1. Range(t) = Range(s) \cup {x}
  <2>1. /\ DOMAIN t = 1 .. Len(s) + 1 /\ DOMAIN s = 1 .. Len(s) /\ t[Len(s) + 1] = x
        /\ \A i \in 1 .. Len(s) : t[i] = s[i]
    OBVIOUS
  <2>2. x \in Range(t) /\ \A i \in DOMAIN s : s[i] \in Range(t)
    BY <2>1 DEF Range
  <2>3. \A i \in DOMAIN t : t[i] \in Range(s) \cup {x}
    BY <2>1 DEF Range
  <2> QED
    BY <2>2, <2>3 DEF Range
<1> DEFINE S == Range(s) \ Free
           T == Range(t) \ Free
<1>2. Counted(s) = Cardinality(S) /\ Counted(t) = Cardinality(T)
  BY DEF Counted
<1>3. IsFiniteSet(S) /\ Cardinality(S) \in Nat
  BY RangeFinite, FS_CardinalityType
<1>4. CASE x \in Free
  <2>1. T = S
    BY <1>1, <1>4
  <2> HIDE DEF S, T
  <2> QED
    BY <1>2, <1>3, <1>4, <2>1
<1>5. CASE x \notin Free
  <2>1. T = S \cup {x} /\ (x \in S <=> x \in Range(s))
    BY <1>1, <1>5
  <2> HIDE DEF S, T
  <2>2. Cardinality(S \cup {x}) = IF x \in S THEN Cardinality(S) ELSE Cardinality(S) + 1
    BY <1>3, FS_AddElement
  <2> QED
    BY <1>2, <1>3, <1>5, <2>1, <2>2
<1> QED
  BY <1>4, <1>5

LEMMA CountedNone == Counted(<<>>) = 0
<1>1. Range(<<>>) \ Free = {}
  BY DEF Range
<1> QED
  BY <1>1, FS_EmptySet DEF Counted

LEMMA CountedOne ==
  ASSUME NEW x \in Names
  PROVE  Counted(<<x>>) = IF x \in Free THEN 0 ELSE 1
<1>1. PICK s : s = <<>>
  OBVIOUS
<1>2. PICK t : t = <<x>>
  OBVIOUS
<1>3. s \in Seq(Names) /\ t = Append(s, x)
  BY <1>1, <1>2
<1>4. Range(s) = {} /\ Counted(s) = 0
  BY <1>1, CountedNone DEF Range
<1>5. Counted(t) = Counted(s) + IF x \in Free \/ x \in Range(s) THEN 0 ELSE 1
  BY <1>3, CountedAppend
<1> QED
  BY <1>2, <1>4, <1>5

\* What is paid for and what stays tagged are counted apart.
LEMMA CountedSplit ==
  ASSUME NEW t \in Seq(Names), IsInjective(t), NEW k \in 0 .. Len(t)
  PROVE  Counted(SubSeq(t, 1, k)) + Counted(SubSeq(t, k + 1, Len(t))) = Counted(t)
<1> DEFINE a == SubSeq(t, 1, k)
           b == SubSeq(t, k + 1, Len(t))
<1>1. a \in Seq(Names) /\ Len(a) = k /\ \A i \in 1 .. k : a[i] = t[i]
  OBVIOUS
<1>2. b \in Seq(Names) /\ Len(b) = Len(t) - k /\ \A i \in 1 .. Len(t) - k : b[i] = t[k + i]
  OBVIOUS
<1> HIDE DEF a, b
<1>3. Range(a) = {t[i] : i \in 1 .. k}
  BY <1>1 DEF Range
<1>4. Range(b) = {t[i] : i \in k + 1 .. Len(t)}
  <2>1. ASSUME NEW x \in Range(b) PROVE x \in {t[i] : i \in k + 1 .. Len(t)}
    <3>1. PICK j \in 1 .. Len(t) - k : x = b[j]
      BY <1>2, <2>1 DEF Range
    <3>2. x = t[k + j] /\ k + j \in k + 1 .. Len(t)
      BY <1>2, <3>1
    <3> QED
      BY <3>2
  <2>2. ASSUME NEW i \in k + 1 .. Len(t) PROVE t[i] \in Range(b)
    <3>1. i - k \in 1 .. Len(t) - k /\ b[i - k] = t[i]
      BY <1>2, <2>2
    <3>2. i - k \in DOMAIN b
      BY <1>2, <3>1
    <3> QED
      BY <3>1, <3>2 DEF Range
  <2> QED
    BY <2>1, <2>2
<1>5. Range(t) = {t[i] : i \in 1 .. Len(t)}
  BY DEF Range
<1>6. Range(t) = Range(a) \cup Range(b)
  BY <1>3, <1>4, <1>5
<1>7. Range(a) \cap Range(b) = {}
  BY <1>3, <1>4 DEF IsInjective
<1> DEFINE A == Range(a) \ Free
           B == Range(b) \ Free
<1>8. Counted(a) = Cardinality(A) /\ Counted(b) = Cardinality(B) /\ Counted(t) = Cardinality(A \cup B)
  <2>1. Range(t) \ Free = A \cup B
    BY <1>6
  <2> QED
    BY <2>1 DEF Counted
<1>9. IsFiniteSet(A) /\ IsFiniteSet(B) /\ Cardinality(A) \in Nat /\ Cardinality(B) \in Nat
  BY <1>1, <1>2, RangeFinite, FS_CardinalityType
<1>10. A \cap B = {}
  BY <1>7
<1> HIDE DEF A, B
<1>11. Cardinality(A \cup B) = Cardinality(A) + Cardinality(B) - Cardinality(A \cap B)
  BY <1>9, FS_Union
<1>12. Cardinality(A \cap B) = 0
  BY <1>10, FS_EmptySet
<1>13. Counted(a) + Counted(b) = Counted(t)
  BY <1>8, <1>9, <1>11, <1>12
<1> QED
  BY <1>13 DEF a, b

\* A tag that is added is a new one, and within the ratio.
LEMMA AddTagKeeps ==
  ASSUME NEW r, r \in Records, NEW t \in Seq(Names), IsInjective(t), NEW x \in Names, Ratio \in Nat
  PROVE  /\ IsInjective(AddTag(r, t, x))
         /\ Ratio # 0 /\ r.dl + Counted(t) <= Ratio * r.ul + Bonus =>
               r.dl + Counted(AddTag(r, t, x)) <= Ratio * r.ul + Bonus
<1>1. CASE AddTag(r, t, x) = t
  BY <1>1
<1>2. CASE AddTag(r, t, x) = Append(t, x) /\ ~TooMany(r, t, x) /\ ~IsFileTagged(t, x)
  <2>1. \A i \in 1 .. Len(t) : t[i] # x
    BY <1>2 DEF IsFileTagged, Contains
  <2>2. IsInjective(Append(t, x))
    BY <2>1 DEF IsInjective
  <2>3. Counted(AddTag(r, t, x)) = Counted(t) + IF x \in Free \/ x \in Range(t) THEN 0 ELSE 1
    BY <1>2, CountedAppend
  <2>4. Counted(t) \in Nat /\ r.dl \in Nat /\ Ratio * r.ul \in Nat
    BY CountedType DEF Records
  <2> QED
    BY <1>2, <2>2, <2>3, <2>4 DEF TooMany, Bonus
<1> QED
  BY <1>1, <1>2 DEF AddTag

LEMMA RemovedKeeps ==
  ASSUME NEW t \in Seq(Names), IsInjective(t), NEW i \in DOMAIN t
  PROVE  IsInjective(RemoveAt(t, i)) /\ Counted(RemoveAt(t, i)) <= Counted(t)
<1> DEFINE s == RemoveAt(t, i)
<1>1. s \in Seq(Names) /\ Len(s) = Len(t) - 1 /\ \A j \in 1 .. Len(t) - 1 : s[j] = IF j < i THEN t[j] ELSE t[j + 1]
  BY Removed
<1> HIDE DEF s
<1>2. IsInjective(s)
  <2>1. DOMAIN s = 1 .. Len(t) - 1 /\ DOMAIN t = 1 .. Len(t) /\ i \in 1 .. Len(t) /\ Len(t) \in Nat
    BY <1>1
  <2>2. \A a, b \in 1 .. Len(t) : t[a] = t[b] => a = b
    BY <2>1 DEF IsInjective
  <2>3. ASSUME NEW a \in 1 .. Len(t) - 1, NEW b \in 1 .. Len(t) - 1, s[a] = s[b] PROVE a = b
    <3>1. a \in 1 .. Len(t) /\ a + 1 \in 1 .. Len(t) /\ b \in 1 .. Len(t) /\ b + 1 \in 1 .. Len(t)
      BY <2>1
    <3>2. PICK p \in 1 .. Len(t) : p = (IF a < i THEN a ELSE a + 1) /\ s[a] = t[p]
      BY <1>1, <3>1
    <3>3. PICK q \in 1 .. Len(t) : q = (IF b < i THEN b ELSE b + 1) /\ s[b] = t[q]
      BY <1>1, <3>1
    <3>4. p = q
      BY <2>2, <2>3, <3>2, <3>3
    <3> QED
      BY <2>1, <3>2, <3>3, <3>4
  <2> QED
    BY <2>1, <2>3 DEF IsInjective
<1>3. Range(s) \subseteq Range(t)
  <2>1. \A j \in 1 .. Len(t) - 1 : s[j] \in Range(t)
    BY <1>1 DEF Range
  <2> QED
    BY <1>1, <2>1 DEF Range
<1>4. Counted(s) <= Counted(t)
  BY <1>1, <1>3, CountedMore
<1> QED
  BY <1>2, <1>4 DEF s

LEMMA Rising ==
  ASSUME NEW r \in Nat, NEW a \in Nat, NEW b \in Nat, a <= b
  PROVE  r * a \in Nat /\ r * b \in Nat /\ r * a <= r * b
  OBVIOUS

\* A node nothing happens to that its credits depend on.
Calm(m) ==
  /\ kind'[m] = kind[m] /\ tags'[m] = tags[m] /\ sent'[m] = sent[m] /\ bgdone'[m] = bgdone[m]
  /\ user'[Node(m)] = user[Node(m)] /\ user'[Checker(m)] = user[Checker(m)]
  /\ OnLine(m)' = OnLine(m) /\ Running(m)' = Running(m)
  /\ main'[m] = "begin" => main[m] = "begin"
  /\ job'[Checker(m)].pc = "born" => job[Checker(m)].pc = "born"
  /\ OnLine(m) => owed'[Me(m).id] = owed[Me(m).id] /\ due'[Me(m).id] = due[Me(m).id]

LEMMA CalmCredits ==
  ASSUME NEW m \in Nodes, Calm(m), CreditAt(m), mishap \subseteq mishap'
  PROVE  CreditAt(m)'
<1>1. Passed(m)' = Passed(m)
  BY DEF Calm, Passed
<1>2. TaggedAt(m)'
  BY <1>1 DEF Calm, CreditAt, TaggedAt, OnLine
<1>3. Price(m, sent[m])' = Price(m, sent[m])
  BY DEF Calm, Price
<1>4. Me(m)' = Me(m) /\ Keeper(m)' = Keeper(m)
  BY DEF Calm, Me, Keeper
<1>5. PaidAt(m)'
  BY <1>3, <1>4 DEF Calm, CreditAt, PaidAt
<1>6. EarnedAt(m) => EarnedAt(m)'
  BY <1>4 DEF Calm, EarnedAt
<1>7. WithinAt(m) => WithinAt(m)'
  BY <1>4 DEF Calm, WithinAt
<1>8. (Exact' => Exact) /\ (Limited' => Limited)
  BY DEF Exact, Limited
<1> QED
  BY <1>2, <1>5, <1>6, <1>7, <1>8 DEF CreditAt

\* A node that serves one caller touches nobody else's account.
Serves(n) ==
  /\ OnLine(n) /\ OnLine(n)' /\ Me(n)'.id = Me(n).id /\ UNCHANGED rec
  /\ \A u \in Users : u # Me(n).id => owed'[u] = owed[u] /\ due'[u] = due[u]

LEMMA Numbers ==
  ASSUME Typed, NEW n \in Nodes, OnLine(n)
  PROVE  /\ Me(n) \in Records /\ Me(n).id \in Users /\ Me(n).ul \in Nat /\ Me(n).dl \in Nat
         /\ owed[Me(n).id] \in Nat /\ due[Me(n).id] \in Nat
         /\ tags[n] \in Seq(Names) /\ sent[n] \in Seq(Names) /\ Counted(tags[n]) \in Nat /\ Price(n, sent[n]) \in Nat
<1>1. Me(n) \in Records
  BY DEF Typed, Named, NamedAt
<1>2. Me(n).id \in Users /\ Me(n).ul \in Nat /\ Me(n).dl \in Nat
  BY <1>1 DEF Records
<1>3. owed[Me(n).id] \in Nat /\ due[Me(n).id] \in Nat
  BY <1>2 DEF Typed, FilesTypeOK, RecordTypes
<1>4. tags[n] \in Seq(Names) /\ sent[n] \in Seq(Names)
  BY DEF Typed, FilesTypeOK, TagTypes
<1> QED
  BY <1>1, <1>2, <1>3, <1>4, CountedType, PriceType

\* Steps that touch no account: of a transfer, and of what comes after it.
LEMMA CalmSteps ==
  ASSUME Typed, NEW n \in Nodes,
         \/ DropLog(n) \/ EndTransfer(n) \/ (\E x \in Names : RecFile(n, x) \/ BreakOff(n, x) \/ LeavePart(n, x))
         \/ StopChecker(n) \/ CheckerGone(n) \/ ScanTemp(n) \/ ScanDone(n) \/ TakeLine(n)
  PROVE  Calm(n) /\ Serves(n)
<1> USE DEF nodeVars, shared, disk, history
<1>t. Domains
  BY Shapes
<1>h. Node(n) \in Workers /\ Checker(n) \in Workers /\ Node(n) # Checker(n)
  BY HandsOf
<1>0. UNCHANGED <<kind, tags, sent, user, bgdone, owed, due, rec>>
  BY DEF DropLog, EndTransfer, RecFile, BreakOff, LeavePart, StopChecker, CheckerGone, ScanTemp, ScanDone, TakeLine
<1>1. OnLine(n)
  <2>1. CASE TakeLine(n)
    BY <2>1 DEF TakeLine, Typed, Placed, PlacedAt, Running, OnLine
  <2> QED
    BY <2>1 DEF DropLog, EndTransfer, RecFile, BreakOff, LeavePart, StopChecker, CheckerGone, ScanTemp, ScanDone, OnLine
<1>2. main'[n] # "off" /\ (main'[n] = "begin" => main[n] = "begin")
  <2>1. CASE DropLog(n) \/ EndTransfer(n)
    BY <2>1, <1>t DEF DropLog, EndTransfer, Domains
  <2>2. ASSUME NEW x \in Names, RecFile(n, x) \/ BreakOff(n, x) \/ LeavePart(n, x) PROVE main'[n] # "off" /\ (main'[n] = "begin" => main[n] = "begin")
    BY <2>2, <1>t DEF RecFile, BreakOff, LeavePart, Domains
  <2>3. CASE StopChecker(n) \/ CheckerGone(n)
    BY <2>3, <1>t DEF StopChecker, CheckerGone, Domains
  <2>4. CASE ScanDone(n)
    BY <2>4, <1>t DEF ScanDone, Domains
  <2>5. CASE ScanTemp(n) \/ TakeLine(n)
    BY <2>5, <1>1 DEF ScanTemp, TakeLine, OnLine
  <2> QED
    BY <2>1, <2>2, <2>3, <2>4, <2>5
<1>3. Running(n)' = Running(n) /\ (job'[Checker(n)].pc = "born" => job[Checker(n)].pc = "born")
  <2>1. CASE TakeLine(n)
    BY <2>1, <1>t, <1>h DEF TakeLine, Running, Domains
  <2>2. CASE ScanTemp(n)
    BY <2>2, <1>t, <1>h DEF ScanTemp, Running, Domains
  <2>3. CASE UNCHANGED job
    BY <2>3 DEF Running
  <2> QED
    BY <2>1, <2>2, <2>3 DEF DropLog, EndTransfer, RecFile, BreakOff, LeavePart, StopChecker, CheckerGone, ScanDone
<1>4. Calm(n)
  BY <1>0, <1>1, <1>2, <1>3 DEF Calm, OnLine
<1>5. Serves(n)
  BY <1>0, <1>1, <1>2 DEF Serves, OnLine, Me
<1> QED
  BY <1>4, <1>5

\* The tags are changed, with nothing sent.
LEMMA TagsChange ==
  ASSUME Typed, NEW n \in Nodes, CreditAt(n), OnLine(n), OnLine(n)', sent[n] = <<>>,
         UNCHANGED <<kind, sent, user, bgdone, job, owed, due, rec, mishap>>, main'[n] # "begin",
         IsInjective(tags'[n]),
         Ratio # 0 /\ Me(n).dl + Counted(tags[n]) <= Ratio * Me(n).ul + Bonus =>
            Me(n).dl + Counted(tags'[n]) <= Ratio * Me(n).ul + Bonus
  PROVE  CreditAt(n)' /\ Serves(n)
<1>1. Me(n)' = Me(n) /\ Keeper(n)' = Keeper(n) /\ Running(n)' = Running(n)
  BY DEF Me, Keeper, Running
<1>2. TaggedAt(n)'
  <2>1. Range(sent'[n]) = {}
    BY DEF Range
  <2> QED
    BY <2>1 DEF TaggedAt, OnLine
<1>3. Price(n, sent[n])' = Price(n, sent[n])
  BY DEF Price
<1>4. PaidAt(n)'
  BY <1>1, <1>3 DEF CreditAt, PaidAt
<1>5. Exact' => EarnedAt(n)'
  BY <1>1 DEF Exact, CreditAt, EarnedAt
<1>6. Limited' => WithinAt(n)'
  BY <1>1 DEF Limited, CreditAt, WithinAt
<1>7. Serves(n)
  BY <1>1 DEF Serves
<1> QED
  BY <1>2, <1>4, <1>5, <1>6, <1>7 DEF CreditAt

LEMMA TagSteps ==
  ASSUME Typed, NEW n \in Nodes, CreditAt(n),
         LoadFlagList(n) \/ \E x \in Names : FlagFile(n, x) \/ UnflagFile(n, x)
  PROVE  CreditAt(n)' /\ Serves(n)
<1> USE DEF nodeVars, shared, disk, history
<1>t. Domains
  BY Shapes
<1>0. OnLine(n) /\ main[n] \in {"menu", "tags"}
  BY DEF LoadFlagList, FlagFile, UnflagFile, OnLine
<1>1. UNCHANGED <<kind, sent, user, bgdone, job, owed, due, rec, mishap>>
  BY DEF LoadFlagList, FlagFile, UnflagFile
<1>2. main'[n] \in {"menu", "tags"} /\ OnLine(n)'
  <2>1. CASE LoadFlagList(n)
    BY <2>1, <1>t DEF LoadFlagList, OnLine, Domains
  <2> QED
    BY <1>0, <2>1 DEF FlagFile, UnflagFile, OnLine
<1>3. sent[n] = <<>>
  BY <1>0 DEF Typed, Sends, SendsAt
<1>4. /\ Me(n) \in Records /\ Me(n).id \in Users /\ Me(n).dl \in Nat /\ Me(n).ul \in Nat /\ tags[n] \in Seq(Names)
      /\ Counted(tags[n]) \in Nat /\ Ratio \in Nat
  BY <1>0, Numbers, FilesAssumption
<1>5. IsInjective(tags[n])
  BY DEF CreditAt, TaggedAt
<1> DEFINE Fits(t) == /\ IsInjective(t)
                      /\ Ratio # 0 /\ Me(n).dl + Counted(tags[n]) <= Ratio * Me(n).ul + Bonus =>
                           Me(n).dl + Counted(t) <= Ratio * Me(n).ul + Bonus
<1>6. \A x \in Names : Fits(AddTag(Me(n), tags[n], x))
  BY <1>4, <1>5, AddTagKeeps
<1>7. \A i \in DOMAIN tags[n] : Fits(RemoveAt(tags[n], i))
  <2>1. ASSUME NEW i \in DOMAIN tags[n] PROVE Fits(RemoveAt(tags[n], i))
    <3>1. IsInjective(RemoveAt(tags[n], i)) /\ Counted(RemoveAt(tags[n], i)) <= Counted(tags[n])
      BY <1>4, <1>5, RemovedKeeps
    <3>2. Counted(RemoveAt(tags[n], i)) \in Nat /\ Ratio * Me(n).ul \in Nat
      BY <1>4, Removed, CountedType
    <3> QED
      BY <1>4, <3>1, <3>2 DEF Bonus
  <2> QED
    BY <2>1
<1>8. Fits(tags[n])
  BY <1>5
<1> HIDE DEF Fits
<1>9. Fits(tags'[n])
  <2>1. CASE LoadFlagList(n)
    <3>1. CASE tags' = tags
      BY <1>8, <3>1
    <3>2. CASE /\ flagged[Me(n).id] # <<>>
               /\ tags' = [tags EXCEPT ![n] = IF Head(flagged[Me(n).id]) \in NamesIn(area)
                                              THEN AddTag(Me(n), @, Head(flagged[Me(n).id])) ELSE @]
      <4>1. Head(flagged[Me(n).id]) \in Names
        BY <1>4, <3>2 DEF Typed, FilesTypeOK, TagTypes
      <4>2. tags'[n] = tags[n] \/ tags'[n] = AddTag(Me(n), tags[n], Head(flagged[Me(n).id]))
        BY <3>2, <1>t DEF Domains
      <4> QED
        BY <1>6, <1>8, <4>1, <4>2
    <3> QED
      BY <2>1, <3>1, <3>2 DEF LoadFlagList
  <2>2. ASSUME NEW x \in Names, FlagFile(n, x) PROVE Fits(tags'[n])
    <3>1. tags'[n] = AddTag(Me(n), tags[n], x)
      BY <2>2, <1>t DEF FlagFile, Domains
    <3> QED
      BY <1>6, <3>1
  <2>3. ASSUME NEW x \in Names, UnflagFile(n, x) PROVE Fits(tags'[n])
    <3>1. PICK i \in DOMAIN tags[n] : tags' = [tags EXCEPT ![n] = RemoveAt(@, i)]
      BY <2>3 DEF UnflagFile
    <3>2. tags'[n] = RemoveAt(tags[n], i)
      BY <3>1, <1>t DEF Domains
    <3> QED
      BY <1>7, <3>2
  <2> QED
    BY <2>1, <2>2, <2>3
<1>10. IsInjective(tags'[n])
  BY <1>9 DEF Fits
<1>11. Ratio # 0 /\ Me(n).dl + Counted(tags[n]) <= Ratio * Me(n).ul + Bonus =>
            Me(n).dl + Counted(tags'[n]) <= Ratio * Me(n).ul + Bonus
  BY <1>9 DEF Fits
<1> QED
  BY <1>0, <1>1, <1>2, <1>3, <1>10, <1>11, TagsChange

\* A credit comes in.
LEMMA NewsCredits ==
  ASSUME Typed, NEW n \in Nodes, CreditAt(n), ReadNews(n)
  PROVE  CreditAt(n)' /\ Serves(n)
<1> USE DEF nodeVars, shared, disk, history
<1>t. Domains
  BY Shapes
<1>h. Node(n) \in Workers /\ Checker(n) \in Workers /\ Node(n) # Checker(n)
  BY HandsOf
<1>0. /\ OnLine(n) /\ main[n] \in {"menu", "flood"}
      /\ UNCHANGED <<main, kind, tags, sent, job, bgdone, due, rec>>
      /\ mishap' = mishap \cup IF Running(n) THEN {"overwritten"} ELSE {}
  BY DEF ReadNews, OnLine, Running
<1>1. /\ Me(n) \in Records /\ Me(n).id \in Users /\ Me(n).ul \in Nat /\ Me(n).dl \in Nat
      /\ owed[Me(n).id] \in Nat /\ Counted(tags[n]) \in Nat
  BY <1>0, Numbers
<1>2. user'[Checker(n)] = user[Checker(n)] /\ Me(n)' = [Me(n) EXCEPT !.ul = @ + 1]
  BY <1>t, <1>h DEF ReadNews, Me, Domains
<1>3. Me(n)'.id = Me(n).id /\ Me(n)'.ul = Me(n).ul + 1 /\ Me(n)'.dl = Me(n).dl
  BY <1>1, <1>2 DEF Records
<1>4. owed'[Me(n).id] = owed[Me(n).id] + 1 /\ \A u \in Users : u # Me(n).id => owed'[u] = owed[u]
  BY <1>1, <1>t DEF ReadNews, Domains
<1>5. OnLine(n)' /\ Running(n)' = Running(n) /\ bgdone[n] = NoRecord
  BY <1>0 DEF OnLine, Running, Typed, Placed, PlacedAt
<1>6. TaggedAt(n)'
  <2>1. Passed(n)' = Passed(n)
    BY <1>0 DEF Passed
  <2> QED
    BY <1>0, <2>1 DEF CreditAt, TaggedAt
<1>7. PaidAt(n)'
  <2>1. Price(n, sent[n])' = Price(n, sent[n])
    BY <1>0 DEF Price
  <2> QED
    BY <1>0, <1>2, <1>3, <1>5, <2>1 DEF CreditAt, PaidAt
<1>8. ~Running(n) => Keeper(n) = Me(n) /\ Keeper(n)' = Me(n)'
  BY <1>0, <1>5 DEF Keeper
<1>9. Exact' => EarnedAt(n)'
  <2>1. Exact' => Exact /\ ~Running(n)
    BY <1>0 DEF Exact
  <2> QED
    BY <1>0, <1>3, <1>4, <1>5, <1>8, <2>1 DEF CreditAt, EarnedAt
<1>10. Limited' => WithinAt(n)'
  <2>1. Limited' => Limited /\ ~Running(n)
    BY <1>0 DEF Limited
  <2>2. /\ Ratio * Me(n).ul \in Nat /\ Ratio * Me(n)'.ul \in Nat /\ Ratio * Me(n).ul <= Ratio * Me(n)'.ul
        /\ Me(n)'.ul \in Nat
    BY <1>1, <1>3, Rising, FilesAssumption
  <2>3. Limited' => Me(n).dl + Counted(tags[n]) <= Ratio * Me(n).ul + Bonus
    BY <1>0, <2>1 DEF CreditAt, WithinAt
  <2>4. Limited' => Me(n)'.dl + Counted(tags[n])' <= Ratio * Me(n)'.ul + Bonus
    <3>1. Counted(tags[n])' = Counted(tags[n])
      BY <1>0 DEF Counted
    <3> QED
      BY <1>1, <1>3, <2>2, <2>3, <3>1 DEF Bonus
  <2> QED
    BY <1>8, <2>1, <2>2, <2>4 DEF WithinAt
<1>11. Serves(n)
  BY <1>0, <1>3, <1>4, <1>5 DEF Serves
<1> QED
  BY <1>6, <1>7, <1>9, <1>10, <1>11 DEF CreditAt

\* A transfer begins: the checker takes a copy of the record with it.
LEMMA StartCredits ==
  ASSUME Typed, NEW n \in Nodes, CreditAt(n), NEW k, NEW wanted \in BOOLEAN, Start(n, k, wanted)
  PROVE  CreditAt(n)' /\ Serves(n)
<1> USE DEF nodeVars, shared, disk, history
<1>t. Domains
  BY Shapes
<1>h. Node(n) \in Workers /\ Checker(n) \in Workers /\ Node(n) # Checker(n)
  BY HandsOf
<1>0. main[n] = "menu" /\ main'[n] = "begin" /\ ~Running(n) /\ UNCHANGED <<tags, sent, bgdone, owed, due, rec, mishap>>
  BY <1>t DEF Start, Running, Domains
<1>1. bgdone[n] = NoRecord /\ sent[n] = <<>> /\ OnLine(n) /\ OnLine(n)'
  BY <1>0 DEF OnLine, Typed, Placed, PlacedAt, Sends, SendsAt
<1>2. Me(n)' = Me(n) /\ (Running(n)' => user'[Checker(n)] = Me(n))
  BY <1>0, <1>t, <1>h DEF Start, Fork, Me, Running, Domains
<1>3. Keeper(n) = Me(n) /\ Keeper(n)' = Me(n)
  BY <1>0, <1>1, <1>2 DEF Keeper
<1>4. TaggedAt(n)'
  <2>1. Range(sent'[n]) = {}
    BY <1>0, <1>1 DEF Range
  <2> QED
    BY <1>0, <2>1 DEF CreditAt, TaggedAt
<1>5. Price(n, sent[n])' = Price(n, sent[n])
  BY <1>0, <1>1, CountedNone DEF Price
<1>6. PaidAt(n)'
  BY <1>0, <1>1, <1>2, <1>5 DEF CreditAt, PaidAt
<1>7. Exact' => EarnedAt(n)'
  BY <1>0, <1>1, <1>2, <1>3 DEF Exact, CreditAt, EarnedAt
<1>8. Limited' => WithinAt(n)'
  BY <1>0, <1>1, <1>2, <1>3 DEF Limited, CreditAt, WithinAt
<1>9. Serves(n)
  BY <1>0, <1>1, <1>2 DEF Serves
<1> QED
  BY <1>4, <1>6, <1>7, <1>8, <1>9 DEF CreditAt

\* A file is sent: it is due, and among what will be paid for.
LEMMA SendCredits ==
  ASSUME Typed, NEW n \in Nodes, CreditAt(n), NEW i \in DOMAIN tags[n], SendFile(n, i)
  PROVE  CreditAt(n)' /\ Serves(n)
<1> USE DEF nodeVars, shared, disk, history
<1>t. Domains
  BY Shapes
<1>0. main[n] = "transfer" /\ OnLine(n) /\ UNCHANGED <<main, kind, tags, user, job, bgdone, owed, rec, mishap>>
  BY DEF SendFile, OnLine
<1>1. /\ Me(n) \in Records /\ Me(n).id \in Users /\ Me(n).dl \in Nat
      /\ due[Me(n).id] \in Nat /\ tags[n] \in Seq(Names) /\ sent[n] \in Seq(Names) /\ Price(n, sent[n]) \in Nat
  BY <1>0, Numbers
<1>2. PICK x \in Names : x = tags[n][i]
  BY <1>1
<1>3. PICK s : s = Append(sent[n], x)
  OBVIOUS
<1>4. sent'[n] = s /\ s \in Seq(Names) /\ Last(s) = x /\ s # <<>> /\ Range(s) \subseteq Range(sent[n]) \cup {x}
  <2>1. sent'[n] = s
    BY <1>t, <1>2, <1>3 DEF SendFile, Domains
  <2>2. s \in Seq(Names) /\ Len(s) = Len(sent[n]) + 1 /\ s[Len(s)] = x
    BY <1>1, <1>3
  <2>3. \A j \in DOMAIN s : s[j] \in Range(sent[n]) \cup {x}
    BY <1>1, <1>3 DEF Range
  <2> QED
    BY <2>1, <2>2, <2>3 DEF Last, Range
<1>5. \A j \in i .. Len(tags[n]) : tags[n][j] \notin Range(sent[n])
  <2>1. \A j \in i .. Len(tags[n]) : ~Contains(sent[n], tags[n][j])
    BY DEF SendFile
  <2>2. DOMAIN sent[n] = 1 .. Len(sent[n])
    BY <1>1
  <2>3. ASSUME NEW j \in i .. Len(tags[n]), tags[n][j] \in Range(sent[n]) PROVE FALSE
    <3>1. PICK k \in 1 .. Len(sent[n]) : sent[n][k] = tags[n][j]
      BY <2>2, <2>3 DEF Range
    <3>2. ~ \E m \in 1 .. Len(sent[n]) : sent[n][m] = tags[n][j]
      BY <2>1 DEF Contains
    <3> QED
      BY <3>1, <3>2
  <2> QED
    BY <2>3
<1>6. x \notin Range(sent[n])
  <2>1. i \in i .. Len(tags[n])
    BY <1>1
  <2> QED
    BY <1>2, <1>5, <2>1
<1>7. TaggedAt(n)'
  <2>1. Range(sent[n]) \subseteq Range(tags[n])
    BY DEF Typed, Sends, SendsAt
  <2>2. Range(s) \subseteq Range(Passed(n)')
    <3>1. CASE kind[n] = "both"
      <4>1. Passed(n)' = tags[n]
        BY <1>0, <1>4, <3>1 DEF Passed
      <4>2. x \in Range(tags[n])
        BY <1>2 DEF Range
      <4> QED
        BY <1>4, <2>1, <4>1, <4>2
    <3>2. CASE kind[n] # "both"
      <4> DEFINE k == CHOOSE j \in DOMAIN tags[n] : tags[n][j] = x
      <4>1. k \in DOMAIN tags[n] /\ tags[n][k] = x
        BY <1>2
      <4>2. k = i
        BY <1>2, <4>1 DEF CreditAt, TaggedAt, IsInjective
      <4>3. Passed(n)' = SubSeq(tags[n], 1, k)
        BY <1>0, <1>4, <3>2 DEF Passed
      <4> HIDE DEF k
      <4>4. PICK p : p = SubSeq(tags[n], 1, i)
        OBVIOUS
      <4>5. DOMAIN p = 1 .. i /\ \A j \in 1 .. i : p[j] = tags[n][j]
        BY <1>1, <4>4
      <4>6. \A j \in 1 .. i : tags[n][j] \in Range(p)
        BY <4>5 DEF Range
      <4>7. i \in 1 .. i /\ i \in Nat /\ DOMAIN tags[n] = 1 .. Len(tags[n]) /\ Len(tags[n]) \in Nat
        BY <1>1
      <4>8. x \in Range(p)
        BY <1>2, <4>6, <4>7
      <4>9. Range(sent[n]) \subseteq Range(p)
        <5>1. ASSUME NEW y \in Range(sent[n]) PROVE y \in Range(p)
          <6>1. PICK j \in 1 .. Len(tags[n]) : y = tags[n][j]
            BY <2>1, <4>7, <5>1 DEF Range
          <6>2. j \notin i .. Len(tags[n])
            BY <1>5, <5>1, <6>1
          <6>3. j \in 1 .. i
            BY <4>7, <6>2
          <6> QED
            BY <4>6, <6>1, <6>3
        <5> QED
          BY <5>1
      <4> QED
        BY <1>4, <4>2, <4>3, <4>4, <4>8, <4>9
    <3> QED
      BY <3>1, <3>2
  <2> QED
    BY <1>0, <1>4, <2>2 DEF CreditAt, TaggedAt
<1>8. due'[Me(n).id] = due[Me(n).id] + Price(n, <<x>>) /\ \A u \in Users : u # Me(n).id => due'[u] = due[u]
  BY <1>1, <1>2, <1>t DEF SendFile, Domains
<1>9. Price(n, sent[n])' = Price(n, sent[n]) + Price(n, <<x>>)
  <2>1. Counted(s) = Counted(sent[n]) + IF x \in Free \/ x \in Range(sent[n]) THEN 0 ELSE 1
    BY <1>1, <1>3, CountedAppend
  <2>2. Counted(<<x>>) = IF x \in Free THEN 0 ELSE 1
    BY CountedOne
  <2>3. Counted(sent[n]) \in Nat
    BY <1>1, CountedType
  <2> QED
    BY <1>0, <1>4, <1>6, <2>1, <2>2, <2>3 DEF Price
<1>10. Price(n, <<x>>) \in Nat
  BY CountedOne DEF Price
<1>11. /\ Me(n)' = Me(n) /\ Keeper(n)' = Keeper(n) /\ Running(n)' = Running(n) /\ OnLine(n)'
  BY <1>0 DEF Me, Keeper, Running, OnLine
<1>12. PaidAt(n)'
  <2>1. due[Me(n).id] <= Me(n).dl + Price(n, sent[n])
    BY <1>0 DEF CreditAt, PaidAt
  <2>2. due'[Me(n).id] <= Me(n).dl + Price(n, sent[n])'
    BY <1>1, <1>8, <1>9, <1>10, <2>1
  <2> QED
    BY <1>0, <1>11, <2>2 DEF CreditAt, PaidAt
<1>13. Exact' => EarnedAt(n)'
  BY <1>0, <1>11 DEF Exact, CreditAt, EarnedAt
<1>14. Limited' => WithinAt(n)'
  BY <1>0, <1>11 DEF Limited, CreditAt, WithinAt
<1>15. Serves(n)
  BY <1>0, <1>8, <1>11 DEF Serves
<1> QED
  BY <1>7, <1>12, <1>13, <1>14, <1>15 DEF CreditAt

\* What has been sent is paid for, and no longer tagged.
LEMMA ChargeCredits ==
  ASSUME Typed, NEW n \in Nodes, CreditAt(n), Charge(n)
  PROVE  CreditAt(n)' /\ Serves(n)
<1> USE DEF nodeVars, shared, disk, history
<1>t. Domains
  BY Shapes
<1>h. Node(n) \in Workers /\ Checker(n) \in Workers /\ Node(n) # Checker(n)
  BY HandsOf
<1>0. main[n] = "charge" /\ main'[n] = "menu" /\ UNCHANGED <<kind, job, bgdone, owed, due, rec, mishap>>
  BY <1>t DEF Charge, Domains
<1>1. OnLine(n) /\ OnLine(n)' /\ ~Running(n) /\ ~Running(n)' /\ bgdone[n] = NoRecord
  BY <1>0 DEF OnLine, Running, Typed, Placed, PlacedAt
<1>2. /\ Me(n) \in Records /\ Me(n).id \in Users /\ Me(n).dl \in Nat /\ Me(n).ul \in Nat
      /\ due[Me(n).id] \in Nat /\ tags[n] \in Seq(Names) /\ sent[n] \in Seq(Names) /\ Price(n, sent[n]) \in Nat
  BY <1>1, Numbers
<1>3. PICK p : p = Passed(n)
  OBVIOUS
<1>4. p \in Seq(Names) /\ Len(p) \in 0 .. Len(tags[n]) /\ p = SubSeq(tags[n], 1, Len(p))
  BY <1>2, <1>3, PassedType DEF Typed, Sends, SendsAt
<1>5. PICK t : t = SubSeq(tags[n], Len(p) + 1, Len(tags[n]))
  OBVIOUS
<1>6. tags'[n] = t /\ sent'[n] = <<>> /\ Me(n)' = [Me(n) EXCEPT !.dl = @ + Price(n, p)] /\ user'[Checker(n)] = user[Checker(n)]
  BY <1>3, <1>5, <1>t, <1>h DEF Charge, Me, Domains
<1>7. Price(n, p) \in Nat /\ Me(n)'.dl = Me(n).dl + Price(n, p) /\ Me(n)'.ul = Me(n).ul /\ Me(n)'.id = Me(n).id
  BY <1>2, <1>4, <1>6, PriceType DEF Records
<1>8. IsInjective(t)
  <2>1. t \in Seq(Names) /\ Len(t) = Len(tags[n]) - Len(p) /\ \A j \in 1 .. Len(t) : t[j] = tags[n][Len(p) + j]
    BY <1>2, <1>4, <1>5
  <2>2. DOMAIN t = 1 .. Len(t) /\ DOMAIN tags[n] = 1 .. Len(tags[n]) /\ Len(t) \in Nat /\ Len(tags[n]) \in Nat /\ Len(p) \in Nat
    BY <1>2, <1>4, <2>1
  <2>3. \A a, b \in 1 .. Len(tags[n]) : tags[n][a] = tags[n][b] => a = b
    BY <2>2 DEF CreditAt, TaggedAt, IsInjective
  <2>4. ASSUME NEW a \in 1 .. Len(t), NEW b \in 1 .. Len(t), t[a] = t[b] PROVE a = b
    <3>1. Len(p) + a \in 1 .. Len(tags[n]) /\ Len(p) + b \in 1 .. Len(tags[n])
      BY <2>1, <2>2
    <3>2. tags[n][Len(p) + a] = tags[n][Len(p) + b]
      BY <2>1, <2>4
    <3>3. Len(p) + a = Len(p) + b
      BY <2>3, <3>1, <3>2
    <3> QED
      BY <2>2, <3>3
  <2> QED
    BY <2>2, <2>4 DEF IsInjective
<1>9. TaggedAt(n)'
  <2>1. Range(sent'[n]) = {}
    BY <1>6 DEF Range
  <2> QED
    BY <1>0, <1>6, <1>8, <2>1 DEF TaggedAt
<1>10. PaidAt(n)'
  <2>1. due[Me(n).id] <= Me(n).dl + Price(n, sent[n])
    BY <1>1 DEF CreditAt, PaidAt
  <2>2. Price(n, sent[n]) <= Price(n, p)
    <3>1. Counted(sent[n]) <= Counted(p)
      BY <1>2, <1>3, <1>4, CountedMore DEF CreditAt, TaggedAt
    <3> QED
      BY <3>1 DEF Price
  <2>3. Price(n, sent[n])' = 0
    BY <1>6, CountedNone DEF Price
  <2>4. due[Me(n).id] <= Me(n)'.dl
    BY <1>2, <1>7, <2>1, <2>2
  <2>5. Me(n)'.dl \in Nat
    BY <1>2, <1>7
  <2> QED
    BY <1>0, <1>1, <1>7, <2>3, <2>4, <2>5 DEF PaidAt
<1>11. Keeper(n) = Me(n) /\ Keeper(n)' = Me(n)'
  BY <1>0, <1>1 DEF Keeper
<1>12. Exact' => EarnedAt(n)'
  BY <1>0, <1>1, <1>7, <1>11 DEF Exact, CreditAt, EarnedAt
<1>13. Limited' => WithinAt(n)'
  <2>1. Counted(p) + Counted(t) = Counted(tags[n])
    BY <1>2, <1>4, <1>5, CountedSplit DEF CreditAt, TaggedAt
  <2>2. Counted(p) \in Nat /\ Counted(t) \in Nat /\ Price(n, p) <= Counted(p)
    <3>1. t \in Seq(Names)
      BY <1>2, <1>4, <1>5
    <3> QED
      BY <1>4, <3>1, CountedType DEF Price
  <2>3. Limited' => Me(n).dl + Counted(tags[n]) <= Ratio * Me(n).ul + Bonus
    BY <1>0, <1>1 DEF Limited, CreditAt, WithinAt
  <2>4. Ratio * Me(n).ul \in Nat
    BY <1>2, Rising, FilesAssumption
  <2>5. Limited' => Me(n)'.dl + Counted(t) <= Ratio * Me(n)'.ul + Bonus
    BY <1>2, <1>7, <2>1, <2>2, <2>3, <2>4 DEF Bonus
  <2>6. Me(n)'.ul <= Keeper(n)'.ul
    BY <1>2, <1>7, <1>11
  <2> QED
    BY <1>6, <2>5, <2>6 DEF WithinAt
<1>14. Serves(n)
  BY <1>0, <1>1, <1>7 DEF Serves
<1> QED
  BY <1>9, <1>10, <1>12, <1>13, <1>14 DEF CreditAt

\* The record moves from hand to hand: nothing of it is lost.
LEMMA HandedOn ==
  ASSUME Typed, NEW n \in Nodes, CreditAt(n), OnLine(n), OnLine(n)',
         UNCHANGED <<kind, tags, sent, due, rec>>, mishap \subseteq mishap',
         Me(n)'.id = Me(n).id, Me(n)'.dl = Me(n).dl, Me(n)'.ul \in Nat,
         Running(n)' => user'[Checker(n)].dl = Me(n).dl,
         bgdone'[n] # NoRecord => bgdone'[n].dl = Me(n).dl,
         Limited => Me(n).ul <= Me(n)'.ul /\ Me(n)'.ul <= Keeper(n)'.ul,
         Exact' => EarnedAt(n)',
         \A u \in Users : u # Me(n).id => owed'[u] = owed[u]
  PROVE  CreditAt(n)' /\ Serves(n)
<1>1. TaggedAt(n)'
  <2>1. Passed(n)' = Passed(n)
    BY DEF Passed
  <2> QED
    BY <2>1 DEF CreditAt, TaggedAt, OnLine
<1>2. PaidAt(n)'
  <2>1. Price(n, sent[n])' = Price(n, sent[n])
    BY DEF Price
  <2> QED
    BY <2>1 DEF CreditAt, PaidAt
<1>3. Limited' => WithinAt(n)'
  <2>1. Limited' => Limited
    BY DEF Limited
  <2>2. Limited => Me(n).dl + Counted(tags[n]) <= Ratio * Me(n).ul + Bonus
    BY DEF CreditAt, WithinAt
  <2>3. Counted(tags[n])' = Counted(tags[n])
    BY DEF Counted
  <2>4. /\ Me(n).dl \in Nat /\ Counted(tags[n]) \in Nat /\ Me(n).ul \in Nat
    BY Numbers
  <2>5. Limited => Ratio * Me(n).ul \in Nat /\ Ratio * Me(n)'.ul \in Nat /\ Ratio * Me(n).ul <= Ratio * Me(n)'.ul
    BY <2>4, Rising, FilesAssumption
  <2>6. Limited => Me(n)'.dl + Counted(tags[n])' <= Ratio * Me(n)'.ul + Bonus
    BY <2>2, <2>3, <2>4, <2>5 DEF Bonus
  <2> QED
    BY <2>1, <2>6 DEF WithinAt
<1>4. Serves(n)
  BY DEF Serves
<1> QED
  BY <1>1, <1>2, <1>3, <1>4 DEF CreditAt

\* The node takes the record the checker has left.
LEMMA TakeCredits ==
  ASSUME Typed, NEW n \in Nodes, CreditAt(n), TakeRecord(n)
  PROVE  CreditAt(n)' /\ Serves(n)
<1> USE DEF nodeVars, shared, disk, history
<1>t. Domains
  BY Shapes
<1>h. Node(n) \in Workers /\ Checker(n) \in Workers /\ Node(n) # Checker(n)
  BY HandsOf
<1>0. /\ main[n] = "stop" /\ main'[n] = "scan" /\ bgdone[n] # NoRecord /\ bgdone'[n] = NoRecord
      /\ UNCHANGED <<kind, tags, sent, job, owed, due, rec, mishap>>
  BY <1>t DEF TakeRecord, Domains
<1>1. Me(n)' = bgdone[n]
  BY <1>t, <1>h DEF TakeRecord, Me, Domains
<1>2. OnLine(n) /\ OnLine(n)' /\ ~Running(n) /\ ~Running(n)'
  BY <1>0 DEF OnLine, Running, Typed, Placed, PlacedAt
<1>3. bgdone[n] \in Records /\ bgdone[n].id = Me(n).id
  BY <1>0 DEF Typed, Named, NamedAt
<1>4. Me(n)'.id = Me(n).id /\ Me(n)'.dl = Me(n).dl /\ Me(n)'.ul \in Nat
  BY <1>0, <1>1, <1>3 DEF CreditAt, PaidAt, Records
<1>5. Keeper(n) = Me(n)' /\ Keeper(n)' = Me(n)'
  BY <1>0, <1>1, <1>2 DEF Keeper
<1>6. Limited => Me(n).ul <= Me(n)'.ul /\ Me(n)'.ul <= Keeper(n)'.ul
  BY <1>2, <1>4, <1>5 DEF CreditAt, WithinAt
<1>7. Exact' => EarnedAt(n)'
  BY <1>0, <1>2, <1>4, <1>5 DEF Exact, CreditAt, EarnedAt
<1> QED
  BY <1>0, <1>2, <1>4, <1>6, <1>7, HandedOn

\* The checker begins, or leaves its record.
LEMMA FollowingCredits ==
  ASSUME Typed, NEW n \in Nodes, CreditAt(n), InstallHandler(n) \/ ReportDone(n)
  PROVE  CreditAt(n)' /\ Serves(n)
<1> USE DEF nodeVars, shared, disk, history
<1>t. Domains
  BY Shapes
<1>h. Node(n) \in Workers /\ Checker(n) \in Workers /\ Node(n) # Checker(n)
  BY HandsOf
<1>0. /\ Running(n) /\ UNCHANGED <<main, kind, tags, sent, owed, due, rec, mishap>>
  BY DEF InstallHandler, ReportDone, Running
<1>1. OnLine(n) /\ OnLine(n)' /\ bgdone[n] = NoRecord
  BY <1>0 DEF OnLine, Typed, Placed, PlacedAt
<1>2. user[Checker(n)] \in Records /\ user[Checker(n)].id = Me(n).id /\ user[Checker(n)].dl = Me(n).dl
  BY <1>0 DEF Typed, Named, NamedAt, CreditAt, PaidAt
<1>3. Keeper(n) = user[Checker(n)] /\ (Limited => Me(n).ul <= Keeper(n).ul)
  BY <1>0, <1>1 DEF Keeper, CreditAt, WithinAt
<1>4. Me(n).ul \in Nat
  BY <1>1, Numbers
<1>5. CASE InstallHandler(n) /\ sig[n]
  <2>1. Exit(n) /\ job[Checker(n)].pc = "born" /\ bgdone'[n] = NoRecord
    BY <1>1, <1>5 DEF InstallHandler
  <2>2. Me(n)' = Me(n) /\ ~Running(n)'
    BY <2>1, ExitDoes DEF Me
  <2>3. Keeper(n)' = Me(n)
    BY <2>1, <2>2 DEF Keeper
  <2>4. Exact => user[Checker(n)].ul = Me(n).ul /\ Keeper(n).ul = owed[Me(n).id]
    BY <1>0, <1>1, <2>1 DEF CreditAt, EarnedAt
  <2>5. Exact' => EarnedAt(n)'
    BY <1>0, <1>3, <2>2, <2>3, <2>4 DEF Exact, EarnedAt
  <2>6. Limited => Me(n).ul <= Me(n)'.ul /\ Me(n)'.ul <= Keeper(n)'.ul
    BY <1>4, <2>2, <2>3
  <2> QED
    BY <1>0, <1>1, <1>4, <2>1, <2>2, <2>5, <2>6, HandedOn
<1>6. CASE InstallHandler(n) /\ ~sig[n]
  <2>1. UNCHANGED <<user, bgdone>> /\ job[Checker(n)].pc = "born" /\ job'[Checker(n)].pc = "idle"
    BY <1>6, <1>t, <1>h, NewJob DEF InstallHandler, Domains
  <2>2. Me(n)' = Me(n) /\ Running(n)' /\ Keeper(n)' = Keeper(n)
    BY <1>0, <2>1 DEF Me, Running, Keeper
  <2>3. Exact' => EarnedAt(n)'
    <3>1. Exact' = Exact
      BY <1>0 DEF Exact
    <3>2. Exact => Keeper(n).ul = owed[Me(n).id] /\ user[Checker(n)].ul = Me(n).ul
      BY <1>0, <1>1, <2>1 DEF CreditAt, EarnedAt
    <3>3. Exact => Keeper(n)'.ul = owed'[Me(n)'.id] /\ user'[Checker(n)].ul = Me(n)'.ul
      BY <1>0, <2>1, <2>2, <3>2
    <3> QED
      BY <3>1, <3>3 DEF EarnedAt
  <2>4. Limited => Me(n).ul <= Me(n)'.ul /\ Me(n)'.ul <= Keeper(n)'.ul
    BY <1>3, <1>4, <2>2
  <2> QED
    BY <1>0, <1>1, <1>2, <1>4, <2>1, <2>2, <2>3, <2>4, HandedOn
<1>7. CASE ReportDone(n)
  <2>1. Exit(n) /\ bgdone'[n] = user[Checker(n)]
    BY <1>7, <1>t DEF ReportDone, Domains
  <2>2. Me(n)' = Me(n) /\ ~Running(n)'
    BY <2>1, ExitDoes DEF Me
  <2>3. bgdone'[n] # NoRecord
    <3>1. user[Checker(n)].id # "none"
      BY <1>2, FilesAssumption DEF Records
    <3> QED
      BY <2>1, <3>1 DEF NoRecord
  <2>4. Keeper(n)' = Keeper(n)
    BY <1>3, <2>1, <2>2, <2>3 DEF Keeper
  <2>5. Exact' => EarnedAt(n)'
    BY <1>0, <1>1, <2>2, <2>4 DEF Exact, CreditAt, EarnedAt
  <2>6. Limited => Me(n).ul <= Me(n)'.ul /\ Me(n)'.ul <= Keeper(n)'.ul
    BY <1>3, <1>4, <2>2, <2>4
  <2> QED
    BY <1>0, <1>1, <1>2, <1>4, <2>1, <2>2, <2>5, <2>6, HandedOn
<1> QED
  BY <1>5, <1>6, <1>7

\* A file is credited when it is put on line, and to its uploader.
LEMMA HandleAccounts ==
  ASSUME Typed, NEW w \in Workers, HandleUpload(w)
  PROVE  /\ UNCHANGED due
         /\ \/ UNCHANGED <<user, owed>>
            \/ /\ user' = [user EXCEPT ![w].ul = @ + 1]
               /\ owed' = [owed EXCEPT ![user[w].id] = @ + 1] \/ (UNCHANGED owed /\ "disk" \in mishap')
<1>1. CASE NewRename(w)
  <2>1. user' = user \/ user' = [user EXCEPT ![w].ul = @ + 1]
    BY <1>1 DEF NewRename, AddUlBytes
  <2>2. job[w].held => UNCHANGED <<user, owed>>
    BY <1>1 DEF NewRename, AddUlBytes
  <2>3. ~job[w].held => user' = [user EXCEPT ![w].ul = @ + 1]
    BY <1>1 DEF NewRename, AddUlBytes
  <2>4. ~job[w].held => owed' = [owed EXCEPT ![user[w].id] = @ + 1] \/ (UNCHANGED owed /\ "disk" \in mishap')
    BY <1>1 DEF NewRename
  <2>5. UNCHANGED due
    BY <1>1 DEF NewRename
  <2> QED
    BY <2>2, <2>3, <2>4, <2>5
<1>2. CASE CheckFileName(w) \/ DupeCheck(w) \/ Describe(w) \/ UpdateFileList(w)
  BY <1>2 DEF CheckFileName, DupeCheck, Describe, UpdateFileList
<1> QED
  BY <1>1, <1>2 DEF HandleUpload

LEMMA HandleCredits ==
  ASSUME Typed, NEW w \in Workers, HandleUpload(w), CreditAt(w[1]), mishap \subseteq mishap'
  PROVE  w[1] \in Nodes /\ CreditAt(w[1])' /\ Serves(w[1])
<1>1. PICK n : n = w[1]
  OBVIOUS
<1>2. /\ n \in Nodes /\ job[w].pc \in Busy
      /\ UNCHANGED <<main, kind, tags, sent, bgdone, rec>>
      /\ JobMoves(w)
  BY <1>1, HandleEffect DEF rest
<1>3. /\ OnLine(n) /\ user[w] \in Records /\ user[w].id = Me(n).id
      /\ w[2] = "node" => w = Node(n) /\ main[n] = "scan"
      /\ w[2] # "node" => /\ w = Checker(n) /\ Running(n) /\ main[n] \in {"transfer", "flood", "stop"}
  BY <1>1, <1>2, Hired
<1>h. Node(n) \in Workers /\ Checker(n) \in Workers /\ Node(n) # Checker(n)
  BY <1>2, HandsOf
<1>t. Domains
  BY Shapes
<1>4. CreditAt(n) /\ PlacedAt(n) /\ OnLine(n)' /\ Me(n).id \in Users /\ Me(n).ul \in Nat /\ UNCHANGED due
  <2>1. CreditAt(n) /\ PlacedAt(n)
    BY <1>1, <1>2 DEF Typed, Placed
  <2>2. OnLine(n)' /\ Me(n).id \in Users /\ Me(n).ul \in Nat
    BY <1>2, <1>3, Numbers DEF OnLine
  <2> QED
    BY <2>1, <2>2, HandleAccounts
<1>5. Running(n)' = Running(n) /\ (job'[Checker(n)].pc = "born" => job[Checker(n)].pc = "born")
  <2>1. CASE w[2] = "node"
    BY <1>2, <1>3, <1>h, <2>1 DEF JobMoves, Running
  <2>2. CASE w[2] # "node"
    <3>1. job'[w].pc \in Busy \cup {"idle"}
      BY <1>2, <2>2, NewJob DEF JobMoves
    <3> QED
      BY <1>3, <2>2, <3>1 DEF Running, Busy
  <2> QED
    BY <2>1, <2>2
<1>6. CASE UNCHANGED <<user, owed>>
  <2>1. Calm(n) /\ Serves(n)
    BY <1>2, <1>3, <1>4, <1>5, <1>6 DEF Calm, Serves, OnLine, Me
  <2> QED
    BY <1>1, <1>2, <1>4, <2>1, CalmCredits
<1>7. CASE /\ user' = [user EXCEPT ![w].ul = @ + 1]
           /\ owed' = [owed EXCEPT ![user[w].id] = @ + 1] \/ (UNCHANGED owed /\ "disk" \in mishap')
  <2>1. user'[w].ul = user[w].ul + 1 /\ user'[w].id = user[w].id /\ user'[w].dl = user[w].dl /\ user[w].ul \in Nat
    <3>1. user'[w] = [user[w] EXCEPT !.ul = @ + 1]
      BY <1>7, <1>t DEF Domains
    <3> QED
      BY <1>3, <3>1 DEF Records
  <2>2. \A v \in Workers : v # w => user'[v] = user[v]
    BY <1>7, <1>t DEF Domains
  <2>3. \A u \in Users : u # Me(n).id => owed'[u] = owed[u]
    BY <1>3, <1>7, <1>t DEF Domains
  <2>4. Exact' => owed'[Me(n).id] = owed[Me(n).id] + 1
    BY <1>3, <1>4, <1>7, <1>t DEF Domains, Exact
  <2>5. Exact' => Exact
    BY DEF Exact
  <2>6. CASE w[2] = "node"
    <3>1. w = Node(n) /\ ~Running(n) /\ bgdone[n] = NoRecord /\ user'[Checker(n)] = user[Checker(n)]
      BY <1>3, <1>4, <1>h, <2>2, <2>6 DEF PlacedAt
    <3>2. Me(n)'.id = Me(n).id /\ Me(n)'.dl = Me(n).dl /\ Me(n)'.ul = Me(n).ul + 1 /\ Me(n)'.ul \in Nat
      BY <2>1, <3>1 DEF Me
    <3>3. Keeper(n) = Me(n) /\ Keeper(n)' = Me(n)' /\ ~Running(n)'
      BY <1>2, <1>5, <3>1 DEF Keeper
    <3>4. Exact' => EarnedAt(n)'
      BY <1>3, <1>4, <2>4, <2>5, <3>2, <3>3 DEF CreditAt, EarnedAt
    <3>5. Me(n).ul <= Me(n)'.ul /\ Me(n)'.ul <= Keeper(n)'.ul
      BY <1>4, <3>2, <3>3
    <3>6. bgdone'[n] = NoRecord
      BY <1>2, <3>1
    <3> QED
      BY <1>1, <1>2, <1>3, <1>4, <2>3, <3>2, <3>3, <3>4, <3>5, <3>6, HandedOn
  <2>7. CASE w[2] # "node"
    <3>1. /\ w = Checker(n) /\ Running(n) /\ main[n] \in {"transfer", "flood", "stop"} /\ user'[Node(n)] = user[Node(n)]
          /\ bgdone[n] = NoRecord
      BY <1>3, <1>4, <1>h, <2>2, <2>7 DEF PlacedAt
    <3>2. Me(n)' = Me(n)
      BY <3>1 DEF Me
    <3>3. Keeper(n) = user[Checker(n)] /\ Keeper(n)' = user'[Checker(n)] /\ Keeper(n)'.ul = Keeper(n).ul + 1 /\ Keeper(n).ul \in Nat
      BY <1>5, <2>1, <3>1 DEF Keeper
    <3>4. job'[Checker(n)].pc # "born"
      BY <1>2, <1>5, <3>1 DEF Busy
    <3>5. Exact' => EarnedAt(n)'
      BY <1>2, <1>3, <1>4, <2>4, <2>5, <3>1, <3>2, <3>3, <3>4 DEF CreditAt, EarnedAt
    <3>6. Limited => Me(n).ul <= Me(n)'.ul /\ Me(n)'.ul <= Keeper(n)'.ul
      BY <1>3, <1>4, <3>2, <3>3 DEF CreditAt, WithinAt
    <3>7. user'[Checker(n)].dl = Me(n).dl /\ bgdone'[n] = NoRecord
      BY <1>2, <1>4, <2>1, <3>1 DEF CreditAt, PaidAt
    <3> QED
      BY <1>1, <1>2, <1>3, <1>4, <2>3, <3>2, <3>5, <3>6, <3>7, HandedOn
  <2> QED
    BY <2>6, <2>7
<1> QED
  BY <1>6, <1>7, HandleAccounts

\* A user comes on line with what his record says.
LEMMA LoginCredits ==
  ASSUME Typed, Credits, NEW n \in Nodes, NEW u \in Users, Login(n, u)
  PROVE  CreditAt(n)' /\ \A v \in Users : OffLine(v)' /\ Acts(n) => OffLine(v)
<1> USE DEF nodeVars, shared, disk, history
<1>t. Domains
  BY Shapes
<1>0. /\ main[n] = "off" /\ ~OnLine(n) /\ main'[n] \in {"tags", "scan"} /\ OnLine(n)' /\ OffLine(u)
      /\ UNCHANGED <<tags, sent, job, bgdone, owed, due, rec, mishap>>
  BY <1>t DEF Login, Domains, OnLine, OffLine
<1>1. tags[n] = <<>> /\ sent[n] = <<>> /\ ~Running(n) /\ ~Running(n)' /\ bgdone[n] = NoRecord
  BY <1>0 DEF Credits, CreditAt, TaggedAt, Typed, Placed, PlacedAt, Sends, SendsAt, Running
<1>2. Me(n)' = rec[u] /\ rec[u] \in Records /\ rec[u].id = u
  BY <1>t, HandsOf DEF Login, Me, Domains, Typed, Named, OwnRecord, FilesTypeOK, RecordTypes
<1>3. /\ due[u] <= rec[u].dl /\ (Exact => rec[u].ul = owed[u]) /\ (Limited => rec[u].dl <= Ratio * rec[u].ul + Bonus)
      /\ rec[u].dl \in Nat /\ rec[u].ul \in Nat /\ due[u] \in Nat
  <2>1. Rested(u) /\ (Limited => Enough(rec[u]))
    BY <1>0 DEF Credits
  <2> QED
    BY <1>2, <2>1 DEF Rested, Enough, Records, Typed, FilesTypeOK, RecordTypes
<1>4. TaggedAt(n)'
  <2>1. Range(sent'[n]) = {}
    BY <1>0, <1>1 DEF Range
  <2> QED
    BY <1>0, <1>1, <2>1 DEF Credits, CreditAt, TaggedAt
<1>5. PaidAt(n)'
  <2>1. Price(n, sent[n])' = 0
    BY <1>0, <1>1, CountedNone DEF Price
  <2> QED
    BY <1>0, <1>1, <1>2, <1>3, <2>1 DEF PaidAt
<1>6. Keeper(n)' = Me(n)'
  BY <1>0, <1>1 DEF Keeper
<1>7. Exact' => EarnedAt(n)'
  BY <1>0, <1>1, <1>2, <1>3, <1>6 DEF Exact, EarnedAt
<1>8. Limited' => WithinAt(n)'
  <2>1. Counted(tags[n])' = 0
    BY <1>0, <1>1, CountedNone DEF Counted
  <2>2. Limited => Ratio * rec[u].ul \in Nat
    BY <1>3, Rising, FilesAssumption
  <2> QED
    BY <1>0, <1>2, <1>3, <1>6, <2>1, <2>2 DEF Limited, WithinAt, Bonus
<1>9. ASSUME NEW v \in Users, OffLine(v)', Acts(n) PROVE OffLine(v)
  BY <1>0, <1>9 DEF OffLine, Acts, Same, OnLine, Me
<1> QED
  BY <1>4, <1>5, <1>7, <1>8, <1>9 DEF CreditAt

\* and leaves with it written.
LEMMA LogoffCredits ==
  ASSUME Typed, Credits, NEW n \in Nodes, Logoff(n), Acts(n)
  PROVE  /\ CreditAt(n)'
         /\ \A v \in Users : OffLine(v)' => Rested(v)'
         /\ Limited' => \A v \in Users : Enough(rec'[v])
<1> USE DEF nodeVars, shared, disk, history
<1>t. Domains
  BY Shapes
<1>0. /\ main[n] = "menu" /\ main'[n] = "off" /\ OnLine(n) /\ ~OnLine(n)' /\ tags'[n] = <<>>
      /\ UNCHANGED <<kind, sent, job, bgdone, owed, due, mishap>>
  BY <1>t DEF Logoff, Domains, OnLine
<1>1. sent[n] = <<>> /\ ~Running(n) /\ ~Running(n)' /\ bgdone[n] = NoRecord
  BY <1>0 DEF Typed, Placed, PlacedAt, Sends, SendsAt, Running
<1>2. PICK u \in Users : u = Me(n).id
  BY <1>0, Numbers
<1>3. /\ Me(n).dl \in Nat /\ Me(n).ul \in Nat /\ Counted(tags[n]) \in Nat /\ due[u] \in Nat
  BY <1>0, <1>2, Numbers
<1>4. rec'[u] = Me(n) /\ \A v \in Users : v # u => rec'[v] = rec[v]
  BY <1>2, <1>t DEF Logoff, Domains
<1>5. TaggedAt(n)'
  <2>1. Range(sent'[n]) = {}
    BY <1>0, <1>1 DEF Range
  <2>2. IsInjective(tags'[n])
    BY <1>0 DEF IsInjective
  <2> QED
    BY <1>0, <2>1, <2>2 DEF TaggedAt
<1>6. CreditAt(n)'
  BY <1>0, <1>1, <1>5 DEF CreditAt, PaidAt, EarnedAt, WithinAt
<1>7. CreditAt(n) /\ Keeper(n) = Me(n)
  BY <1>1 DEF Credits, Keeper
<1>8. due[u] <= Me(n).dl
  <2>1. Price(n, sent[n]) = 0
    BY <1>1, CountedNone DEF Price
  <2> QED
    BY <1>0, <1>2, <1>3, <1>7, <2>1 DEF CreditAt, PaidAt
<1>9. Exact => Me(n).ul = owed[u]
  BY <1>0, <1>2, <1>7 DEF CreditAt, EarnedAt
<1>10. Limited => Enough(Me(n))
  <2>1. Limited => Me(n).dl + Counted(tags[n]) <= Ratio * Me(n).ul + Bonus
    BY <1>0, <1>7 DEF CreditAt, WithinAt
  <2>2. Ratio * Me(n).ul \in Nat
    BY <1>3, Rising, FilesAssumption
  <2> QED
    BY <1>3, <2>1, <2>2 DEF Enough, Bonus
<1>11. ASSUME NEW v \in Users, OffLine(v)' PROVE Rested(v)'
  <2>1. CASE v = u
    BY <1>0, <1>4, <1>8, <1>9, <2>1 DEF Rested, Exact
  <2>2. CASE v # u
    <3>1. OffLine(v)
      BY <1>2, <1>11, <2>2 DEF OffLine, Acts, Same, OnLine, Me
    <3> QED
      BY <1>0, <1>4, <2>2, <3>1 DEF Credits, Rested, Exact
  <2> QED
    BY <2>1, <2>2
<1>12. ASSUME Limited', NEW v \in Users PROVE Enough(rec'[v])
  <2>1. Limited
    BY <1>0, <1>12 DEF Limited
  <2>2. CASE v = u
    BY <1>4, <1>10, <2>1, <2>2
  <2>3. CASE v # u
    BY <1>4, <2>1, <2>3 DEF Credits
  <2> QED
    BY <2>2, <2>3
<1> QED
  BY <1>6, <1>11, <1>12

\* The other nodes' callers are others.
LEMMA OthersCredits ==
  ASSUME NEW m \in Nodes, Same(m), CreditAt(m), mishap \subseteq mishap',
         OnLine(m) => owed'[Me(m).id] = owed[Me(m).id] /\ due'[Me(m).id] = due[Me(m).id]
  PROVE  CreditAt(m)'
<1>1. Calm(m)
  BY DEF Same, Calm, OnLine, Running
<1> QED
  BY <1>1, CalmCredits

\* What is served keeps the accounts of all.
LEMMA ServedCredits ==
  ASSUME Typed, Credits, mishap \subseteq mishap', NEW n \in Nodes, Acts(n), CreditAt(n)', Serves(n)
  PROVE  Credits'
<1>1. ASSUME NEW m \in Nodes, m # n PROVE CreditAt(m)'
  <2>1. Same(m)
    BY <1>1 DEF Acts
  <2>2. OnLine(m) => Me(m).id \in Users /\ Me(m).id # Me(n).id
    <3>1. OnLine(m) => Me(m).id \in Users
      BY Numbers
    <3> QED
      BY <1>1, <3>1 DEF Typed, Named, Single, Serves
  <2> QED
    BY <2>1, <2>2, OthersCredits DEF Credits, Serves
<1>2. ASSUME NEW u \in Users, OffLine(u)' PROVE Rested(u)'
  <2>1. u # Me(n).id
    BY <1>2 DEF OffLine, Serves
  <2>2. \A m \in Nodes : m # n => OnLine(m)' = OnLine(m) /\ Me(m)' = Me(m)
    BY DEF Acts, Same, OnLine, Me
  <2>3. OffLine(u)
    BY <1>2, <2>1, <2>2 DEF OffLine
  <2>4. rec'[u] = rec[u] /\ owed'[u] = owed[u] /\ due'[u] = due[u] /\ (Exact' => Exact)
    BY <2>1 DEF Serves, Exact
  <2> QED
    BY <2>3, <2>4 DEF Credits, Rested
<1>3. Limited' => \A u \in Users : Enough(rec[u])'
  BY DEF Credits, Limited, Serves, Enough
<1>4. \A m \in Nodes : CreditAt(m)'
  BY <1>1
<1> QED
  BY <1>2, <1>3, <1>4 DEF Credits

LEMMA IdleCredits ==
  ASSUME Typed, Credits, mishap \subseteq mishap', \A m \in Nodes : Same(m), UNCHANGED <<owed, due, rec>>
  PROVE  Credits'
<1>1. \A m \in Nodes : CreditAt(m)'
  BY OthersCredits DEF Credits
<1>2. \A m \in Nodes : OnLine(m)' = OnLine(m) /\ Me(m)' = Me(m)
  BY DEF Same, OnLine, Me
<1>3. ASSUME NEW u \in Users, OffLine(u)' PROVE Rested(u)'
  <2>1. OffLine(u)
    BY <1>2, <1>3 DEF OffLine
  <2> QED
    BY <2>1 DEF Credits, Rested, Exact
<1>4. Limited' => \A u \in Users : Enough(rec[u])'
  BY DEF Credits, Limited, Enough
<1> QED
  BY <1>1, <1>3, <1>4 DEF Credits

LEMMA NodesCredits ==
  ASSUME Typed, Credits, mishap \subseteq mishap', NEW n \in Nodes,
         Calls(n) \/ Transfers(n) \/ After(n) \/ Following(n)
  PROVE  Credits'
<1>a. Acts(n) /\ CreditAt(n)
  BY Elsewhere DEF Acts, Credits
<1>1. ASSUME NEW u \in Users, Login(n, u) PROVE Credits'
  <2>1. CreditAt(n)' /\ \A v \in Users : OffLine(v)' => OffLine(v)
    BY <1>a, <1>1, LoginCredits
  <2>2. UNCHANGED <<owed, due, rec, mishap>>
    BY <1>1 DEF Login, history
  <2>3. ASSUME NEW m \in Nodes, m # n PROVE CreditAt(m)'
    <3>1. Same(m) /\ CreditAt(m)
      BY <1>a, <2>3 DEF Acts, Credits
    <3> QED
      BY <2>2, <3>1, OthersCredits
  <2>4. \A m \in Nodes : CreditAt(m)'
    BY <2>1, <2>3
  <2>5. \A v \in Users : OffLine(v)' => Rested(v)'
    BY <2>1, <2>2 DEF Credits, Rested, Exact
  <2>6. Limited' => \A v \in Users : Enough(rec[v])'
    BY <2>2 DEF Credits, Limited, Enough
  <2> QED
    BY <2>4, <2>5, <2>6 DEF Credits
<1>2. CASE Logoff(n)
  <2>1. /\ CreditAt(n)' /\ (\A v \in Users : OffLine(v)' => Rested(v)')
        /\ Limited' => \A v \in Users : Enough(rec[v])'
    BY <1>a, <1>2, LogoffCredits DEF Enough
  <2>2. UNCHANGED <<owed, due, mishap>>
    BY <1>2 DEF Logoff, history
  <2>3. ASSUME NEW m \in Nodes, m # n PROVE CreditAt(m)'
    <3>1. Same(m) /\ CreditAt(m)
      BY <1>a, <2>3 DEF Acts, Credits
    <3> QED
      BY <2>2, <3>1, OthersCredits
  <2>4. \A m \in Nodes : CreditAt(m)'
    BY <2>1, <2>3
  <2> QED
    BY <2>1, <2>4 DEF Credits
<1>3. ASSUME CreditAt(n)', Serves(n) PROVE Credits'
  BY <1>a, <1>3, ServedCredits
<1>4. ASSUME Calm(n), Serves(n) PROVE Credits'
  BY <1>a, <1>3, <1>4, CalmCredits
<1>5. CASE Calls(n) /\ ~Logoff(n) /\ ~ \E u \in Users : Login(n, u)
  BY <1>a, <1>3, <1>5, TagSteps, NewsCredits DEF Calls
<1>6. CASE Transfers(n)
  <2>1. ASSUME NEW k, NEW wanted \in BOOLEAN, Start(n, k, wanted) PROVE Credits'
    BY <1>a, <1>3, <2>1, StartCredits
  <2>2. ASSUME NEW i \in DOMAIN tags[n], SendFile(n, i) PROVE Credits'
    BY <1>a, <1>3, <2>2, SendCredits
  <2>3. CASE Charge(n)
    BY <1>a, <1>3, <2>3, ChargeCredits
  <2>4. CASE DropLog(n) \/ EndTransfer(n) \/ \E x \in Names : RecFile(n, x) \/ BreakOff(n, x) \/ LeavePart(n, x)
    BY <1>4, <2>4, CalmSteps
  <2> QED
    BY <1>6, <2>1, <2>2, <2>3, <2>4 DEF Transfers, Upload, Download, SysopDownload
<1>7. CASE After(n)
  BY <1>a, <1>3, <1>4, <1>7, TakeCredits, CalmSteps DEF After
<1>8. CASE Following(n)
  BY <1>a, <1>3, <1>4, <1>8, FollowingCredits, CalmSteps DEF Following
<1> QED
  BY <1>1, <1>2, <1>5, <1>6, <1>7, <1>8

LEMMA CreditsKept == Typed /\ Credits /\ [Next]_vars => Credits'
<1> SUFFICES ASSUME Typed, Credits, [Next]_vars PROVE Credits'
  OBVIOUS
<1>m. mishap \subseteq mishap'
  BY MishapGrows
<1>1. ASSUME NEW n \in Nodes, Calls(n) \/ Transfers(n) \/ After(n) \/ Following(n) PROVE Credits'
  BY <1>m, <1>1, NodesCredits
<1>2. ASSUME NEW w \in Workers, HandleUpload(w) PROVE Credits'
  <2>1. w[1] \in Nodes
    BY Hands
  <2>2. CreditAt(w[1])
    BY <2>1 DEF Credits
  <2>3. CreditAt(w[1])' /\ Serves(w[1])
    BY <1>m, <1>2, <2>2, HandleCredits
  <2>4. Acts(w[1])
    BY <1>2, HandleElsewhere DEF Acts
  <2> QED
    BY <1>m, <2>1, <2>3, <2>4, ServedCredits
<1>3. CASE WriteList \/ (\E f \in area : MoveFile(f)) \/ UNCHANGED vars
  <2>1. UNCHANGED <<nodeVars, job, user, last, sig, bgdone>> /\ UNCHANGED <<owed, due, rec>>
    BY <1>3 DEF WriteList, MoveFile, vars, disk, history
  <2>2. \A m \in Nodes : Same(m)
    BY <2>1, IdleSame
  <2> QED
    BY <1>m, <2>1, <2>2, IdleCredits
<1> QED
  BY <1>1, <1>2, <1>3, Steps

LEMMA InitCredits == Init => Credits
<1> SUFFICES ASSUME Init PROVE Credits
  OBVIOUS
<1>1. ASSUME NEW n \in Nodes PROVE CreditAt(n)
  <2>1. main[n] = "off" /\ tags[n] = <<>> /\ sent[n] = <<>> /\ bgdone[n] = NoRecord /\ ~Running(n)
    BY HandsOf, NewJob DEF Init, Running
  <2>2. Range(sent[n]) = {} /\ IsInjective(tags[n])
    BY <2>1 DEF Range, IsInjective
  <2> QED
    BY <2>1, <2>2 DEF CreditAt, TaggedAt, PaidAt, EarnedAt, WithinAt, OnLine
<1>2. \A u \in Users : rec[u].ul = 0 /\ rec[u].dl = 0 /\ owed[u] = 0 /\ due[u] = 0
  BY DEF Init
<1>3. \A u \in Users : Rested(u)
  BY <1>2 DEF Rested
<1>4. Ratio * 0 = 0
  BY FilesAssumption
<1>5. \A u \in Users : Enough(rec[u])
  BY <1>2, <1>4 DEF Enough, Bonus
<1> QED
  BY <1>1, <1>3, <1>5 DEF Credits

\* A user is credited for what was put on line and charged for what was sent (CreditsExact),
\* also when the checker's copy of his record replaces the node's: the copy is the record that
\* counts from the fork to the end of the wait, and no tag is charged twice or forgotten.
THEOREM CreditsKeptExact == FilesSpec => []CreditsExact
<1>1. Typed /\ Credits => CreditsExact
  <2> SUFFICES ASSUME Typed, Credits PROVE CreditsExact
    OBVIOUS
  <2>1. ASSUME NEW n \in Nodes, main[n] \in {"menu", "begin"}
        PROVE  (Exact => Me(n).ul = owed[Me(n).id]) /\ Me(n).dl >= due[Me(n).id]
    <3>1. OnLine(n) /\ sent[n] = <<>> /\ bgdone[n] = NoRecord /\ (Running(n) => main[n] = "begin")
      BY <2>1 DEF OnLine, Typed, Placed, PlacedAt, Sends, SendsAt
    <3>2. Me(n).dl \in Nat /\ due[Me(n).id] \in Nat
      BY <3>1, Numbers
    <3>3. Price(n, sent[n]) = 0
      BY <3>1, CountedNone DEF Price
    <3>4. due[Me(n).id] <= Me(n).dl
      BY <3>1, <3>2, <3>3 DEF Credits, CreditAt, PaidAt
    <3>5. Exact => Keeper(n).ul = Me(n).ul
      BY <3>1 DEF Credits, CreditAt, EarnedAt, Keeper
    <3>6. Exact => Me(n).ul = owed[Me(n).id]
      BY <3>1, <3>5 DEF Credits, CreditAt, EarnedAt
    <3> QED
      BY <3>2, <3>4, <3>6
  <2>2. ASSUME NEW u \in Users, \A n \in Nodes : main[n] = "off" \/ Me(n).id # u
        PROVE  (Exact => rec[u].ul = owed[u]) /\ rec[u].dl >= due[u]
    <3>1. Rested(u)
      BY <2>2 DEF Credits, OffLine, OnLine
    <3>2. rec[u].dl \in Nat /\ due[u] \in Nat
      BY DEF Typed, FilesTypeOK, RecordTypes, Records
    <3> QED
      BY <3>1, <3>2 DEF Rested
  <2> QED
    BY <2>1, <2>2 DEF CreditsExact, Exact
<1> QED
  BY InitTyped, TypedKept, InitCredits, CreditsKept, <1>1, PTL DEF FilesSpec

\* What a user has had and has tagged stays within his ratio (RatioKept): a tag is refused
\* when it would pass it, a charge counts no more than was tagged, and a record that replaces
\* another has no fewer uploads.
THEOREM RatioAlwaysKept == FilesSpec => []RatioKept
<1>1. Credits => RatioKept
  BY DEF Credits, CreditAt, WithinAt, RatioKept, Limited, OnLine
<1> QED
  BY InitTyped, TypedKept, InitCredits, CreditsKept, <1>1, PTL DEF FilesSpec
=============================================================================
