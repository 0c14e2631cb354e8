----------------------------- MODULE Ftp_proofs -----------------------------
(* Proofs about the FTP server, for any number of servers, users, names,    *)
(* slots and files, with and without more than one login of a user.         *)
EXTENDS Ftp, FiniteSetTheorems, WellFoundedInduction, TLAPS

-----------------------------------------------------------------------------
(* The invariant.  What a server says of itself is Sound; the rest relates  *)
(* it to the slot files, to other servers and to the directories.           *)

Stages == {"free", "cmd", "slot", "accept", "connect", "xfer", "check", "child"}
Jobs == [cmd : {"none", "RETR", "NLST", "STOR"}, name : Names \cup {NoName}, file : Nat]
Records ==
    [pc : Stages, gone : BOOLEAN, mute : BOOLEAN, pw : Users \cup {Nobody}, asked : BOOLEAN, logged : BOOLEAN, tries : Nat,
     slot : 0..MaxSlots, found : 0..MaxSlots, pdata : {"none", "listen", "open"}, data : {"none", "open"},
     from : Names \cup {NoName}, ulconf : BOOLEAN, tmpline : {"none", "STAT", "QUIT"}, job : Jobs,
     left : BOOLEAN]
Moving == {"accept", "connect", "xfer"}

\* A login has a user and, once taken, a slot; nothing is done without one.  A name is kept
\* for RNTO, and a connection open, only where the code uses it.
Sound(r) ==
    /\ r \in Records
    /\ r.logged => r.pw \in Users
    /\ r.pc \notin {"free", "cmd"} => r.logged
    /\ r.logged /\ r.pc # "slot" => r.slot # 0
    /\ r.from # NoName => r.logged /\ r.pc = "cmd"
    /\ r.pc # "xfer" /\ ~r.left => "open" \notin {r.data, r.pdata}
    /\ r.job.cmd = "STOR" => r.job.file # NoFile /\ r.job.name \in Names
    /\ r.pc \in {"check", "child"} => r.job.cmd = "STOR"

Files == [Names -> Nat]
TypeOK ==
    /\ srv \in [Servers -> Records]
    /\ slots \in [Slots -> [pid : Servers \cup {Nobody}, user : Users \cup {Nobody}]]
    /\ ul \in [Users -> Files] /\ temp \in [Users -> Files] /\ shelf \in Files
    /\ dropped \subseteq Nat /\ next \in Nat \ {0} /\ sent \subseteq Nat \ {0} /\ raced \in BOOLEAN
Typed == TypeOK /\ \A p \in Servers : Sound(srv[p])

\* infoname names a slot that is the server's own, whoever it was taken for.
OwnSlot == ~raced => \A p \in Servers : srv[p].slot # 0 => slots[srv[p].slot].pid = p

\* Only a child has files in the temporary directory, its own one; its name is then free in ul.
Alone == ~raced /\ OneLogin
Handled(p, u, x) == srv[p].pc = "child" /\ srv[p].pw = u /\ srv[p].job.name = x
Aside ==
    Alone => \A u \in Users, x \in Names :
                 /\ temp[u][x] # NoFile => \E p \in Servers : Handled(p, u, x)
                 /\ \A p \in Servers : Handled(p, u, x) => ul[u][x] = NoFile

\* The file being received is in ul or, taken by the user's node, on line or done with.
Shelved(id) == id \in dropped \/ \E x \in Names : shelf[x] = id
Arriving(p) == srv[p].pc \in Moving /\ srv[p].job.cmd = "STOR"
Safe(p) == ul[srv[p].pw][srv[p].job.name] = srv[p].job.file \/ Shelved(srv[p].job.file)
AtHand == Alone => \A p \in Servers : Arriving(p) => Safe(p)

Inv == Typed /\ OwnSlot /\ WithinSlots /\ Aside /\ AtHand /\ Kept

-----------------------------------------------------------------------------
(* Types. *)

LEMMA FreshSound == Sound(Fresh)
  BY FtpAssumption DEF Sound, Records, Jobs, Stages, Fresh, NoJob, NoFile, Slots

\* A name forgotten, a client gone, a connection closed and a transfer ended keep a record sound.
LEMMA SoundParts ==
    ASSUME NEW r, Sound(r)
    PROVE  /\ Sound([r EXCEPT !.from = NoName, !.tmpline = "none"])
           /\ r.pc # "free" => \A m \in BOOLEAN : Sound([r EXCEPT !.gone = TRUE, !.mute = m])
           /\ Sound(Closed(r))
           /\ r.pc \notin {"free", "slot"} /\ (r.left \/ "open" \notin {r.data, r.pdata}) =>
                  Sound([r EXCEPT !.pc = "cmd", !.job = NoJob])
  <1>0. r \in Records
    BY DEF Sound
  <1>1. Sound([r EXCEPT !.from = NoName, !.tmpline = "none"])
    <2>1. [r EXCEPT !.from = NoName, !.tmpline = "none"] \in Records
      BY <1>0 DEF Records
    <2> QED
      BY <1>0, <2>1 DEF Sound, Records
  <1>2. ASSUME r.pc # "free", NEW m \in BOOLEAN
        PROVE  Sound([r EXCEPT !.gone = TRUE, !.mute = m])
    <2>1. [r EXCEPT !.gone = TRUE, !.mute = m] \in Records
      BY <1>0 DEF Records
    <2> QED
      BY <1>0, <1>2, <2>1 DEF Sound, Records
  <1>3. Sound(Closed(r))
    <2>1. Closed(r) \in Records
      BY <1>0 DEF Records, Closed
    <2> QED
      BY <1>0, <2>1 DEF Sound, Records, Closed
  <1>4. ASSUME r.pc \notin {"free", "slot"}, r.left \/ "open" \notin {r.data, r.pdata}
        PROVE  Sound([r EXCEPT !.pc = "cmd", !.job = NoJob])
    <2>1. NoJob \in Jobs /\ NoJob.cmd = "none"
      BY DEF NoJob, Jobs, NoFile
    <2>2. [r EXCEPT !.pc = "cmd", !.job = NoJob] \in Records
      BY <1>0, <2>1 DEF Records, Stages
    <2> QED
      BY <1>0, <1>4, <2>1, <2>2 DEF Sound, Records
  <1> QED
    BY <1>1, <1>2, <1>3, <1>4

LEMMA LeastOf ==
    ASSUME NEW S \in SUBSET Nat, S # {}
    PROVE  \E m \in S : \A k \in S : m <= k
<1> DEFINE Below(m) == 0 .. m-1
           T == {Below(m) : m \in S}
<1>1. T \subseteq FiniteSubsetsOf(Nat) /\ T # {}
  <2>1. ASSUME NEW m \in S PROVE IsFiniteSet(Below(m)) /\ Below(m) \subseteq Nat
    BY FS_Interval
  <2> QED BY <2>1 DEF FiniteSubsetsOf
<1>2. IsWellFoundedOn(StrictSubsetOrdering(Nat), FiniteSubsetsOf(Nat))
  BY FS_StrictSubsetOrderingWellFounded
<1>3. PICK x \in T : \A y \in T : ~(<<y, x>> \in StrictSubsetOrdering(Nat))
  <2> HIDE DEF T
  <2> QED BY <1>1, <1>2, WFMin
<1>4. PICK m \in S : x = Below(m)
  OBVIOUS
<1>5. ASSUME NEW k \in S PROVE m <= k
  <2>1. Below(k) \in T OBVIOUS
  <2>2. SUFFICES ASSUME k < m PROVE FALSE OBVIOUS
  <2>0. m \in Nat /\ k \in Nat OBVIOUS
  <2>3. Below(k) \subseteq Below(m) /\ Below(k) # Below(m)
    <3>1. k \in Below(m) /\ k \notin Below(k) BY <2>0, <2>2
    <3>2. Below(k) \subseteq Below(m) BY <2>0, <2>2
    <3> QED BY <3>1, <3>2
  <2>4. <<Below(k), Below(m)>> \in StrictSubsetOrdering(Nat)
    BY <2>3, SMTT(30) DEF StrictSubsetOrdering
  <2> QED BY <2>1, <2>4, <1>3, <1>4
<1> QED BY <1>5

\* The scan of the slots finds one of them, or none.
LEMMA FoundSlot ==
    ASSUME NEW s, NEW u
    PROVE  Found(s, u) = 0 \/ Found(s, u) \in Free(s)
  <1> DEFINE S == {MaxSlots - i : i \in Free(s)}
  <1>0. Free(s) \subseteq Slots /\ MaxSlots \in Nat
    BY FtpAssumption DEF Free
  <1>1. CASE Free(s) # {}
    <2>1. S \in SUBSET Nat /\ S # {}
      BY <1>0, <1>1 DEF Slots
    <2>2. PICK m \in S : \A k \in S : m <= k
      <3> HIDE DEF S
      <3> QED BY <2>1, LeastOf
    <2>3. PICK i \in Free(s) : m = MaxSlots - i
      OBVIOUS
    <2>4. \A j \in Free(s) : j <= i
      BY <1>0, <2>2, <2>3 DEF Slots
    <2> HIDE DEF S
    <2> QED
      BY <2>4 DEF Found
  <1>2. CASE Free(s) = {}
    BY <1>2 DEF Found
  <1> QED
    BY <1>1, <1>2

\* A step in which one server changes, and is sound after it.
Turn(p) == \E r : Sound(r) /\ Set(p, r)

LEMMA SoundCommands ==
    ASSUME Typed, NEW p \in Servers,
           \/ Directory(p) \/ Answer(p) \/ User(p) \/ PassWrong(p) \/ PassRight(p) \/ Quit(p)
           \/ Passive(p) \/ Port(p) \/ Timeout(p) \/ TakeSlot(p)
    PROVE  Turn(p)
  <1> DEFINE r == srv[p]
  <1>0. Sound(r) /\ r \in Records
    BY DEF Typed, Sound
  <1> HIDE DEF r
  <1>1. CASE Directory(p) \/ Answer(p)
    BY <1>0, <1>1, SoundParts DEF Directory, Answer, Cmd, Turn, r
  <1>2. CASE Quit(p) \/ Timeout(p)
    BY <1>2, FreshSound DEF Quit, Timeout, Leave, Turn, Set
  <1>3. CASE User(p)
    <2>1. PICK u \in Users \cup {Nobody} : Cmd(p, [r EXCEPT !.logged = FALSE, !.pw = u, !.asked = @ \/ u # Nobody])
      BY <1>3 DEF User, r
    <2> DEFINE s == [[r EXCEPT !.logged = FALSE, !.pw = u, !.asked = @ \/ u # Nobody]
                         EXCEPT !.from = NoName, !.tmpline = "none"]
    <2>2. s \in Records
      BY <1>0, ZenonT(40) DEF Records
    <2>3. ~s.logged /\ s.pc = "cmd" /\ s.from = NoName /\ s.left = r.left /\ s.job = r.job
          /\ s.data = r.data /\ s.pdata = r.pdata /\ r.pc = "cmd"
      BY <1>0, <1>3 DEF Records, User, Reads, r
    <2>4. Sound(s)
      <3> HIDE DEF s
      <3> QED
        BY <1>0, <2>2, <2>3 DEF Sound
    <2> QED
      BY <2>1, <2>4 DEF Cmd, Turn
  <1>4. CASE PassWrong(p)
    <2>1. CASE Exit(p)
      BY <2>1, FreshSound DEF Exit, Turn, Set
    <2>2. CASE Cmd(p, [r EXCEPT !.asked = FALSE, !.pw = Nobody, !.tries = @ + 1])
      <3> DEFINE s == [[r EXCEPT !.asked = FALSE, !.pw = Nobody, !.tries = @ + 1]
                          EXCEPT !.from = NoName, !.tmpline = "none"]
      <3>1. s \in Records
        <4>1. r.tries + 1 \in Nat
          BY <1>0 DEF Records
        <4> QED
          BY <1>0, <4>1 DEF Records
      <3>2. Sound(s)
        BY <1>0, <1>4, <3>1 DEF Sound, Records, PassWrong, Reads, r
      <3> QED
        BY <2>2, <3>2 DEF Cmd, Turn
    <2> QED
      BY <1>4, <2>1, <2>2 DEF PassWrong, r
  <1>5. CASE PassRight(p)
    <2>1. PICK f : Cmd(p, [r EXCEPT !.asked = FALSE, !.logged = TRUE, !.tries = 0, !.pc = "slot", !.found = f])
                   /\ f \in 0..MaxSlots
      <3>1. \A s, u : Found(s, u) \in 0..MaxSlots
        BY FoundSlot, FtpAssumption DEF Free, Slots
      <3> QED
        BY <1>5, <3>1 DEF PassRight, r
    <2> DEFINE s == [[r EXCEPT !.asked = FALSE, !.logged = TRUE, !.tries = 0, !.pc = "slot", !.found = f]
                         EXCEPT !.from = NoName, !.tmpline = "none"]
    <2>2. s \in Records
      BY <1>0, <2>1 DEF Records, Stages
    <2>3. Sound(s)
      BY <1>0, <1>5, <2>2 DEF Sound, Records, PassRight, Reads, r
    <2> QED
      BY <2>1, <2>3 DEF Cmd, Turn
  <1>6. CASE Passive(p)
    <2>1. PICK d \in {"listen", "none"} : Cmd(p, [r EXCEPT !.pdata = d])
      BY <1>6 DEF Passive, r
    <2>2. [r EXCEPT !.pdata = d] \in Records
      BY <1>0 DEF Records
    <2>3. Sound([r EXCEPT !.pdata = d])
      BY <1>0, <2>2 DEF Sound, Records
    <2> QED
      BY <2>1, <2>3, SoundParts DEF Cmd, Turn
  <1>7. CASE Port(p)
    <2>2. [r EXCEPT !.pdata = "none"] \in Records
      BY <1>0 DEF Records
    <2>3. Sound([r EXCEPT !.pdata = "none"])
      BY <1>0, <2>2 DEF Sound, Records
    <2> QED
      BY <1>7, <2>3, SoundParts DEF Port, Cmd, Turn, r
  <1>8. CASE TakeSlot(p)
    <2> DEFINE i == r.found
               s == [r EXCEPT !.pc = "cmd", !.slot = 0, !.logged = FALSE, !.pw = Nobody]
               t == [r EXCEPT !.pc = "cmd", !.slot = i, !.found = 0]
    <2>1. s \in Records /\ t \in Records
      <3>1. 0 \in 0..MaxSlots /\ i \in 0..MaxSlots
        BY <1>0, FtpAssumption DEF Records
      <3> QED
        BY <1>0, <3>1 DEF Records, Stages
    <2>2. Sound(s) /\ (i # 0 => Sound(t))
      BY <1>0, <1>8, <2>1 DEF Sound, Records, TakeSlot, r
    <2> HIDE DEF s, t
    <2>3. IF i = 0 THEN Set(p, s) ELSE Set(p, t)
      BY <1>8 DEF TakeSlot, s, t, r
    <2> QED
      BY <2>2, <2>3 DEF Turn
  <1> QED
    BY <1>1, <1>2, <1>3, <1>4, <1>5, <1>6, <1>7, <1>8

\* What STOR, STOU and APPE do: the file under the name chosen is the one that was there, or new.
Stores(p, y, id) ==
    /\ srv[p].logged /\ srv[p].pc = "cmd" /\ y \in Names /\ id \in Nat \ {0}
    /\ Cmd(p, [srv[p] EXCEPT !.pc = Opening(p), !.job = [cmd |-> "STOR", name |-> y, file |-> id]])
    /\ ul[srv[p].pw][y] \in {NoFile, id} /\ ul' = [ul EXCEPT ![srv[p].pw][y] = id]
    /\ sent' \subseteq sent /\ next' \in Nat \ {0}
    /\ UNCHANGED <<slots, temp, shelf, dropped, raced>>

LEMMA StoreParts ==
    ASSUME Typed, NEW p \in Servers, Store(p)
    PROVE  \E y, id : Stores(p, y, id)
  <1> DEFINE pw == srv[p].pw
  <1>1. PICK x \in Names, c \in {"STOR", "STOU", "APPE"} :
             /\ Reads(p, c) /\ srv[p].logged /\ shelf[x] = NoFile
             /\ \E y \in IF c = "STOU" THEN Unique(p, x) ELSE {x} :
                  LET old == Mine(p)[y]
                      id == IF old = NoFile THEN next ELSE old
                  IN  /\ id <= MaxFiles
                      /\ Cmd(p, [srv[p] EXCEPT !.pc = Opening(p), !.job = [cmd |-> "STOR", name |-> y, file |-> id]])
                      /\ ul' = [ul EXCEPT ![pw][y] = id]
                      /\ sent' = IF c = "STOR" THEN sent \ {id} ELSE sent
                      /\ next' = IF old = NoFile THEN next + 1 ELSE next
    BY Zenon DEF Store
  <1>2. PICK y \in IF c = "STOU" THEN Unique(p, x) ELSE {x} :
             LET old == Mine(p)[y]
                 id == IF old = NoFile THEN next ELSE old
             IN  /\ id <= MaxFiles
                 /\ Cmd(p, [srv[p] EXCEPT !.pc = Opening(p), !.job = [cmd |-> "STOR", name |-> y, file |-> id]])
                 /\ ul' = [ul EXCEPT ![pw][y] = id]
                 /\ sent' = IF c = "STOR" THEN sent \ {id} ELSE sent
                 /\ next' = IF old = NoFile THEN next + 1 ELSE next
    BY <1>1, Zenon
  <1> DEFINE old == Mine(p)[y]
             id == IF old = NoFile THEN next ELSE old
  <1>3. y \in Names
    BY <1>2 DEF Unique
  <1>4. pw \in Users /\ srv[p].pc = "cmd"
    BY <1>1 DEF Typed, Sound, Reads
  <1>5. old \in Nat /\ old = ul[pw][y]
    BY <1>3, <1>4 DEF Mine, Typed, TypeOK, Files
  <1>6. id \in Nat \ {0} /\ old \in {NoFile, id} /\ next + 1 \in Nat \ {0}
    BY <1>5 DEF Typed, TypeOK, NoFile
  <1>7. next' \in Nat \ {0} /\ sent' \subseteq sent
    BY <1>2, <1>6 DEF Typed, TypeOK
  <1>8. UNCHANGED <<slots, temp, shelf, dropped, raced>>
    BY DEF Store
  <1>9. Cmd(p, [srv[p] EXCEPT !.pc = Opening(p), !.job = [cmd |-> "STOR", name |-> y, file |-> id]])
        /\ ul' = [ul EXCEPT ![pw][y] = id]
    BY <1>2
  <1> HIDE DEF old, id
  <1>10. Stores(p, y, id)
    BY <1>1, <1>3, <1>4, <1>5, <1>6, <1>7, <1>8, <1>9 DEF Stores
  <1> QED
    BY <1>10

LEMMA SoundTransfers ==
    ASSUME Typed, NEW p \in Servers,
           \/ Retrieve(p) \/ List(p) \/ Store(p) \/ StoreRefused(p) \/ Accept(p) \/ Dial(p) \/ Send(p)
           \/ Receive(p) \/ Urgent(p)
    PROVE  Turn(p)
  <1> DEFINE r == srv[p]
  <1>0. Sound(r) /\ r \in Records
    BY DEF Typed, Sound
  <1>a. Opening(p) \in Moving
    BY DEF Opening, Moving
  <1>b. r.pc \notin {"xfer", "free"} /\ r.left = FALSE => Opening(p) # "xfer"
    BY <1>0 DEF Opening, Sound
  <1>c. Sound(Closed(r)) /\ Closed(r).pc = r.pc /\ ~Closed(r).left /\ "open" \notin {Closed(r).data, Closed(r).pdata}
    BY <1>0, SoundParts DEF Closed, Records
  <1> HIDE DEF r
  <1>1. CASE Retrieve(p) \/ List(p)
    <2>1. PICK c \in {"RETR", "NLST"} : Cmd(p, [r EXCEPT !.pc = Opening(p), !.job.cmd = c])
      BY <1>1 DEF Retrieve, List, r
    <2> DEFINE s == [[r EXCEPT !.pc = Opening(p), !.job.cmd = c] EXCEPT !.from = NoName, !.tmpline = "none"]
    <2>2. r.logged /\ r.pc = "cmd"
      BY <1>1 DEF Retrieve, List, Reads, r
    <2>3. [r.job EXCEPT !.cmd = c] \in Jobs
      BY <1>0 DEF Records, Jobs
    <2>4. s \in Records
      BY <1>0, <1>a, <2>3 DEF Records, Stages, Moving
    <2>5. Sound(s)
      BY <1>0, <1>a, <2>2, <2>4 DEF Sound, Records, Moving, Jobs
    <2> QED
      BY <2>1, <2>5 DEF Cmd, Turn
  <1>2. CASE Store(p)
    <2>1. PICK y, id : Cmd(p, [r EXCEPT !.pc = Opening(p), !.job = [cmd |-> "STOR", name |-> y, file |-> id]])
                       /\ y \in Names /\ id \in Nat \ {0}
      BY <1>2, StoreParts DEF Stores, r
    <2> DEFINE j == [cmd |-> "STOR", name |-> y, file |-> id]
               s == [[r EXCEPT !.pc = Opening(p), !.job = j] EXCEPT !.from = NoName, !.tmpline = "none"]
    <2>2. r.logged /\ r.pc = "cmd"
      BY <1>2 DEF Store, Reads, r
    <2>3. j \in Jobs
      BY <2>1 DEF Jobs
    <2>4. s \in Records
      BY <1>0, <1>a, <2>3 DEF Records, Stages, Moving
    <2>5. Sound(s)
      BY <1>0, <1>a, <2>1, <2>2, <2>4 DEF Sound, Records, Moving, Jobs, NoFile
    <2> QED
      BY <2>1, <2>5 DEF Cmd, Turn
  <1>3. CASE StoreRefused(p)
    BY <1>3, <1>c, SoundParts DEF StoreRefused, Cmd, Turn, r
  <1>4. CASE Accept(p)
    <2> DEFINE s == [r EXCEPT !.pdata = "open", !.pc = "xfer"]
               t == [r EXCEPT !.pdata = "none"]
    <2>1. s \in Records /\ t \in Records
      BY <1>0 DEF Records, Stages
    <2>2. r.pc = "accept"
      BY <1>4 DEF Accept, r
    <2>3. Sound(s)
      BY <1>0, <2>1, <2>2 DEF Sound, Records
    <2>4. Sound(t) /\ t.pc = "accept" /\ (t.left \/ "open" \notin {t.data, t.pdata})
      BY <1>0, <2>1, <2>2 DEF Sound, Records
    <2>5. Set(p, s) \/ Done(p, t)
      BY <1>4 DEF Accept, r
    <2> QED
      BY <2>3, <2>4, <2>5, SoundParts DEF Done, Turn
  <1>5. CASE Dial(p)
    <2> DEFINE s == [r EXCEPT !.data = "open", !.pc = "xfer"]
               t == [r EXCEPT !.data = "none"]
    <2>1. s \in Records /\ t \in Records
      BY <1>0 DEF Records, Stages
    <2>2. r.pc = "connect"
      BY <1>5 DEF Dial, r
    <2>3. Sound(s)
      BY <1>0, <2>1, <2>2 DEF Sound, Records
    <2>4. Sound(t) /\ t.pc = "connect" /\ (t.left \/ "open" \notin {t.data, t.pdata})
      BY <1>0, <2>1, <2>2 DEF Sound, Records
    <2>5. Set(p, s) \/ Done(p, t)
      BY <1>5 DEF Dial, r
    <2> QED
      BY <2>3, <2>4, <2>5, SoundParts DEF Done, Turn
  <1>6. CASE Send(p)
    <2>1. CASE Done(p, Closed(r))
      BY <1>6, <1>c, <2>1, SoundParts DEF Send, Done, Turn, r
    <2>2. CASE Leave(p)
      BY <2>2, FreshSound DEF Leave, Turn, Set
    <2> QED
      BY <1>6, <2>1, <2>2 DEF Send, r
  <1>7. CASE Receive(p)
    <2>1. r.pc = "xfer" /\ r.job.cmd = "STOR"
      BY <1>7 DEF Receive, r
    <2>2. CASE Done(p, Closed(r))
      BY <1>c, <2>1, <2>2, SoundParts DEF Done, Turn
    <2>3. CASE Set(p, [Closed(r) EXCEPT !.pc = "check"])
      <3> DEFINE s == [Closed(r) EXCEPT !.pc = "check"]
      <3>1. Closed(r) \in Records /\ Closed(r).job = r.job
        BY <1>0, <1>c DEF Sound, Closed, Records
      <3>2. s \in Records
        BY <3>1 DEF Records, Stages
      <3>3. Sound(s)
        BY <1>c, <2>1, <3>1, <3>2 DEF Sound, Records
      <3> QED
        BY <2>3, <3>3 DEF Turn
    <2> QED
      BY <1>7, <2>2, <2>3 DEF Receive, r
  <1>8. CASE Urgent(p)
    <2>1. r.pc = "xfer"
      BY <1>8 DEF Urgent, r
    <2>2. CASE Done(p, Closed(r))
      BY <1>c, <2>1, <2>2, SoundParts DEF Done, Turn
    <2>3. CASE Done(p, [r EXCEPT !.left = TRUE])
      <3>1. [r EXCEPT !.left = TRUE] \in Records
        BY <1>0 DEF Records
      <3>2. Sound([r EXCEPT !.left = TRUE])
        BY <1>0, <2>1, <3>1 DEF Sound, Records
      <3>3. [r EXCEPT !.left = TRUE].left /\ [r EXCEPT !.left = TRUE].pc = r.pc
        BY <1>0 DEF Records
      <3> QED
        BY <2>1, <2>3, <3>2, <3>3, SoundParts DEF Done, Turn
    <2>4. ASSUME NEW c \in {"STAT", "QUIT"}, Set(p, [r EXCEPT !.tmpline = c])
          PROVE  Turn(p)
      <3>1. [r EXCEPT !.tmpline = c] \in Records
        BY <1>0 DEF Records
      <3>2. Sound([r EXCEPT !.tmpline = c])
        BY <1>0, <3>1 DEF Sound, Records
      <3> QED
        BY <2>4, <3>2 DEF Turn
    <2> QED
      BY <1>8, <2>2, <2>3, <2>4 DEF Urgent, r
  <1> QED
    BY <1>1, <1>2, <1>3, <1>4, <1>5, <1>6, <1>7, <1>8

LEMMA SoundFiles ==
    ASSUME Typed, NEW p \in Servers,
           \/ Connect(p) \/ Vanish(p) \/ SetUlConf(p) \/ Delete(p) \/ RenameFrom(p) \/ RenameTo(p)
           \/ Fetch(p) \/ Handle(p)
    PROVE  Turn(p)
  <1> DEFINE r == srv[p]
  <1>0. Sound(r) /\ r \in Records
    BY DEF Typed, Sound
  <1> HIDE DEF r
  <1>1. CASE Connect(p)
    <2>1. [r EXCEPT !.pc = "cmd"] \in Records
      BY <1>0 DEF Records, Stages
    <2>2. Sound([r EXCEPT !.pc = "cmd"])
      BY <1>0, <1>1, <2>1 DEF Sound, Records, Connect, r
    <2> QED
      BY <1>1, <2>2 DEF Connect, Turn, r
  <1>2. CASE Vanish(p)
    BY <1>0, <1>2, SoundParts DEF Vanish, Live, Turn, r
  <1>3. CASE SetUlConf(p)
    <2>1. [r EXCEPT !.ulconf = TRUE] \in Records
      BY <1>0 DEF Records
    <2>2. Sound([r EXCEPT !.ulconf = TRUE])
      BY <1>0, <2>1 DEF Sound, Records
    <2> QED
      BY <1>3, <2>2, SoundParts, FreshSound DEF SetUlConf, Exit, Cmd, Turn, Set, r
  <1>4. CASE Delete(p) \/ RenameTo(p)
    BY <1>0, <1>4, SoundParts DEF Delete, RenameTo, Cmd, Turn, r
  <1>5. CASE RenameFrom(p)
    <2>1. PICK x \in Names : Set(p, [r EXCEPT !.from = x, !.tmpline = "none"])
      BY <1>5 DEF RenameFrom, r
    <2>2. [r EXCEPT !.from = x, !.tmpline = "none"] \in Records
      BY <1>0 DEF Records
    <2>3. Sound([r EXCEPT !.from = x, !.tmpline = "none"])
      BY <1>0, <1>5, <2>2 DEF Sound, Records, RenameFrom, Reads, r
    <2> QED
      BY <2>1, <2>3 DEF Turn
  <1>6. CASE Fetch(p)
    <2>1. [r EXCEPT !.pc = "child"] \in Records
      BY <1>0 DEF Records, Stages
    <2>2. Sound([r EXCEPT !.pc = "child"])
      BY <1>0, <1>6, <2>1 DEF Sound, Records, Fetch, r
    <2> QED
      BY <1>6, <2>2 DEF Fetch, Turn, r
  <1>7. CASE Handle(p)
    BY <1>0, <1>7, SoundParts DEF Sound, Handle, Done, Turn, r
  <1> QED
    BY <1>1, <1>2, <1>3, <1>4, <1>5, <1>6, <1>7

\* The steps of a server, as they are told apart in the proofs.
LEMMA Steps ==
    ASSUME Next
    PROVE  \/ \E u \in Users : NodeTakes(u)
           \/ \E p \in Servers :
                \/ Directory(p) \/ Answer(p) \/ User(p) \/ PassWrong(p) \/ PassRight(p) \/ Quit(p)
                \/ Passive(p) \/ Port(p) \/ Timeout(p) \/ TakeSlot(p)
                \/ Retrieve(p) \/ List(p) \/ Store(p) \/ StoreRefused(p) \/ Accept(p) \/ Dial(p) \/ Send(p)
                \/ Receive(p) \/ Urgent(p)
                \/ Connect(p) \/ Vanish(p) \/ SetUlConf(p) \/ Delete(p) \/ RenameFrom(p) \/ RenameTo(p)
                \/ Fetch(p) \/ Handle(p) \/ Update(p)
  BY DEF Next, Serve, Commands, Login, Transfers, OnFiles

LEMMA TurnTyped ==
    ASSUME Typed, NEW p \in Servers, Turn(p)
    PROVE  srv' \in [Servers -> Records] /\ \A q \in Servers : Sound(srv'[q])
  BY DEF Typed, TypeOK, Turn, Set, Sound

SlotsOK == slots \in [Slots -> [pid : Servers \cup {Nobody}, user : Users \cup {Nobody}]]
DiskOK ==
    /\ ul \in [Users -> Files] /\ temp \in [Users -> Files] /\ shelf \in Files
    /\ dropped \subseteq Nat /\ next \in Nat \ {0} /\ sent \subseteq Nat \ {0} /\ raced \in BOOLEAN

LEMMA SlotsTyped ==
    ASSUME Typed, NEW p \in Servers,
           Leave(p) \/ Exit(p) \/ TakeSlot(p) \/ Update(p) \/ UNCHANGED slots
    PROVE  SlotsOK'
  <1> DEFINE S == [pid : Servers \cup {Nobody}, user : Users \cup {Nobody}]
  <1>0. slots \in [Slots -> S] /\ srv[p] \in Records /\ Sound(srv[p])
    BY DEF Typed, TypeOK
  <1>1. Orphaned(p) \in [Slots -> S] /\ NoSlot \in S
    BY <1>0 DEF Orphaned, NoSlot
  <1>2. [pid |-> p, user |-> srv[p].pw] \in S
    BY <1>0 DEF Records
  <1> HIDE DEF S
  <1>3. CASE Leave(p) \/ Exit(p)
    BY <1>1, <1>3 DEF Leave, Exit, SlotsOK, S
  <1>4. CASE TakeSlot(p) \/ Update(p)
    BY <1>0, <1>2, <1>4 DEF TakeSlot, Update, SlotsOK, S
  <1>5. CASE UNCHANGED slots
    BY <1>0, <1>5 DEF SlotsOK, S
  <1> QED
    BY <1>3, <1>4, <1>5

\* The files of a user change in one place.
LEMMA FilesTyped ==
    ASSUME NEW d \in [Users -> Files], NEW u \in Users, NEW x \in Names, NEW n \in Nat
    PROVE  [d EXCEPT ![u][x] = n] \in [Users -> Files]
  BY DEF Files

LEMMA NoneFiles == None \in Files
  BY DEF None, Files, NoFile

LEMMA SettledTyped ==
    ASSUME Typed, NEW x \in Names, NEW id \in Nat, Settled(x, id)
    PROVE  shelf' \in Files /\ dropped' \subseteq Nat
  BY DEF Typed, TypeOK, Settled, Files

LEMMA DiskTyped ==
    ASSUME Typed, NEW p \in Servers,
           Store(p) \/ Receive(p) \/ Delete(p) \/ RenameTo(p) \/ Fetch(p) \/ Handle(p)
    PROVE  DiskOK'
  <1> DEFINE u == srv[p].pw
             x == srv[p].job.name
  <1>0. srv[p] \in Records /\ Sound(srv[p]) /\ DiskOK
    BY DEF Typed, TypeOK, DiskOK
  <1>n. NoFile \in Nat
    BY DEF NoFile
  <1>f. \A w \in Users, y \in Names : ul[w][y] \in Nat /\ temp[w][y] \in Nat /\ shelf[y] \in Nat
    BY <1>0 DEF DiskOK, Files
  <1>1. CASE Store(p)
    <2>1. PICK y, id : Stores(p, y, id)
      BY <1>1, StoreParts
    <2>2. u \in Users
      BY <1>0, <2>1 DEF Stores, Sound
    <2>3. ul' \in [Users -> Files]
      BY <1>0, <2>1, <2>2, FilesTyped DEF Stores, DiskOK
    <2> QED
      BY <1>0, <2>1, <2>3 DEF Stores, DiskOK
  <1>2. CASE Receive(p)
    <2>1. srv[p].job.file \in Nat \ {0}
      BY <1>0, <1>2 DEF Receive, Sound, Records, Jobs, NoFile
    <2> QED
      BY <1>0, <1>2, <2>1 DEF Receive, DiskOK, disk
  <1>3. CASE Delete(p)
    <2>1. u \in Users
      BY <1>0, <1>3 DEF Delete, Sound
    <2>2. ul' \in [Users -> Files]
      BY <1>0, <1>3, <1>n, <2>1, FilesTyped DEF Delete, DiskOK
    <2> QED
      BY <1>0, <1>3, <2>2 DEF Delete, DiskOK
  <1>4. CASE RenameTo(p)
    <2>1. u \in Users /\ srv[p].from \in Names
      BY <1>0, <1>4 DEF RenameTo, Sound, Records
    <2>2. PICK y \in Names : ul' = [ul EXCEPT ![u][srv[p].from] = NoFile, ![u][y] = ul[u][srv[p].from]]
                             /\ sent' = sent \ {ul[u][y]}
      BY <1>4 DEF RenameTo, Mine
    <2>3. [ul EXCEPT ![u][srv[p].from] = NoFile] \in [Users -> Files]
      BY <1>0, <1>n, <2>1, FilesTyped DEF DiskOK
    <2>4. ul' \in [Users -> Files]
      BY <1>f, <2>1, <2>2, <2>3, FilesTyped
    <2> QED
      BY <1>0, <1>4, <2>2, <2>4 DEF RenameTo, DiskOK
  <1>5. CASE Fetch(p)
    <2>1. u \in Users /\ x \in Names
      BY <1>0, <1>5 DEF Fetch, Sound
    <2>2. ul[u][x] \in Nat
      BY <1>f, <2>1
    <2>3. [ul EXCEPT ![u][x] = NoFile] \in [Users -> Files]
      BY <1>0, <1>n, <2>1, FilesTyped DEF DiskOK
    <2>4. [temp EXCEPT ![u][x] = ul[u][x]] \in [Users -> Files]
      BY <1>0, <2>1, <2>2, FilesTyped DEF DiskOK
    <2> QED
      BY <1>0, <1>5, <2>3, <2>4 DEF Fetch, DiskOK, history
  <1>6. CASE Handle(p)
    <2>1. u \in Users /\ x \in Names
      BY <1>0, <1>6 DEF Handle, Sound
    <2>2. temp[u][x] \in Nat
      BY <1>f, <2>1
    <2>3. [ul EXCEPT ![u][x] = temp[u][x]] \in [Users -> Files]
      BY <1>0, <2>1, <2>2, FilesTyped DEF DiskOK
    <2>4. [temp EXCEPT ![u] = None] \in [Users -> Files]
      BY <1>0, <2>1, NoneFiles DEF DiskOK
    <2>5. Settled(x, temp[u][x]) => shelf' \in Files /\ dropped' \subseteq Nat
      BY <2>1, <2>2, SettledTyped
    <2> QED
      BY <1>0, <1>6, <2>3, <2>4, <2>5 DEF Handle, DiskOK, history
  <1> QED
    BY <1>1, <1>2, <1>3, <1>4, <1>5, <1>6

LEMMA NodeTyped ==
    ASSUME Typed, NEW u \in Users, NodeTakes(u)
    PROVE  Typed'
  <1>1. PICK y \in Names : Settled(y, ul[u][y]) /\ ul' = [ul EXCEPT ![u][y] = NoFile]
    BY DEF NodeTakes
  <1>3. ul \in [Users -> Files] /\ ul[u][y] \in Nat /\ NoFile \in Nat
    BY DEF Typed, TypeOK, Files, NoFile
  <1>2. shelf' \in Files /\ dropped' \subseteq Nat /\ ul' \in [Users -> Files]
    BY <1>1, <1>3, SettledTyped, FilesTyped
  <1> QED
    BY <1>2 DEF NodeTakes, Typed, TypeOK, history

LEMMA InitTyped == Init => Typed
  <1>1. Fresh \in Records /\ Sound(Fresh)
    BY FreshSound DEF Sound
  <1>2. None \in Files
    BY NoneFiles
  <1>3. NoSlot \in [pid : Servers \cup {Nobody}, user : Users \cup {Nobody}]
    BY DEF NoSlot
  <1>4. Init => TypeOK
    <2> SUFFICES ASSUME Init PROVE TypeOK
      OBVIOUS
    <2>1. srv \in [Servers -> Records] /\ ul \in [Users -> Files] /\ temp \in [Users -> Files] /\ shelf \in Files
      <3> HIDE DEF Records, Files
      <3>1. /\ [p \in Servers |-> Fresh] \in [Servers -> Records]
            /\ [u \in Users |-> None] \in [Users -> Files]
        BY <1>1, <1>2
      <3> QED
        BY <1>2, <3>1 DEF Init
    <2>2. slots \in [Slots -> [pid : Servers \cup {Nobody}, user : Users \cup {Nobody}]]
      BY <1>3 DEF Init
    <2>3. next = 1 /\ sent = {} /\ raced = FALSE /\ dropped = {}
      BY DEF Init
    <2>4. 1 \in Nat \ {0} /\ {} \subseteq Nat \ {0} /\ FALSE \in BOOLEAN
      OBVIOUS
    <2> QED
      BY <2>1, <2>2, <2>3, <2>4 DEF TypeOK
  <1>5. Init => \A p \in Servers : Sound(srv[p])
    BY <1>1 DEF Init
  <1> QED
    BY <1>4, <1>5 DEF Typed

LEMMA NextTyped == Typed /\ Next => Typed'
  <1> SUFFICES ASSUME Typed, Next PROVE Typed'
    OBVIOUS
  <1>0. SlotsOK /\ DiskOK
    BY DEF Typed, TypeOK, SlotsOK, DiskOK
  <1>2. ASSUME NEW p \in Servers,
               \/ Store(p) \/ Receive(p) \/ Delete(p) \/ RenameTo(p) \/ Fetch(p) \/ Handle(p)
        PROVE  Typed'
    <2>1. DiskOK'
      <3>1. srv[p].pw \in Users
        BY <1>2 DEF Typed, Sound, Store, Receive, Delete, RenameTo, Fetch, Handle
      <3> QED
        BY <1>2, <3>1, DiskTyped
    <2>2. SlotsOK'
      BY <1>2, SlotsTyped DEF Store, Receive, Delete, RenameTo, Fetch, Handle
    <2>3. Turn(p)
      BY <1>2, SoundTransfers, SoundFiles
    <2> QED
      BY <2>1, <2>2, <2>3, TurnTyped DEF Typed, TypeOK, SlotsOK, DiskOK
  <1>3. ASSUME NEW p \in Servers,
               \/ Directory(p) \/ Answer(p) \/ User(p) \/ PassWrong(p) \/ PassRight(p) \/ Quit(p)
               \/ Passive(p) \/ Port(p) \/ Timeout(p) \/ TakeSlot(p)
               \/ Retrieve(p) \/ List(p) \/ StoreRefused(p) \/ Accept(p) \/ Dial(p) \/ Send(p)
               \/ Urgent(p) \/ Connect(p) \/ Vanish(p) \/ SetUlConf(p) \/ RenameFrom(p)
        PROVE  Typed'
    <2>1. DiskOK'
      BY <1>0, <1>3 DEF DiskOK, disk, history, Directory, Answer, User, PassWrong, PassRight, Quit, Passive, Port,
         Timeout, TakeSlot, Retrieve, List, StoreRefused, Accept, Dial, Send, Urgent, Connect, Vanish, SetUlConf,
         RenameFrom
    <2>2. Leave(p) \/ Exit(p) \/ TakeSlot(p) \/ UNCHANGED slots
      BY <1>3, Zenon DEF Directory, Answer, User, PassWrong, PassRight, Quit, Passive, Port,
         Timeout, TakeSlot, Retrieve, List, StoreRefused, Accept, Dial, Send, Urgent, Connect, Vanish, SetUlConf,
         RenameFrom
    <2>3. SlotsOK'
      BY <2>2, SlotsTyped
    <2>4. Turn(p)
      BY <1>3, SoundCommands, SoundTransfers, SoundFiles
    <2> QED
      BY <2>1, <2>3, <2>4, TurnTyped DEF Typed, TypeOK, SlotsOK, DiskOK
  <1>4. ASSUME NEW p \in Servers, Update(p)
        PROVE  Typed'
    <2>1. SlotsOK'
      BY <1>4, SlotsTyped
    <2> QED
      BY <1>0, <1>4, <2>1 DEF Update, Typed, TypeOK, SlotsOK, disk, history
  <1> QED
    BY <1>2, <1>3, <1>4, Steps, NodeTyped

-----------------------------------------------------------------------------
(* The slots. *)

\* The others stay as they are; and the slot of the one that moves, its login if it had one.
Others(p) == \A q \in Servers \ {p} : srv'[q] = srv[q]
Logged(p) == srv[p].logged /\ srv[p].pc # "slot"
Quiet(p) ==
    /\ Others(p) /\ UNCHANGED <<slots, raced>> /\ srv'[p].slot = srv[p].slot
    /\ Logged(p)' => Logged(p) /\ srv'[p].pw = srv[p].pw

LEMMA QuietSet ==
    ASSUME Typed, NEW p \in Servers, NEW r, Set(p, r), r.slot = srv[p].slot,
           r.logged /\ r.pc # "slot" => Logged(p) /\ r.pw = srv[p].pw,
           UNCHANGED <<slots, raced>>
    PROVE  Quiet(p)
  BY DEF Typed, TypeOK, Set, Quiet, Others, Logged

LEMMA QuietSteps ==
    ASSUME Typed, NEW p \in Servers,
           \/ Directory(p) \/ Answer(p) \/ User(p) \/ PassRight(p) \/ Passive(p) \/ Port(p)
           \/ Retrieve(p) \/ List(p) \/ Store(p) \/ StoreRefused(p) \/ Accept(p) \/ Dial(p)
           \/ Receive(p) \/ Urgent(p) \/ Connect(p) \/ Vanish(p) \/ Delete(p) \/ RenameFrom(p) \/ RenameTo(p)
           \/ Fetch(p) \/ Handle(p)
    PROVE  Quiet(p)
  <1>0. srv[p] \in Records /\ Sound(srv[p])
    BY DEF Typed, TypeOK
  <1> USE DEF history, Logged
  <1>1. CASE Directory(p) \/ Answer(p)
    BY <1>0, <1>1, QuietSet DEF Directory, Answer, Cmd, Records
  <1>2. CASE Passive(p)
    BY <1>0, <1>2, QuietSet DEF Passive, Cmd, Records
  <1>3. CASE Port(p) \/ Vanish(p)
    BY <1>0, <1>3, QuietSet DEF Port, Vanish, Cmd, Records
  <1>4. CASE RenameFrom(p)
    BY <1>0, <1>4, QuietSet DEF RenameFrom, Records
  <1>5. CASE User(p)
    BY <1>0, <1>5, QuietSet DEF User, Cmd, Records
  <1>6. CASE PassRight(p)
    BY <1>0, <1>6, QuietSet DEF PassRight, Cmd, Records
  <1>7. CASE Retrieve(p) \/ List(p)
    BY <1>0, <1>7, QuietSet DEF Retrieve, List, Reads, Cmd, Records
  <1>8. CASE Store(p)
    BY <1>0, <1>8, StoreParts, QuietSet DEF Stores, Cmd, Records
  <1>9. CASE StoreRefused(p)
    BY <1>0, <1>9, QuietSet DEF StoreRefused, Cmd, Closed, Records
  <1>10. CASE Accept(p)
    BY <1>0, <1>10, QuietSet DEF Accept, Done, Records
  <1>11. CASE Dial(p)
    BY <1>0, <1>11, QuietSet DEF Dial, Done, Records
  <1>12. CASE Receive(p)
    BY <1>0, <1>12, QuietSet DEF Receive, Done, Closed, Records
  <1>13. CASE Urgent(p)
    BY <1>0, <1>13, QuietSet DEF Urgent, Done, Closed, Records
  <1>14. CASE Connect(p)
    BY <1>0, <1>14, QuietSet DEF Connect, Records
  <1>15. CASE Delete(p) \/ RenameTo(p)
    BY <1>0, <1>15, QuietSet DEF Delete, RenameTo, Cmd, Records
  <1>16. CASE Fetch(p) \/ Handle(p)
    BY <1>0, <1>16, QuietSet DEF Fetch, Handle, Done, Records
  <1> QED
    BY <1>1, <1>2, <1>3, <1>4, <1>5, <1>6, <1>7, <1>8, <1>9, <1>10, <1>11, <1>12, <1>13, <1>14, <1>15, <1>16

\* The steps that move a slot file or a login.
LEMMA SlotSteps ==
    ASSUME Typed, Next
    PROVE  \/ UNCHANGED <<srv, slots, raced>>
           \/ \E p \in Servers : \/ Quiet(p) \/ TakeSlot(p) \/ Update(p)
                                 \/ (Leave(p) \/ Exit(p)) /\ UNCHANGED raced
  <1>1. ASSUME NEW p \in Servers, Quit(p) \/ Timeout(p) \/ PassWrong(p) \/ Send(p) \/ SetUlConf(p)
        PROVE  ((Leave(p) \/ Exit(p)) /\ UNCHANGED raced) \/ Quiet(p)
    <2>0. srv[p] \in Records /\ Sound(srv[p])
      BY DEF Typed, TypeOK
    <2>1. CASE Quit(p) \/ Timeout(p)
      BY <2>1 DEF Quit, Timeout, history
    <2>2. CASE PassWrong(p)
      BY <2>0, <2>2, QuietSet DEF PassWrong, Cmd, history, Records, Logged
    <2>3. CASE Send(p)
      BY <2>0, <2>3, QuietSet DEF Send, Done, Closed, history, Records, Logged
    <2>4. CASE SetUlConf(p)
      BY <2>0, <2>4, QuietSet DEF SetUlConf, Cmd, history, Records, Logged
    <2> QED
      BY <1>1, <2>1, <2>2, <2>3, <2>4
  <1>2. ASSUME NEW u \in Users, NodeTakes(u)
        PROVE  UNCHANGED <<srv, slots, raced>>
    BY <1>2 DEF NodeTakes, history
  <1> QED
    BY <1>1, <1>2, Steps, QuietSteps

\* A server's slot file stays its own: another writes only to one that is free, or its own.
LEMMA SlotsInv == Typed /\ OwnSlot /\ WithinSlots /\ Next => OwnSlot' /\ WithinSlots'
  <1> SUFFICES ASSUME Typed, OwnSlot, WithinSlots, Next, ~raced'
               PROVE  /\ \A p \in Servers : srv'[p].slot # 0 => slots'[srv'[p].slot].pid = p
                      /\ \A p \in Servers : Logged(p)' =>
                             /\ srv'[p].slot \in Slots
                             /\ slots'[srv'[p].slot] = [pid |-> p, user |-> srv'[p].pw]
                             /\ OneLogin => \A q \in Servers \ {p} : Logged(q)' => srv'[q].pw # srv'[p].pw
    BY DEF OwnSlot, WithinSlots, Logged
  <1>0. /\ srv \in [Servers -> Records] /\ slots \in [Slots -> [pid : Servers \cup {Nobody}, user : Users \cup {Nobody}]]
        /\ \A p \in Servers : Sound(srv[p]) /\ srv[p] \in Records
    BY DEF Typed, TypeOK
  <1>a. ~raced
    BY SlotSteps DEF Quiet, TakeSlot, Update, history
  <1>b. /\ \A p \in Servers : srv[p].slot # 0 => slots[srv[p].slot].pid = p
        /\ \A p \in Servers : Logged(p) =>
               /\ srv[p].slot \in Slots
               /\ slots[srv[p].slot] = [pid |-> p, user |-> srv[p].pw]
               /\ OneLogin => \A q \in Servers \ {p} : Logged(q) => srv[q].pw # srv[p].pw
    BY <1>a DEF OwnSlot, WithinSlots, Logged
  <1>c. \A p \in Servers : srv[p].slot # 0 => srv[p].slot \in Slots
    BY <1>0, FtpAssumption DEF Records, Slots
  <1>1. CASE UNCHANGED <<srv, slots, raced>>
    BY <1>1, <1>b DEF Logged
  <1>2. ASSUME NEW p \in Servers, Quiet(p)
        PROVE  /\ \A q \in Servers : srv'[q].slot # 0 => slots'[srv'[q].slot].pid = q
               /\ \A q \in Servers : Logged(q)' =>
                      /\ srv'[q].slot \in Slots
                      /\ slots'[srv'[q].slot] = [pid |-> q, user |-> srv'[q].pw]
                      /\ OneLogin => \A o \in Servers \ {q} : Logged(o)' => srv'[o].pw # srv'[q].pw
    <2>1. \A q \in Servers : srv'[q].slot = srv[q].slot /\ (Logged(q)' => Logged(q) /\ srv'[q].pw = srv[q].pw)
      BY <1>2 DEF Quiet, Others, Logged
    <2>2. slots' = slots
      BY <1>2 DEF Quiet
    <2> QED
      BY <1>b, <2>1, <2>2
  <1>3. ASSUME NEW p \in Servers, Leave(p) \/ Exit(p)
        PROVE  /\ \A q \in Servers : srv'[q].slot # 0 => slots'[srv'[q].slot].pid = q
               /\ \A q \in Servers : Logged(q)' =>
                      /\ srv'[q].slot \in Slots
                      /\ slots'[srv'[q].slot] = [pid |-> q, user |-> srv'[q].pw]
                      /\ OneLogin => \A o \in Servers \ {q} : Logged(o)' => srv'[o].pw # srv'[q].pw
    <2>1. srv' = [srv EXCEPT ![p] = Fresh] /\ Fresh.slot = 0 /\ ~Fresh.logged
      BY <1>3 DEF Leave, Exit, Fresh
    <2>2. \A i \in Slots : slots[i].pid \notin {p, Nobody} => slots'[i] = slots[i]
      BY <1>0, <1>3, <1>b, <1>c DEF Leave, Exit, Orphaned
    <2>3. \A q \in Servers \ {p} : srv[q].slot # 0 => slots'[srv[q].slot] = slots[srv[q].slot]
      BY <1>b, <1>c, <2>2, FtpAssumption
    <2>4. ~Logged(p)' /\ srv'[p].slot = 0 /\ \A q \in Servers \ {p} : srv'[q] = srv[q]
      BY <1>0, <2>1 DEF Logged
    <2>5. \A q \in Servers \ {p} : Logged(q)' = Logged(q)
      BY <2>4 DEF Logged
    <2>6. \A q \in Servers : Logged(q) => srv[q].slot # 0
      BY <1>0 DEF Sound, Logged
    <2> QED
      BY <1>b, <2>3, <2>4, <2>5, <2>6
  <1>4. ASSUME NEW p \in Servers, TakeSlot(p)
        PROVE  /\ \A q \in Servers : srv'[q].slot # 0 => slots'[srv'[q].slot].pid = q
               /\ \A q \in Servers : Logged(q)' =>
                      /\ srv'[q].slot \in Slots
                      /\ slots'[srv'[q].slot] = [pid |-> q, user |-> srv'[q].pw]
                      /\ OneLogin => \A o \in Servers \ {q} : Logged(o)' => srv'[o].pw # srv'[q].pw
    <2> DEFINE i == srv[p].found
               s == [srv[p] EXCEPT !.pc = "cmd", !.slot = 0, !.logged = FALSE, !.pw = Nobody]
               t == [srv[p] EXCEPT !.pc = "cmd", !.slot = i, !.found = 0]
    <2>a. IF i = 0 THEN srv' = [srv EXCEPT ![p] = s] /\ slots' = slots
          ELSE /\ srv' = [srv EXCEPT ![p] = t] /\ slots' = [slots EXCEPT ![i] = [pid |-> p, user |-> srv[p].pw]]
               /\ raced' = (raced \/ i \notin Free(slots) \/ Twice(slots, srv[p].pw))
      BY <1>4, Zenon DEF TakeSlot, Set
    <2>b. s.slot = 0 /\ ~s.logged /\ t.slot = i /\ t.pw = srv[p].pw
      BY <1>0 DEF Records
    <2> HIDE DEF s, t
    <2>1. \A q \in Servers \ {p} : srv'[q] = srv[q] /\ (Logged(q)' = Logged(q))
      BY <1>0, <1>4 DEF TakeSlot, Set, Logged
    <2>2. CASE i = 0
      <3>1. ~Logged(p)' /\ srv'[p].slot = 0 /\ slots' = slots
        BY <1>0, <2>a, <2>b, <2>2 DEF Logged
      <3> QED
        BY <1>b, <2>1, <3>1
    <2>3. CASE i # 0
      <3>1. i \in Slots /\ i \in Free(slots) /\ ~Twice(slots, srv[p].pw)
        <4>1. i \in Slots
          BY <1>0, <2>3, FtpAssumption DEF Records, Slots
        <4> QED
          BY <2>a, <2>3, <4>1
      <3>2. /\ srv'[p].slot = i /\ srv'[p].pw = srv[p].pw
            /\ slots' = [slots EXCEPT ![i] = [pid |-> p, user |-> srv[p].pw]]
        BY <1>0, <2>a, <2>b, <2>3
      <3>3. \A q \in Servers \ {p} : srv[q].slot # 0 => srv[q].slot # i
        BY <1>b, <3>1, FtpAssumption DEF Free
      <3>4. OneLogin => \A q \in Servers \ {p} : Logged(q) => srv[q].pw # srv[p].pw
        <4> SUFFICES ASSUME OneLogin, NEW q \in Servers \ {p}, Logged(q), srv[q].pw = srv[p].pw
                     PROVE  FALSE
          OBVIOUS
        <4>1. srv[q].slot \in Slots /\ slots[srv[q].slot] = [pid |-> q, user |-> srv[p].pw]
          BY <1>b
        <4>2. srv[q].slot \notin Free(slots)
          BY <4>1, FtpAssumption DEF Free
        <4> QED
          BY <3>1, <4>1, <4>2 DEF Twice
      <3>5. slots'[i] = [pid |-> p, user |-> srv[p].pw] /\ \A j \in Slots \ {i} : slots'[j] = slots[j]
        BY <1>0, <3>1, <3>2
      <3>6. \A q \in Servers \ {p} : srv[q].slot # 0 => slots'[srv[q].slot] = slots[srv[q].slot]
        BY <1>c, <3>3, <3>5
      <3>7. \A q \in Servers : Logged(q) => srv[q].slot # 0
        BY <1>0 DEF Sound, Logged
      <3> HIDE DEF i
      <3> QED
        BY <1>b, <2>1, <3>1, <3>2, <3>4, <3>5, <3>6, <3>7
    <2> QED
      BY <2>2, <2>3
  <1>5. ASSUME NEW p \in Servers, Update(p)
        PROVE  /\ \A q \in Servers : srv'[q].slot # 0 => slots'[srv'[q].slot].pid = q
               /\ \A q \in Servers : Logged(q)' =>
                      /\ srv'[q].slot \in Slots
                      /\ slots'[srv'[q].slot] = [pid |-> q, user |-> srv'[q].pw]
                      /\ OneLogin => \A o \in Servers \ {q} : Logged(o)' => srv'[o].pw # srv'[q].pw
    <2>1. srv' = srv /\ Logged(p)
      BY <1>0, <1>5 DEF Update, Sound, Logged
    <2>2. slots' = slots
      <3>1. slots[srv[p].slot] = [pid |-> p, user |-> srv[p].pw]
        BY <1>b, <2>1
      <3> QED
        BY <1>0, <1>5, <3>1 DEF Update
    <2> QED
      BY <1>b, <2>1, <2>2 DEF Logged
  <1> QED
    BY <1>1, <1>2, <1>3, <1>4, <1>5, SlotSteps

-----------------------------------------------------------------------------
(* The files. *)

\* Nothing moves: no transfer or child begins or ends, but for a transfer that is over.
Still(p) ==
    /\ Others(p) /\ UNCHANGED disk /\ (raced => raced')
    /\ \A u, x : Handled(p, u, x)' <=> Handled(p, u, x)
    /\ Arriving(p)' => Arriving(p) /\ srv'[p].pw = srv[p].pw /\ srv'[p].job = srv[p].job

LEMMA StillSet ==
    ASSUME Typed, NEW p \in Servers, NEW r, Set(p, r),
           (r.pc = "child") <=> (srv[p].pc = "child"),
           r.pc = "child" => r.pw = srv[p].pw /\ r.job = srv[p].job,
           r.pc \in Moving => r.pw = srv[p].pw,
           r.pc \in Moving => \/ r.job.cmd # "STOR"
                              \/ srv[p].pc \in Moving /\ r.job = srv[p].job,
           UNCHANGED disk, raced => raced'
    PROVE  Still(p)
  <1>1. srv'[p] = r /\ Others(p)
    BY DEF Typed, TypeOK, Set, Others
  <1> QED
    BY <1>1 DEF Still, Handled, Arriving

LEMMA StillSteps ==
    ASSUME Typed, NEW p \in Servers,
           \/ Directory(p) \/ Answer(p) \/ User(p) \/ PassWrong(p) \/ PassRight(p) \/ Quit(p)
           \/ Passive(p) \/ Port(p) \/ Timeout(p) \/ TakeSlot(p)
           \/ Retrieve(p) \/ List(p) \/ StoreRefused(p) \/ Accept(p) \/ Dial(p) \/ Send(p)
           \/ Receive(p) \/ Urgent(p) \/ Connect(p) \/ Vanish(p) \/ SetUlConf(p) \/ RenameFrom(p)
    PROVE  Still(p) /\ (Receive(p) \/ UNCHANGED sent)
  <1>0. srv[p] \in Records /\ srv[p].job \in Jobs /\ Sound(srv[p])
    BY DEF Typed, TypeOK, Records
  <1> USE DEF history, Moving
  <1>1. ASSUME Set(p, Fresh), srv[p].pc \in {"cmd", "xfer"}, UNCHANGED <<disk, raced>>
        PROVE  Still(p)
    BY <1>1, StillSet DEF Fresh
  <1>2. CASE Directory(p) \/ Answer(p)
    <2>1. srv[p].pc = "cmd" /\ Cmd(p, srv[p]) /\ UNCHANGED <<disk, raced, sent>>
      BY <1>2 DEF Directory, Answer, Reads
    <2> QED
      BY <1>0, <2>1, StillSet DEF Cmd, Records
  <1>3. CASE User(p)
    BY <1>0, <1>3, StillSet DEF User, Reads, Cmd, Records
  <1>4. CASE PassWrong(p)
    BY <1>0, <1>1, <1>4, StillSet DEF PassWrong, Reads, Cmd, Exit, Set, Records
  <1>5. CASE PassRight(p)
    BY <1>0, <1>5, StillSet DEF PassRight, Reads, Cmd, Records
  <1>6. CASE Quit(p) \/ Timeout(p)
    BY <1>1, <1>6 DEF Quit, Timeout, Reads, Leave, Set
  <1>7. CASE Passive(p)
    BY <1>0, <1>7, StillSet DEF Passive, Reads, Cmd, Records
  <1>8. CASE Port(p)
    BY <1>0, <1>8, StillSet DEF Port, Reads, Cmd, Records
  <1>9. CASE TakeSlot(p)
    <2> DEFINE i == srv[p].found
               s == [srv[p] EXCEPT !.pc = "cmd", !.slot = 0, !.logged = FALSE, !.pw = Nobody]
               t == [srv[p] EXCEPT !.pc = "cmd", !.slot = i, !.found = 0]
    <2>1. (Set(p, s) \/ Set(p, t)) /\ UNCHANGED <<disk, sent>> /\ (raced => raced')
      BY <1>9, Zenon DEF TakeSlot
    <2>2. s.pc = "cmd" /\ t.pc = "cmd" /\ srv[p].pc = "slot"
      BY <1>0, <1>9 DEF Records, TakeSlot
    <2> HIDE DEF s, t
    <2> QED
      BY <2>1, <2>2, StillSet
  <1>10. CASE Retrieve(p) \/ List(p)
    <2>1. PICK c \in {"RETR", "NLST"} :
               Set(p, [[srv[p] EXCEPT !.pc = Opening(p), !.job.cmd = c] EXCEPT !.from = NoName, !.tmpline = "none"])
      BY <1>10 DEF Retrieve, List, Cmd
    <2> DEFINE r == [[srv[p] EXCEPT !.pc = Opening(p), !.job.cmd = c] EXCEPT !.from = NoName, !.tmpline = "none"]
    <2>2. r.pc = Opening(p) /\ r.pw = srv[p].pw /\ r.job.cmd = c
      BY <1>0 DEF Records, Jobs
    <2>3. srv[p].pc = "cmd" /\ UNCHANGED <<disk, raced, sent>>
      BY <1>10 DEF Retrieve, List, Reads
    <2>4. Opening(p) # "child"
      BY DEF Opening
    <2> HIDE DEF r
    <2> QED
      BY <2>1, <2>2, <2>3, <2>4, StillSet DEF r
  <1>11. CASE StoreRefused(p)
    BY <1>0, <1>11, StillSet DEF StoreRefused, Reads, Cmd, Closed, Records
  <1>12. CASE Accept(p)
    BY <1>0, <1>12, StillSet DEF Accept, Done, Records
  <1>13. CASE Dial(p)
    BY <1>0, <1>13, StillSet DEF Dial, Done, Records
  <1>14. CASE Send(p)
    <2>1. Done(p, Closed(srv[p])) \/ Set(p, Fresh)
      BY <1>14 DEF Send, Leave, Set
    <2>2. srv[p].pc = "xfer" /\ UNCHANGED <<disk, raced, sent>>
      BY <1>14 DEF Send
    <2>3. [Closed(srv[p]) EXCEPT !.pc = "cmd", !.job = NoJob].pc = "cmd"
      BY <1>0 DEF Closed, Records
    <2> QED
      BY <1>1, <2>1, <2>2, <2>3, StillSet DEF Done
  <1>15. CASE Receive(p)
    BY <1>0, <1>15, StillSet DEF Receive, Done, Closed, Records
  <1>16. CASE Urgent(p)
    BY <1>0, <1>16, StillSet DEF Urgent, Done, Closed, Records
  <1>17. CASE Connect(p)
    BY <1>0, <1>17, StillSet DEF Connect, Records
  <1>18. CASE Vanish(p)
    BY <1>0, <1>18, StillSet DEF Vanish, Records
  <1>19. CASE SetUlConf(p)
    BY <1>0, <1>1, <1>19, StillSet DEF SetUlConf, Reads, Cmd, Exit, Set, Records
  <1>20. CASE RenameFrom(p)
    BY <1>0, <1>20, StillSet DEF RenameFrom, Reads, Records
  <1> QED
    BY <1>2, <1>3, <1>4, <1>5, <1>6, <1>7, <1>8, <1>9, <1>10, <1>11, <1>12, <1>13, <1>14, <1>15, <1>16, <1>17,
       <1>18, <1>19, <1>20

OnDisk(id) == Shelved(id) \/ \E x \in Names, u \in Users : id \in {ul[u][x], temp[u][x]}

\* A server touches the files of its own user only, which no other has while it is logged in.
Own(p) ==
    /\ Logged(p) /\ Others(p) /\ srv'[p].pw = srv[p].pw /\ UNCHANGED raced
    /\ \A u \in Users \ {srv[p].pw} : ul'[u] = ul[u] /\ temp'[u] = temp[u]

\* What is on line stays there or is replaced.
Shelves == \A id : id # NoFile /\ Shelved(id) => Shelved(id)'

\* A file that is settled is on line or done with, and no other is lost by it.
LEMMA SettledShelved ==
    ASSUME Typed, NEW x \in Names, NEW id \in Nat, Settled(x, id)
    PROVE  Shelves /\ Shelved(id)'
  <1>1. shelf \in Files
    BY DEF Typed, TypeOK
  <1> QED
    BY <1>1 DEF Settled, Shelves, Shelved, Files

LEMMA OwnFiles ==
    ASSUME Typed, WithinSlots, Alone, Aside, AtHand, Shelves, NEW p \in Servers, Own(p), NEW u, u = srv[p].pw,
           \A x \in Names : temp'[u][x] # NoFile => Handled(p, u, x)',
           \A x \in Names : Handled(p, u, x)' => ul'[u][x] = NoFile,
           Arriving(p)' => Safe(p)'
    PROVE  Aside' /\ AtHand'
  <1>0. /\ \A q \in Servers : Sound(srv[q]) /\ (Arriving(q) => Logged(q) /\ srv[q].job.file # NoFile)
        /\ \A q \in Servers : \A v, x : Handled(q, v, x) => Logged(q)
    BY DEF Typed, Sound, Arriving, Moving, Handled, Logged
  <1>1. u \in Users /\ \A q \in Servers \ {p} : Logged(q) => srv[q].pw \in Users \ {u}
    BY <1>0 DEF WithinSlots, Alone, Own, Logged, Sound
  <1>2. \A q \in Servers \ {p} : srv'[q] = srv[q]
    BY DEF Own, Others
  <1>3. ASSUME NEW v \in Users, NEW x \in Names
        PROVE  /\ temp'[v][x] # NoFile => \E q \in Servers : Handled(q, v, x)'
               /\ \A q \in Servers : Handled(q, v, x)' => ul'[v][x] = NoFile
    <2>1. CASE v = u
      <3>1. \A q \in Servers \ {p} : ~Handled(q, u, x)'
        BY <1>0, <1>1, <1>2 DEF Handled
      <3> QED
        BY <2>1, <3>1
    <2>2. CASE v # u
      <3>1. ul'[v] = ul[v] /\ temp'[v] = temp[v]
        BY <2>2 DEF Own
      <3>2. \A q \in Servers : Handled(q, v, x)' <=> Handled(q, v, x)
        BY <1>2, <2>2 DEF Handled, Own
      <3> QED
        BY <3>1, <3>2 DEF Aside
    <2> QED
      BY <2>1, <2>2
  <1>4. ASSUME NEW q \in Servers, Arriving(q)'
        PROVE  Safe(q)'
    <2>1. CASE q = p
      BY <1>4, <2>1 DEF Own
    <2>2. CASE q # p
      <3>1. Arriving(q) /\ srv'[q] = srv[q]
        BY <1>2, <1>4, <2>2 DEF Arriving
      <3>2. ul'[srv[q].pw] = ul[srv[q].pw]
        BY <1>0, <1>1, <2>2, <3>1 DEF Own
      <3>3. Shelved(srv[q].job.file) => Shelved(srv[q].job.file)'
        BY <1>0, <3>1 DEF Shelves
      <3> QED
        BY <3>1, <3>2, <3>3 DEF AtHand, Safe, Shelved
    <2> QED
      BY <2>1, <2>2
  <1> QED
    BY <1>3, <1>4 DEF Aside, AtHand

LEMMA OwnKept ==
    ASSUME Typed, Alone, Kept, Shelves, NEW p \in Servers, Own(p), NEW u, u = srv[p].pw, sent' \subseteq sent,
           \A x \in Names, id \in sent' :
               id \in {ul[u][x], temp[u][x]} => Shelved(id)' \/ \E y \in Names : id \in {ul'[u][y], temp'[u][y]}
    PROVE  Kept'
  <1> SUFFICES ASSUME NEW id \in sent' PROVE OnDisk(id)'
    BY DEF Kept, OnDisk, Shelved
  <1>1. OnDisk(id) /\ id # NoFile /\ u \in Users
    BY DEF Kept, Alone, OnDisk, Shelved, Typed, TypeOK, NoFile, Own, Logged, Sound
  <1>3. CASE Shelved(id)
    BY <1>1, <1>3 DEF Shelves, OnDisk
  <1>4. ASSUME NEW v \in Users \ {u}, NEW x \in Names, id \in {ul[v][x], temp[v][x]}
        PROVE  OnDisk(id)'
    BY <1>4 DEF Own, OnDisk
  <1>5. ASSUME NEW x \in Names, id \in {ul[u][x], temp[u][x]}
        PROVE  OnDisk(id)'
    BY <1>1, <1>5 DEF OnDisk
  <1> QED
    BY <1>1, <1>3, <1>4, <1>5 DEF OnDisk

\* What one step does to the files is no loss of any.
LEMMA FilesInv ==
    ASSUME Typed, WithinSlots, Alone, Aside, AtHand, Kept, NEW p \in Servers, UNCHANGED raced,
           Store(p) \/ Delete(p) \/ RenameTo(p) \/ Fetch(p) \/ Handle(p)
    PROVE  Aside' /\ AtHand' /\ Kept'
  <1>d. PICK u : u = srv[p].pw
    OBVIOUS
  <1>0. /\ srv \in [Servers -> Records] /\ Sound(srv[p]) /\ srv[p] \in Records /\ srv[p].job \in Jobs
        /\ ul \in [Users -> Files] /\ temp \in [Users -> Files] /\ shelf \in Files
        /\ \A id \in sent : id # NoFile
    BY DEF Typed, TypeOK, Records, NoFile
  <1>l. Logged(p) /\ u \in Users
    <2>1. srv[p].logged /\ srv[p].pc # "slot"
      BY <1>0, StoreParts DEF Stores, Delete, RenameTo, Fetch, Handle, Reads, Sound
    <2> QED
      BY <1>d, <1>0, <2>1 DEF Logged, Sound
  <1>u. \A q \in Servers \ {p} : Logged(q) => srv[q].pw # u
    BY <1>d, <1>l DEF WithinSlots, Alone, Logged
  \* Before the step, what a child of this user has is what this server has.
  <1>c. \A x \in Names : temp[u][x] # NoFile => Handled(p, u, x)
    <2>1. \A q \in Servers : srv[q].pc = "child" => Logged(q)
      BY DEF Typed, Sound, Logged
    <2> QED
      BY <1>l, <1>u, <2>1 DEF Aside, Handled
  <1>i. \A x \in Names, id \in sent : id = temp[u][x] => Handled(p, u, x)
    BY <1>0, <1>c
  <1>1. CASE Store(p)
    <2>1. PICK y, id : Stores(p, y, id)
      BY <1>1, StoreParts
    <2> DEFINE r == [[srv[p] EXCEPT !.pc = Opening(p), !.job = [cmd |-> "STOR", name |-> y, file |-> id]]
                         EXCEPT !.from = NoName, !.tmpline = "none"]
    <2>2. r.pc = Opening(p) /\ r.pw = u /\ r.job = [cmd |-> "STOR", name |-> y, file |-> id]
      BY <1>d, <1>0 DEF Records
    <2>3. Opening(p) \in Moving /\ srv[p].pc = "cmd"
      BY <2>1 DEF Opening, Moving, Stores
    <2>4. srv' = [srv EXCEPT ![p] = r]
      BY <2>1 DEF Stores, Cmd, Set
    <2> HIDE DEF r
    <2>5. srv'[p] = r /\ Others(p)
      BY <1>0, <2>4 DEF Others
    <2>6. /\ ul' = [ul EXCEPT ![u][y] = id] /\ y \in Names /\ ul[u][y] \in {NoFile, id}
          /\ temp' = temp /\ shelf' = shelf /\ dropped' = dropped /\ sent' \subseteq sent
      BY <1>d, <2>1 DEF Stores
    <2>7. ul'[u][y] = id /\ (\A x \in Names \ {y} : ul'[u][x] = ul[u][x]) /\ \A v \in Users \ {u} : ul'[v] = ul[v]
      BY <1>0, <1>l, <2>6 DEF Files
    <2>8. Own(p) /\ Shelves
      BY <1>d, <1>l, <2>2, <2>5, <2>6, <2>7 DEF Own, Shelves, Shelved
    <2>9. \A x : ~Handled(p, u, x) /\ ~Handled(p, u, x)'
      BY <2>2, <2>3, <2>5 DEF Handled, Moving
    <2>10. Safe(p)'
      BY <2>2, <2>5, <2>7 DEF Safe
    <2>11. Aside' /\ AtHand'
      BY <1>d, <1>c, <2>6, <2>8, <2>9, <2>10, OwnFiles
    <2>12. \A x \in Names, i \in sent' :
              i \in {ul[u][x], temp[u][x]} => Shelved(i)' \/ \E z \in Names : i \in {ul'[u][z], temp'[u][z]}
      BY <1>0, <2>6, <2>7
    <2> QED
      BY <1>d, <2>6, <2>8, <2>11, <2>12, OwnKept
  <1>2. CASE Delete(p)
    <2> DEFINE r == [srv[p] EXCEPT !.from = NoName, !.tmpline = "none"]
    <2>1. r.pc = "cmd" /\ r.pw = u /\ srv[p].pc = "cmd" /\ srv' = [srv EXCEPT ![p] = r]
      BY <1>d, <1>0, <1>2 DEF Delete, Reads, Cmd, Set, Records
    <2> HIDE DEF r
    <2>2. srv'[p] = r /\ Others(p)
      BY <1>0, <2>1 DEF Others
    <2>3. PICK y \in Names : sent' = sent \ {ul[u][y]} /\ ul' = [ul EXCEPT ![u][y] = NoFile]
      BY <1>d, <1>2 DEF Delete, Mine
    <2>4. temp' = temp /\ shelf' = shelf /\ dropped' = dropped
      BY <1>2 DEF Delete
    <2>5. (\A x \in Names \ {y} : ul'[u][x] = ul[u][x]) /\ \A v \in Users \ {u} : ul'[v] = ul[v]
      BY <1>0, <1>l, <2>3 DEF Files
    <2>6. Own(p) /\ Shelves
      BY <1>d, <1>l, <2>1, <2>2, <2>4, <2>5 DEF Own, Shelves, Shelved
    <2>7. (\A x : ~Handled(p, u, x) /\ ~Handled(p, u, x)') /\ ~Arriving(p)'
      BY <2>1, <2>2 DEF Handled, Arriving, Moving
    <2>8. Aside' /\ AtHand'
      BY <1>d, <1>c, <2>4, <2>6, <2>7, OwnFiles
    <2>9. \A x \in Names, i \in sent' :
              i \in {ul[u][x], temp[u][x]} => Shelved(i)' \/ \E z \in Names : i \in {ul'[u][z], temp'[u][z]}
      BY <2>3, <2>4, <2>5
    <2> QED
      BY <1>d, <2>3, <2>6, <2>8, <2>9, OwnKept
  <1>3. CASE RenameTo(p)
    <2> DEFINE r == [srv[p] EXCEPT !.from = NoName, !.tmpline = "none"]
               f == srv[p].from
    <2>1. r.pc = "cmd" /\ r.pw = u /\ srv[p].pc = "cmd" /\ srv' = [srv EXCEPT ![p] = r]
      BY <1>d, <1>0, <1>3 DEF RenameTo, Reads, Cmd, Set, Records
    <2>f. f \in Names
      BY <1>0, <1>3 DEF RenameTo, Records
    <2>3. PICK y \in Names \ {f} : /\ sent' = sent \ {ul[u][y]}
                                   /\ ul' = [ul EXCEPT ![u][f] = NoFile, ![u][y] = ul[u][f]]
      BY <1>d, <1>3 DEF RenameTo, Mine
    <2> HIDE DEF r, f
    <2>2. srv'[p] = r /\ Others(p)
      BY <1>0, <2>1 DEF Others
    <2>4. temp' = temp /\ shelf' = shelf /\ dropped' = dropped
      BY <1>3 DEF RenameTo
    <2>5. /\ ul'[u][y] = ul[u][f]
          /\ \A x \in Names \ {y, f} : ul'[u][x] = ul[u][x]
          /\ \A v \in Users \ {u} : ul'[v] = ul[v]
      BY <1>0, <1>l, <2>f, <2>3 DEF Files
    <2>6. Own(p) /\ Shelves
      BY <1>d, <1>l, <2>1, <2>2, <2>4, <2>5 DEF Own, Shelves, Shelved
    <2>7. (\A x : ~Handled(p, u, x) /\ ~Handled(p, u, x)') /\ ~Arriving(p)'
      BY <2>1, <2>2 DEF Handled, Arriving, Moving
    <2>8. Aside' /\ AtHand'
      BY <1>d, <1>c, <2>4, <2>6, <2>7, OwnFiles
    <2>9. \A x \in Names, i \in sent' :
              i \in {ul[u][x], temp[u][x]} => Shelved(i)' \/ \E z \in Names : i \in {ul'[u][z], temp'[u][z]}
      BY <2>f, <2>3, <2>4, <2>5
    <2> QED
      BY <1>d, <2>3, <2>6, <2>8, <2>9, OwnKept
  <1>4. CASE Fetch(p)
    <2> DEFINE r == [srv[p] EXCEPT !.pc = "child"]
    <2>p. PICK x : x = srv[p].job.name
      OBVIOUS
    <2>1. r.pc = "child" /\ r.pw = u /\ r.job = srv[p].job /\ srv[p].pc = "check" /\ srv' = [srv EXCEPT ![p] = r]
      BY <1>d, <1>0, <1>4 DEF Fetch, Set, Records
    <2>x. x \in Names
      BY <1>0, <2>p, <2>1 DEF Sound
    <2>3. IF ul[u][x] = NoFile THEN ul' = ul /\ temp' = temp
          ELSE ul' = [ul EXCEPT ![u][x] = NoFile] /\ temp' = [temp EXCEPT ![u][x] = ul[u][x]]
      BY <1>d, <1>4, <2>p DEF Fetch
    <2>4. shelf' = shelf /\ dropped' = dropped /\ sent' = sent
      BY <1>4 DEF Fetch, history
    <2>j. r.job.name = x
      BY <2>p, <2>1
    <2> HIDE DEF r
    <2>2. srv'[p] = r /\ Others(p)
      BY <1>0, <2>1 DEF Others
    <2>5. /\ ul'[u][x] = NoFile /\ (ul[u][x] # NoFile => temp'[u][x] = ul[u][x])
          /\ \A z \in Names \ {x} : ul'[u][z] = ul[u][z] /\ temp'[u][z] = temp[u][z]
          /\ \A v \in Users \ {u} : ul'[v] = ul[v] /\ temp'[v] = temp[v]
      BY <1>0, <1>l, <2>x, <2>3 DEF Files
    <2>6. Own(p) /\ Shelves
      BY <1>d, <1>l, <2>1, <2>2, <2>4, <2>5 DEF Own, Shelves, Shelved
    <2>7. (\A z : ~Handled(p, u, z) /\ (Handled(p, u, z)' <=> z = x)) /\ ~Arriving(p)'
      BY <2>1, <2>2, <2>j DEF Handled, Arriving, Moving
    <2>8. Aside' /\ AtHand'
      BY <1>d, <1>c, <2>5, <2>6, <2>7, OwnFiles
    <2>9. \A z \in Names, i \in sent' :
              i \in {ul[u][z], temp[u][z]} => Shelved(i)' \/ \E y \in Names : i \in {ul'[u][y], temp'[u][y]}
      BY <1>0, <1>i, <2>x, <2>4, <2>5, <2>7
    <2> QED
      BY <1>d, <2>4, <2>6, <2>8, <2>9, OwnKept
  <1>5. CASE Handle(p)
    <2> DEFINE r == [srv[p] EXCEPT !.pc = "cmd", !.job = NoJob]
    <2>p. PICK x : x = srv[p].job.name
      OBVIOUS
    <2>1. r.pc = "cmd" /\ r.pw = u /\ srv[p].pc = "child" /\ srv' = [srv EXCEPT ![p] = r]
      BY <1>d, <1>0, <1>5 DEF Handle, Done, Set, Records
    <2>x. x \in Names
      BY <1>0, <2>p, <2>1 DEF Sound
    <2>h. Handled(p, u, x) /\ \A z : Handled(p, u, z) => z = x
      BY <1>d, <2>p, <2>1 DEF Handled
    <2>3. /\ \/ temp[u][x] = NoFile /\ ul' = ul /\ shelf' = shelf /\ dropped' = dropped
             \/ temp[u][x] # NoFile /\ Settled(x, temp[u][x]) /\ ul' = ul
             \/ temp[u][x] # NoFile /\ ul' = [ul EXCEPT ![u][x] = temp[u][x]] /\ shelf' = shelf /\ dropped' = dropped
          /\ temp' = [temp EXCEPT ![u] = None] /\ sent' = sent
      BY <1>d, <1>5, <2>p DEF Handle, history
    <2> HIDE DEF r
    <2>2. srv'[p] = r /\ Others(p)
      BY <1>0, <2>1 DEF Others
    <2>4. ul[u][x] = NoFile
      BY <1>l, <2>x, <2>h DEF Aside
    <2>5. /\ \A z \in Names \ {x} : ul'[u][z] = ul[u][z]
          /\ \A v \in Users \ {u} : ul'[v] = ul[v] /\ temp'[v] = temp[v]
      BY <1>0, <1>l, <2>x, <2>3 DEF Files
    <2>t. PICK t : t = temp[u][x] /\ t \in Nat
      BY <1>0, <1>l, <2>x DEF Files
    <2>s. Settled(x, t) => Shelves /\ Shelved(t)'
      BY <2>x, <2>t, SettledShelved
    <2>6. Shelves
      BY <2>3, <2>t, <2>s DEF Shelves, Shelved
    <2>12. t # NoFile => Shelved(t)' \/ t = ul'[u][x]
      BY <1>0, <1>l, <2>x, <2>3, <2>t, <2>s DEF Files
    <2>7. Own(p)
      BY <1>d, <1>l, <2>1, <2>2, <2>5 DEF Own
    <2>8. (\A z : ~Handled(p, u, z)') /\ ~Arriving(p)'
      BY <2>1, <2>2 DEF Handled, Arriving, Moving
    <2>9. \A z \in Names : temp'[u][z] = NoFile
      BY <1>0, <1>l, <2>3 DEF None
    <2>10. Aside' /\ AtHand'
      BY <1>d, <2>6, <2>7, <2>8, <2>9, OwnFiles
    <2>11. \A z \in Names, i \in sent' :
              i \in {ul[u][z], temp[u][z]} => Shelved(i)' \/ \E y \in Names : i \in {ul'[u][y], temp'[u][y]}
      <3> SUFFICES ASSUME NEW z \in Names, NEW i \in sent, i \in {ul[u][z], temp[u][z]}
                   PROVE  Shelved(i)' \/ \E y \in Names : i \in {ul'[u][y], temp'[u][y]}
        BY <2>3
      <3>1. i # NoFile
        BY <1>0
      <3>2. CASE i = temp[u][z]
        BY <1>i, <2>x, <2>h, <2>t, <2>12, <3>1, <3>2
      <3>3. CASE i = ul[u][z]
        BY <2>4, <2>5, <3>1, <3>3
      <3> QED
        BY <3>2, <3>3
    <2> QED
      BY <1>d, <2>3, <2>6, <2>7, <2>10, <2>11, OwnKept
  <1> QED
    BY <1>1, <1>2, <1>3, <1>4, <1>5

\* Where no file moves none is lost; one that has arrived is at hand.
LEMMA StillInv ==
    ASSUME Typed, Alone, Alone', Aside, AtHand, Kept, NEW p \in Servers, Still(p), Receive(p) \/ UNCHANGED sent
    PROVE  Aside' /\ AtHand' /\ Kept'
  <1>1. ul' = ul /\ temp' = temp /\ shelf' = shelf /\ dropped' = dropped /\ \A q \in Servers \ {p} : srv'[q] = srv[q]
    BY DEF Still, disk, Others
  <1>2. \A q \in Servers : \A u, x : Handled(q, u, x)' <=> Handled(q, u, x)
    BY <1>1 DEF Still, Handled
  <1>3. Aside'
    BY <1>1, <1>2 DEF Aside
  <1>4. ASSUME NEW q \in Servers, Arriving(q)'
        PROVE  Safe(q)'
    <2>1. Arriving(q) /\ srv'[q].pw = srv[q].pw /\ srv'[q].job = srv[q].job
      BY <1>1, <1>4 DEF Still, Arriving
    <2>2. Safe(q)
      BY <2>1 DEF AtHand
    <2> QED
      BY <1>1, <2>1, <2>2 DEF Safe, Shelved
  <1>5. ASSUME NEW id \in sent'
        PROVE  OnDisk(id)
    <2>1. CASE id \in sent
      BY <2>1 DEF Kept, Alone, OnDisk, Shelved
    <2>2. CASE id \notin sent
      <3>1. Arriving(p) /\ id = srv[p].job.file
        BY <1>5, <2>2 DEF Receive, Arriving, Moving
      <3>2. srv[p].pw \in Users /\ srv[p].job.name \in Names
        BY <3>1 DEF Typed, Sound, Arriving, Moving
      <3> QED
        BY <3>1, <3>2 DEF AtHand, Safe, Shelved, OnDisk
    <2> QED
      BY <2>1, <2>2
  <1>6. Kept'
    BY <1>1, <1>5 DEF Kept, OnDisk, Shelved
  <1> QED
    BY <1>3, <1>4, <1>6 DEF AtHand

LEMMA NodeInv ==
    ASSUME Typed, Alone, Aside, AtHand, Kept, NEW u \in Users, NodeTakes(u)
    PROVE  Aside' /\ AtHand' /\ Kept'
  <1>0. /\ ul \in [Users -> Files] /\ shelf \in Files /\ \A id \in sent : id # NoFile
        /\ \A p \in Servers : Sound(srv[p])
    BY DEF Typed, TypeOK, NoFile
  <1>1. PICK y \in Names :
             /\ ul[u][y] # NoFile /\ Settled(y, ul[u][y])
             /\ ul' = [ul EXCEPT ![u][y] = NoFile]
    BY DEF NodeTakes
  <1>2. srv' = srv /\ temp' = temp /\ raced' = raced /\ sent' = sent
    BY DEF NodeTakes, history
  <1>t. PICK t : t = ul[u][y] /\ t \in Nat
    BY <1>0 DEF Files
  <1>3. /\ ul'[u][y] = NoFile /\ Shelved(t)' /\ Shelves
        /\ \A v \in Users, x \in Names : <<v, x>> # <<u, y>> => ul'[v][x] = ul[v][x]
    BY <1>0, <1>1, <1>t, SettledShelved DEF Files
  <1>4. Aside'
    BY <1>2, <1>3 DEF Aside, Handled
  <1>5. ASSUME NEW p \in Servers, Arriving(p)'
        PROVE  Safe(p)'
    <2>1. Arriving(p) /\ Safe(p) /\ srv[p].pw \in Users /\ srv[p].job.name \in Names /\ srv[p].job.file # NoFile
      BY <1>0, <1>2, <1>5 DEF Arriving, AtHand, Sound, Moving
    <2> QED
      <3>1. PICK id : id = srv[p].job.file
        OBVIOUS
      <3>2. Safe(p) <=> ul[srv[p].pw][srv[p].job.name] = id \/ Shelved(id)
        BY <3>1 DEF Safe
      <3>3. Safe(p)' <=> ul'[srv[p].pw][srv[p].job.name] = id \/ Shelved(id)'
        BY <1>2, <3>1 DEF Safe
      <3>4. Shelved(id) => Shelved(id)'
        BY <1>3, <2>1, <3>1 DEF Shelves
      <3> QED
        BY <1>3, <1>t, <2>1, <3>1, <3>2, <3>3, <3>4
  <1>6. ASSUME NEW id \in sent PROVE OnDisk(id)'
    <2>1. OnDisk(id)
      BY DEF Kept, Alone, OnDisk, Shelved
    <2>2. CASE Shelved(id)
      BY <1>0, <1>3, <2>2 DEF OnDisk, Shelves
    <2>3. ASSUME NEW x \in Names, NEW v \in Users, id \in {ul[v][x], temp[v][x]}
          PROVE  OnDisk(id)'
      BY <1>2, <1>3, <1>t, <2>3 DEF OnDisk
    <2> QED
      BY <2>1, <2>2, <2>3 DEF OnDisk
  <1> QED
    BY <1>2, <1>4, <1>5, <1>6 DEF Kept, OnDisk, Shelved, AtHand

-----------------------------------------------------------------------------
(* The theorems. *)

LEMMA InitInv == Init => Inv
  <1> SUFFICES ASSUME Init PROVE Inv
    OBVIOUS
  <1>1. \A p \in Servers : srv[p] = Fresh
    BY DEF Init
  <1>2. OwnSlot /\ WithinSlots
    BY <1>1 DEF OwnSlot, WithinSlots, Fresh
  <1>3. Aside /\ AtHand
    BY <1>1 DEF Init, Aside, AtHand, Handled, Arriving, Moving, Fresh, None
  <1>4. Kept
    BY DEF Init, Kept
  <1> QED
    BY <1>2, <1>3, <1>4, InitTyped DEF Inv

LEMMA NextInv == Inv /\ [Next]_vars => Inv'
  <1> SUFFICES ASSUME Inv, [Next]_vars PROVE Inv'
    OBVIOUS
  <1> USE DEF Inv
  <1>1. CASE Next
    <2>1. Typed' /\ OwnSlot' /\ WithinSlots'
      BY <1>1, NextTyped, SlotsInv
    <2>2. CASE ~Alone'
      BY <2>1, <2>2 DEF Aside, AtHand, Kept, Alone
    <2>3. CASE Alone'
      <3>1. \/ \E u \in Users : NodeTakes(u)
            \/ \E p \in Servers : \/ Store(p) \/ Delete(p) \/ RenameTo(p) \/ Fetch(p) \/ Handle(p)
                                  \/ Still(p) /\ (Receive(p) \/ UNCHANGED sent)
                                  \/ Update(p)
        BY <1>1, Steps, StillSteps
      <3>2. ASSUME NEW u \in Users, NodeTakes(u)
            PROVE  Aside' /\ AtHand' /\ Kept'
        BY <2>3, <3>2, NodeInv DEF Alone, NodeTakes, history
      <3>3. ASSUME NEW p \in Servers, Store(p) \/ Delete(p) \/ RenameTo(p) \/ Fetch(p) \/ Handle(p)
            PROVE  Aside' /\ AtHand' /\ Kept'
        <4>1. UNCHANGED raced
          BY <3>3 DEF Store, Delete, RenameTo, Fetch, Handle, history
        <4> QED
          BY <2>3, <3>3, <4>1, FilesInv DEF Alone
      <3>4. ASSUME NEW p \in Servers, Still(p), Receive(p) \/ UNCHANGED sent
            PROVE  Aside' /\ AtHand' /\ Kept'
        <4>1. Alone
          BY <2>3, <3>4 DEF Alone, Still
        <4> QED
          BY <2>3, <3>4, <4>1, StillInv
      <3>5. ASSUME NEW p \in Servers, Update(p)
            PROVE  Aside' /\ AtHand' /\ Kept'
        BY <3>5 DEF Update, disk, history, Aside, AtHand, Kept, Alone, Handled, Arriving, Safe, Shelved
      <3> QED
        BY <2>1, <3>1, <3>2, <3>3, <3>4, <3>5
    <2> QED
      BY <2>2, <2>3
  <1>2. CASE UNCHANGED vars
    BY <1>2 DEF vars, disk, history, Typed, TypeOK, OwnSlot, WithinSlots, Aside, AtHand, Kept, Alone, Handled,
       Arriving, Safe, Shelved
  <1> QED
    BY <1>1, <1>2

\* The invariant holds throughout: of every server's record, and of what it has to do with
\* the slots and the directories.
THEOREM InvHolds == Spec => []Inv
  BY InitInv, NextInv, PTL DEF Spec

\* The records, slots and directories have their types; a command is done for a login only.
THEOREM TypesHold == Spec => []TypeOK
  <1>1. Inv => TypeOK
    BY DEF Inv, Typed
  <1> QED
    BY <1>1, InvHolds, PTL

\* While no slot is taken twice, every login has a slot file to itself, with its name and its
\* user's: dologin, updateinfo and dologout write only to what is the server's own.
THEOREM SlotsHeld == Spec => []WithinSlots
  <1>1. Inv => WithinSlots
    BY DEF Inv
  <1> QED
    BY <1>1, InvHolds, PTL

\* So the logins are no more than CFG_MAXFTPUSERS.
Logins == {p \in Servers : Logged(p)}
THEOREM NoMoreThanSlots == Spec => [](~raced => IsFiniteSet(Logins) /\ Cardinality(Logins) <= MaxSlots)
  <1>1. Inv => (~raced => IsFiniteSet(Logins) /\ Cardinality(Logins) <= MaxSlots)
    <2> SUFFICES ASSUME Inv, ~raced PROVE IsFiniteSet(Logins) /\ Cardinality(Logins) <= MaxSlots
      OBVIOUS
    <2>1. IsFiniteSet(Slots) /\ Cardinality(Slots) = MaxSlots
      BY FtpAssumption, FS_Interval DEF Slots
    <2>a. \A p \in Logins : srv[p].slot \in Slots /\ slots[srv[p].slot] = [pid |-> p, user |-> srv[p].pw]
      BY DEF Inv, WithinSlots, Logins, Logged
    <2>b. \A p \in Logins : slots[srv[p].slot].pid = p
      <3> SUFFICES ASSUME NEW p \in Logins PROVE slots[srv[p].slot].pid = p
        OBVIOUS
      <3>1. slots[srv[p].slot] = [pid |-> p, user |-> srv[p].pw]
        BY <2>a
      <3> QED
        BY <3>1
    <2> DEFINE f == [p \in Logins |-> srv[p].slot]
    <2>2. f \in [Logins -> Slots]
      BY <2>a
    <2>3. \A p, q \in Logins : f[p] = f[q] => p = q
      <3>1. \A p \in Logins : f[p] = srv[p].slot
        OBVIOUS
      <3> HIDE DEF f
      <3> QED
        BY <2>b, <3>1
    <2>4. f \in Injection(Logins, Slots)
      <3> HIDE DEF f
      <3> QED
        BY <2>2, <2>3 DEF Injection, IsInjective
    <2> QED
      BY <2>1, <2>4, FS_Injection
  <1> QED
    BY <1>1, InvHolds, PTL

\* No file whose arrival was confirmed is lost while a user has one login: not by a child that
\* empties his temporary directory, nor by his own node beside it.
THEOREM FilesKept == Spec => []Kept
  <1>1. Inv => Kept
    BY DEF Inv
  <1> QED
    BY <1>1, InvHolds, PTL

\* A command finds no data connection of another left open, but that of an aborted list.
THEOREM ConnectionsClosed == Spec => []NoneLeft
  <1>1. Inv => NoneLeft
    BY DEF Inv, Typed, Sound, NoneLeft
  <1> QED
    BY <1>1, InvHolds, PTL
=============================================================================
