---------------------------- MODULE Tosser_proofs ----------------------------
(* Proofs about the echomail tosser, for any tree of systems, whatever is    *)
(* killed or fails, and with runs of several systems at once.                *)
EXTENDS Tosser, FiniteSetTheorems, WellFoundedInduction, TLAPS

-----------------------------------------------------------------------------
(* The way of a message.                                                     *)

Home(m) == Messages[m].home

\* Up(m)[s] is the system from which m can come to s.
IsUp(m, up) ==
    /\ up[Home(m)] = Nobody
    /\ \A s \in Systems : \A l \in AreaLinks[s][Messages[m].area] \cap Links(s) :
          l = up[s] \/ up[l] = s
Up(m) == CHOOSE up \in [Systems -> Systems \cup {Nobody}] : IsUp(m, up)

\* Each place between a copy that waits for export at a system and the copies of the next.
Waits(m, s) == \E i \in Copies(s, m) : base[s][i].out
Packed(m, s, l) == m \in Held(s, l)
InFor(a, m, l) == \E i \in DOMAIN a : a[i].to = l /\ m \in ToSet(a[i].ids)
Spooled(m, s, l, d) == InFor(outbound[s][Archive[s][l]][d], m, l)
Came(m, l, b) == m \in InArchive(inbound[l][b])
Unread(m, l) == m \in InArchive(files[l])

\* There is one copy in a sequence of messages, in an archive.
Once(q, m) == \A i, j \in DOMAIN q : q[i] = m /\ q[j] = m => i = j
Single(a, m) ==
    /\ \A i, j \in DOMAIN a : m \in ToSet(a[i].ids) /\ m \in ToSet(a[j].ids) => i = j
    /\ \A i \in DOMAIN a : Once(a[i].ids, m)
From(a, m, s) == \A i \in DOMAIN a : m \in ToSet(a[i].ids) => a[i].from = s

\* The same of the packets for l in an archive that others may share.
Sole(a, m, l, s) ==
    \A i \in DOMAIN a : a[i].to = l /\ m \in ToSet(a[i].ids) =>
        /\ Once(a[i].ids, m) /\ a[i].from = s
        /\ \A j \in DOMAIN a : a[j].to = l /\ m \in ToSet(a[j].ids) => i = j

-----------------------------------------------------------------------------
(* The invariant.                                                            *)

Packets == [from : Systems, to : Systems, head : BOOLEAN, ids : Seq(Ids)]
Drafts == [head : BOOLEAN, ids : Seq(Ids), file : BOOLEAN, count : Nat]
Entries == [id : Ids, from : Systems \cup {Nobody}, out : BOOLEAN, text : BOOLEAN]

TypedBase == entered \subseteq Ids /\ base \in [Systems -> Seq(Entries)]
TypedPhase ==
    /\ phase \in [Systems -> {"idle", "export1", "inbound", "packet", "export2", "closeout"}]
    /\ at \in [Systems -> Nat]
TypedPacket == DOMAIN packet = Systems /\ \A s \in Systems : packet[s] \in [Links(s) -> Drafts]
TypedFiles == files \in [Systems -> Seq(Packets)]
TypedInbound == inbound \in [Systems -> Seq(Seq(Packets))]
TypedOutbound ==
    /\ day \in 0..Days - 1
    /\ DOMAIN outbound = Systems
    /\ \A s \in Systems : outbound[s] \in [Links(s) -> [0..Days - 1 -> Seq(Packets)]]
TypedFlow ==
    /\ DOMAIN flow = Systems
    /\ \A s \in Systems : flow[s] \in [Links(s) -> SUBSET (0..Days - 1)]
TypedFresh == fresh \in [Systems -> SUBSET Ids]

\* The archives that are to be taken are there, and what was read of one is known while
\* it is read.
Taken ==
    \A s \in Systems :
        /\ phase[s] = "inbound" => at[s] <= Len(inbound[s])
        /\ phase[s] = "packet" => at[s] + 1 <= Len(inbound[s])
        /\ phase[s] # "packet" => files[s] = <<>> /\ fresh[s] = {}

Typed ==
    /\ TypedBase /\ TypedPhase /\ TypedPacket /\ TypedFiles /\ TypedInbound
    /\ TypedOutbound /\ TypedFlow /\ TypedFresh /\ Taken

\* Of a packet for l, and of the archives for l.
PackedOK(m, s, l) ==
    Packed(m, s, l) =>
        /\ Up(m)[l] = s /\ Has(s, m) /\ ~Has(l, m)
        /\ Once(packet[s][l].ids, m)
        /\ \A d \in 0..Days - 1 : ~Spooled(m, s, l, d)
        /\ \A b \in DOMAIN inbound[l] : ~Came(m, l, b)

SpooledOK(m, s, l) ==
    \A d \in 0..Days - 1 : Spooled(m, s, l, d) =>
        /\ Up(m)[l] = s /\ Has(s, m) /\ ~Has(l, m)
        /\ Sole(outbound[s][Archive[s][l]][d], m, l, s)
        /\ \A c \in 0..Days - 1 : Spooled(m, s, l, c) => c = d
        /\ \A b \in DOMAIN inbound[l] : ~Came(m, l, b)

\* What waits for export has not been sent on.
WaitsOK(m, s, l) ==
    Waits(m, s) /\ Up(m)[l] = s =>
        /\ ~Packed(m, s, l) /\ \A d \in 0..Days - 1 : ~Spooled(m, s, l, d)
        /\ ~Has(l, m) /\ \A b \in DOMAIN inbound[l] : ~Came(m, l, b)

\* Of the archives that have come to l; the one that is read may hold what is in the base.
CameOK(m, l) ==
    \A b \in DOMAIN inbound[l] : Came(m, l, b) =>
        /\ Up(m)[l] \in Systems /\ Has(Up(m)[l], m) /\ l # Home(m)
        /\ Single(inbound[l][b], m) /\ From(inbound[l][b], m, Up(m)[l])
        /\ \A c \in DOMAIN inbound[l] : Came(m, l, c) => c = b
        /\ Has(l, m) => m \in fresh[l]

\* It is in the archive that is read.
Opened(m, l) == phase[l] = "packet" /\ 1 \in DOMAIN inbound[l] /\ Came(m, l, 1)

UnreadOK(m, l) ==
    Unread(m, l) =>
        /\ Opened(m, l) /\ ~Has(l, m)
        /\ Single(files[l], m) /\ From(files[l], m, Up(m)[l])

FreshOK(m, l) ==
    m \in fresh[l] => Opened(m, l) /\ Has(l, m)

\* Of the copies at s.
BaseOK(m, s) ==
    /\ \A i, j \in Copies(s, m) : i = j
    /\ \A i \in Copies(s, m) : base[s][i].from = Up(m)[s]
    /\ Has(s, m) => m \in entered /\ (s = Home(m) \/ (Up(m)[s] \in Systems /\ Has(Up(m)[s], m)))

WayOK(m) ==
    \A l \in Systems :
        /\ BaseOK(m, l) /\ CameOK(m, l) /\ UnreadOK(m, l) /\ FreshOK(m, l)
        /\ \A s \in Systems : l \in Links(s) => PackedOK(m, s, l) /\ SpooledOK(m, s, l) /\ WaitsOK(m, s, l)

IInv == Typed /\ \A m \in EchoIds \ again : WayOK(m)
-----------------------------------------------------------------------------
(* The tree and the sequences.                                               *)

\* The links a system has are systems.
LEMMA LinksType == ASSUME NEW s \in Systems PROVE Links(s) \subseteq Systems
  BY TosserAssumption DEF Links, ToSet

\* An archive has the name of one of the links that have it.
LEMMA ArchiveType == ASSUME NEW s \in Systems, NEW l \in Links(s) PROVE Archive[s][l] \in Links(s)
  BY TosserAssumption

LEMMA IdsType == Ids \subseteq Nat /\ EchoIds \subseteq Ids /\ \A m \in Ids : Home(m) \in Systems
  BY TosserAssumption DEF EchoIds, Home

\* There is a way from the home of each message.
LEMMA UpType ==
    ASSUME NEW m \in EchoIds
    PROVE  Up(m) \in [Systems -> Systems \cup {Nobody}] /\ IsUp(m, Up(m))
  BY TreeAssumption DEF Up, IsUp, Home

LEMMA InSeq ==
    ASSUME NEW S, NEW q \in Seq(S)
    PROVE  /\ ToSet(q) \subseteq S
           /\ \A x : x \in ToSet(q) <=> \E i \in 1..Len(q) : q[i] = x
           /\ DOMAIN q = 1..Len(q) /\ Len(q) \in Nat
  BY DEF ToSet

LEMMA InArchives ==
    ASSUME NEW a, NEW m
    PROVE  m \in InArchive(a) <=> \E i \in DOMAIN a : m \in ToSet(a[i].ids)
  BY DEF InArchive

\* A set of positions has a first one.
LEMMA First ==
    ASSUME NEW S, S \subseteq Nat, S # {}
    PROVE  Min(S) \in S
  <1>1. \E n \in S : \A k \in S : ~(<<k, n>> \in OpToRel(<, Nat))
    BY WFMin, NatLessThanWellFounded
  <1>2. \A k, n \in S : k < n => <<k, n>> \in OpToRel(<, Nat)
    BY DEF OpToRel
  <1>3. \E n \in S : \A k \in S : ~(k < n)
    BY <1>1, <1>2, Zenon
  <1>4. \A k, n \in S : ~(k < n) => n <= k
    BY SMT
  <1> QED
    BY <1>3, <1>4 DEF Min

\* What is read of a packet is its beginning.
LEMMA ReadableType ==
    ASSUME NEW s, NEW p, p.ids \in Seq(Ids)
    PROVE  \E k \in 0..Len(p.ids) : Readable(s, p) = SubSeq(p.ids, 1, k)
  <1> DEFINE unknown == {i \in DOMAIN p.ids : ~LocateTag(s, p.ids[i])}
  <1>1. CASE ~p.head
    BY <1>1 DEF Readable
  <1>2. CASE p.head /\ unknown = {}
    BY <1>2 DEF Readable
  <1>3. CASE p.head /\ unknown # {}
    <2>1. unknown \subseteq 1..Len(p.ids)
      OBVIOUS
    <2>2. Min(unknown) - 1 \in 0..Len(p.ids)
      <3> HIDE DEF unknown
      <3>1. Len(p.ids) \in Nat /\ unknown \subseteq Nat
        BY <2>1
      <3>2. Min(unknown) \in 1..Len(p.ids)
        BY <1>3, <2>1, <3>1, First
      <3> QED
        BY <3>1, <3>2
    <2> QED
      BY <1>3, <2>2 DEF Readable
  <1> QED
    BY <1>1, <1>2, <1>3

\* A beginning of a sequence.
LEMMA Beginning ==
    ASSUME NEW S, NEW q \in Seq(S), NEW k \in 0..Len(q)
    PROVE  /\ SubSeq(q, 1, k) \in Seq(S) /\ Len(SubSeq(q, 1, k)) = k
           /\ \A i \in 1..k : SubSeq(q, 1, k)[i] = q[i]
  OBVIOUS

LEMMA BeginningOf ==
    ASSUME NEW S, NEW q \in Seq(S), NEW k \in 0..Len(q)
    PROVE  \A x : x \in ToSet(SubSeq(q, 1, k)) <=> \E i \in 1..k : q[i] = x
  <1> DEFINE r == SubSeq(q, 1, k)
  <1>1. r \in Seq(S) /\ Len(r) = k /\ \A i \in 1..k : r[i] = q[i]
    BY Beginning
  <1> HIDE DEF r
  <1>2. \A x : x \in ToSet(r) <=> \E i \in 1..k : q[i] = x
    BY <1>1, InSeq
  <1> QED
    BY <1>2 DEF r

\* What is read of a packet is in it.
LEMMA ReadableIn ==
    ASSUME NEW s, NEW p, p.ids \in Seq(Ids)
    PROVE  ToSet(Readable(s, p)) \subseteq ToSet(p.ids)
  <1>1. PICK k \in 0..Len(p.ids) : Readable(s, p) = SubSeq(p.ids, 1, k)
    BY ReadableType
  <1>2. \A x : x \in ToSet(Readable(s, p)) => \E i \in 1..k : p.ids[i] = x
    BY <1>1, BeginningOf
  <1> QED
    BY <1>2, InSeq

LEMMA TimesType ==
    ASSUME NEW s \in Systems, NEW e \in Entries, NEW l
    PROVE  /\ Times(s, e, l) \in Nat
           /\ e.id \in EchoIds => Times(s, e, l) = IF l \in EchoTargets(s, e) THEN 1 ELSE 0
  <1>1. CASE IsNet(e.id)
    <2> DEFINE t == NetTargets(s, e)
    <2>1. DOMAIN t \subseteq 1..2
      BY DEF NetTargets
    <2> DEFINE ks == {k \in DOMAIN t : t[k] = l}
    <2>2. ks \subseteq 1..2
      BY <2>1
    <2>3. IsFiniteSet(1..2)
      <3>1. 1 \in Int /\ 2 \in Int
        OBVIOUS
      <3> QED
        BY <3>1, FS_Interval, Zenon
    <2>4. Cardinality(ks) \in Nat
      BY <2>2, <2>3, FS_Subset, FS_CardinalityType
    <2> QED
      BY <1>1, <2>4 DEF Times, IsNet, EchoIds
  <1>2. CASE ~IsNet(e.id)
    BY <1>2 DEF Times
  <1> QED
    BY <1>1, <1>2

LEMMA WrittenType ==
    ASSUME NEW p \in Drafts, NEW m \in Ids, NEW n \in Nat
    PROVE  Written(p, m, n) \in Drafts
  <1> DEFINE r == [i \in 1..n |-> m]
  <1>1. r \in Seq(Ids)
    OBVIOUS
  <1>2. p.ids \o r \in Seq(Ids)
    BY <1>1 DEF Drafts
  <1> HIDE DEF r
  <1>3. p.count + n \in Nat
    BY DEF Drafts
  <1>4. [p EXCEPT !.ids = p.ids \o r, !.file = TRUE, !.count = p.count + n] \in Drafts
    BY <1>2, <1>3 DEF Drafts
  <1> QED
    BY <1>4 DEF Written, r

\* Appended to a base: what is read of a packet.
LEMMA ImportType ==
    ASSUME Typed, NEW s \in Systems, NEW ms \in Seq(Ids), NEW f \in Systems
    PROVE  /\ Import(s, ms, f) \in Seq(Entries)
           /\ Len(Import(s, ms, f)) = Len(base[s]) + Len(ms)
           /\ \A i \in 1..Len(base[s]) : Import(s, ms, f)[i] = base[s][i]
           /\ \A i \in 1..Len(ms) :
              LET e == Import(s, ms, f)[Len(base[s]) + i] IN  e.id = ms[i] /\ e.from = f
  <1> DEFINE r == [i \in DOMAIN ms |-> Entry(ms[i], f, TRUE)]
  <1>1. base[s] \in Seq(Entries)
    BY DEF Typed, TypedBase
  <1>2. r \in [1..Len(ms) -> Entries]
    BY DEF Entry, Entries
  <1>4. \A i \in 1..Len(ms) : r[i].id = ms[i] /\ r[i].from = f
    BY DEF Entry
  <1>5. Import(s, ms, f) = base[s] \o r
    BY DEF Import
  <1> HIDE DEF r
  <1>3. r \in Seq(Entries) /\ Len(r) = Len(ms)
    BY <1>2
  <1>6. \A i \in 1..Len(ms) : (base[s] \o r)[Len(base[s]) + i] = r[i]
    BY <1>1, <1>3
  <1>7. /\ base[s] \o r \in Seq(Entries) /\ Len(base[s] \o r) = Len(base[s]) + Len(r)
        /\ \A i \in 1..Len(base[s]) : (base[s] \o r)[i] = base[s][i]
    BY <1>1, <1>3, SMTT(60)
  <1> QED
    BY <1>3, <1>4, <1>5, <1>6, <1>7

-----------------------------------------------------------------------------
(* Types.                                                                    *)

\* The system and the action of a step.
LEMMA Steps ==
    ASSUME [Next]_vars
    PROVE  \/ \E s \in Systems :
                 \/ Enter(s) \/ SaveText(s) \/ Start(s) \/ ExportHeader(s) \/ EndExport(s)
                 \/ TakeArchive(s) \/ ReadPacket(s) \/ SweepPacket(s) \/ EndArchive(s)
                 \/ EndInbound(s) \/ CloseLink(s) \/ Finish(s) \/ Kill(s)
                 \/ \E l \in Links(s) : Mail(s, l)
           \/ NewDay \/ UNCHANGED vars
  BY DEF Next, Toss

LEMMA FileType ==
    ASSUME Typed, NEW s \in Systems, NEW i \in DOMAIN files[s]
    PROVE  files[s][i] \in Packets /\ files[s][i].ids \in Seq(Ids) /\ files[s][i].from \in Systems
  <1>1. files[s] \in Seq(Packets)
    BY DEF Typed, TypedFiles
  <1>2. files[s][i] \in Packets
    BY <1>1
  <1> QED
    BY <1>2 DEF Packets

LEMMA EntryType ==
    ASSUME Typed, NEW s \in Systems, NEW i \in 1..Len(base[s])
    PROVE  base[s][i] \in Entries /\ base[s] \in Seq(Entries) /\ DOMAIN base[s] = 1..Len(base[s])
  BY DEF Typed, TypedBase

\* The link that is packed for.
LEMMA ClosedLink ==
    ASSUME Typed, NEW s \in Systems, CloseLink(s)
    PROVE  OutList[s][at[s] + 1] \in Links(s)
  <1>1. OutList[s] \in Seq(Systems)
    BY TosserAssumption
  <1>2. at[s] + 1 \in DOMAIN OutList[s]
    BY <1>1 DEF CloseLink, Typed, TypedPhase
  <1> QED
    BY <1>2 DEF Links, ToSet

\* A sequence without one of its elements.
LEMMA RemoveType ==
    ASSUME NEW S, NEW q \in Seq(S), NEW i \in 1..Len(q)
    PROVE  /\ RemoveAt(q, i) \in Seq(S) /\ Len(RemoveAt(q, i)) = Len(q) - 1
           /\ \A j \in 1..Len(q) - 1 : RemoveAt(q, i)[j] = q[IF j < i THEN j ELSE j + 1]
  <1>1. SubSeq(q, 1, i - 1) \in Seq(S) /\ Len(SubSeq(q, 1, i - 1)) = i - 1
    OBVIOUS
  <1>2. SubSeq(q, i + 1, Len(q)) \in Seq(S) /\ Len(SubSeq(q, i + 1, Len(q))) = Len(q) - i
    OBVIOUS
  <1>3. \A j \in 1..i - 1 : SubSeq(q, 1, i - 1)[j] = q[j]
    OBVIOUS
  <1>4. \A j \in 1..Len(q) - i : SubSeq(q, i + 1, Len(q))[j] = q[i + j]
    OBVIOUS
  <1> DEFINE x == SubSeq(q, 1, i - 1)
             y == SubSeq(q, i + 1, Len(q))
  <1>5. RemoveAt(q, i) = x \o y
    BY DEF RemoveAt
  <1> HIDE DEF x, y
  <1>6. x \in Seq(S) /\ y \in Seq(S) /\ Len(x) = i - 1 /\ Len(y) = Len(q) - i
    BY <1>1, <1>2 DEF x, y
  <1>7. x \o y \in Seq(S) /\ Len(x \o y) = Len(q) - 1
    BY <1>6, SMTT(60)
  <1>8. ASSUME NEW j \in 1..Len(q) - 1
        PROVE  (x \o y)[j] = q[IF j < i THEN j ELSE j + 1]
    <2>1. CASE j < i
      <3>1. (x \o y)[j] = x[j]
        BY <1>6, <2>1
      <3>2. x[j] = q[j]
        BY <1>3, <2>1 DEF x
      <3> QED
        BY <2>1, <3>1, <3>2
    <2>2. CASE ~(j < i)
      <3>1. (x \o y)[j] = y[j - (i - 1)]
        BY <1>6, <2>2
      <3>2. j - (i - 1) \in 1..Len(q) - i
        BY <2>2
      <3>3. y[j - (i - 1)] = q[j + 1]
        BY <1>4, <3>2 DEF y
      <3> QED
        BY <2>2, <3>1, <3>3
    <2> QED
      BY <2>1, <2>2
  <1> QED
    BY <1>5, <1>7, <1>8

\* What a run that is killed has read of a packet.
LEMMA PartlyType ==
    ASSUME Typed, NEW s \in Systems, NEW i \in DOMAIN files[s], NEW whole \in BOOLEAN,
           NEW k \in DOMAIN Readable(s, files[s][i])
    PROVE  /\ k \in 1..Len(files[s][i].ids) /\ files[s][i].ids \in Seq(Ids)
           /\ Partly(s, files[s][i], k, whole) \in Seq(Entries)
           /\ Len(Partly(s, files[s][i], k, whole)) = k
           /\ \A j \in 1..k : Partly(s, files[s][i], k, whole)[j].id = files[s][i].ids[j]
  <1>1. files[s][i].ids \in Seq(Ids) /\ files[s][i].from \in Systems
    BY FileType
  <1>2. k \in 1..Len(files[s][i].ids)
    BY <1>1, ReadableType, Beginning
  <1> DEFINE p == files[s][i]
             r == [j \in 1..k |-> Entry(p.ids[j], p.from, j < k \/ whole)]
  <1>3. \A j \in 1..k : (j < k \/ whole) \in BOOLEAN
    OBVIOUS
  <1>4. \A j \in 1..k : Entry(p.ids[j], p.from, j < k \/ whole) \in Entries
    BY <1>1, <1>2, <1>3 DEF Entry, Entries
  <1>5. \A j \in 1..k : r[j].id = p.ids[j]
    BY DEF Entry
  <1>6. r \in [1..k -> Entries]
    BY <1>4
  <1>7. r = Partly(s, p, k, whole)
    BY DEF Partly
  <1> HIDE DEF r
  <1> QED
    BY <1>1, <1>2, <1>5, <1>6, <1>7

\* What is appended to a base are entries.
LEMMA BaseTyped ==
    ASSUME Typed, [Next]_vars
    PROVE  TypedBase'
  <1> USE DEF run, spool
  <1>1. ASSUME NEW s \in Systems, Enter(s) PROVE TypedBase'
    <2>1. PICK m \in Ids \ entered, e \in Entries :
               entered' = entered \cup {m} /\ base' = [base EXCEPT ![s] = Append(base[s], e)]
      BY <1>1 DEF Enter, Entry, Entries
    <2>2. base'[s] \in Seq(Entries)
      BY <2>1 DEF Typed, TypedBase
    <2> QED
      BY <2>1, <2>2 DEF Typed, TypedBase
  <1>2. ASSUME NEW s \in Systems, SaveText(s) PROVE TypedBase'
    <2>1. PICK i \in DOMAIN base[s] : base' = [base EXCEPT ![s][i].text = TRUE]
      BY <1>2 DEF SaveText
    <2>2. base[s] \in Seq(Entries) /\ base[s][i] \in Entries
      BY EntryType DEF Typed, TypedBase
    <2>3. [base[s][i] EXCEPT !.text = TRUE] \in Entries
      BY <2>2 DEF Entries
    <2>4. [base[s] EXCEPT ![i] = [base[s][i] EXCEPT !.text = TRUE]] \in Seq(Entries)
      BY <2>2, <2>3
    <2> QED
      BY <1>2, <2>1, <2>4 DEF Typed, TypedBase, SaveText
  <1>3. ASSUME NEW s \in Systems, ExportHeader(s) PROVE TypedBase'
    <2>1. CASE base' = base
      BY <1>3, <2>1 DEF Typed, TypedBase, ExportHeader
    <2>2. CASE base' = [base EXCEPT ![s][at[s] + 1].out = FALSE]
      <3> DEFINE i == at[s] + 1
      <3>1. i \in DOMAIN base[s] /\ base[s] \in Seq(Entries) /\ base[s][i] \in Entries
        BY <1>3 DEF ExportHeader, Typed, TypedBase, TypedPhase
      <3>2. [base[s][i] EXCEPT !.out = FALSE] \in Entries
        BY <3>1 DEF Entries
      <3>3. [base[s] EXCEPT ![i] = [base[s][i] EXCEPT !.out = FALSE]] \in Seq(Entries)
        BY <3>1, <3>2
      <3> QED
        BY <1>3, <2>2, <3>3 DEF Typed, TypedBase, ExportHeader
    <2> QED
      BY <1>3, <2>1, <2>2 DEF ExportHeader
  <1>4. ASSUME NEW s \in Systems, ReadPacket(s) PROVE TypedBase'
    <2>1. PICK i \in DOMAIN files[s] :
               base' = [base EXCEPT ![s] = Import(s, Readable(s, files[s][i]), files[s][i].from)]
      BY <1>4 DEF ReadPacket
    <2>2. files[s][i].ids \in Seq(Ids) /\ files[s][i].from \in Systems
      BY FileType
    <2>3. Readable(s, files[s][i]) \in Seq(Ids)
      BY <2>2, ReadableType, Beginning
    <2>4. base'[s] \in Seq(Entries)
      BY <2>1, <2>2, <2>3, ImportType DEF Typed, TypedBase
    <2> QED
      BY <1>4, <2>1, <2>4 DEF Typed, TypedBase, ReadPacket
  <1>5. ASSUME NEW s \in Systems, SweepPacket(s) PROVE TypedBase'
    <2>1. PICK l \in Links(s) : base' = [base EXCEPT ![s] = Import(s, Readable(s, packet[s][l]), s)]
      BY <1>5 DEF SweepPacket
    <2>2. packet[s][l].ids \in Seq(Ids)
      BY DEF Typed, TypedPacket, Drafts
    <2>3. Readable(s, packet[s][l]) \in Seq(Ids)
      BY <2>2, ReadableType, Beginning
    <2>4. base'[s] \in Seq(Entries)
      BY <2>1, <2>3, ImportType DEF Typed, TypedBase
    <2> QED
      BY <1>5, <2>1, <2>4 DEF Typed, TypedBase, SweepPacket
  <1>6. ASSUME NEW s \in Systems, Kill(s) PROVE TypedBase'
    <2>1. CASE base' = base
      BY <1>6, <2>1 DEF Typed, TypedBase, Kill
    <2>2. ASSUME NEW i \in DOMAIN files[s], NEW whole \in BOOLEAN,
                 NEW k \in DOMAIN Readable(s, files[s][i]),
                 base' = [base EXCEPT ![s] = base[s] \o Partly(s, files[s][i], k, whole)]
          PROVE  TypedBase'
      <3>1. Partly(s, files[s][i], k, whole) \in Seq(Entries)
        BY PartlyType
      <3>2. base'[s] \in Seq(Entries)
        BY <2>2, <3>1 DEF Typed, TypedBase
      <3> QED
        BY <1>6, <2>2, <3>2 DEF Typed, TypedBase, Kill
    <2> QED
      BY <1>6, <2>1, <2>2 DEF Kill
  <1>7. CASE UNCHANGED <<entered, base>>
    BY <1>7, SMTT(60) DEF Typed, TypedBase
  <1>8. ASSUME NEW s \in Systems, Start(s) \/ EndExport(s) \/ TakeArchive(s) \/ EndArchive(s) \/ EndInbound(s) \/ CloseLink(s) \/ Finish(s) \/ (\E l \in Links(s) : Mail(s, l))
        PROVE  UNCHANGED <<entered, base>>
    BY <1>8 DEF Start, EndExport, TakeArchive, EndArchive, EndInbound, CloseLink, Finish, Mail, Become
  <1>9. CASE NewDay \/ UNCHANGED vars
    BY <1>9, <1>7 DEF vars, NewDay
  <1> QED
    BY <1>1, <1>2, <1>3, <1>4, <1>5, <1>6, <1>7, <1>8, <1>9, Steps

\* Where a run is.
LEMMA PhaseTyped ==
    ASSUME Typed, [Next]_vars
    PROVE  TypedPhase'
  <1> USE DEF run, spool
  <1>1. ASSUME NEW s \in Systems, Start(s) PROVE TypedPhase'
    BY <1>1 DEF Typed, TypedPhase, Start, Become
  <1>2. ASSUME NEW s \in Systems, ExportHeader(s) PROVE TypedPhase'
    BY <1>2 DEF Typed, TypedPhase, ExportHeader
  <1>3. ASSUME NEW s \in Systems, EndExport(s) PROVE TypedPhase'
    <2>1. Len(inbound[s]) \in Nat
      BY DEF Typed, TypedInbound
    <2>2. Become(s, "inbound", Len(inbound[s])) \/ Become(s, "closeout", 0)
      BY <1>3 DEF EndExport
    <2> QED
      BY <2>1, <2>2 DEF Typed, TypedPhase, Become
  <1>4. ASSUME NEW s \in Systems, TakeArchive(s) PROVE TypedPhase'
    BY <1>4 DEF Typed, TypedPhase, TakeArchive, Become
  <1>5. ASSUME NEW s \in Systems, EndArchive(s) PROVE TypedPhase'
    BY <1>5 DEF Typed, TypedPhase, EndArchive, Become
  <1>6. ASSUME NEW s \in Systems, EndInbound(s) PROVE TypedPhase'
    BY <1>6 DEF Typed, TypedPhase, EndInbound, Become
  <1>7. ASSUME NEW s \in Systems, CloseLink(s) PROVE TypedPhase'
    BY <1>7 DEF Typed, TypedPhase, CloseLink
  <1>8. ASSUME NEW s \in Systems, Finish(s) PROVE TypedPhase'
    BY <1>8 DEF Typed, TypedPhase, Finish, Become
  <1>9. ASSUME NEW s \in Systems, Kill(s) PROVE TypedPhase'
    BY <1>9 DEF Typed, TypedPhase, Kill, Become
  <1>10. CASE UNCHANGED <<phase, at>>
    BY <1>10 DEF Typed, TypedPhase
  <1>11. ASSUME NEW s \in Systems,
              Enter(s) \/ SaveText(s) \/ ReadPacket(s) \/ SweepPacket(s)
              \/ (\E l \in Links(s) : Mail(s, l))
        PROVE  UNCHANGED <<phase, at>>
    BY <1>11 DEF Enter, SaveText, ReadPacket, SweepPacket, Mail, Become
  <1>12. CASE NewDay \/ UNCHANGED vars
    BY <1>12, <1>10 DEF vars, NewDay
  <1> QED
    BY <1>1, <1>2, <1>3, <1>4, <1>5, <1>6, <1>7, <1>8, <1>9, <1>10, <1>11, <1>12, Steps

\* A packet for each link.
LEMMA PacketTyped ==
    ASSUME Typed, [Next]_vars
    PROVE  TypedPacket'
  <1> USE DEF run, spool
  <1>1. ASSUME NEW s \in Systems, Start(s) PROVE TypedPacket'
    <2>1. Blank \in Drafts
      BY DEF Blank, Drafts
    <2>2. [Blank EXCEPT !.head = TRUE, !.file = TRUE] \in Drafts
      BY <2>1 DEF Drafts
    <2> QED
      BY <1>1, <2>2 DEF Typed, TypedPacket, Start
  <1>2. ASSUME NEW s \in Systems, ExportHeader(s) PROVE TypedPacket'
    <2>1. CASE UNCHANGED packet
      BY <1>2, <2>1 DEF Typed, TypedPacket
    <2> DEFINE e == base[s][at[s] + 1]
    <2>2. ASSUME packet' = [packet EXCEPT ![s] = [l \in Links(s) |-> Written(packet[s][l], e.id, Times(s, e, l))]]
          PROVE  TypedPacket'
      <3>1. e \in Entries
        BY <1>2, EntryType, SMTT(60) DEF ExportHeader, Typed, TypedPhase
      <3>2. e.id \in Ids
        BY <3>1 DEF Entries
      <3>3. \A l \in Links(s) : Times(s, e, l) \in Nat
        BY <3>1, TimesType
      <3> HIDE DEF e
      <3>4. \A l \in Links(s) : Written(packet[s][l], e.id, Times(s, e, l)) \in Drafts
        BY <3>2, <3>3, WrittenType DEF Typed, TypedPacket
      <3> QED
        BY <1>2, <2>2, <3>4 DEF Typed, TypedPacket
    <2> QED
      BY <1>2, <2>1, <2>2 DEF ExportHeader
  <1>3. ASSUME NEW s \in Systems, SweepPacket(s) PROVE TypedPacket'
    <2>1. PICK l \in Links(s) : packet' = [packet EXCEPT ![s][l] = [Blank EXCEPT !.count = packet[s][l].count]]
      BY <1>3 DEF SweepPacket
    <2>2. Blank \in Drafts /\ packet[s][l] \in Drafts
      BY DEF Blank, Drafts, Typed, TypedPacket
    <2>3. [Blank EXCEPT !.count = packet[s][l].count] \in Drafts
      BY <2>2 DEF Drafts
    <2> QED
      BY <2>1, <2>3 DEF Typed, TypedPacket
  <1>4. ASSUME NEW s \in Systems, CloseLink(s) PROVE TypedPacket'
    <2>1. Blank \in Drafts
      BY DEF Blank, Drafts
    <2> QED
      BY <1>4, <2>1 DEF Typed, TypedPacket, CloseLink
  <1>5. ASSUME NEW s \in Systems, Kill(s) PROVE TypedPacket'
    <2>1. Blank \in Drafts
      BY DEF Blank, Drafts
    <2> QED
      BY <1>5, <2>1 DEF Typed, TypedPacket, Kill, NoPackets
  <1>6. CASE UNCHANGED <<packet>>
    BY <1>6 DEF Typed, TypedPacket
  <1>7. ASSUME NEW s \in Systems,
              Enter(s) \/ SaveText(s) \/ EndExport(s) \/ TakeArchive(s)
              \/ ReadPacket(s) \/ EndArchive(s) \/ EndInbound(s) \/ Finish(s)
              \/ (\E l \in Links(s) : Mail(s, l))
        PROVE  UNCHANGED <<packet>>
    BY <1>7 DEF Enter, SaveText, EndExport, TakeArchive, ReadPacket, EndArchive, EndInbound, Finish, Mail, Become
  <1>8. CASE NewDay \/ UNCHANGED vars
    BY <1>8, <1>6 DEF vars, NewDay
  <1> QED
    BY <1>1, <1>2, <1>3, <1>4, <1>5, <1>6, <1>7, <1>8, Steps

\* The packets that are still to be read come from the first archive.
LEMMA FilesTyped ==
    ASSUME Typed, [Next]_vars
    PROVE  TypedFiles'
  <1> USE DEF run, spool
  <1>1. ASSUME NEW s \in Systems, TakeArchive(s) PROVE TypedFiles'
    <2>1. inbound[s] \in Seq(Seq(Packets)) /\ inbound[s] # <<>>
      BY <1>1 DEF TakeArchive, Typed, TypedInbound, TypedPhase, Taken
    <2>2. Head(inbound[s]) \in Seq(Packets)
      BY <2>1
    <2> QED
      BY <1>1, <2>2 DEF Typed, TypedFiles, TakeArchive
  <1>2. ASSUME NEW s \in Systems, ReadPacket(s) PROVE TypedFiles'
    <2>1. PICK i \in DOMAIN files[s] : files' = [files EXCEPT ![s] = RemoveAt(files[s], i)]
      BY <1>2 DEF ReadPacket
    <2>2. RemoveAt(files[s], i) \in Seq(Packets)
      BY RemoveType DEF Typed, TypedFiles
    <2> QED
      BY <2>1, <2>2 DEF Typed, TypedFiles
  <1>3. ASSUME NEW s \in Systems, Kill(s) PROVE TypedFiles'
    BY <1>3 DEF Typed, TypedFiles, Kill
  <1>4. CASE UNCHANGED <<files>>
    BY <1>4 DEF Typed, TypedFiles
  <1>5. ASSUME NEW s \in Systems,
              Enter(s) \/ SaveText(s) \/ Start(s) \/ ExportHeader(s) \/ EndExport(s)
              \/ SweepPacket(s) \/ EndArchive(s) \/ EndInbound(s) \/ CloseLink(s)
              \/ Finish(s) \/ (\E l \in Links(s) : Mail(s, l))
        PROVE  UNCHANGED <<files>>
    BY <1>5 DEF Enter, SaveText, Start, ExportHeader, EndExport, SweepPacket, EndArchive, EndInbound, CloseLink, Finish, Mail, Become
  <1>6. CASE NewDay \/ UNCHANGED vars
    BY <1>6, <1>4 DEF vars, NewDay
  <1> QED
    BY <1>1, <1>2, <1>3, <1>4, <1>5, <1>6, Steps

\* The archives that have come in.
LEMMA InboundTyped ==
    ASSUME Typed, [Next]_vars
    PROVE  TypedInbound'
  <1> USE DEF run, spool
  <1>1. ASSUME NEW s \in Systems, EndArchive(s) PROVE TypedInbound'
    <2>1. inbound[s] \in Seq(Seq(Packets)) /\ inbound[s] # <<>>
      BY <1>1 DEF EndArchive, Typed, TypedInbound, TypedPhase, Taken
    <2>2. Tail(inbound[s]) \in Seq(Seq(Packets))
      BY <2>1
    <2> QED
      BY <1>1, <2>2 DEF Typed, TypedInbound, EndArchive
  <1>2. CASE UNCHANGED <<inbound>>
    BY <1>2 DEF Typed, TypedInbound
  <1>3. ASSUME NEW s \in Systems, NEW l \in Links(s), Mail(s, l) PROVE TypedInbound'
    <2>1. CASE inbound' = inbound
      BY <2>1 DEF Typed, TypedInbound
    <2>2. PICK d \in flow[s][l] : inbound' = inbound \/ inbound' = [inbound EXCEPT ![l] = Append(inbound[l], outbound[s][Archive[s][l]][d])]
      BY <1>3 DEF Mail
    <2>3. outbound[s][Archive[s][l]][d] \in Seq(Packets)
      BY ArchiveType, ZenonT(60) DEF Typed, TypedFlow, TypedOutbound
    <2>4. l \in Systems /\ inbound[l] \in Seq(Seq(Packets))
      BY LinksType DEF Typed, TypedInbound
    <2>5. Append(inbound[l], outbound[s][Archive[s][l]][d]) \in Seq(Seq(Packets))
      BY <2>3, <2>4
    <2> QED
      BY <2>1, <2>2, <2>5 DEF Typed, TypedInbound
  <1>4. ASSUME NEW s \in Systems,
              Enter(s) \/ SaveText(s) \/ Start(s) \/ ExportHeader(s) \/ EndExport(s)
              \/ TakeArchive(s) \/ ReadPacket(s) \/ SweepPacket(s) \/ EndInbound(s)
              \/ CloseLink(s) \/ Finish(s) \/ Kill(s)
        PROVE  UNCHANGED <<inbound>>
    BY <1>4 DEF Enter, SaveText, Start, ExportHeader, EndExport, TakeArchive, ReadPacket, SweepPacket, EndInbound, CloseLink, Finish, Kill, Become
  <1>5. CASE NewDay \/ UNCHANGED vars
    BY <1>5, <1>2 DEF vars, NewDay
  <1> QED
    BY <1>1, <1>2, <1>3, <1>4, <1>5, Steps

\* The archives for the links, by day.
LEMMA OutboundTyped ==
    ASSUME Typed, [Next]_vars
    PROVE  TypedOutbound'
  <1> USE DEF run, spool
  <1>1. ASSUME NEW s \in Systems, CloseLink(s) PROVE TypedOutbound'
    <2> DEFINE l == OutList[s][at[s] + 1]
               a == Archive[s][l]
               p == [from |-> s, to |-> l, head |-> packet[s][l].head, ids |-> packet[s][l].ids]
    <2>1. day' = day
      BY <1>1 DEF CloseLink
    <2>2. CASE outbound' = outbound
      BY <2>1, <2>2, SMTT(60) DEF Typed, TypedOutbound
    <2>3. outbound' = outbound \/ outbound' = [outbound EXCEPT ![s][a][day] = Append(outbound[s][a][day], p)]
      BY <1>1 DEF CloseLink, Pack
    <2>4. l \in Links(s) /\ l \in Systems
      BY <1>1, ClosedLink, LinksType
    <2>5. p \in Packets
      BY <2>4 DEF Typed, TypedPacket, Drafts, Packets
    <2>11. a \in Links(s)
      BY <2>4, ArchiveType
    <2> HIDE DEF l, p, a
    <2>6. outbound[s] \in [Links(s) -> [0..Days - 1 -> Seq(Packets)]] /\ day \in 0..Days - 1
      BY DEF Typed, TypedOutbound
    <2>7. outbound[s][a] \in [0..Days - 1 -> Seq(Packets)]
      BY <2>6, <2>11
    <2>10. outbound[s][a][day] \in Seq(Packets)
      BY <2>6, <2>7
    <2>8. Append(outbound[s][a][day], p) \in Seq(Packets)
      BY <2>5, <2>10
    <2>9. [outbound[s] EXCEPT ![a][day] = Append(outbound[s][a][day], p)] \in [Links(s) -> [0..Days - 1 -> Seq(Packets)]]
      BY <2>6, <2>7, <2>8, <2>11
    <2> QED
      BY <2>1, <2>2, <2>3, <2>9 DEF Typed, TypedOutbound
  <1>2. CASE UNCHANGED <<outbound, day>>
    BY <1>2 DEF Typed, TypedOutbound
  <1>3. ASSUME NEW s \in Systems, NEW l \in Links(s), Mail(s, l) PROVE TypedOutbound'
    <2>1. PICK d \in flow[s][l] : day' = day /\ outbound' = [outbound EXCEPT ![s][Archive[s][l]][d] = <<>>]
      BY <1>3 DEF Mail
    <2>2. <<>> \in Seq(Packets)
      OBVIOUS
    <2> QED
      BY <2>1, <2>2 DEF Typed, TypedOutbound
  <1>4. CASE NewDay
    BY <1>4, TosserAssumption, SMTT(60) DEF Typed, TypedOutbound, NewDay
  <1>5. ASSUME NEW s \in Systems,
              Enter(s) \/ SaveText(s) \/ Start(s) \/ ExportHeader(s) \/ EndExport(s)
              \/ TakeArchive(s) \/ ReadPacket(s) \/ SweepPacket(s) \/ EndArchive(s)
              \/ EndInbound(s) \/ Finish(s) \/ Kill(s)
        PROVE  UNCHANGED <<outbound, day>>
    BY <1>5 DEF Enter, SaveText, Start, ExportHeader, EndExport, TakeArchive, ReadPacket, SweepPacket, EndArchive, EndInbound, Finish, Kill, Become
  <1>6. CASE UNCHANGED vars
    BY <1>6, <1>2 DEF vars
  <1> QED
    BY <1>1, <1>2, <1>3, <1>4, <1>5, <1>6, Steps

\* The flow files name days.
LEMMA FlowTyped ==
    ASSUME Typed, [Next]_vars
    PROVE  TypedFlow'
  <1> USE DEF run, spool
  <1>1. ASSUME NEW s \in Systems, CloseLink(s) PROVE TypedFlow'
    <2>1. flow' = flow \/ flow' = [flow EXCEPT ![s][OutList[s][at[s] + 1]] = {day}]
      BY <1>1 DEF CloseLink, Pack
    <2>2. {day} \in SUBSET (0..Days - 1)
      BY DEF Typed, TypedOutbound
    <2> QED
      BY <2>1, <2>2 DEF Typed, TypedFlow
  <1>2. CASE UNCHANGED <<flow>>
    BY <1>2 DEF Typed, TypedFlow
  <1>3. ASSUME NEW s \in Systems, NEW l \in Links(s), Mail(s, l) PROVE TypedFlow'
    <2>1. flow' = [flow EXCEPT ![s][l] = {}]
      BY <1>3 DEF Mail
    <2>2. {} \in SUBSET (0..Days - 1)
      OBVIOUS
    <2> QED
      BY <2>1, <2>2 DEF Typed, TypedFlow
  <1>4. ASSUME NEW s \in Systems,
              Enter(s) \/ SaveText(s) \/ Start(s) \/ ExportHeader(s) \/ EndExport(s)
              \/ TakeArchive(s) \/ ReadPacket(s) \/ SweepPacket(s) \/ EndArchive(s)
              \/ EndInbound(s) \/ Finish(s) \/ Kill(s)
        PROVE  UNCHANGED <<flow>>
    BY <1>4 DEF Enter, SaveText, Start, ExportHeader, EndExport, TakeArchive, ReadPacket, SweepPacket, EndArchive, EndInbound, Finish, Kill, Become
  <1>5. CASE NewDay \/ UNCHANGED vars
    BY <1>5, <1>2 DEF vars, NewDay
  <1> QED
    BY <1>1, <1>2, <1>3, <1>4, <1>5, Steps

\* What has been read of the archive.
LEMMA FreshTyped ==
    ASSUME Typed, [Next]_vars
    PROVE  TypedFresh'
  <1> USE DEF run, spool
  <1>1. ASSUME NEW s \in Systems, ReadPacket(s) PROVE TypedFresh'
    <2>1. PICK i \in DOMAIN files[s] : fresh' = [fresh EXCEPT ![s] = fresh[s] \cup ToSet(Readable(s, files[s][i]))]
      BY <1>1 DEF ReadPacket
    <2>2. Readable(s, files[s][i]) \in Seq(Ids)
      BY FileType, ReadableType, Beginning
    <2>3. ToSet(Readable(s, files[s][i])) \subseteq Ids
      BY <2>2, InSeq
    <2> QED
      BY <2>1, <2>3 DEF Typed, TypedFresh
  <1>2. ASSUME NEW s \in Systems, EndArchive(s) PROVE TypedFresh'
    BY <1>2 DEF Typed, TypedFresh, EndArchive
  <1>3. ASSUME NEW s \in Systems, Kill(s) PROVE TypedFresh'
    BY <1>3 DEF Typed, TypedFresh, Kill
  <1>4. CASE UNCHANGED <<fresh>>
    BY <1>4, SMTT(60) DEF Typed, TypedFresh
  <1>5. ASSUME NEW s \in Systems,
              Enter(s) \/ SaveText(s) \/ Start(s) \/ ExportHeader(s) \/ EndExport(s)
              \/ TakeArchive(s) \/ SweepPacket(s) \/ EndInbound(s) \/ CloseLink(s)
              \/ Finish(s) \/ (\E l \in Links(s) : Mail(s, l))
        PROVE  UNCHANGED <<fresh>>
    BY <1>5 DEF Enter, SaveText, Start, ExportHeader, EndExport, TakeArchive, SweepPacket, EndInbound, CloseLink, Finish, Mail, Become
  <1>6. CASE NewDay \/ UNCHANGED vars
    BY <1>6, <1>4 DEF vars, NewDay
  <1> QED
    BY <1>1, <1>2, <1>3, <1>4, <1>5, <1>6, Steps

\* What is read of an archive is given up when the archive is done with, or the run.
LEMMA TakenStep ==
    ASSUME Typed, [Next]_vars
    PROVE  Taken'
  <1> USE DEF run, spool
  <1>1. ASSUME NEW s \in Systems, Start(s) PROVE Taken'
    BY <1>1 DEF Typed, Taken, Start, Become, TypedPhase, TypedFiles, TypedInbound, TypedFresh
  <1>2. ASSUME NEW s \in Systems, ExportHeader(s) PROVE Taken'
    BY <1>2 DEF Typed, Taken, ExportHeader, TypedPhase, TypedFiles, TypedInbound, TypedFresh
  <1>3. ASSUME NEW s \in Systems, EndExport(s) PROVE Taken'
    BY <1>3 DEF Typed, Taken, EndExport, Become, TypedPhase, TypedFiles, TypedInbound, TypedFresh
  <1>4. ASSUME NEW s \in Systems, TakeArchive(s) PROVE Taken'
    BY <1>4 DEF Typed, Taken, TakeArchive, Become, TypedPhase, TypedFiles, TypedInbound, TypedFresh
  <1>5. ASSUME NEW s \in Systems, ReadPacket(s) PROVE Taken'
    BY <1>5 DEF Typed, Taken, ReadPacket, TypedPhase, TypedFiles, TypedInbound, TypedFresh
  <1>6. ASSUME NEW s \in Systems, EndArchive(s) PROVE Taken'
    <2>1. Len(inbound[s]) \in Nat \ {0} /\ inbound[s] \in Seq(Seq(Packets))
      BY <1>6 DEF EndArchive, Typed, TypedInbound, TypedPhase, Taken
    <2>2. Len(Tail(inbound[s])) = Len(inbound[s]) - 1
      BY <2>1
    <2> QED
      BY <1>6, <2>1, <2>2 DEF Typed, Taken, EndArchive, Become, TypedPhase, TypedInbound, TypedFiles, TypedFresh
  <1>7. ASSUME NEW s \in Systems, EndInbound(s) PROVE Taken'
    BY <1>7 DEF Typed, Taken, EndInbound, Become, TypedPhase, TypedFiles, TypedInbound, TypedFresh
  <1>8. ASSUME NEW s \in Systems, CloseLink(s) PROVE Taken'
    BY <1>8 DEF Typed, Taken, CloseLink, TypedPhase, TypedFiles, TypedInbound, TypedFresh
  <1>9. ASSUME NEW s \in Systems, Finish(s) PROVE Taken'
    BY <1>9 DEF Typed, Taken, Finish, Become, TypedPhase, TypedFiles, TypedInbound, TypedFresh
  <1>10. ASSUME NEW s \in Systems, Kill(s) PROVE Taken'
    BY <1>10 DEF Typed, Taken, Kill, Become, TypedPhase, TypedFiles, TypedInbound, TypedFresh
  <1>11. CASE UNCHANGED <<phase, at, files, inbound, fresh>>
    BY <1>11 DEF Typed, Taken
  <1>12. ASSUME NEW s \in Systems, NEW l \in Links(s), Mail(s, l) PROVE Taken'
    <2>1. l \in Systems /\ inbound[l] \in Seq(Seq(Packets))
      BY LinksType DEF Typed, TypedInbound
    <2>2. UNCHANGED <<phase, at, files, fresh>>
      BY <1>12 DEF Mail
    <2>3. PICK a : inbound' = inbound \/ inbound' = [inbound EXCEPT ![l] = Append(inbound[l], a)]
      BY <1>12 DEF Mail
    <2>4. Len(Append(inbound[l], a)) = Len(inbound[l]) + 1 /\ Len(inbound[l]) \in Nat
      BY <2>1
    <2>5. \A r \in Systems : Len(inbound'[r]) >= Len(inbound[r]) /\ Len(inbound[r]) \in Nat /\ Len(inbound'[r]) \in Nat
      <3> SUFFICES ASSUME NEW r \in Systems
                   PROVE  Len(inbound'[r]) >= Len(inbound[r]) /\ Len(inbound[r]) \in Nat /\ Len(inbound'[r]) \in Nat
        OBVIOUS
      <3>1. Len(inbound[r]) \in Nat
        BY DEF Typed, TypedInbound
      <3>2. inbound'[r] = inbound[r] \/ (r = l /\ inbound'[r] = Append(inbound[l], a))
        BY <2>1, <2>3 DEF Typed, TypedInbound
      <3> QED
        BY <2>4, <3>1, <3>2
    <2> QED
      BY <2>2, <2>5 DEF Typed, Taken, TypedPhase
  <1>13. ASSUME NEW s \in Systems,
              Enter(s) \/ SaveText(s) \/ SweepPacket(s)
        PROVE  UNCHANGED <<phase, at, files, inbound, fresh>>
    BY <1>13 DEF Enter, SaveText, SweepPacket, Become
  <1>14. CASE NewDay \/ UNCHANGED vars
    BY <1>14, <1>11 DEF vars, NewDay
  <1> QED
    BY <1>1, <1>2, <1>3, <1>4, <1>5, <1>6, <1>7, <1>8, <1>9, <1>10, <1>11, <1>12, <1>13, <1>14, Steps

\* Types are kept by every step.
LEMMA TypedStep ==
    ASSUME Typed, [Next]_vars
    PROVE  Typed'
  BY BaseTyped, PhaseTyped, PacketTyped, FilesTyped, InboundTyped, OutboundTyped, FlowTyped,
     FreshTyped, TakenStep DEF Typed

-----------------------------------------------------------------------------
(* Steps that leave a message where it is, or take it away.                  *)

BaseStill(m) ==
    /\ entered \subseteq entered'
    /\ \A s \in Systems :
         /\ Copies(s, m)' = Copies(s, m)
         /\ \A i \in Copies(s, m) : /\ base'[s][i].from = base[s][i].from
                                    /\ base'[s][i].out => base[s][i].out
PacketStill(m) ==
    \A s \in Systems : \A l \in Links(s) :
        Packed(m, s, l)' => Packed(m, s, l) /\ Once(packet'[s][l].ids, m)
SpoolStill(m) ==
    \A s \in Systems : \A l \in Links(s) : \A d \in 0..Days - 1 :
        Spooled(m, s, l, d)' => /\ Spooled(m, s, l, d)
                                /\ Sole(outbound'[s][Archive[s][l]][d], m, l, s)
InboundStill(m) ==
    \A l \in Systems :
        /\ \A b \in DOMAIN inbound[l] : b \in DOMAIN inbound'[l] /\ inbound'[l][b] = inbound[l][b]
        /\ \A b \in DOMAIN inbound'[l] : Came(m, l, b)' => b \in DOMAIN inbound[l]
InboundLess(m) ==
    \A l \in Systems : \A b \in DOMAIN inbound'[l] : Came(m, l, b)' =>
        \E c \in DOMAIN inbound[l] : Came(m, l, c)
FilesStill(m) ==
    \A l \in Systems : Unread(m, l)' =>
        /\ Unread(m, l) /\ phase'[l] = phase[l]
        /\ Single(files'[l], m) /\ From(files'[l], m, Up(m)[l])
FreshStill(m) ==
    \A l \in Systems : /\ m \in fresh'[l] <=> m \in fresh[l]
                       /\ m \in fresh[l] => phase'[l] = phase[l]

LEMMA SameCopies ==
    ASSUME NEW m, BaseStill(m), NEW s \in Systems
    PROVE  /\ Has(s, m)' <=> Has(s, m)
           /\ Waits(m, s)' => Waits(m, s)
  BY DEF BaseStill, Has, Waits

LEMMA BaseFrame ==
    ASSUME NEW m \in EchoIds, WayOK(m), BaseStill(m), NEW s \in Systems
    PROVE  BaseOK(m, s)'
  <1> USE DEF Up
  <1>1. BaseOK(m, s)
    BY DEF WayOK
  <1>2. Has(s, m)' <=> Has(s, m)
    BY SameCopies
  <1>3. Up(m)[s] \in Systems => (Has(Up(m)[s], m)' <=> Has(Up(m)[s], m))
    BY SameCopies
  <1> QED
    BY <1>1, <1>2, <1>3 DEF BaseOK, BaseStill

LEMMA SameInbound ==
    ASSUME NEW m, InboundStill(m), NEW l \in Systems
    PROVE  /\ \A b \in DOMAIN inbound'[l] : Came(m, l, b)' =>
                 b \in DOMAIN inbound[l] /\ Came(m, l, b) /\ inbound'[l][b] = inbound[l][b]
           /\ Opened(m, l) /\ phase'[l] = phase[l] => Opened(m, l)'
  BY DEF InboundStill, Came, Opened

LEMMA PackedFrame ==
    ASSUME NEW m \in EchoIds, WayOK(m), BaseStill(m), PacketStill(m), SpoolStill(m),
           InboundLess(m), NEW s \in Systems, NEW l \in Links(s)
    PROVE  PackedOK(m, s, l)' /\ SpooledOK(m, s, l)' /\ WaitsOK(m, s, l)'
  <1>0. l \in Systems
    BY LinksType
  <1>1. PackedOK(m, s, l) /\ SpooledOK(m, s, l) /\ WaitsOK(m, s, l)
    BY <1>0 DEF WayOK
  <1>2. /\ Has(s, m)' <=> Has(s, m)
        /\ Has(l, m)' <=> Has(l, m)
        /\ Waits(m, s)' => Waits(m, s)
    BY <1>0, SameCopies
  <1>3. \A b \in DOMAIN inbound'[l] : Came(m, l, b)' => \E c \in DOMAIN inbound[l] : Came(m, l, c)
    BY <1>0 DEF InboundLess
  <1>4. Packed(m, s, l)' => Packed(m, s, l) /\ Once(packet'[s][l].ids, m)
    BY DEF PacketStill
  <1>5. \A d \in 0..Days - 1 :
           Spooled(m, s, l, d)' => /\ Spooled(m, s, l, d)
                                   /\ Sole(outbound'[s][Archive[s][l]][d], m, l, s)
    BY DEF SpoolStill
  <1>6. PackedOK(m, s, l)'
    BY <1>1, <1>2, <1>3, <1>4, <1>5 DEF PackedOK
  <1>7. SpooledOK(m, s, l)'
    BY <1>1, <1>2, <1>3, <1>5 DEF SpooledOK
  <1>8. WaitsOK(m, s, l)'
    BY <1>1, <1>2, <1>3, <1>4, <1>5 DEF WaitsOK
  <1> QED
    BY <1>6, <1>7, <1>8

LEMMA CameFrame ==
    ASSUME NEW m \in EchoIds, WayOK(m), BaseStill(m), InboundStill(m), FreshStill(m), NEW l \in Systems
    PROVE  CameOK(m, l)' /\ FreshOK(m, l)'
  <1>1. CameOK(m, l) /\ FreshOK(m, l)
    BY DEF WayOK
  <1>2. Has(l, m)' <=> Has(l, m)
    BY SameCopies
  <1>3. Up(m)[l] \in Systems => (Has(Up(m)[l], m)' <=> Has(Up(m)[l], m))
    BY SameCopies
  <1>4. \A b \in DOMAIN inbound'[l] : Came(m, l, b)' =>
           b \in DOMAIN inbound[l] /\ Came(m, l, b) /\ inbound'[l][b] = inbound[l][b]
    BY SameInbound
  <1>5. CameOK(m, l)'
    BY <1>1, <1>2, <1>3, <1>4 DEF CameOK, FreshStill, Single, Once, From
  <1>6. FreshOK(m, l)'
    BY <1>1, <1>2, SameInbound DEF FreshOK, FreshStill
  <1> QED
    BY <1>5, <1>6

LEMMA UnreadFrame ==
    ASSUME NEW m \in EchoIds, WayOK(m), BaseStill(m), InboundStill(m), FilesStill(m), NEW l \in Systems
    PROVE  UnreadOK(m, l)'
  <1>1. UnreadOK(m, l)
    BY DEF WayOK
  <1>2. Has(l, m)' <=> Has(l, m)
    BY SameCopies
  <1> QED
    BY <1>1, <1>2, SameInbound DEF UnreadOK, FilesStill

\* A message that no step moves is where it may be.
LEMMA Frame ==
    ASSUME NEW m \in EchoIds, WayOK(m), BaseStill(m), PacketStill(m), SpoolStill(m),
           InboundStill(m), FilesStill(m), FreshStill(m)
    PROVE  WayOK(m)'
  <1>1. InboundLess(m)
    BY SameInbound DEF InboundLess
  <1> QED
    BY <1>1, BaseFrame, PackedFrame, CameFrame, UnreadFrame DEF WayOK

\* What is left alone is still.
PhaseKept == \A l \in Systems : phase[l] = "packet" => phase'[l] = "packet"

LEMMA BaseSame ==
    ASSUME NEW m, UNCHANGED base, entered \subseteq entered'
    PROVE  BaseStill(m)
  BY DEF BaseStill, Copies

LEMMA PacketSame ==
    ASSUME NEW m, WayOK(m), UNCHANGED packet
    PROVE  PacketStill(m)
  BY LinksType DEF PacketStill, WayOK, PackedOK, Packed, Held

LEMMA SpoolSame ==
    ASSUME NEW m, WayOK(m), UNCHANGED outbound
    PROVE  SpoolStill(m)
  <1> SUFFICES ASSUME NEW s \in Systems, NEW l \in Links(s), NEW d \in 0..Days - 1, Spooled(m, s, l, d)'
               PROVE  /\ Spooled(m, s, l, d)
                      /\ Sole(outbound'[s][Archive[s][l]][d], m, l, s)
    BY DEF SpoolStill
  <1>1. Spooled(m, s, l, d)
    BY DEF Spooled
  <1>2. SpooledOK(m, s, l)
    BY LinksType DEF WayOK
  <1> QED
    BY <1>1, <1>2 DEF SpooledOK

LEMMA InboundSame == ASSUME NEW m, UNCHANGED inbound PROVE InboundStill(m)
  BY DEF InboundStill

LEMMA FilesSame ==
    ASSUME NEW m, WayOK(m), UNCHANGED files, PhaseKept
    PROVE  FilesStill(m)
  <1> SUFFICES ASSUME NEW l \in Systems, Unread(m, l)'
               PROVE  /\ Unread(m, l) /\ phase'[l] = phase[l]
                      /\ Single(files'[l], m) /\ From(files'[l], m, Up(m)[l])
    BY DEF FilesStill
  <1>1. Unread(m, l)
    BY DEF Unread
  <1>2. UnreadOK(m, l)
    BY DEF WayOK
  <1> QED
    BY <1>1, <1>2 DEF UnreadOK, Opened, PhaseKept

LEMMA FreshSame ==
    ASSUME NEW m, WayOK(m), UNCHANGED fresh, PhaseKept
    PROVE  FreshStill(m)
  BY DEF FreshStill, WayOK, FreshOK, Opened, PhaseKept

\* Nothing of a message is read while nothing is unpacked.
LEMMA NothingUnpacked ==
    ASSUME Typed, NEW m, NEW s \in Systems, phase[s] # "packet"
    PROVE  ~Unread(m, s) /\ fresh[s] = {}
  BY DEF Typed, Taken, Unread, InArchive

\* What is appended to a base leaves the copies of another message alone.
LEMMA BaseAppended ==
    ASSUME Typed, NEW m, NEW s \in Systems, NEW n \in Nat,
           entered \subseteq entered', DOMAIN base' = Systems,
           \A r \in Systems \ {s} : base'[r] = base[r],
           DOMAIN base'[s] = 1..Len(base[s]) + n,
           \A i \in 1..Len(base[s]) : base'[s][i] = base[s][i],
           \A i \in 1..n : base'[s][Len(base[s]) + i].id # m
    PROVE  BaseStill(m)
  <1>1. DOMAIN base[s] = 1..Len(base[s]) /\ Len(base[s]) \in Nat
    BY DEF Typed, TypedBase
  <1>2. ASSUME NEW i \in DOMAIN base'[s], i \notin DOMAIN base[s] PROVE base'[s][i].id # m
    <2>1. i - Len(base[s]) \in 1..n /\ i = Len(base[s]) + (i - Len(base[s]))
      BY <1>1, <1>2
    <2> QED
      BY <2>1
  <1>3. Copies(s, m)' = Copies(s, m)
    BY <1>1, <1>2 DEF Copies
  <1>4. \A r \in Systems \ {s} : Copies(r, m)' = Copies(r, m)
    BY DEF Copies
  <1>5. \A i \in Copies(s, m) : base'[s][i] = base[s][i]
    BY <1>1 DEF Copies
  <1> QED
    BY <1>3, <1>4, <1>5 DEF BaseStill, Copies

\* An archive that gets a packet: another link's, or one in which a message is not.
LEMMA ArchiveAppended ==
    ASSUME NEW a \in Seq(Packets), NEW p \in Packets, NEW m, NEW l, NEW s,
           p.to # l \/ m \notin ToSet(p.ids)
    PROVE  /\ InFor(Append(a, p), m, l) => InFor(a, m, l)
           /\ Sole(a, m, l, s) => Sole(Append(a, p), m, l, s)
  <1> DEFINE b == Append(a, p)
  <1>1. DOMAIN b = DOMAIN a \cup {Len(a) + 1} /\ b[Len(a) + 1] = p /\ DOMAIN a = 1..Len(a)
    OBVIOUS
  <1>2. \A i \in DOMAIN a : b[i] = a[i]
    OBVIOUS
  <1> HIDE DEF b
  <1>3. \A i \in DOMAIN b : b[i].to = l /\ m \in ToSet(b[i].ids) => i \in DOMAIN a
    BY <1>1
  <1>4. InFor(b, m, l) => InFor(a, m, l)
    BY <1>2, <1>3 DEF InFor
  <1>5. Sole(a, m, l, s) => Sole(b, m, l, s)
    BY <1>2, <1>3 DEF Sole
  <1> QED
    BY <1>4, <1>5 DEF b

\* An archive that loses a packet.
LEMMA ArchiveRemoved ==
    ASSUME NEW a \in Seq(Packets), NEW k \in 1..Len(a), NEW m, NEW s
    PROVE  /\ m \in InArchive(RemoveAt(a, k)) => m \in InArchive(a)
           /\ Single(a, m) => /\ Single(RemoveAt(a, k), m)
                              /\ m \in ToSet(a[k].ids) => m \notin InArchive(RemoveAt(a, k))
           /\ From(a, m, s) => From(RemoveAt(a, k), m, s)
  <1> DEFINE b == RemoveAt(a, k)
             old(j) == IF j < k THEN j ELSE j + 1
  <1>1. /\ DOMAIN b = 1..Len(a) - 1 /\ DOMAIN a = 1..Len(a) /\ Len(a) \in Nat
        /\ \A j \in DOMAIN b : b[j] = a[old(j)]
    <2>1. /\ b \in Seq(Packets) /\ Len(b) = Len(a) - 1 /\ Len(a) \in Nat
          /\ \A j \in 1..Len(a) - 1 : b[j] = a[old(j)]
      <3>1. /\ RemoveAt(a, k) \in Seq(Packets) /\ Len(RemoveAt(a, k)) = Len(a) - 1
            /\ \A j \in 1..Len(a) - 1 : RemoveAt(a, k)[j] = a[IF j < k THEN j ELSE j + 1]
        BY RemoveType, ZenonT(60)
      <3>2. Len(a) \in Nat
        OBVIOUS
      <3> QED
        BY ONLY <3>1, <3>2
    <2> HIDE DEF b, old
    <2> QED
      BY <2>1
  <1>2. \A j \in DOMAIN b : old(j) \in DOMAIN a \ {k}
    BY <1>1
  <1>3. \A i, j \in DOMAIN b : old(i) = old(j) => i = j
    BY <1>1
  <1> HIDE DEF b, old
  <1>4. m \in InArchive(b) => m \in InArchive(a)
    BY <1>1, <1>2, InArchives
  <1>5. Single(a, m) => Single(b, m)
    BY <1>1, <1>2, <1>3 DEF Single
  <1>6. Single(a, m) /\ m \in ToSet(a[k].ids) => m \notin InArchive(b)
    <2> SUFFICES ASSUME Single(a, m), m \in ToSet(a[k].ids), m \in InArchive(b) PROVE FALSE
      OBVIOUS
    <2>1. PICK j \in DOMAIN b : m \in ToSet(b[j].ids)
      BY InArchives
    <2> QED
      BY <1>1, <1>2, <2>1 DEF Single
  <1>7. From(a, m, s) => From(b, m, s)
    BY <1>1, <1>2 DEF From
  <1> QED
    BY <1>4, <1>5, <1>6, <1>7 DEF b

-----------------------------------------------------------------------------
(* Each step, for one message.                                               *)

\* Steps that touch neither bases nor packets.
LEMMA QuietWay ==
    ASSUME NEW m \in EchoIds, Typed, WayOK(m),
           UNCHANGED <<base, packet, outbound, inbound, files, fresh>>,
           entered \subseteq entered', PhaseKept
    PROVE  WayOK(m)'
  BY BaseSame, PacketSame, SpoolSame, InboundSame, FilesSame, FreshSame, Frame

LEMMA SaveTextWay ==
    ASSUME NEW m \in EchoIds, Typed, WayOK(m), NEW s \in Systems, SaveText(s)
    PROVE  WayOK(m)'
  <1> USE DEF run, spool, SaveText
  <1>1. BaseStill(m)
    BY DEF BaseStill, Copies, Typed, TypedBase
  <1> QED
    BY <1>1, PacketSame, SpoolSame, InboundSame, FilesSame, FreshSame, Frame DEF PhaseKept

LEMMA StartWay ==
    ASSUME NEW m \in EchoIds, Typed, WayOK(m), NEW s \in Systems, Start(s)
    PROVE  WayOK(m)'
  <1> USE DEF run, spool, Start, Become
  <1>1. PhaseKept
    BY DEF PhaseKept, Typed, TypedPhase
  <1>2. ASSUME NEW r \in Systems, NEW l \in Links(r), Packed(m, r, l)'
        PROVE  r # s /\ packet'[r][l] = packet[r][l]
    <2>1. packet'[s] = [k \in Links(s) |-> [Blank EXCEPT !.head = TRUE, !.file = TRUE]]
      BY DEF Typed, TypedPacket
    <2>2. CASE r = s
      <3>1. Blank \in Drafts /\ Blank.ids = <<>>
        BY DEF Blank, Drafts
      <3>2. [Blank EXCEPT !.head = TRUE, !.file = TRUE].ids = <<>>
        BY <3>1 DEF Drafts
      <3>3. packet'[s][l] = [Blank EXCEPT !.head = TRUE, !.file = TRUE]
        BY <2>1, <2>2
      <3>4. packet'[s][l].ids = <<>>
        BY <3>2, <3>3
      <3> QED
        BY <1>2, <2>2, <3>4 DEF Packed, Held, ToSet
    <2> QED
      BY <2>2 DEF Typed, TypedPacket
  <1>3. PacketStill(m)
    BY <1>2, LinksType DEF PacketStill, Packed, Held, WayOK, PackedOK
  <1> QED
    BY <1>1, <1>3, BaseSame, SpoolSame, InboundSame, FilesSame, FreshSame, Frame

\* A base that gets what is read of a packet with none of a message.
Imports(s, p, f) == base' = [base EXCEPT ![s] = Import(s, Readable(s, p), f)]

LEMMA ImportStill ==
    ASSUME Typed, NEW m, NEW s \in Systems, NEW p, p.ids \in Seq(Ids), NEW f \in Systems,
           m \notin ToSet(Readable(s, p)),
           Imports(s, p, f), UNCHANGED entered
    PROVE  BaseStill(m)
  <1> DEFINE ms == Readable(s, p)
  <1>1. ms \in Seq(Ids)
    BY ReadableType, Beginning
  <1>2. Len(ms) \in Nat /\ \A i \in 1..Len(ms) : ms[i] # m
    BY <1>1, InSeq
  <1>3. /\ base'[s] \in Seq(Entries) /\ Len(base'[s]) = Len(base[s]) + Len(ms)
        /\ \A i \in 1..Len(base[s]) : base'[s][i] = base[s][i]
        /\ \A i \in 1..Len(ms) : base'[s][Len(base[s]) + i].id = ms[i]
    BY <1>1, ImportType, SMTT(60) DEF Typed, TypedBase, Imports
  <1>4. DOMAIN base' = Systems /\ \A r \in Systems \ {s} : base'[r] = base[r]
    BY DEF Typed, TypedBase, Imports
  <1> HIDE DEF ms
  <1>5. PICK n \in Nat : n = Len(ms)
    BY <1>2
  <1>6. \A i \in 1..n : base'[s][Len(base[s]) + i].id # m
    BY <1>2, <1>3, <1>5
  <1>7. entered \subseteq entered' /\ DOMAIN base'[s] = 1..Len(base[s]) + n
    BY <1>3, <1>5
  <1>8. \A i \in 1..Len(base[s]) : base'[s][i] = base[s][i]
    BY <1>3
  <1> QED
    BY <1>4, <1>6, <1>7, <1>8, BaseAppended

LEMMA SweepPacketWay ==
    ASSUME NEW m \in EchoIds, Typed, WayOK(m), NEW s \in Systems, SweepPacket(s), m \notin again'
    PROVE  WayOK(m)'
  <1> USE DEF run, spool
  <1>1. PICK k \in Links(s) :
            /\ base' = [base EXCEPT ![s] = Import(s, Readable(s, packet[s][k]), s)]
            /\ packet' = [packet EXCEPT ![s][k] = [Blank EXCEPT !.count = packet[s][k].count]]
            /\ again' = again \cup ToSet(packet[s][k].ids)
    BY DEF SweepPacket
  <1>2. UNCHANGED <<entered, phase, at, files, spool, day, faults, fresh>>
    BY DEF SweepPacket
  <1>3. packet[s][k].ids \in Seq(Ids)
    BY DEF Typed, TypedPacket, Drafts
  <1>4. m \notin ToSet(packet[s][k].ids)
    BY <1>1
  <1>5. m \notin ToSet(Readable(s, packet[s][k]))
    BY <1>3, <1>4, ReadableIn
  <1>6. BaseStill(m)
    BY <1>1, <1>2, <1>3, <1>5, ImportStill DEF Imports
  <1>7. ASSUME NEW r \in Systems, NEW l \in Links(r), Packed(m, r, l)'
        PROVE  packet'[r][l] = packet[r][l]
    <2>1. CASE r = s /\ l = k
      <3>1. packet'[s][k].ids = <<>>
        BY <1>1 DEF Blank, Typed, TypedPacket
      <3> QED
        BY <1>7, <2>1, <3>1 DEF Packed, Held, ToSet
    <2> QED
      BY <1>1, <2>1 DEF Typed, TypedPacket
  <1>8. PacketStill(m)
    BY <1>7, LinksType DEF PacketStill, Packed, Held, WayOK, PackedOK
  <1> QED
    BY <1>2, <1>6, <1>8, SpoolSame, InboundSame, FilesSame, FreshSame, Frame DEF PhaseKept

LEMMA KillWay ==
    ASSUME NEW m \in EchoIds, Typed, WayOK(m), NEW s \in Systems, Kill(s), m \notin again'
    PROVE  WayOK(m)'
  <1> USE DEF run, spool
  <1>1. m \notin fresh[s]
    BY DEF Kill
  <1>2. BaseStill(m)
    <2>1. CASE base' = base
      BY <2>1, BaseSame DEF Kill
    <2>2. ASSUME NEW i \in DOMAIN files[s], NEW whole \in BOOLEAN,
                 NEW k \in DOMAIN Readable(s, files[s][i]),
                 base' = [base EXCEPT ![s] = base[s] \o Partly(s, files[s][i], k, whole)],
                 again' = again \cup fresh[s] \cup ToSet(SubSeq(files[s][i].ids, 1, k))
          PROVE  BaseStill(m)
      <3> DEFINE r == Partly(s, files[s][i], k, whole)
                 q == files[s][i].ids
      <3>1. /\ k \in 1..Len(q) /\ q \in Seq(Ids) /\ r \in Seq(Entries) /\ Len(r) = k
            /\ \A j \in 1..k : r[j].id = q[j]
        BY PartlyType
      <3>2. \A j \in 1..k : q[j] # m
        <4>1. m \notin ToSet(SubSeq(q, 1, k))
          BY <2>2
        <4> HIDE DEF q
        <4> QED
          BY <3>1, <4>1, BeginningOf
      <3>3. base[s] \in Seq(Entries) /\ base \in [Systems -> Seq(Entries)]
        BY DEF Typed, TypedBase
      <3>4. base' = [base EXCEPT ![s] = base[s] \o r]
        BY <2>2
      <3> HIDE DEF r, q
      <3>5. /\ DOMAIN base' = Systems /\ \A x \in Systems \ {s} : base'[x] = base[x]
            /\ base'[s] = base[s] \o r
        BY <3>3, <3>4
      <3>6. /\ DOMAIN (base[s] \o r) = 1..Len(base[s]) + k
            /\ \A j \in 1..Len(base[s]) : (base[s] \o r)[j] = base[s][j]
        BY <3>1, <3>3
      <3>7. \A j \in 1..k : (base[s] \o r)[Len(base[s]) + j] = r[j]
        BY <3>1, <3>3
      <3>9. \A j \in 1..k : base'[s][Len(base[s]) + j].id # m
        <4> SUFFICES ASSUME NEW j \in 1..k PROVE base'[s][Len(base[s]) + j].id # m
          OBVIOUS
        <4>1. base'[s][Len(base[s]) + j] = (base[s] \o r)[Len(base[s]) + j]
          BY <3>5, Zenon
        <4>2. base'[s][Len(base[s]) + j] = r[j]
          BY <3>7, <4>1, Zenon
        <4> QED
          BY <3>1, <3>2, <4>2, Zenon
      <3>10. DOMAIN base'[s] = 1..Len(base[s]) + k /\ \A j \in 1..Len(base[s]) : base'[s][j] = base[s][j]
        BY <3>5, <3>6
      <3>8. entered \subseteq entered' /\ k \in Nat
        BY <3>1 DEF Kill
      <3> QED
        BY <3>5, <3>8, <3>9, <3>10, BaseAppended
    <2> QED
      BY <2>1, <2>2 DEF Kill
  <1>3. ASSUME NEW r \in Systems, NEW l \in Links(r), Packed(m, r, l)'
        PROVE  packet'[r][l] = packet[r][l]
    <2>1. packet' = [packet EXCEPT ![s] = NoPackets(s)]
      BY DEF Kill
    <2>2. CASE r = s
      <3>1. packet'[s][l].ids = <<>>
        BY <2>1, <2>2 DEF NoPackets, Blank, Typed, TypedPacket
      <3> QED
        BY <1>3, <2>2, <3>1 DEF Packed, Held, ToSet
    <2> QED
      BY <2>1, <2>2 DEF Typed, TypedPacket
  <1>4. PacketStill(m)
    BY <1>3, LinksType DEF PacketStill, Packed, Held, WayOK, PackedOK
  <1>5. FilesStill(m)
    <2> SUFFICES ASSUME NEW l \in Systems, Unread(m, l)'
                 PROVE  /\ Unread(m, l) /\ phase'[l] = phase[l]
                        /\ Single(files'[l], m) /\ From(files'[l], m, Up(m)[l])
      BY DEF FilesStill
    <2>1. files' = [files EXCEPT ![s] = <<>>] /\ phase' = [phase EXCEPT ![s] = "idle"]
      BY DEF Kill, Become
    <2>2. l # s
      BY <2>1 DEF Unread, InArchive, Typed, TypedFiles
    <2>3. files'[l] = files[l] /\ phase'[l] = phase[l]
      BY <2>1, <2>2 DEF Typed, TypedFiles, TypedPhase
    <2> QED
      BY <2>3 DEF Unread, WayOK, UnreadOK
  <1>6. FreshStill(m)
    BY <1>1 DEF FreshStill, Kill, Become, Typed, TypedFresh, TypedPhase
  <1> QED
    BY <1>2, <1>4, <1>5, <1>6, SpoolSame, InboundSame, Frame DEF Kill

-----------------------------------------------------------------------------
(* Steps that move a message.                                                *)

\* One that is written is nowhere yet.
LEMMA EnterWay ==
    ASSUME NEW m \in EchoIds, Typed, WayOK(m), NEW s \in Systems, Enter(s)
    PROVE  WayOK(m)'
  <1> USE DEF run, spool
  <1>1. PICK x \in Ids \ entered :
            /\ Home(x) = s /\ entered' = entered \cup {x}
            /\ base' = [base EXCEPT ![s] = Append(base[s], Entry(x, Nobody, FALSE))]
    BY DEF Enter, Home
  <1>2. UNCHANGED <<phase, at, packet, files, inbound, outbound, flow, fresh>>
    BY DEF Enter
  <1> DEFINE n == Len(base[s]) + 1
  <1>3. /\ DOMAIN base[s] = 1..Len(base[s]) /\ Len(base[s]) \in Nat /\ DOMAIN base = Systems
        /\ base[s] \in Seq(Entries)
    BY DEF Typed, TypedBase
  <1>4. PICK e : e.id = x /\ e.from = Nobody /\ base' = [base EXCEPT ![s] = Append(base[s], e)]
    BY <1>1 DEF Entry
  <1>5. /\ DOMAIN base' = Systems /\ \A r \in Systems \ {s} : base'[r] = base[r]
        /\ base'[s] = Append(base[s], e)
    BY <1>3, <1>4
  <1>6. /\ DOMAIN base'[s] = 1..n /\ \A i \in 1..Len(base[s]) : base'[s][i] = base[s][i]
        /\ base'[s][n] = e
    BY <1>3, <1>5
  <1>7. CASE x # m
    <2>1. \A i \in 1..1 : base'[s][Len(base[s]) + i].id # m
      BY <1>4, <1>6, <1>7
    <2>3. entered \subseteq entered' /\ DOMAIN base'[s] = 1..Len(base[s]) + 1
      BY <1>1, <1>6
    <2>4. \A i \in 1..Len(base[s]) : base'[s][i] = base[s][i]
      BY <1>6
    <2>5. DOMAIN base' = Systems /\ \A r \in Systems \ {s} : base'[r] = base[r]
      BY <1>5
    <2>2. BaseStill(m)
      BY <2>1, <2>3, <2>4, <2>5, BaseAppended
    <2> QED
      BY <1>2, <2>2, PacketSame, SpoolSame, InboundSame, FilesSame, FreshSame, Frame DEF PhaseKept
  <1>8. CASE x = m
    <2>1. \A r \in Systems : ~Has(r, m)
      BY <1>1, <1>8 DEF WayOK, BaseOK
    <2>2. \A l \in Systems : \A b \in DOMAIN inbound[l] : ~Came(m, l, b)
      BY <2>1 DEF WayOK, CameOK
    <2>3. \A l \in Systems : ~Unread(m, l) /\ m \notin fresh[l]
      BY <2>2 DEF WayOK, UnreadOK, FreshOK, Opened
    <2>4. \A r \in Systems : \A l \in Links(r) : ~Packed(m, r, l) /\ \A d \in 0..Days - 1 : ~Spooled(m, r, l, d)
      BY <2>1, LinksType DEF WayOK, PackedOK, SpooledOK
    <2>5. \A r \in Systems \ {s} : Copies(r, m)' = {}
      BY <1>5, <2>1 DEF Has, Copies
    <2>6. Copies(s, m)' = {n}
      BY <1>3, <1>4, <1>6, <1>8, <2>1 DEF Has, Copies
    <2>7. Up(m)[s] = Nobody /\ Nobody \notin Systems
      BY <1>1, <1>8, UpType, TosserAssumption DEF IsUp
    <2>8. \A l \in Systems : \A b \in DOMAIN inbound'[l] : ~Came(m, l, b)'
      BY <1>2, <2>2 DEF Came
    <2>9. \A l \in Systems : ~Unread(m, l)' /\ m \notin fresh'[l]
      BY <1>2, <2>3 DEF Unread
    <2>10. \A r \in Systems : \A l \in Links(r) : ~Packed(m, r, l)' /\ \A d \in 0..Days - 1 : ~Spooled(m, r, l, d)'
      BY <1>2, <2>4 DEF Packed, Held, Spooled
    <2>11. \A l \in Systems : BaseOK(m, l)'
      <3> SUFFICES ASSUME NEW l \in Systems PROVE BaseOK(m, l)'
        OBVIOUS
      <3>1. CASE l = s
        BY <1>1, <1>4, <1>6, <1>8, <2>6, <2>7, <3>1 DEF BaseOK, Has
      <3>2. CASE l # s
        BY <2>5, <3>2 DEF BaseOK, Has
      <3> QED
        BY <3>1, <3>2
    <2>12. \A r, l \in Systems : Up(m)[l] = r /\ Waits(m, r)' => ~Has(l, m)'
      BY <2>5, <2>7 DEF Waits, Has
    <2>13. \A l \in Systems : CameOK(m, l)' /\ UnreadOK(m, l)' /\ FreshOK(m, l)'
      BY <2>8, <2>9 DEF CameOK, UnreadOK, FreshOK
    <2>14. \A r \in Systems : \A l \in Links(r) : PackedOK(m, r, l)' /\ SpooledOK(m, r, l)' /\ WaitsOK(m, r, l)'
      BY <2>8, <2>10, <2>12, LinksType DEF PackedOK, SpooledOK, WaitsOK
    <2> QED
      BY <2>11, <2>13, <2>14 DEF WayOK
  <1> QED
    BY <1>7, <1>8

\* What is unpacked is what has come in.
LEMMA TakeArchiveWay ==
    ASSUME NEW m \in EchoIds, Typed, WayOK(m), NEW s \in Systems, TakeArchive(s)
    PROVE  WayOK(m)'
  <1> USE DEF run, spool
  <1>1. /\ phase[s] = "inbound" /\ phase' = [phase EXCEPT ![s] = "packet"]
        /\ UNCHANGED <<entered, base, packet, outbound, inbound, fresh>>
    BY DEF TakeArchive, Become
  <1>2. files' = [files EXCEPT ![s] = Head(inbound[s])] \/ files' = files
    BY DEF TakeArchive
  <1>3. ~Unread(m, s) /\ fresh[s] = {}
    BY <1>1, NothingUnpacked
  <1>4. inbound[s] \in Seq(Seq(Packets)) /\ inbound[s] # <<>>
    BY DEF TakeArchive, Typed, TypedInbound, TypedPhase, Taken
  <1>5. 1 \in DOMAIN inbound[s] /\ Head(inbound[s]) = inbound[s][1]
    BY <1>4
  <1>6. BaseStill(m) /\ PacketStill(m) /\ SpoolStill(m) /\ InboundStill(m) /\ InboundLess(m)
    BY <1>1, BaseSame, PacketSame, SpoolSame, InboundSame, SameInbound DEF InboundLess
  <1>7. FreshStill(m)
    BY <1>1, <1>3 DEF FreshStill, Typed, TypedPhase
  <1>8. ASSUME NEW l \in Systems PROVE UnreadOK(m, l)'
    <2> SUFFICES ASSUME Unread(m, l)' PROVE UnreadOK(m, l)'
      BY DEF UnreadOK
    <2>1. Has(l, m)' <=> Has(l, m)
      BY <1>6, SameCopies
    <2>2. CASE l = s
      <3>1. files'[s] = inbound[s][1]
        BY <1>2, <1>3, <1>5, <2>2 DEF Unread, Typed, TypedFiles
      <3>2. Came(m, s, 1)
        BY <2>2, <3>1 DEF Unread, Came
      <3>3. CameOK(m, s)
        BY DEF WayOK
      <3>4. /\ ~Has(s, m)
            /\ Single(inbound[s][1], m) /\ From(inbound[s][1], m, Up(m)[s])
        BY <1>3, <1>5, <3>2, <3>3 DEF CameOK
      <3>5. Opened(m, s)'
        BY <1>1, <1>5, <3>2 DEF Opened, Came, Typed, TypedPhase
      <3> QED
        BY <2>1, <2>2, <3>1, <3>4, <3>5 DEF UnreadOK, Single, From, Once
    <2>3. CASE l # s
      <3>1. files'[l] = files[l] /\ phase'[l] = phase[l]
        BY <1>1, <1>2, <2>3 DEF Typed, TypedFiles, TypedPhase
      <3>2. Unread(m, l)
        BY <3>1 DEF Unread
      <3>3. UnreadOK(m, l)
        BY DEF WayOK
      <3> QED
        BY <1>6, <2>1, <3>1, <3>2, <3>3, SameInbound DEF UnreadOK, Single, From, Once
    <2> QED
      BY <2>2, <2>3
  <1> QED
    BY <1>6, <1>7, <1>8, BaseFrame, PackedFrame, CameFrame DEF WayOK

\* An archive that is done with: what was read of it is in the base, the rest is dropped.
LEMMA EndArchiveWay ==
    ASSUME NEW m \in EchoIds, Typed, WayOK(m), NEW s \in Systems, EndArchive(s)
    PROVE  WayOK(m)'
  <1> USE DEF run, spool
  <1>1. /\ phase[s] = "packet" /\ phase' = [phase EXCEPT ![s] = "inbound"] /\ files[s] = <<>>
        /\ inbound' = [inbound EXCEPT ![s] = Tail(inbound[s])]
        /\ fresh' = [fresh EXCEPT ![s] = {}]
        /\ UNCHANGED <<entered, base, packet, files, outbound>>
    BY DEF EndArchive, Become
  <1>2. inbound[s] \in Seq(Seq(Packets)) /\ inbound[s] # <<>> /\ DOMAIN inbound = Systems
    BY DEF EndArchive, Typed, TypedInbound, TypedPhase, Taken
  <1>3. \A b \in DOMAIN Tail(inbound[s]) : b + 1 \in DOMAIN inbound[s] /\ Tail(inbound[s])[b] = inbound[s][b + 1]
    BY <1>2
  <1>4. inbound'[s] = Tail(inbound[s]) /\ \A l \in Systems \ {s} : inbound'[l] = inbound[l]
    BY <1>1, <1>2
  <1>5. \A b \in DOMAIN inbound'[s] : Came(m, s, b)' => b + 1 \in DOMAIN inbound[s] /\ Came(m, s, b + 1)
    BY <1>3, <1>4 DEF Came
  <1>6. \A l \in Systems \ {s} : \A b : Came(m, l, b)' <=> Came(m, l, b)
    BY <1>4 DEF Came
  <1>7. InboundLess(m)
    <2> SUFFICES ASSUME NEW l \in Systems, NEW b \in DOMAIN inbound'[l], Came(m, l, b)'
                 PROVE  \E c \in DOMAIN inbound[l] : Came(m, l, c)
      BY DEF InboundLess
    <2>1. CASE l = s
      BY <1>5, <2>1
    <2>2. CASE l # s
      BY <1>4, <1>6, <2>2
    <2> QED
      BY <2>1, <2>2
  <1>8. BaseStill(m) /\ PacketStill(m) /\ SpoolStill(m)
    BY <1>1, BaseSame, PacketSame, SpoolSame
  <1>9. ASSUME NEW l \in Systems, l # s
        PROVE  phase'[l] = phase[l] /\ fresh'[l] = fresh[l] /\ files'[l] = files[l] /\ inbound'[l] = inbound[l]
    BY <1>1, <1>4, <1>9 DEF Typed, TypedPhase, TypedFresh
  <1>10. fresh'[s] = {} /\ ~Unread(m, s)'
    BY <1>1 DEF Unread, InArchive, Typed, TypedFresh
  <1>11. ASSUME NEW l \in Systems PROVE CameOK(m, l)' /\ UnreadOK(m, l)' /\ FreshOK(m, l)'
    <2>1. CameOK(m, l) /\ UnreadOK(m, l) /\ FreshOK(m, l)
      BY DEF WayOK
    <2>2. Has(l, m)' <=> Has(l, m)
      BY <1>8, SameCopies
    <2>3. Up(m)[l] \in Systems => (Has(Up(m)[l], m)' <=> Has(Up(m)[l], m))
      BY <1>8, SameCopies
    <2>4. CASE l = s
      <3> SUFFICES ASSUME NEW b \in DOMAIN inbound'[s], Came(m, s, b)'
                   PROVE  /\ Up(m)[s] \in Systems /\ Has(Up(m)[s], m)' /\ s # Home(m)
                          /\ Single(inbound'[s][b], m) /\ From(inbound'[s][b], m, Up(m)[s])
                          /\ \A c \in DOMAIN inbound'[s] : Came(m, s, c)' => c = b
                          /\ ~Has(s, m)'
        BY <1>10, <2>4 DEF CameOK, UnreadOK, FreshOK
      <3>1. b + 1 \in DOMAIN inbound[s] /\ Came(m, s, b + 1) /\ inbound'[s][b] = inbound[s][b + 1]
        BY <1>3, <1>4, <1>5
      <3>2. /\ Up(m)[s] \in Systems /\ Has(Up(m)[s], m) /\ s # Home(m)
            /\ Single(inbound[s][b + 1], m) /\ From(inbound[s][b + 1], m, Up(m)[s])
            /\ \A c \in DOMAIN inbound[s] : Came(m, s, c) => c = b + 1
            /\ Has(s, m) => m \in fresh[s]
        BY <2>1, <2>4, <3>1 DEF CameOK
      <3>3. b \in Nat \ {0} /\ DOMAIN inbound'[s] \subseteq Nat
        BY <1>2, <1>4
      <3>4. \A c \in DOMAIN inbound'[s] : Came(m, s, c)' => c = b
        <4> SUFFICES ASSUME NEW c \in DOMAIN inbound'[s], Came(m, s, c)' PROVE c = b
          OBVIOUS
        <4>1. c + 1 = b + 1
          BY <1>5, <3>2
        <4> QED
          BY <3>3, <4>1
      <3>5. m \notin fresh[s]
        BY <2>1, <2>4, <3>2, <3>3 DEF FreshOK, Opened
      <3> QED
        BY <2>2, <2>3, <2>4, <3>1, <3>2, <3>4, <3>5 DEF Single, From, Once
    <2>5. CASE l # s
      <3>1. phase'[l] = phase[l] /\ fresh'[l] = fresh[l] /\ files'[l] = files[l] /\ inbound'[l] = inbound[l]
        BY <1>9, <2>5
      <3>2. \A b : Came(m, l, b)' <=> Came(m, l, b)
        BY <1>6, <2>5
      <3>3. Unread(m, l)' <=> Unread(m, l)
        BY <3>1 DEF Unread
      <3>4. Opened(m, l)' <=> Opened(m, l)
        BY <3>1, <3>2 DEF Opened
      <3>5. CameOK(m, l)'
        BY <2>1, <2>2, <2>3, <3>1, <3>2 DEF CameOK, Single, From, Once
      <3>6. UnreadOK(m, l)'
        BY <2>1, <2>2, <3>1, <3>3, <3>4 DEF UnreadOK, Single, From, Once
      <3>7. FreshOK(m, l)'
        BY <2>1, <2>2, <3>1, <3>4 DEF FreshOK
      <3> QED
        BY <3>5, <3>6, <3>7
    <2> QED
      BY <2>4, <2>5
  <1> QED
    BY <1>7, <1>8, <1>11, BaseFrame, PackedFrame DEF WayOK

\* A sequence that gets copies of a message.
Extended(r, q, x, n) == r = q \o [i \in 1..n |-> x]

LEMMA Appended ==
    ASSUME NEW q \in Seq(Ids), NEW n \in Nat, NEW x \in Ids, NEW m,
           NEW r, Extended(r, q, x, n)
    PROVE  /\ x # m => (m \in ToSet(r) => m \in ToSet(q)) /\ (Once(q, m) => Once(r, m))
           /\ n = 1 /\ x = m /\ m \notin ToSet(q) => Once(r, m)
  <1> DEFINE y == [i \in 1..n |-> x]
  <1>1. y \in Seq(Ids) /\ Len(y) = n /\ \A i \in 1..n : y[i] = x
    OBVIOUS
  <1>8. r = q \o y
    BY DEF Extended
  <1> HIDE DEF y
  <1>2. /\ q \o y \in Seq(Ids) /\ Len(q \o y) = Len(q) + n
        /\ \A i \in 1..Len(q) : (q \o y)[i] = q[i]
        /\ \A i \in 1..Len(q) + n : i \notin 1..Len(q) => (q \o y)[i] = y[i - Len(q)]
    BY <1>1
  <1>9. /\ r \in Seq(Ids) /\ Len(r) = Len(q) + n
        /\ \A i \in 1..Len(q) : r[i] = q[i]
        /\ \A i \in 1..Len(q) + n : i \notin 1..Len(q) => r[i] = y[i - Len(q)]
    BY <1>2, <1>8, Zenon
  <1>3. ASSUME NEW i \in 1..Len(r), i \notin 1..Len(q) PROVE r[i] = x
    <2>1. i - Len(q) \in 1..n
      BY <1>9, <1>3
    <2>2. r[i] = y[i - Len(q)]
      BY <1>9, <1>3
    <2> QED
      BY <1>1, <2>1, <2>2
  <1>4. Len(q) \in Nat /\ DOMAIN q = 1..Len(q) /\ DOMAIN r = 1..Len(q) + n
    BY <1>9
  <1>5. x # m => (m \in ToSet(r) => m \in ToSet(q))
    BY <1>9, <1>3, InSeq
  <1>6. x # m /\ Once(q, m) => Once(r, m)
    BY <1>9, <1>3, <1>4 DEF Once
  <1>7. n = 1 /\ m \notin ToSet(q) => Once(r, m)
    <2> SUFFICES ASSUME n = 1, m \notin ToSet(q), NEW i \in DOMAIN r, r[i] = m
                 PROVE  i = Len(q) + 1
      BY DEF Once
    <2>1. i \notin 1..Len(q)
      BY <1>9, InSeq
    <2> QED
      BY <1>4, <2>1
  <1> QED
    BY <1>5, <1>6, <1>7

\* A message that is exported is written once for each link it did not come from.
LEMMA ExportHeaderWay ==
    ASSUME NEW m \in EchoIds, Typed, WayOK(m), NEW s \in Systems, ExportHeader(s)
    PROVE  WayOK(m)'
  <1> USE DEF run, spool
  <1> DEFINE i == at[s] + 1
             e == base[s][i]
  <1>1. UNCHANGED <<entered, phase, files, inbound, outbound, fresh>> /\ PhaseKept
    BY DEF ExportHeader, PhaseKept
  <1>2. CASE UNCHANGED <<packet, base>>
    BY <1>1, <1>2, QuietWay
  <1>3. ASSUME e.out,
               packet' = [packet EXCEPT ![s] = [l \in Links(s) |-> Written(packet[s][l], e.id, Times(s, e, l))]],
               base' = [base EXCEPT ![s][i].out = FALSE]
        PROVE  WayOK(m)'
    <2>1. i \in DOMAIN base[s] /\ i \in 1..Len(base[s]) /\ base[s] \in Seq(Entries)
      BY DEF ExportHeader, Typed, TypedBase, TypedPhase
    <2>2. e \in Entries /\ e.id \in Ids
      BY <2>1, EntryType DEF Entries
    <2>3. /\ DOMAIN base'[s] = DOMAIN base[s] /\ \A r \in Systems \ {s} : base'[r] = base[r]
          /\ \A j \in DOMAIN base[s] : j # i => base'[s][j] = base[s][j]
          /\ base'[s][i] = [base[s][i] EXCEPT !.out = FALSE]
      BY <1>3, <2>1 DEF Typed, TypedBase
    <2>4. base'[s][i].id = e.id /\ base'[s][i].from = e.from /\ ~base'[s][i].out
      BY <2>2, <2>3 DEF Entries
    <2>5. BaseStill(m)
      <3>1. Copies(s, m)' = Copies(s, m)
        BY <2>3, <2>4 DEF Copies
      <3>2. \A r \in Systems \ {s} : Copies(r, m)' = Copies(r, m)
        BY <2>3 DEF Copies
      <3>3. \A j \in Copies(s, m) : base'[s][j].from = base[s][j].from /\ (base'[s][j].out => base[s][j].out)
        BY <2>3, <2>4 DEF Copies
      <3>4. \A r \in Systems \ {s} : \A j \in Copies(r, m) : base'[r][j] = base[r][j]
        BY <2>3
      <3> QED
        BY <1>1, <3>1, <3>2, <3>3, <3>4 DEF BaseStill
    <2>6. /\ \A r \in Systems \ {s} : packet'[r] = packet[r]
          /\ \A l \in Links(s) : packet'[s][l] = Written(packet[s][l], e.id, Times(s, e, l))
      BY <1>3, SMTT(60) DEF Typed, TypedPacket
    <2> HIDE DEF e
    <2>7. ASSUME NEW l \in Links(s), Times(s, e, l) # 0
          PROVE  packet'[s][l].ids = packet[s][l].ids \o [j \in 1..Times(s, e, l) |-> e.id]
      <3>1. packet[s][l] \in Drafts
        BY DEF Typed, TypedPacket
      <3> QED
        BY <2>6, <2>7, <3>1 DEF Written, Drafts
    <2>8. ASSUME NEW l \in Links(s), Times(s, e, l) = 0 PROVE packet'[s][l] = packet[s][l]
      BY <2>6, <2>8 DEF Written
    <2>9. \A l \in Links(s) : packet[s][l].ids \in Seq(Ids) /\ l \in Systems
      BY LinksType DEF Typed, TypedPacket, Drafts
    <2>10. \A l \in Links(s) : Times(s, e, l) \in Nat
      BY <2>2, TimesType
    <2>11. \A r \in Systems : \A l \in Links(r) : Packed(m, r, l) => Once(packet[r][l].ids, m)
      BY LinksType DEF WayOK, PackedOK
    <2>12. CASE e.id # m
      <3>1. ASSUME NEW l \in Links(s), Packed(m, s, l)'
            PROVE  Packed(m, s, l) /\ Once(packet'[s][l].ids, m)
        <4>1. CASE Times(s, e, l) = 0
          BY <2>8, <2>11, <3>1, <4>1 DEF Packed, Held
        <4>2. CASE Times(s, e, l) # 0
          <5> DEFINE r == packet'[s][l].ids
                     q == packet[s][l].ids
                     n == Times(s, e, l)
          <5>1. Extended(r, q, e.id, n) /\ q \in Seq(Ids) /\ n \in Nat
            BY <2>7, <2>9, <2>10, <4>2 DEF Extended
          <5>2. m \in ToSet(r)
            BY <3>1 DEF Packed, Held
          <5> HIDE DEF r, q, n
          <5>3. m \in ToSet(q) /\ (Once(q, m) => Once(r, m))
            BY <2>2, <2>12, <5>1, <5>2, Appended
          <5> QED
            BY <2>11, <5>3 DEF q, r, Packed, Held
        <4> QED
          BY <4>1, <4>2
      <3>2. ASSUME NEW r \in Systems \ {s}, NEW l \in Links(r), Packed(m, r, l)'
            PROVE  Packed(m, r, l) /\ Once(packet'[r][l].ids, m)
        BY <2>6, <2>11, <3>2 DEF Packed, Held
      <3>3. PacketStill(m)
        BY <3>1, <3>2 DEF PacketStill
      <3> QED
        BY <1>1, <2>5, <3>3, SpoolSame, InboundSame, FilesSame, FreshSame, Frame
    <2>13. CASE e.id = m
      <3>1. i \in Copies(s, m) /\ \A j \in Copies(s, m) : j = i
        BY <2>1, <2>13 DEF Copies, e, WayOK, BaseOK
      <3>2. Waits(m, s) /\ Has(s, m) /\ Has(s, m)' /\ ~Waits(m, s)'
        BY <1>3, <2>4, <2>5, <3>1 DEF Waits, Has, BaseStill, e
      <3>3. e.from = Up(m)[s]
        BY <3>1 DEF e, WayOK, BaseOK
      <3>4. ASSUME NEW l \in Links(s), Times(s, e, l) # 0
            PROVE  Up(m)[l] = s /\ Times(s, e, l) = 1
        <4>1. Times(s, e, l) = 1 /\ l \in EchoTargets(s, e)
          BY <2>2, <2>13, <3>4, TimesType
        <4>2. l \in AreaLinks[s][Messages[m].area] \cap Links(s) /\ l # Up(m)[s]
          BY <2>13, <3>3, <4>1 DEF EchoTargets
        <4> QED
          BY <4>1, <4>2, UpType DEF IsUp
      <3>5. \A r \in Systems : (Has(r, m)' <=> Has(r, m)) /\ (Waits(m, r)' => Waits(m, r))
        BY <2>5, SameCopies
      <3>6. \A l \in Systems : \A b : Came(m, l, b)' <=> Came(m, l, b)
        BY <1>1 DEF Came
      <3>7. \A r, l, d : Spooled(m, r, l, d)' <=> Spooled(m, r, l, d)
        BY <1>1 DEF Spooled
      <3>8. InboundStill(m) /\ InboundLess(m) /\ SpoolStill(m) /\ FilesStill(m) /\ FreshStill(m)
        BY <1>1, SameInbound, InboundSame, SpoolSame, FilesSame, FreshSame DEF InboundLess
      <3>9. ASSUME NEW r \in Systems, NEW l \in Links(r)
            PROVE  PackedOK(m, r, l)' /\ SpooledOK(m, r, l)' /\ WaitsOK(m, r, l)'
        <4>1. l \in Systems
          BY LinksType
        <4>2. PackedOK(m, r, l) /\ SpooledOK(m, r, l) /\ WaitsOK(m, r, l)
          BY <4>1 DEF WayOK
        <4>3. CASE r # s \/ Times(s, e, l) = 0
          <5>1. packet'[r][l] = packet[r][l]
            BY <2>6, <2>8, <4>3
          <5>2. Packed(m, r, l)' <=> Packed(m, r, l)
            BY <5>1 DEF Packed, Held
          <5>3. PackedOK(m, r, l)'
            BY <1>1, <3>5, <3>6, <3>7, <4>1, <4>2, <5>1, <5>2 DEF PackedOK, Once
          <5>4. WaitsOK(m, r, l)'
            BY <1>1, <3>5, <3>6, <3>7, <4>1, <4>2, <5>2 DEF WaitsOK
          <5>5. SpooledOK(m, r, l)'
            BY <1>1, <3>5, <3>6, <3>8, <4>1, <4>2 DEF SpooledOK, SpoolStill
          <5> QED
            BY <5>3, <5>4, <5>5
        <4>4. CASE r = s /\ Times(s, e, l) # 0
          <5>1. Up(m)[l] = s /\ Times(s, e, l) = 1
            BY <3>4, <4>4
          <5>2. /\ ~Packed(m, s, l) /\ \A d \in 0..Days - 1 : ~Spooled(m, s, l, d)
                /\ ~Has(l, m) /\ \A b \in DOMAIN inbound[l] : ~Came(m, l, b)
            BY <3>2, <4>2, <4>4, <5>1 DEF WaitsOK
          <5>3. Once(packet'[s][l].ids, m)
            <6>1. Extended(packet'[s][l].ids, packet[s][l].ids, m, 1)
              BY <2>7, <2>13, <4>4, <5>1 DEF Extended
            <6>2. m \notin ToSet(packet[s][l].ids) /\ packet[s][l].ids \in Seq(Ids) /\ m \in Ids /\ 1 \in Nat
              BY <2>9, <4>4, <5>2, IdsType DEF Packed, Held
            <6> QED
              BY <6>1, <6>2, Appended
          <5>4. PackedOK(m, s, l)'
            BY <1>1, <3>2, <3>5, <3>6, <3>7, <4>1, <5>1, <5>2, <5>3 DEF PackedOK
          <5>5. WaitsOK(m, s, l)'
            BY <3>2 DEF WaitsOK
          <5>6. SpooledOK(m, s, l)'
            BY <3>7, <5>2 DEF SpooledOK
          <5> QED
            BY <4>4, <5>4, <5>5, <5>6
        <4> QED
          BY <4>3, <4>4
      <3> QED
        BY <2>5, <3>8, <3>9, BaseFrame, CameFrame, UnreadFrame DEF WayOK
    <2> QED
      BY <2>12, <2>13
  <1> QED
    BY <1>2, <1>3 DEF ExportHeader

\* The copy that is imported from a packet is the only one, and remembers the packet.
LEMMA ImportedCopy ==
    ASSUME Typed, NEW m, NEW s \in Systems, NEW p, p.ids \in Seq(Ids), NEW f \in Systems,
           m \in ToSet(Readable(s, p)), Once(p.ids, m), ~Has(s, m), Imports(s, p, f)
    PROVE  /\ \A r \in Systems \ {s} : base'[r] = base[r]
           /\ \E n : Copies(s, m)' = {n} /\ base'[s][n].from = f
  <1> DEFINE ms == Readable(s, p)
  <1>1. PICK k \in 0..Len(p.ids) : ms = SubSeq(p.ids, 1, k)
    BY ReadableType
  <1>2. ms \in Seq(Ids) /\ Len(ms) = k /\ \A i \in 1..k : ms[i] = p.ids[i]
    BY <1>1, Beginning
  <1>11. base'[s] = Import(s, ms, f)
    BY DEF Typed, TypedBase, Imports
  <1>12. /\ Import(s, ms, f) \in Seq(Entries) /\ Len(Import(s, ms, f)) = Len(base[s]) + Len(ms)
         /\ \A i \in 1..Len(base[s]) : Import(s, ms, f)[i] = base[s][i]
         /\ \A i \in 1..Len(ms) : LET e == Import(s, ms, f)[Len(base[s]) + i] IN  e.id = ms[i] /\ e.from = f
    BY <1>2, ImportType, ZenonT(60)
  <1>3. /\ base'[s] \in Seq(Entries) /\ Len(base'[s]) = Len(base[s]) + Len(ms)
        /\ \A i \in 1..Len(base[s]) : base'[s][i] = base[s][i]
        /\ \A i \in 1..Len(ms) : LET e == base'[s][Len(base[s]) + i] IN  e.id = ms[i] /\ e.from = f
    BY <1>11, <1>12
  <1>4. \A r \in Systems \ {s} : base'[r] = base[r]
    BY DEF Typed, TypedBase, Imports
  <1> HIDE DEF ms
  <1>5. /\ k \in Nat /\ 1..k \subseteq DOMAIN p.ids
        /\ Len(base[s]) \in Nat /\ DOMAIN base[s] = 1..Len(base[s])
        /\ DOMAIN base'[s] = 1..Len(base[s]) + k
    BY <1>2, <1>3 DEF Typed, TypedBase
  <1>6. PICK j \in 1..k : ms[j] = m
    BY <1>2, InSeq DEF ms
  <1>7. \A i \in 1..k : ms[i] = m => i = j
    BY <1>2, <1>5, <1>6 DEF Once
  <1> DEFINE n == Len(base[s]) + j
  <1>8. n \in DOMAIN base'[s] /\ base'[s][n].id = m /\ base'[s][n].from = f
    BY <1>2, <1>3, <1>5, <1>6, SMTT(60)
  <1>9. ASSUME NEW i \in DOMAIN base'[s], base'[s][i].id = m PROVE i = n
    <2>1. i \notin 1..Len(base[s])
      BY <1>3, <1>5, <1>9 DEF Has, Copies
    <2>2. i - Len(base[s]) \in 1..k /\ i = Len(base[s]) + (i - Len(base[s]))
      BY <1>5, <2>1
    <2>3. ms[i - Len(base[s])] = m
      BY <1>2, <1>3, <1>9, <2>2
    <2> QED
      BY <1>5, <1>6, <1>7, <2>2, <2>3
  <1>10. Copies(s, m)' = {n}
    BY <1>8, <1>9 DEF Copies
  <1> QED
    BY <1>4, <1>8, <1>10

\* A packet is read: the message moves from the files to the base.
LEMMA ReadPacketWay ==
    ASSUME NEW m \in EchoIds, Typed, WayOK(m), NEW s \in Systems, ReadPacket(s)
    PROVE  WayOK(m)'
  <1> USE DEF run, spool
  <1>1. PICK i \in DOMAIN files[s] :
            /\ Imports(s, files[s][i], files[s][i].from)
            /\ files' = [files EXCEPT ![s] = RemoveAt(files[s], i)]
            /\ fresh' = [fresh EXCEPT ![s] = fresh[s] \cup ToSet(Readable(s, files[s][i]))]
    BY DEF ReadPacket, Imports
  <1>2. phase[s] = "packet" /\ UNCHANGED <<entered, phase, packet, outbound, inbound>>
    BY DEF ReadPacket
  <1> DEFINE p == files[s][i]
             ms == Readable(s, p)
  <1>3. p.ids \in Seq(Ids) /\ p.from \in Systems /\ files[s] \in Seq(Packets) /\ i \in 1..Len(files[s])
    BY FileType DEF Typed, TypedFiles
  <1>4. /\ files'[s] = RemoveAt(files[s], i) /\ \A l \in Systems \ {s} : files'[l] = files[l]
        /\ fresh'[s] = fresh[s] \cup ToSet(ms) /\ \A l \in Systems \ {s} : fresh'[l] = fresh[l]
    BY <1>1 DEF Typed, TypedFiles, TypedFresh
  <1>5. Imports(s, p, p.from)
    BY <1>1
  <1> HIDE DEF p
  <1>6. UnreadOK(m, s) /\ CameOK(m, s)
    BY DEF WayOK
  <1>7. CASE m \notin ToSet(ms)
    <2>1. BaseStill(m)
      BY <1>2, <1>3, <1>5, <1>7, ImportStill
    <2>2. FreshStill(m)
      BY <1>2, <1>4, <1>7 DEF FreshStill
    <2>3. ASSUME NEW l \in Systems, Unread(m, l)'
          PROVE  /\ Unread(m, l) /\ phase'[l] = phase[l]
                 /\ Single(files'[l], m) /\ From(files'[l], m, Up(m)[l])
      <3>1. CASE l = s
        <4>1. m \in InArchive(RemoveAt(files[s], i))
          BY <1>4, <2>3, <3>1 DEF Unread
        <4>2. Unread(m, s)
          BY <1>3, <4>1, ArchiveRemoved DEF Unread
        <4>3. Single(files[s], m) /\ From(files[s], m, Up(m)[s])
          BY <1>6, <4>2 DEF UnreadOK
        <4>4. Single(RemoveAt(files[s], i), m) /\ From(RemoveAt(files[s], i), m, Up(m)[s])
          BY <1>3, <4>3, ArchiveRemoved
        <4> QED
          BY <1>2, <1>4, <3>1, <4>2, <4>4
      <3>2. CASE l # s
        <4>1. Unread(m, l) /\ files'[l] = files[l]
          BY <1>4, <2>3, <3>2 DEF Unread
        <4>2. UnreadOK(m, l)
          BY DEF WayOK
        <4> QED
          BY <1>2, <4>1, <4>2 DEF UnreadOK
      <3> QED
        BY <3>1, <3>2
    <2>4. FilesStill(m)
      BY <2>3 DEF FilesStill
    <2> QED
      BY <1>2, <2>1, <2>2, <2>4, PacketSame, SpoolSame, InboundSame, Frame
  <1>8. CASE m \in ToSet(ms)
    <2> DEFINE t == Up(m)[s]
    <2>1. m \in ToSet(p.ids)
      BY <1>3, <1>8, ReadableIn
    <2>2. Unread(m, s)
      BY <2>1, InArchives DEF Unread, p
    <2>3. Opened(m, s) /\ ~Has(s, m) /\ Single(files[s], m) /\ From(files[s], m, t)
      BY <1>6, <2>2 DEF UnreadOK
    <2>4. Once(p.ids, m) /\ p.from = t
      BY <2>1, <2>3 DEF p, Single, From
    <2>5. t \in Systems /\ Has(t, m) /\ s # Home(m) /\ Came(m, s, 1) /\ 1 \in DOMAIN inbound[s]
      BY <1>6, <2>3 DEF CameOK, Opened
    <2>6. t # s
      BY <2>3, <2>5
    <2> HIDE DEF ms
    <2>7. /\ \A r \in Systems \ {s} : base'[r] = base[r]
          /\ \E n : Copies(s, m)' = {n} /\ base'[s][n].from = t
      BY <1>3, <1>5, <1>8, <2>3, <2>4, ImportedCopy DEF ms
    <2>8. /\ \A r \in Systems \ {s} : Copies(r, m)' = Copies(r, m) /\ (Has(r, m)' <=> Has(r, m))
                                      /\ (Waits(m, r)' <=> Waits(m, r))
          /\ Has(s, m)'
      BY <2>7 DEF Copies, Has, Waits
    <2>9. \A r \in Systems : Has(r, m) => Has(r, m)'
      BY <2>8
    <2>10. \A l \in Systems : \A b : Came(m, l, b)' <=> Came(m, l, b)
      BY <1>2 DEF Came
    <2>11. \A r, l : Packed(m, r, l)' <=> Packed(m, r, l)
      BY <1>2 DEF Packed, Held
    <2>12. \A r, l, d : Spooled(m, r, l, d)' <=> Spooled(m, r, l, d)
      BY <1>2 DEF Spooled
    <2>13. ~Unread(m, s)'
      BY <1>3, <1>4, <2>1, <2>3, ArchiveRemoved DEF Unread, p
    <2>14. ASSUME NEW l \in Systems PROVE BaseOK(m, l)'
      <3>1. BaseOK(m, l) /\ BaseOK(m, t)
        BY <2>5 DEF WayOK
      <3>2. CASE l = s
        BY <1>2, <2>5, <2>7, <2>9, <3>1, <3>2 DEF BaseOK
      <3>3. CASE l # s
        <4>1. \A j : base'[l][j] = base[l][j]
          BY <2>7, <3>3
        <4> QED
          BY <1>2, <2>8, <2>9, <3>1, <3>3, <4>1 DEF BaseOK
      <3> QED
        BY <3>2, <3>3
    <2>15. ASSUME NEW l \in Systems PROVE CameOK(m, l)' /\ UnreadOK(m, l)' /\ FreshOK(m, l)'
      <3>1. CameOK(m, l) /\ UnreadOK(m, l) /\ FreshOK(m, l)
        BY DEF WayOK
      <3>2. CASE l = s
        <4>1. m \in fresh'[s]
          BY <1>4, <1>8
        <4>2. CameOK(m, s)'
          BY <1>2, <2>9, <2>10, <3>1, <3>2, <4>1 DEF CameOK, Single, From, Once
        <4>3. Opened(m, s)'
          BY <1>2, <2>3, <2>10 DEF Opened
        <4> QED
          BY <2>8, <2>13, <3>2, <4>2, <4>3 DEF UnreadOK, FreshOK
      <3>3. CASE l # s
        <4>1. files'[l] = files[l] /\ fresh'[l] = fresh[l] /\ (Has(l, m)' <=> Has(l, m))
          BY <1>4, <2>8, <3>3
        <4>2. Opened(m, l)' <=> Opened(m, l)
          BY <1>2, <2>10 DEF Opened
        <4>3. CameOK(m, l)'
          BY <1>2, <2>9, <2>10, <3>1, <4>1 DEF CameOK, Single, From, Once
        <4>4. UnreadOK(m, l)' /\ FreshOK(m, l)'
          BY <3>1, <4>1, <4>2 DEF UnreadOK, FreshOK, Unread, Single, From, Once
        <4> QED
          BY <4>3, <4>4
      <3> QED
        BY <3>2, <3>3
    <2>16. ASSUME NEW r \in Systems, NEW l \in Links(r)
           PROVE  PackedOK(m, r, l)' /\ SpooledOK(m, r, l)' /\ WaitsOK(m, r, l)'
      <3>0. l \in Systems
        BY LinksType
      <3>1. PackedOK(m, r, l) /\ SpooledOK(m, r, l) /\ WaitsOK(m, r, l) /\ BaseOK(m, l) /\ CameOK(m, l)
        BY <3>0 DEF WayOK
      <3>2. Packed(m, r, l) => l # s
        BY <2>5, <3>1 DEF PackedOK
      <3>3. \A d \in 0..Days - 1 : Spooled(m, r, l, d) => l # s
        BY <2>5, <3>1 DEF SpooledOK
      <3>4. PackedOK(m, r, l)'
        BY <1>2, <2>8, <2>9, <2>10, <2>11, <2>12, <3>0, <3>1, <3>2 DEF PackedOK, Once
      <3>8. SpoolStill(m)
        BY <1>2, SpoolSame
      <3>5. SpooledOK(m, r, l)'
        BY <1>2, <2>8, <2>9, <2>10, <3>0, <3>1, <3>3, <3>8 DEF SpooledOK, SpoolStill
      <3>6. CASE r # s
        <4>1. Up(m)[l] = r /\ Waits(m, r) => l # s
          BY <2>5, <3>1 DEF WaitsOK
        <4> QED
          BY <1>2, <2>8, <2>10, <2>11, <2>12, <3>0, <3>1, <3>4, <3>5, <3>6, <4>1 DEF WaitsOK
      <3>7. CASE r = s
        <4> SUFFICES ASSUME Up(m)[l] = s PROVE WaitsOK(m, s, l)'
          BY <3>4, <3>5, <3>7 DEF WaitsOK
        <4>1. ~Packed(m, s, l) /\ \A d \in 0..Days - 1 : ~Spooled(m, s, l, d)
          BY <2>3, <3>1, <3>7 DEF PackedOK, SpooledOK
        <4>2. l # Home(m) /\ l # s
          BY <2>6, UpType, TosserAssumption DEF IsUp
        <4>3. ~Has(l, m) /\ \A b \in DOMAIN inbound[l] : ~Came(m, l, b)
          BY <2>3, <3>1, <4>2 DEF BaseOK, CameOK
        <4> QED
          BY <1>2, <2>8, <2>10, <2>11, <2>12, <3>0, <4>1, <4>2, <4>3 DEF WaitsOK
      <3> QED
        BY <3>6, <3>7
    <2> QED
      BY <2>14, <2>15, <2>16 DEF WayOK
  <1> QED
    BY <1>7, <1>8

\* An archive that gets a packet for a link with a message it does not have for it.
LEMMA ArchiveGets ==
    ASSUME NEW a \in Seq(Packets), NEW p \in Packets, NEW m,
           ~InFor(a, m, p.to), Once(p.ids, m)
    PROVE  Sole(Append(a, p), m, p.to, p.from)
  <1> DEFINE b == Append(a, p)
  <1>1. DOMAIN b = DOMAIN a \cup {Len(a) + 1} /\ b[Len(a) + 1] = p /\ DOMAIN a = 1..Len(a)
    OBVIOUS
  <1>2. \A i \in DOMAIN a : b[i] = a[i]
    OBVIOUS
  <1> HIDE DEF b
  <1>3. \A i \in DOMAIN b : b[i].to = p.to /\ m \in ToSet(b[i].ids) => i = Len(a) + 1
    BY <1>1, <1>2 DEF InFor
  <1>4. Sole(b, m, p.to, p.from)
    BY <1>1, <1>3 DEF Sole
  <1> QED
    BY <1>4 DEF b

\* A link is closed: its packet goes into the archive of the day, or is lost.
LEMMA CloseLinkWay ==
    ASSUME NEW m \in EchoIds, Typed, WayOK(m), NEW s \in Systems, CloseLink(s)
    PROVE  WayOK(m)'
  <1> USE DEF run, spool
  <1>0. PICK k \in Links(s) : k = OutList[s][at[s] + 1]
    BY ClosedLink
  <1> DEFINE p == packet[s][k]
             a == Archive[s][k]
             q == [from |-> s, to |-> k, head |-> p.head, ids |-> p.ids]
  <1>1. k \in Links(s) /\ k \in Systems /\ a \in Links(s)
    BY LinksType, ArchiveType
  <1>2. /\ packet' = [packet EXCEPT ![s][k] = Blank]
        /\ UNCHANGED <<entered, base, phase, files, inbound, fresh>>
    BY <1>0, SMTT(60) DEF CloseLink
  <1>3. outbound' = outbound \/ outbound' = [outbound EXCEPT ![s][a][day] = Append(@, q)]
    BY <1>0 DEF CloseLink, Pack
  <1>4. /\ p \in Drafts /\ p.ids \in Seq(Ids) /\ q \in Packets
        /\ outbound[s][a][day] \in Seq(Packets) /\ day \in 0..Days - 1
    <2>1. p \in Drafts
      BY <1>1 DEF Typed, TypedPacket
    <2>2. outbound[s][a][day] \in Seq(Packets) /\ day \in 0..Days - 1
      <3> HIDE DEF a, p, q
      <3>1. outbound[s] \in [Links(s) -> [0..Days - 1 -> Seq(Packets)]] /\ day \in 0..Days - 1
        BY DEF Typed, TypedOutbound
      <3>2. outbound[s][a] \in [0..Days - 1 -> Seq(Packets)]
        BY <1>1, <3>1
      <3> QED
        BY <3>1, <3>2
    <2> QED
      BY <1>1, <2>1, <2>2 DEF Drafts, Packets
  <1>5. q.ids = p.ids /\ q.from = s /\ q.to = k
    OBVIOUS
  <1>6. packet'[s][k].ids = <<>>
    BY <1>1, <1>2 DEF Blank, Typed, TypedPacket
  <1>7. \A r \in Systems : \A l \in Links(r) : r # s \/ l # k => packet'[r][l] = packet[r][l]
    BY <1>1, <1>2 DEF Typed, TypedPacket
  <1>8. ~Packed(m, s, k)'
    BY <1>6 DEF Packed, Held, ToSet
  <1>9. PacketStill(m)
    BY <1>7, <1>8, LinksType DEF PacketStill, Packed, Held, WayOK, PackedOK
  <1>10. BaseStill(m) /\ InboundStill(m) /\ FilesStill(m) /\ FreshStill(m)
    BY <1>2, BaseSame, InboundSame, FilesSame, FreshSame DEF PhaseKept
  <1>11. InboundLess(m)
    BY <1>10, SameInbound DEF InboundLess
  <1>12. CASE outbound' = outbound
    BY <1>9, <1>10, <1>12, SpoolSame, Frame
  <1>13. CASE outbound' = [outbound EXCEPT ![s][a][day] = Append(@, q)]
    <2> HIDE DEF p, q, a
    <2>1. /\ outbound'[s][a][day] = Append(outbound[s][a][day], q)
          /\ \A r \in Systems : \A l \in Links(r) : \A d \in 0..Days - 1 :
                r # s \/ l # a \/ d # day => outbound'[r][l][d] = outbound[r][l][d]
      BY <1>1, <1>4, <1>13 DEF Typed, TypedOutbound
    <2>2. SpooledOK(m, s, k) /\ PackedOK(m, s, k) /\ WaitsOK(m, s, k)
      BY <1>1 DEF WayOK
    <2>5. \* What is not put in, perhaps for another link of the same archive.
          ASSUME NEW r \in Systems, NEW l \in Links(r), NEW d \in 0..Days - 1,
                 r # s \/ l # k \/ d # day \/ m \notin ToSet(p.ids), Spooled(m, r, l, d)'
          PROVE  /\ Spooled(m, r, l, d) /\ SpooledOK(m, r, l)
                 /\ Sole(outbound'[r][Archive[r][l]][d], m, l, r)
      <3>0. SpooledOK(m, r, l) /\ Archive[r][l] \in Links(r)
        BY LinksType, ArchiveType DEF WayOK
      <3>1. CASE r = s /\ Archive[r][l] = a /\ d = day
        <4>1. q.to # l \/ m \notin ToSet(q.ids)
          BY <1>5, <2>5, <3>1
        <4>2. LET x == outbound[s][a][day]
              IN  /\ InFor(Append(x, q), m, l) => InFor(x, m, l)
                  /\ Sole(x, m, l, r) => Sole(Append(x, q), m, l, r)
          BY <1>4, <4>1, ArchiveAppended
        <4>3. Spooled(m, r, l, d)
          <5>1. InFor(outbound'[s][a][day], m, l)
            BY <2>5, <3>1 DEF Spooled
          <5>2. InFor(outbound[s][a][day], m, l)
            BY <2>1, <4>2, <5>1
          <5> QED
            BY <3>1, <5>2 DEF Spooled
        <4>4. Sole(outbound[s][a][day], m, l, r)
          BY <3>0, <3>1, <4>3 DEF SpooledOK
        <4>5. Sole(outbound'[s][a][day], m, l, r)
          BY <2>1, <4>4, <4>2
        <4> QED
          BY <3>0, <3>1, <4>3, <4>5
      <3>2. CASE ~(r = s /\ Archive[r][l] = a /\ d = day)
        <4>1. outbound'[r][Archive[r][l]][d] = outbound[r][Archive[r][l]][d]
          BY <2>1, <3>0, <3>2
        <4>2. Spooled(m, r, l, d)
          BY <2>5, <4>1 DEF Spooled
        <4> QED
          BY <3>0, <4>1, <4>2 DEF SpooledOK
      <3> QED
        BY <3>1, <3>2
    <2>3. CASE m \notin ToSet(p.ids)
      <3>1. ASSUME NEW r \in Systems, NEW l \in Links(r), NEW d \in 0..Days - 1, Spooled(m, r, l, d)'
            PROVE  /\ Spooled(m, r, l, d)
                   /\ Sole(outbound'[r][Archive[r][l]][d], m, l, r)
        BY <2>3, <2>5, <3>1
      <3>2. SpoolStill(m)
        BY <3>1 DEF SpoolStill
      <3> QED
        BY <1>9, <1>10, <3>2, Frame
    <2>4. CASE m \in ToSet(p.ids)
      <3>1. Packed(m, s, k)
        BY <2>4 DEF Packed, Held, p
      <3>2. /\ Up(m)[k] = s /\ Has(s, m) /\ ~Has(k, m) /\ Once(p.ids, m)
            /\ \A d \in 0..Days - 1 : ~Spooled(m, s, k, d)
            /\ \A b \in DOMAIN inbound[k] : ~Came(m, k, b)
        BY <2>2, <3>1 DEF PackedOK, p
      <3>3. ~Waits(m, s)
        BY <2>2, <3>1, <3>2 DEF WaitsOK
      <3>4. Sole(outbound'[s][Archive[s][k]][day], m, k, s)
        BY <1>4, <1>5, <2>1, <3>2, ArchiveGets DEF Spooled, a
      <3>5. \A r \in Systems : (Has(r, m)' <=> Has(r, m)) /\ (Waits(m, r)' => Waits(m, r))
        BY <1>10, SameCopies
      <3>6. \A l \in Systems : \A b \in DOMAIN inbound'[l] : Came(m, l, b)' => b \in DOMAIN inbound[l] /\ Came(m, l, b)
        BY <1>2 DEF Came
      <3>7. \A d \in 0..Days - 1 : Spooled(m, s, k, d)' => d = day
        BY <1>1, <2>5, <3>2
      <3>8. PackedOK(m, s, k)' /\ SpooledOK(m, s, k)' /\ WaitsOK(m, s, k)'
        <4>1. PackedOK(m, s, k)'
          BY <1>8 DEF PackedOK
        <4>2. WaitsOK(m, s, k)'
          BY <1>1, <3>3, <3>5 DEF WaitsOK
        <4>3. SpooledOK(m, s, k)'
          BY <1>1, <3>2, <3>4, <3>5, <3>6, <3>7 DEF SpooledOK
        <4> QED
          BY <4>1, <4>2, <4>3
      <3>9. ASSUME NEW r \in Systems, NEW l \in Links(r), r # s \/ l # k
            PROVE  PackedOK(m, r, l)' /\ SpooledOK(m, r, l)' /\ WaitsOK(m, r, l)'
        <4>0. l \in Systems
          BY LinksType
        <4>1. PackedOK(m, r, l) /\ SpooledOK(m, r, l) /\ WaitsOK(m, r, l)
          BY <4>0 DEF WayOK
        <4>2. packet'[r][l] = packet[r][l]
          BY <1>7, <3>9
        <4>3. \A d \in 0..Days - 1 : Spooled(m, r, l, d)' =>
                 Spooled(m, r, l, d) /\ Sole(outbound'[r][Archive[r][l]][d], m, l, r)
          BY <2>5, <3>9
        <4>4. Packed(m, r, l)' <=> Packed(m, r, l)
          BY <4>2 DEF Packed, Held
        <4>5. PackedOK(m, r, l)'
          BY <3>5, <3>6, <4>0, <4>1, <4>2, <4>3, <4>4 DEF PackedOK, Once
        <4>6. SpooledOK(m, r, l)'
          BY <3>5, <3>6, <4>0, <4>1, <4>3 DEF SpooledOK
        <4>7. WaitsOK(m, r, l)'
          BY <3>5, <3>6, <4>0, <4>1, <4>3, <4>4 DEF WaitsOK
        <4> QED
          BY <4>5, <4>6, <4>7
      <3>10. \A r \in Systems : \A l \in Links(r) : PackedOK(m, r, l)' /\ SpooledOK(m, r, l)' /\ WaitsOK(m, r, l)'
        BY <3>8, <3>9
      <3> QED
        BY <1>10, <3>10, BaseFrame, CameFrame, UnreadFrame DEF WayOK
    <2> QED
      BY <2>3, <2>4
  <1> QED
    BY <1>3, <1>12, <1>13

\* The mailer carries an archive from the outbound area of a link to its inbound area.
LEMMA MailWay ==
    ASSUME NEW m \in EchoIds, m \notin again', Typed, WayOK(m),
           NEW s \in Systems, NEW k \in Links(s), Mail(s, k)
    PROVE  WayOK(m)'
  <1> USE DEF run, spool
  <1> DEFINE h == Archive[s][k]
  <1>1. PICK e \in 0..Days - 1 :
            /\ inbound' = IF outbound[s][h][e] = <<>> THEN inbound
                          ELSE [inbound EXCEPT ![k] = Append(inbound[k], outbound[s][h][e])]
            /\ outbound' = [outbound EXCEPT ![s][h][e] = <<>>]
            /\ again' = again \cup UNION {ToSet(outbound[s][h][e][i].ids) : i \in Astray(outbound[s][h][e], k)}
    <2> DEFINE d == CHOOSE d \in flow[s][k] : TRUE
    <2>1. d \in flow[s][k] /\ flow[s][k] \subseteq 0..Days - 1
      BY DEF Mail, Typed, TypedFlow
    <2>2. /\ inbound' = IF outbound[s][h][d] = <<>> THEN inbound
                        ELSE [inbound EXCEPT ![k] = Append(@, outbound[s][h][d])]
          /\ outbound' = [outbound EXCEPT ![s][h][d] = <<>>]
          /\ again' = again \cup UNION {ToSet(outbound[s][h][d][i].ids) : i \in Astray(outbound[s][h][d], k)}
      BY DEF Mail
    <2> QED
      BY <2>1, <2>2
  <1>2. UNCHANGED <<entered, base, phase, packet, files, fresh>>
    BY DEF Mail
  <1> DEFINE a == outbound[s][h][e]
  <1>14. h \in Links(s)
    BY ArchiveType
  <1>15. \A i \in DOMAIN a : m \in ToSet(a[i].ids) => a[i].to = k
    BY <1>1 DEF Astray
  <1>16. InFor(a, m, k) => Spooled(m, s, k, e)
    BY DEF Spooled
  <1> HIDE DEF h
  <1>3. k \in Systems /\ a \in Seq(Packets) /\ inbound[k] \in Seq(Seq(Packets)) /\ DOMAIN inbound = Systems
    <2>1. outbound[s] \in [Links(s) -> [0..Days - 1 -> Seq(Packets)]]
      BY DEF Typed, TypedOutbound
    <2>2. outbound[s][h] \in [0..Days - 1 -> Seq(Packets)]
      BY <1>14, <2>1
    <2>3. a \in Seq(Packets)
      BY <2>2
    <2> QED
      BY <2>3, LinksType DEF Typed, TypedInbound
  <1>4. /\ outbound'[s][h][e] = <<>>
        /\ \A r \in Systems : \A l \in Links(r) : \A d \in 0..Days - 1 :
              r # s \/ l # h \/ d # e => outbound'[r][l][d] = outbound[r][l][d]
    <2>1. outbound' = [outbound EXCEPT ![s][h][e] = <<>>]
      BY <1>1
    <2>2. /\ DOMAIN outbound = Systems
          /\ \A r \in Systems : outbound[r] \in [Links(r) -> [0..Days - 1 -> Seq(Packets)]]
      BY DEF Typed, TypedOutbound
    <2> HIDE DEF a
    <2> QED
      BY ONLY <1>14, <2>1, <2>2, s \in Systems, e \in 0..Days - 1
  <1>6. ASSUME NEW r \in Systems, NEW l \in Links(r), NEW d \in 0..Days - 1, Spooled(m, r, l, d)'
        PROVE  /\ Spooled(m, r, l, d) /\ ~(r = s /\ l = k /\ d = e)
               /\ Sole(outbound'[r][Archive[r][l]][d], m, l, r)
    <2>1. ~(r = s /\ Archive[r][l] = h /\ d = e)
      BY <1>4, <1>6 DEF Spooled, InFor
    <2>2. outbound'[r][Archive[r][l]][d] = outbound[r][Archive[r][l]][d]
      BY <1>4, <2>1, ArchiveType
    <2>3. Spooled(m, r, l, d) /\ SpooledOK(m, r, l)
      BY <1>6, <2>2, LinksType DEF Spooled, WayOK
    <2> QED
      BY <2>1, <2>2, <2>3 DEF SpooledOK, h
  <1>7. SpoolStill(m)
    BY <1>6 DEF SpoolStill
  <1>8. BaseStill(m) /\ PacketStill(m) /\ FilesStill(m) /\ FreshStill(m)
    BY <1>2, BaseSame, PacketSame, FilesSame, FreshSame DEF PhaseKept
  <1> DEFINE n == Len(inbound[k]) + 1
  <1>9. \A l \in Systems \ {k} : inbound'[l] = inbound[l]
    BY <1>1, <1>3
  <1>10. \/ inbound'[k] = inbound[k] /\ a = <<>>
         \/ inbound'[k] = Append(inbound[k], a)
    BY <1>1, <1>3
  <1>11. /\ DOMAIN inbound[k] = 1..Len(inbound[k]) /\ Len(inbound[k]) \in Nat
         /\ DOMAIN inbound[k] \subseteq DOMAIN inbound'[k]
         /\ DOMAIN inbound'[k] \subseteq DOMAIN inbound[k] \cup {n}
         /\ \A b \in DOMAIN inbound[k] : inbound'[k][b] = inbound[k][b]
         /\ n \in DOMAIN inbound'[k] => inbound'[k][n] = a
    <2> HIDE DEF a
    <2>1. CASE inbound'[k] = inbound[k]
      BY <1>3, <2>1
    <2>2. CASE inbound'[k] = Append(inbound[k], a)
      BY <1>3, <2>2
    <2> QED
      BY <1>10, <2>1, <2>2
  <1> HIDE DEF n
  <1>12. CASE m \notin InArchive(a)
    <2>1. ASSUME NEW l \in Systems
          PROVE  /\ \A b \in DOMAIN inbound[l] : b \in DOMAIN inbound'[l] /\ inbound'[l][b] = inbound[l][b]
                 /\ \A b \in DOMAIN inbound'[l] : Came(m, l, b)' => b \in DOMAIN inbound[l]
      <3>1. CASE l = k
        BY <1>11, <1>12, <3>1 DEF Came
      <3>2. CASE l # k
        BY <1>9, <3>2
      <3> QED
        BY <3>1, <3>2
    <2>2. InboundStill(m)
      BY <2>1 DEF InboundStill
    <2> QED
      BY <1>7, <1>8, <2>2, Frame
  <1>13. CASE m \in InArchive(a)
    <2>0. InFor(a, m, k)
      BY <1>13, <1>15, InArchives DEF InFor
    <2>1. Spooled(m, s, k, e) /\ SpooledOK(m, s, k)
      BY <1>3, <1>16, <2>0 DEF WayOK
    <2>9. Single(a, m) /\ From(a, m, s)
      <3>1. Sole(a, m, k, s)
        BY <2>1 DEF SpooledOK, h
      <3>2. \A i \in DOMAIN a : m \notin ToSet(a[i].ids) => Once(a[i].ids, m)
        BY DEF Once, ToSet
      <3> QED
        BY <1>15, <3>1, <3>2 DEF Sole, Single, From
    <2>2. /\ Up(m)[k] = s /\ Has(s, m) /\ ~Has(k, m) /\ Single(a, m) /\ From(a, m, s)
          /\ \A c \in 0..Days - 1 : Spooled(m, s, k, c) => c = e
          /\ \A b \in DOMAIN inbound[k] : ~Came(m, k, b)
      BY <2>1, <2>9 DEF SpooledOK
    <2> HIDE DEF a
    <2>3. k # Home(m) /\ s # k
      BY <1>3, <2>2, UpType, TosserAssumption DEF IsUp
    <2>4. \A r \in Systems : (Has(r, m)' <=> Has(r, m)) /\ (Waits(m, r)' => Waits(m, r))
      BY <1>8, SameCopies
    <2>5. \A b \in DOMAIN inbound'[k] : Came(m, k, b)' => b = n /\ inbound'[k][b] = a
      BY <1>11, <2>2 DEF Came
    <2>6. ~Opened(m, k)
      BY <2>2 DEF Opened
    <2>7. ASSUME NEW l \in Systems PROVE CameOK(m, l)' /\ UnreadOK(m, l)' /\ FreshOK(m, l)'
      <3>1. CameOK(m, l) /\ UnreadOK(m, l) /\ FreshOK(m, l)
        BY DEF WayOK
      <3>2. Up(m)[l] \in Systems => (Has(Up(m)[l], m)' <=> Has(Up(m)[l], m))
        BY <2>4
      <3>3. CASE l = k
        <4>1. CameOK(m, k)'
          BY <1>3, <2>2, <2>3, <2>4, <2>5 DEF CameOK
        <4>2. UnreadOK(m, k)' /\ FreshOK(m, k)'
          BY <1>2, <2>6, <3>1, <3>3 DEF UnreadOK, FreshOK, Unread
        <4> QED
          BY <3>3, <4>1, <4>2
      <3>4. CASE l # k
        <4>1. inbound'[l] = inbound[l]
          BY <1>9, <3>4
        <4>2. \A b : Came(m, l, b)' <=> Came(m, l, b)
          BY <4>1 DEF Came
        <4>3. Opened(m, l)' <=> Opened(m, l)
          BY <1>2, <4>1, <4>2 DEF Opened
        <4>4. CameOK(m, l)'
          BY <1>2, <2>4, <3>1, <3>2, <4>1, <4>2 DEF CameOK, Single, From, Once
        <4>5. UnreadOK(m, l)' /\ FreshOK(m, l)'
          BY <1>2, <2>4, <3>1, <4>3 DEF UnreadOK, FreshOK, Unread, Single, From, Once
        <4> QED
          BY <4>4, <4>5
      <3> QED
        BY <3>3, <3>4
    <2>8. ASSUME NEW r \in Systems, NEW l \in Links(r)
          PROVE  PackedOK(m, r, l)' /\ SpooledOK(m, r, l)' /\ WaitsOK(m, r, l)'
      <3>0. l \in Systems
        BY LinksType
      <3>1. PackedOK(m, r, l) /\ SpooledOK(m, r, l) /\ WaitsOK(m, r, l)
        BY <3>0 DEF WayOK
      <3>2. \A d \in 0..Days - 1 : Spooled(m, r, l, d)' =>
               Spooled(m, r, l, d) /\ ~(r = s /\ l = k /\ d = e)
               /\ Sole(outbound'[r][Archive[r][l]][d], m, l, r)
        BY <1>6
      <3>3. Packed(m, r, l)' <=> Packed(m, r, l)
        BY <1>2 DEF Packed, Held
      <3>4. CASE l = k
        <4>1. ~Packed(m, r, l)
          BY <2>1, <2>2, <3>1, <3>4 DEF PackedOK
        <4>2. \A d \in 0..Days - 1 : ~Spooled(m, r, l, d)'
          BY <2>2, <3>1, <3>2, <3>4 DEF SpooledOK
        <4>3. ~(Waits(m, r) /\ Up(m)[l] = r)
          BY <2>1, <2>2, <3>1, <3>4 DEF WaitsOK
        <4> QED
          BY <2>4, <3>3, <4>1, <4>2, <4>3 DEF PackedOK, SpooledOK, WaitsOK
      <3>5. CASE l # k
        <4>1. inbound'[l] = inbound[l] /\ \A b : Came(m, l, b)' <=> Came(m, l, b)
          BY <1>9, <3>0, <3>5 DEF Came
        <4>2. PackedOK(m, r, l)'
          BY <1>2, <2>4, <3>0, <3>1, <3>2, <3>3, <4>1 DEF PackedOK, Once
        <4>3. SpooledOK(m, r, l)'
          BY <2>4, <3>0, <3>1, <3>2, <4>1 DEF SpooledOK
        <4>4. WaitsOK(m, r, l)'
          BY <2>4, <3>0, <3>1, <3>2, <3>3, <4>1 DEF WaitsOK
        <4> QED
          BY <4>2, <4>3, <4>4
      <3> QED
        BY <3>4, <3>5
    <2> QED
      BY <1>8, <2>7, <2>8, BaseFrame DEF WayOK
  <1> QED
    BY <1>12, <1>13

\* Every step leaves a message that is not doubled where it may be.
LEMMA WayStep ==
    ASSUME NEW m \in EchoIds, m \notin again', Typed, WayOK(m), [Next]_vars
    PROVE  WayOK(m)'
  <1> USE DEF run, spool
  <1>1. ASSUME NEW s \in Systems, EndExport(s) PROVE WayOK(m)'
    <2>1. UNCHANGED <<entered, base, packet, outbound, inbound, files, fresh>>
      BY <1>1 DEF EndExport
    <2>2. PhaseKept
      BY <1>1 DEF EndExport, Become, PhaseKept, Typed, TypedPhase
    <2> QED
      BY <2>1, <2>2, QuietWay
  <1>2. ASSUME NEW s \in Systems, EndInbound(s) PROVE WayOK(m)'
    <2>1. UNCHANGED <<entered, base, packet, outbound, inbound, files, fresh>>
      BY <1>2 DEF EndInbound
    <2>2. PhaseKept
      BY <1>2 DEF EndInbound, Become, PhaseKept, Typed, TypedPhase
    <2> QED
      BY <2>1, <2>2, QuietWay
  <1>3. ASSUME NEW s \in Systems, Finish(s) PROVE WayOK(m)'
    <2>1. UNCHANGED <<entered, base, packet, outbound, inbound, files, fresh>>
      BY <1>3 DEF Finish
    <2>2. PhaseKept
      BY <1>3 DEF Finish, Become, PhaseKept, Typed, TypedPhase
    <2> QED
      BY <2>1, <2>2, QuietWay
  <1>4. CASE NewDay \/ UNCHANGED vars
    <2>1. UNCHANGED <<entered, base, phase, packet, outbound, inbound, files, fresh>>
      BY <1>4 DEF NewDay, vars
    <2>2. PhaseKept
      BY <2>1 DEF PhaseKept
    <2> QED
      BY <2>1, <2>2, QuietWay
  <1>5. ASSUME NEW s \in Systems,
               \/ Enter(s) \/ SaveText(s) \/ Start(s) \/ ExportHeader(s)
               \/ TakeArchive(s) \/ ReadPacket(s) \/ SweepPacket(s) \/ EndArchive(s)
               \/ CloseLink(s) \/ Kill(s) \/ \E l \in Links(s) : Mail(s, l)
        PROVE  WayOK(m)'
    BY <1>5, EnterWay, SaveTextWay, StartWay, ExportHeaderWay, TakeArchiveWay, ReadPacketWay,
       SweepPacketWay, EndArchiveWay, CloseLinkWay, KillWay, MailWay
  <1> QED
    BY <1>1, <1>2, <1>3, <1>4, <1>5, Steps

\* What may be doubled stays so.
LEMMA AgainGrows == ASSUME [Next]_vars PROVE again \subseteq again'
  <1> USE DEF run, spool
  <1>1. ASSUME NEW s \in Systems, Kill(s) PROVE again \subseteq again'
    BY <1>1 DEF Kill
  <1>2. ASSUME NEW s \in Systems, SweepPacket(s) PROVE again \subseteq again'
    BY <1>2 DEF SweepPacket
  <1>3. ASSUME NEW s \in Systems,
               \/ Enter(s) \/ SaveText(s) \/ Start(s) \/ ExportHeader(s) \/ EndExport(s)
               \/ TakeArchive(s) \/ ReadPacket(s) \/ EndArchive(s)
               \/ EndInbound(s) \/ CloseLink(s) \/ Finish(s)
        PROVE  again' = again
    BY <1>3 DEF Enter, SaveText, Start, ExportHeader, EndExport, TakeArchive, ReadPacket, EndArchive,
       EndInbound, CloseLink, Finish
  <1>5. ASSUME NEW s \in Systems, NEW l \in Links(s), Mail(s, l) PROVE again \subseteq again'
    BY <1>5 DEF Mail
  <1>4. CASE NewDay \/ UNCHANGED vars
    BY <1>4 DEF NewDay, vars
  <1> QED
    BY <1>1, <1>2, <1>3, <1>4, <1>5, Steps

LEMMA InitTyped == ASSUME Init PROVE Typed
  <1> USE DEF Init
  <1>1. Days \in Nat /\ 0 \in 0..Days - 1
    BY TosserAssumption
  <1>2. TypedBase /\ TypedPhase /\ TypedFiles /\ TypedInbound /\ TypedFresh
    BY DEF TypedBase, TypedPhase, TypedFiles, TypedInbound, TypedFresh
  <1>3. TypedPacket
    <2>1. Blank \in Drafts
      BY DEF Blank, Drafts
    <2> QED
      BY <2>1 DEF TypedPacket, NoPackets
  <1>4. TypedOutbound /\ TypedFlow
    BY <1>1 DEF TypedOutbound, TypedFlow
  <1>5. Taken
    BY DEF Taken
  <1> QED
    BY <1>2, <1>3, <1>4, <1>5 DEF Typed

LEMMA InitWay == ASSUME Init, NEW m \in EchoIds PROVE WayOK(m)
  <1> USE DEF Init
  <1>1. ASSUME NEW l \in Systems
        PROVE  /\ Copies(l, m) = {} /\ DOMAIN inbound[l] = {} /\ m \notin fresh[l] /\ ~Unread(m, l)
    BY <1>1 DEF Copies, Unread, InArchive
  <1>2. ASSUME NEW s \in Systems, NEW l \in Links(s)
        PROVE  ~Packed(m, s, l) /\ \A d \in 0..Days - 1 : ~Spooled(m, s, l, d)
    BY <1>2, ArchiveType DEF Packed, Held, Spooled, InFor, NoPackets, Blank, ToSet
  <1>3. \A s \in Systems : ~Has(s, m) /\ ~Waits(m, s)
    BY <1>1 DEF Has, Waits
  <1>4. \A l \in Systems : BaseOK(m, l) /\ CameOK(m, l) /\ UnreadOK(m, l) /\ FreshOK(m, l)
    BY <1>1, <1>3 DEF BaseOK, CameOK, UnreadOK, FreshOK
  <1>5. \A s \in Systems : \A l \in Links(s) : PackedOK(m, s, l) /\ SpooledOK(m, s, l) /\ WaitsOK(m, s, l)
    BY <1>2, <1>3 DEF PackedOK, SpooledOK, WaitsOK
  <1> QED
    BY <1>4, <1>5 DEF WayOK

-----------------------------------------------------------------------------
(* The theorems.                                                             *)

LEMMA Invariant == TosserSpec => []IInv
  <1>1. Init => IInv
    BY InitTyped, InitWay DEF IInv
  <1>2. IInv /\ [Next]_vars => IInv'
    <2> SUFFICES ASSUME IInv, [Next]_vars PROVE IInv'
      OBVIOUS
    <2>1. Typed'
      BY TypedStep DEF IInv
    <2>2. ASSUME NEW m \in EchoIds, m \notin again' PROVE WayOK(m)'
      BY <2>2, AgainGrows, WayStep DEF IInv
    <2> QED
      BY <2>1, <2>2 DEF IInv
  <1> QED
    BY <1>1, <1>2, PTL DEF TosserSpec

\* Whatever is killed or fails, the archives that are to be taken are in the inbound area,
\* what is unpacked or read of one is known only while it is read, and headers, packets and
\* archives, by name and day, are what they are meant to be.
THEOREM TosserTypeCorrect == TosserSpec => []Typed
  <1>1. IInv => Typed
    BY DEF IInv
  <1> QED
    BY <1>1, Invariant, PTL

\* On any tree of systems, and with runs of the tosser on several of them at once, no system
\* gets an echomail message twice, except the copies of an archive it was killed with, of
\* the packets of its own run that it read (the scan of INBOUND in tosser.c) and of packets
\* for another link that were fetched with an archive the two links share (closeout).
THEOREM OnceEachCorrect == TosserSpec => []OnceEach
  <1>1. ASSUME NEW s \in Systems, NEW m, \A i, j \in Copies(s, m) : i = j
        PROVE  Cardinality(Copies(s, m)) <= 1
    <2>1. CASE Copies(s, m) = {}
      BY <2>1, FS_EmptySet
    <2>2. CASE Copies(s, m) # {}
      <3>1. PICK i : Copies(s, m) = {i}
        BY <1>1, <2>2
      <3>2. Cardinality({i}) = 1
        BY FS_Singleton
      <3> QED
        BY <3>1, <3>2
    <2> QED
      BY <2>1, <2>2
  <1>2. IInv => OnceEach
    BY <1>1 DEF IInv, OnceEach, WayOK, BaseOK
  <1> QED
    BY <1>2, Invariant, PTL

=============================================================================
