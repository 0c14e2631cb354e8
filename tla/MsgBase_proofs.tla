--------------------------- MODULE MsgBase_proofs ---------------------------
EXTENDS MsgBase, TLAPS

\* A function on 1 .. n is a sequence of length n.
LEMMA FcnSeq ==
    ASSUME NEW S, NEW n \in Nat, NEW f, f \in [1 .. n -> S]
    PROVE  f \in Seq(S) /\ Len(f) = n
  BY SMT

\* write(2) of headers at an offset: the result is a file, each header in it is the old or the written one.
LEMMA WriteAtSeq ==
    ASSUME NEW s \in Seq(Header), NEW h \in Seq(Header), NEW off \in Nat,
           NoHeader \in Header
    PROVE  /\ WriteAt(s, off, h) \in Seq(Header)
           /\ Len(WriteAt(s, off, h)) = IF Len(s) > off + Len(h) THEN Len(s) ELSE off + Len(h)
           /\ \A i \in 1 .. Len(WriteAt(s, off, h)) :
                 WriteAt(s, off, h)[i] = IF i > off /\ i <= off + Len(h) THEN h[i - off]
                                         ELSE IF i <= Len(s) THEN s[i] ELSE NoHeader
  <1> DEFINE n == IF Len(s) > off + Len(h) THEN Len(s) ELSE off + Len(h)
             w(i) == IF i > off /\ i <= off + Len(h) THEN h[i - off]
                     ELSE IF i <= Len(s) THEN s[i] ELSE NoHeader
  <1>1. n \in Nat
    OBVIOUS
  <1>2. \A i \in 1 .. n : w(i) \in Header
    OBVIOUS
  <1>3. WriteAt(s, off, h) = [i \in 1 .. n |-> w(i)]
    BY DEF WriteAt
  <1>4. WriteAt(s, off, h) \in [1 .. n -> Header]
    BY <1>2, <1>3
  <1>5. WriteAt(s, off, h) \in Seq(Header) /\ Len(WriteAt(s, off, h)) = n
    BY <1>1, <1>4, FcnSeq
  <1> QED
    BY <1>3, <1>5
-----------------------------------------------------------------------------
(* Types.  The proofs are about the running system: no maintenance tool.    *)

\* Of the width of the numbers the proofs use only that they end somewhere.
LEMMA NumberFact == MaxNum \in Nat /\ MaxNum >= 1
  BY NumberAssumption

\* What a reader finds past the end is typed as a header.
LEMMA NoHeaderType == NoHeader \in Header
  BY NumberFact DEF NoHeader, Header, Nums

\* No more is read than there is, nor than the window holds.
LEMMA InWindowType ==
    ASSUME NEW s \in Headers, NEW off \in Nat
    PROVE  /\ InWindow(s, off) \in 0 .. WindowSize
           /\ off <= Len(s) => off + InWindow(s, off) <= Len(s)
           /\ InWindow(s, off) # 0 => off + InWindow(s, off) <= Len(s)
  BY WindowAssumption DEF InWindow, Headers

\* read(2) of headers from an offset: typed, of the expected length, each header the one in the file.
LEMMA WindowType ==
    ASSUME NEW s \in Headers, NEW off \in Nat
    PROVE  /\ Window(s, off) \in [off : Nat, hdrs : Headers]
           /\ Window(s, off).off = off
           /\ Len(Window(s, off).hdrs) = InWindow(s, off)
           /\ \A i \in 1 .. Len(Window(s, off).hdrs) : Window(s, off).hdrs[i] = s[off + i]
  <1> DEFINE n == InWindow(s, off)
  <1>0. n \in Nat /\ (n # 0 => off + n <= Len(s))
    BY InWindowType, WindowAssumption
  <1>1. n \in Nat /\ \A i \in 1 .. n : s[off + i] \in Header
    <2> HIDE DEF n
    <2>1. s \in Seq(Header) /\ Len(s) \in Nat
      BY DEF Headers
    <2>2. \A i \in 1 .. n : off + i \in 1 .. Len(s)
      BY <1>0, <2>1
    <2> QED
      BY <1>0, <2>1, <2>2
  <1>2. Window(s, off).hdrs = [i \in 1 .. n |-> s[off + i]]
    BY DEF Window
  <1>3. Window(s, off).hdrs \in [1 .. n -> Header]
    BY <1>1, <1>2
  <1>4. Window(s, off).hdrs \in Headers /\ Len(Window(s, off).hdrs) = n
    BY <1>1, <1>3, FcnSeq DEF Headers
  <1> QED
    BY <1>2, <1>4 DEF Window

\* Headers written over headers leave headers.
LEMMA WriteAtType ==
    ASSUME NEW s \in Headers, NEW h \in Headers, NEW off \in Nat
    PROVE  WriteAt(s, off, h) \in Headers
  BY WriteAtSeq, NoHeaderType DEF Headers

\* A single header is a piece of file of length one.
LEMMA OneHeader ==
    ASSUME NEW h \in Header
    PROVE  <<h>> \in Headers /\ Len(<<h>>) = 1 /\ <<h>>[1] = h
  BY DEF Headers

USE DEF Labels

\* The program starts with typed state.
LEMMA TypeInit == Init => TypeOK
  <1> SUFFICES ASSUME Init PROVE TypeOK
    OBVIOUS
  <1>1. 0 \in Nums /\ 1 \in Bases
    BY BasesAssumption, NumberFact DEF Nums, Bases
  <1>2. NoJob \in [kind : {"none", "post", "reply", "keep"}, hdr : Header, src : Nums]
    BY <1>1, NoHeaderType DEF NoJob
  <1>3. NoBuf \in [off : Nat, hdrs : Headers] /\ Len(NoBuf.hdrs) = 0
    BY DEF NoBuf, Headers
  <1> QED
    BY <1>1, <1>2, <1>3 DEF Init, TypeOK, None, Headers

Jobs == [kind : {"none", "post", "reply", "keep"}, hdr : Header, src : Nums]

\* A process that saves nothing has a typed job.
LEMMA NoJobType == NoJob \in Jobs
  BY NoHeaderType, NumberFact DEF NoJob, Nums, Jobs

\* The end of a save leaves jobs and labels typed.
LEMMA EndSaveType ==
    ASSUME TypeOK, NEW p \in Procs, NEW l \in Labels, EndSave(p, l)
    PROVE  /\ job' \in [Procs -> Jobs]
           /\ pc' \in [Procs \cup Maintainers -> Labels \cup {"swap", "fix"}]
           /\ \A q \in Procs : pc'[q] \in Labels
  BY NoJobType DEF EndSave, Goto, TypeOK, Jobs

TakenType ==
    /\ ptrs' \in [Procs -> [low : Nums, high : Nums]]
    /\ job' \in [Procs -> Jobs]
    /\ issued' \in Nums
    /\ pc' \in [Procs \cup Maintainers -> Labels \cup {"swap", "fix"}]
    /\ \A q \in Procs : pc'[q] \in Labels
    /\ mishap' \subseteq {"overlap", "early", "keepfail", "jump", "repair"}

\* getmsgptrs and the increment keep the types.
LEMMA TakeNumberType ==
    ASSUME TypeOK, NEW p \in Procs, NEW kind \in {"post", "reply", "keep"},
           NEW h \in [num : Int, id : Nums, home : Bases \cup {0}, from : Users \cup {All},
                      to : Users \cup {All}, priv : BOOLEAN, del : BOOLEAN],
           NEW src \in Nums, TakeNumber(p, kind, h, src)
    PROVE  /\ TakenType
           /\ job' = [job EXCEPT ![p] = job'[p]]
           /\ pc' = [pc EXCEPT ![p] = "set"]
  <1> DEFINE top == ptr[base[p]].high + 1
  <1>1. top \in Nums
    BY SMTT(30) DEF TakeNumber, TypeOK, Nums
  <1>2. [h EXCEPT !.num = top] \in Header
    BY <1>1 DEF Header
  <1>3. [kind |-> kind, src |-> src, hdr |-> [h EXCEPT !.num = top]] \in Jobs
    BY <1>2 DEF Jobs
  <1>4. job' \in [Procs -> Jobs]
    BY <1>3 DEF TakeNumber, TypeOK, Jobs
  <1>5. ptrs' \in [Procs -> [low : Nums, high : Nums]]
    BY <1>1 DEF TakeNumber, TypeOK
  <1>6. issued' \in Nums
    <2>1. issued \in Nums /\ issued < MaxNum /\ issued' = issued + 1
      BY DEF TakeNumber, TypeOK
    <2> QED
      BY <2>1, NumberFact DEF Nums
  <1>7. mishap' \subseteq {"overlap", "early", "keepfail", "jump", "repair"}
    BY DEF TakeNumber, TypeOK, Under
  <1> QED
    BY <1>4, <1>5, <1>6, <1>7 DEF TakeNumber, TypeOK, Goto, TakenType

\* A new message has a typed header.
LEMMA DraftType ==
    ASSUME TypeOK, issued < MaxNum, NEW p \in Procs,
           NEW d \in [to : Users \cup {All}, priv : BOOLEAN]
    PROVE  Draft(p, d) \in [num : Int, id : Nums, home : Bases \cup {0}, from : Users \cup {All},
                            to : Users \cup {All}, priv : BOOLEAN, del : BOOLEAN]
  BY NamesAssumption, NumberFact DEF Draft, TypeOK, Nums

\* The steps of a save keep the types.
LEMMA TypeSave ==
    ASSUME TypeOK, NEW p \in Procs, Save(p), Maintainers = {}
    PROVE  TypeOK'
  <1>1. CASE EnterMsg(p)
    <2>1. PICK d \in Drafts : TakeNumber(p, "post", Draft(p, d), 0)
      BY <1>1 DEF EnterMsg
    <2>2. d \in [to : Users \cup {All}, priv : BOOLEAN] /\ issued < MaxNum
      BY <2>1, NamesAssumption DEF TakeNumber
    <2>3. 0 \in Nums
      BY NumberFact DEF Nums
    <2> HIDE DEF Labels
    <2> QED
      BY <1>1, <2>1, <2>2, <2>3, DraftType, TakeNumberType DEF EnterMsg, TypeOK, disk, Jobs, TakenType
  <1>2. CASE SetMsgPtrs(p)
    BY <1>2 DEF SetMsgPtrs, TypeOK, Goto, mem, saves, hist
  <1>3. CASE KeepRename(p)
    <2>1. job[p].hdr.num \in Nums /\ job[p].src \in Nums
      BY DEF TypeOK, Header
    <2>2. text' \in [Bases -> [Nums -> Nums]]
      <3> DEFINE t == text[base[p]]
                 u == [t EXCEPT ![job[p].hdr.num] = t[job[p].src], ![job[p].src] = None]
      <3>1. None \in Nums
        BY NumberFact DEF None, Nums
      <3>2. text \in [Bases -> [Nums -> Nums]] /\ base[p] \in Bases
        BY DEF TypeOK
      <3>3. t \in [Nums -> Nums]
        BY <3>2
      <3>4. u \in [Nums -> Nums]
        BY <2>1, <3>1, <3>3
      <3>5. text' = text \/ text' = [text EXCEPT ![base[p]] = u]
        BY <1>3 DEF KeepRename
      <3> HIDE DEF u
      <3> QED
        BY <3>2, <3>4, <3>5
    <2> QED
      BY <1>3, <2>2 DEF KeepRename, TypeOK, Goto, mem, saves, hist
  <1>4. CASE SeekEnd(p)
    BY <1>4 DEF SeekEnd, TypeOK, Goto, disk, mem, hist, Headers
  <1>5. CASE AppendHeader(p)
    <2>1. WriteAt(dat[base[p]], at[p], <<job[p].hdr>>) \in Headers
      BY OneHeader, WriteAtType DEF TypeOK
    <2> QED
      BY <1>5, <2>1, EndSaveType DEF AppendHeader, TypeOK, Goto, mem, hist, Jobs
  <1>6. CASE WriteText(p)
    <2>1. job[p].hdr.num \in Nums /\ job[p].hdr.id \in Nums
      BY DEF TypeOK, Header
    <2>2. text' \in [Bases -> [Nums -> Nums]]
      BY <1>6, <2>1 DEF WriteText, TypeOK
    <2>3. saved' \subseteq Bases \X Nums
      BY <1>6, <2>1 DEF WriteText, TypeOK
    <2> QED
      BY <1>6, <2>2, <2>3, EndSaveType DEF WriteText, TypeOK, mem, Jobs
  <1>7. CASE SaveFails(p)
    <2>1. /\ job' \in [Procs -> Jobs]
          /\ pc' \in [Procs \cup Maintainers -> Labels \cup {"swap", "fix"}]
          /\ \A q \in Procs : pc'[q] \in Labels
      BY <1>7, EndSaveType DEF SaveFails, TypeOK, Goto, Jobs
    <2> QED
      BY <1>7, <2>1 DEF SaveFails, TypeOK, disk, mem, Under, Jobs
  <1> QED
    BY <1>1, <1>2, <1>3, <1>4, <1>5, <1>6, <1>7 DEF Save
\* The header the reader shows lies in its window and is typed.
LEMMA CurrentType ==
    ASSUME TypeOK, NEW p \in Procs, cur[p] # 0
    PROVE  /\ Current(p) \in Header
           /\ cur[p] \in 1 .. Len(buf[p].hdrs)
           /\ \A h \in Header : [buf[p].hdrs EXCEPT ![cur[p]] = h] \in Headers
  <1>1. buf[p].hdrs \in Seq(Header) /\ cur[p] \in 1 .. Len(buf[p].hdrs)
    BY DEF TypeOK, Headers
  <1> QED
    BY <1>1 DEF Current, Headers

Bufs == [off : Nat, hdrs : Headers]

\* A new window for one reader: what it changes, what it leaves alone.
LEMMA BufUpdate ==
    ASSUME NEW f \in [Procs -> Bufs], NEW p \in Procs, NEW w \in Headers,
           NEW g, g = [f EXCEPT ![p] = [f[p] EXCEPT !.hdrs = w]]
    PROVE  /\ g \in [Procs -> Bufs]
           /\ g[p].hdrs = w /\ g[p].off = f[p].off
           /\ \A q \in Procs \ {p} : g[q] = f[q]
  <1>1. [f[p] EXCEPT !.hdrs = w] \in Bufs
    BY DEF Bufs
  <1>2. f[p] \in Bufs
    OBVIOUS
  <1>3. [f[p] EXCEPT !.hdrs = w].hdrs = w /\ [f[p] EXCEPT !.hdrs = w].off = f[p].off
    BY <1>2 DEF Bufs
  <1> QED
    BY <1>1, <1>3

\* Deleting the text of the message shown keeps the types.
LEMMA UnlinkType ==
    ASSUME TypeOK, NEW p \in Procs, cur[p] # 0, Unlink(p)
    PROVE  /\ text' \in [Bases -> [Nums -> Nums]]
           /\ saved' \subseteq Bases \X Nums
           /\ buf' \in [Procs -> [off : Nat, hdrs : Headers]]
           /\ \A q \in Procs : Len(buf'[q].hdrs) = Len(buf[q].hdrs)
           /\ mishap' \subseteq {"overlap", "early", "keepfail", "jump", "repair"}
  <1> DEFINE h == [Current(p) EXCEPT !.del = TRUE]
             w == [buf[p].hdrs EXCEPT ![cur[p]] = h]
  <1>1. Current(p) \in Header /\ cur[p] \in 1 .. Len(buf[p].hdrs)
    BY CurrentType
  <1>2. h \in Header /\ Current(p).num \in Nums
    BY <1>1 DEF Header
  <1>3. w \in Headers /\ Len(w) = Len(buf[p].hdrs)
    BY <1>2, CurrentType DEF TypeOK, Headers
  <1>4. None \in Nums
    BY NumberFact DEF None, Nums
  <1>5. buf' = [buf EXCEPT ![p] = [buf[p] EXCEPT !.hdrs = w]]
    BY DEF Unlink, Current, TypeOK
  <1> HIDE DEF w
  <1>6. /\ buf' \in [Procs -> [off : Nat, hdrs : Headers]]
        /\ \A q \in Procs : Len(buf'[q].hdrs) = Len(buf[q].hdrs)
    <2>1. buf \in [Procs -> Bufs]
      BY DEF TypeOK, Bufs
    <2>2. /\ buf' \in [Procs -> Bufs]
          /\ buf'[p].hdrs = w
          /\ \A q \in Procs \ {p} : buf'[q] = buf[q]
      <3>1. w \in Headers /\ buf' = [buf EXCEPT ![p] = [buf[p] EXCEPT !.hdrs = w]]
        BY <1>3, <1>5
      <3> QED
        BY <2>1, <3>1, BufUpdate
    <2> QED
      BY <1>3, <2>2 DEF Bufs
  <1>7. text' \in [Bases -> [Nums -> Nums]]
    BY <1>2, <1>4 DEF Unlink, TypeOK
  <1> QED
    BY <1>6, <1>7 DEF Unlink, TypeOK, Under

\* A command that acts on daheader has one.
HeaderChosen ==
    \A p \in Procs : \/ pc[p] \in {"edit", "reply", "replied", "keep"}
                     \/ Saving(p) /\ job[p].kind \in {"reply", "keep"}
                     => cur[p] # 0

\* The steps of a reader keep the types.
LEMMA TypeRead ==
    ASSUME TypeOK, HeaderChosen, NEW p \in Procs, Read(p), Maintainers = {}
    PROVE  TypeOK'
  <1>0. /\ dat[base[p]] \in Headers /\ buf[p] \in [off : Nat, hdrs : Headers]
        /\ base[p] \in Bases /\ cur[p] <= Len(buf[p].hdrs)
        /\ WriteAt(dat[base[p]], buf[p].off, buf[p].hdrs) \in Headers
    BY WriteAtType DEF TypeOK
  <1>a. Len(<<>>) = 0
    OBVIOUS
  <1>1. CASE ReadMessages(p)
    <2>1. PICK off \in 0 .. Len(dat[base[p]]) - 1 :
             buf' = [buf EXCEPT ![p] = Window(dat[base[p]], off)]
      BY <1>1 DEF ReadMessages
    <2>2. off \in Nat
      BY <1>0, <2>1 DEF Headers
    <2>3. buf' \in [Procs -> [off : Nat, hdrs : Headers]]
      BY <1>0, <2>1, <2>2, WindowType DEF TypeOK
    <2> QED
      BY <1>1, <2>1, <2>3, SMTT(30) DEF ReadMessages, TypeOK, Goto, disk, saves, Under, Headers
  <1>2. CASE ShowMsg(p)
    <2>1. PICK i \in 0 .. Len(buf'[p].hdrs) : cur' = [cur EXCEPT ![p] = i]
      BY <1>2, <1>a DEF ShowMsg
    <2>2. PICK off \in 0 .. Len(dat[base[p]]) : buf' = buf \/ buf' = [buf EXCEPT ![p] = Window(dat[base[p]], off)]
      BY <1>0, <1>2 DEF ShowMsg, Headers
    <2>3. Window(dat[base[p]], off) \in [off : Nat, hdrs : Headers]
      BY <1>0, WindowType
    <2>4. /\ buf' \in [Procs -> [off : Nat, hdrs : Headers]]
          /\ \A q \in Procs \ {p} : buf'[q] = buf[q]
      <3>1. buf \in [Procs -> [off : Nat, hdrs : Headers]]
        BY DEF TypeOK
      <3> QED
        BY <2>2, <2>3, <3>1
    <2>5. Len(buf'[p].hdrs) \in Nat
      BY <2>4 DEF Headers
    <2>6. /\ cur' \in [Procs -> Nat]
          /\ \A q \in Procs : cur'[q] <= Len(buf'[q].hdrs)
      BY <1>2, <2>1, <2>4, <2>5 DEF TypeOK
    <2> QED
      BY <1>2, <2>4, <2>6 DEF ShowMsg, TypeOK, disk, saves, hist
  <1>3. CASE DeleteMsg(p)
    BY <1>3, UnlinkType DEF DeleteMsg, TypeOK, saves
  <1>4. CASE EditMsgHdr(p)
    <2>1. PICK d \in Drafts :
             LET h == [Current(p) EXCEPT !.to = d.to, !.priv = d.priv]
                 w == [buf[p].hdrs EXCEPT ![cur[p]] = h]
             IN  /\ buf' = [buf EXCEPT ![p].hdrs = w]
                 /\ dat' = [dat EXCEPT ![base[p]] = WriteAt(@, buf[p].off, w)]
      BY <1>4 DEF EditMsgHdr
    <2> DEFINE h == [Current(p) EXCEPT !.to = d.to, !.priv = d.priv]
               w == [buf[p].hdrs EXCEPT ![cur[p]] = h]
    <2>2. h \in Header
      <3>1. Current(p) \in Header
        BY <1>4, CurrentType DEF EditMsgHdr
      <3>2. d.to \in Users \cup {All} /\ d.priv \in BOOLEAN
        BY NamesAssumption
      <3> QED
        BY <3>1, <3>2 DEF Header
    <2>3. w \in Headers /\ Len(w) = Len(buf[p].hdrs)
      BY <1>4, <2>2, CurrentType DEF EditMsgHdr, TypeOK, Headers
    <2>4. buf' = [buf EXCEPT ![p].hdrs = w]
      BY <2>1
    <2>5. dat' = [dat EXCEPT ![base[p]] = WriteAt(@, buf[p].off, w)]
      BY <2>1
    <2> HIDE DEF w
    <2>6. dat' \in [Bases -> Headers]
      BY <1>0, <2>3, <2>5, WriteAtType DEF TypeOK
    <2>7. /\ buf' \in [Procs -> [off : Nat, hdrs : Headers]]
          /\ \A q \in Procs : Len(buf'[q].hdrs) = Len(buf[q].hdrs)
      <3>1. buf \in [Procs -> Bufs]
        BY DEF TypeOK, Bufs
      <3>2. buf' = [buf EXCEPT ![p] = [buf[p] EXCEPT !.hdrs = w]]
        BY <2>4
      <3>3. /\ buf' \in [Procs -> Bufs]
            /\ buf'[p].hdrs = w
            /\ \A q \in Procs \ {p} : buf'[q] = buf[q]
        BY <2>3, <3>1, <3>2, BufUpdate
      <3> QED
        BY <2>3, <3>3 DEF Bufs
    <2> QED
      BY <1>4, <2>6, <2>7 DEF EditMsgHdr, TypeOK, saves, hist
  <1>5. CASE EditMsg(p)
    BY <1>5 DEF EditMsg, TypeOK, Goto, disk, mem, saves, hist
  <1>6. CASE EditFile(p)
    <2>1. text' \in [Bases -> [Nums -> Nums]]
      <3>1. cur[p] # 0
        BY <1>6 DEF EditFile, HeaderChosen
      <3>2. Current(p).num \in Nums /\ Current(p).id \in Nums
        BY <3>1, CurrentType DEF Header
      <3> QED
        <4>1. text \in [Bases -> [Nums -> Nums]] /\ base[p] \in Bases
          BY DEF TypeOK
        <4>2. text' = text \/ text' = [text EXCEPT ![base[p]][Current(p).num] = Current(p).id]
          BY <1>6 DEF EditFile
        <4> QED
          BY <3>2, <4>1, <4>2, SMTT(30)
    <2> QED
      BY <1>6, <2>1 DEF EditFile, TypeOK, Goto, mem, saves, hist
  <1>7. CASE ReplyMsg(p)
    BY <1>0, <1>7 DEF ReplyMsg, WriteBack, TypeOK, Goto, mem, saves, hist
  <1>8. CASE KeepMsg(p)
    BY <1>0, <1>8 DEF KeepMsg, WriteBack, TypeOK, Goto, mem, saves, hist
  <1>9. CASE ReplyMessage(p)
    <2>1. CASE Goto(p, "replied") /\ UNCHANGED <<disk, mem, saves, hist>>
      BY <2>1 DEF TypeOK, Goto, disk, mem, saves, hist
    <2>2. CASE /\ TakeNumber(p, "reply", Draft(p, [to |-> Current(p).from,
                                                   priv |-> Current(p).priv]), Current(p).num)
               /\ UNCHANGED <<disk, base, buf, cur, at, saved>>
      <3> DEFINE d == [to |-> Current(p).from, priv |-> Current(p).priv]
      <3>1. cur[p] # 0
        BY <1>9 DEF ReplyMessage, HeaderChosen
      <3>2. d \in [to : Users \cup {All}, priv : BOOLEAN] /\ Current(p).num \in Nums
        BY <3>1, CurrentType DEF Header
      <3>3. issued < MaxNum
        BY <2>2 DEF TakeNumber
      <3> HIDE DEF d
      <3>4. TakeNumber(p, "reply", Draft(p, d), Current(p).num)
        BY <2>2 DEF d
      <3>5. TakenType
        BY <3>2, <3>3, <3>4, DraftType, TakeNumberType DEF TakenType
      <3> QED
        BY <1>9, <2>2, <3>1, <3>5 DEF ReplyMessage, TypeOK, disk, Jobs, TakenType
    <2> QED
      BY <1>9, <2>1, <2>2 DEF ReplyMessage
  <1>10. CASE Replied(p)
    <2>1. CASE Unlink(p)
      <3>1. cur[p] # 0
        BY <1>10 DEF Replied, HeaderChosen
      <3> QED
        BY <1>10, <2>1, <3>1, UnlinkType DEF Replied, TypeOK, Goto, saves
    <2>2. CASE UNCHANGED <<text, saved, buf, mishap>>
      BY <1>10, <2>2 DEF Replied, TypeOK, Goto, saves
    <2> QED
      BY <1>10, <2>1, <2>2 DEF Replied
  <1>11. CASE KeepTake(p)
    <2>1. /\ Current(p) \in Header
          /\ Current(p) \in [num : Int, id : Nums, home : Bases \cup {0}, from : Users \cup {All},
                             to : Users \cup {All}, priv : BOOLEAN, del : BOOLEAN]
          /\ Current(p).num \in Nums
      <3>1. cur[p] # 0
        BY <1>11 DEF KeepTake, HeaderChosen
      <3>2. Current(p) \in Header
        BY <3>1, CurrentType
      <3> QED
        BY <3>2, NumberFact DEF Header, Nums
    <2> DEFINE w == [buf[p].hdrs EXCEPT ![cur[p]] = [Current(p) EXCEPT !.del = TRUE]]
    <2>2. [Current(p) EXCEPT !.del = TRUE] \in Header
      BY <2>1 DEF Header
    <2>3. w \in Headers /\ Len(w) = Len(buf[p].hdrs)
      <3>1. cur[p] # 0
        BY <1>11 DEF KeepTake, HeaderChosen
      <3> QED
        BY <2>2, <3>1, CurrentType DEF TypeOK, Headers
    <2>4. buf' = [buf EXCEPT ![p] = [buf[p] EXCEPT !.hdrs = w]]
      BY <1>11 DEF KeepTake, Current, TypeOK
    <2> HIDE DEF w
    <2>5. /\ buf' \in [Procs -> [off : Nat, hdrs : Headers]]
          /\ \A q \in Procs : Len(buf'[q].hdrs) = Len(buf[q].hdrs)
      <3>1. buf \in [Procs -> Bufs]
        BY DEF TypeOK, Bufs
      <3>2. /\ buf' \in [Procs -> Bufs]
            /\ buf'[p].hdrs = w
            /\ \A q \in Procs \ {p} : buf'[q] = buf[q]
        <4>1. w \in Headers /\ buf' = [buf EXCEPT ![p] = [buf[p] EXCEPT !.hdrs = w]]
          BY <2>3, <2>4
        <4> QED
          BY <3>1, <4>1, BufUpdate
      <3> QED
        BY <2>3, <3>2 DEF Bufs
    <2>6. TakeNumber(p, "keep", Current(p), Current(p).num) /\ cur[p] # 0
      BY <1>11 DEF KeepTake, HeaderChosen
    <2>7. TakenType
      BY <2>1, <2>6, TakeNumberType DEF TakenType
    <2> QED
      BY <1>11, <2>5, <2>6, <2>7 DEF KeepTake, TypeOK, disk, Jobs, TakenType
  <1>12. CASE Reread(p)
    <2>1. buf' \in [Procs -> [off : Nat, hdrs : Headers]]
      BY <1>0, <1>12, WindowType DEF Reread, TypeOK
    <2> QED
      BY <1>12, <2>1 DEF Reread, TypeOK, Goto, disk, saves, hist
  <1>13. CASE QuitRead(p)
    <2>1. NoBuf \in [off : Nat, hdrs : Headers] /\ Len(NoBuf.hdrs) = 0
      BY DEF NoBuf, Headers
    <2> QED
      BY <1>13, <2>1 DEF QuitRead, TypeOK, Goto, disk, saves, hist
  <1>14. CASE JumpBase(p)
    BY <1>14 DEF JumpBase, TypeOK, disk, saves
  <1> QED
    BY <1>1, <1>2, <1>3, <1>4, <1>5, <1>6, <1>7, <1>8, <1>9, <1>10, <1>11, <1>12,
       <1>13, <1>14 DEF Read
\* A save leaves each reader with a message chosen in its window.
LEMMA ChosenSave ==
    ASSUME TypeOK, HeaderChosen, NEW p \in Procs, Save(p)
    PROVE  HeaderChosen'
  <1> USE DEF HeaderChosen, Saving, Goto, EndSave, NoJob
  <1>1. CASE EnterMsg(p)
    <2>1. PICK d \in Drafts : TakeNumber(p, "post", Draft(p, d), 0)
      BY <1>1 DEF EnterMsg
    <2>2. pc' = [pc EXCEPT ![p] = "set"] /\ job' = [job EXCEPT ![p] = job'[p]]
          /\ job'[p].kind = "post" /\ cur' = cur
      BY <1>1, <2>1 DEF EnterMsg, TakeNumber, TypeOK
    <2> QED
      BY <2>2 DEF TypeOK
  <1>2. CASE SetMsgPtrs(p)
    BY <1>2 DEF SetMsgPtrs, TypeOK, mem, saves
  <1>3. CASE KeepRename(p)
    BY <1>3 DEF KeepRename, TypeOK, mem, saves
  <1>4. CASE SeekEnd(p)
    BY <1>4 DEF SeekEnd, TypeOK, mem
  <1>5. CASE AppendHeader(p)
    BY <1>5 DEF AppendHeader, TypeOK, mem
  <1>6. CASE WriteText(p)
    BY <1>6 DEF WriteText, TypeOK, mem
  <1>7. CASE SaveFails(p)
    BY <1>7 DEF SaveFails, TypeOK, mem
  <1> QED
    BY <1>1, <1>2, <1>3, <1>4, <1>5, <1>6, <1>7 DEF Save

\* So do the steps of a reader.
LEMMA ChosenRead ==
    ASSUME TypeOK, HeaderChosen, NEW p \in Procs, Read(p)
    PROVE  HeaderChosen'
  <1> USE DEF HeaderChosen, Saving, Goto
  <1>1. CASE ReadMessages(p)
    BY <1>1 DEF ReadMessages, TypeOK, saves
  <1>2. CASE ShowMsg(p)
    <2>1. PICK i : cur' = [cur EXCEPT ![p] = i]
      BY <1>2 DEF ShowMsg
    <2> QED
      BY <1>2, <2>1 DEF ShowMsg, TypeOK, saves
  <1>3. CASE DeleteMsg(p)
    BY <1>3 DEF DeleteMsg, saves
  <1>4. CASE EditMsgHdr(p)
    BY <1>4 DEF EditMsgHdr, saves
  <1>5. CASE EditMsg(p)
    BY <1>5 DEF EditMsg, TypeOK, mem, saves
  <1>6. CASE EditFile(p)
    BY <1>6 DEF EditFile, TypeOK, mem, saves
  <1>7. CASE ReplyMsg(p)
    BY <1>7 DEF ReplyMsg, TypeOK, mem, saves
  <1>8. CASE KeepMsg(p)
    BY <1>8 DEF KeepMsg, TypeOK, mem, saves
  <1>9. CASE ReplyMessage(p)
    <2>1. cur[p] # 0 /\ cur' = cur
      BY <1>9 DEF ReplyMessage, mem
    <2>2. CASE pc' = [pc EXCEPT ![p] = "replied"] /\ job' = job
      BY <2>1, <2>2 DEF TypeOK
    <2>3. CASE pc' = [pc EXCEPT ![p] = "set"] /\ job' = [job EXCEPT ![p] = job'[p]]
      BY <2>1, <2>3 DEF TypeOK
    <2> QED
      BY <1>9, <2>2, <2>3 DEF ReplyMessage, TakeNumber, saves, TypeOK
  <1>10. CASE Replied(p)
    BY <1>10 DEF Replied, TypeOK, saves
  <1>11. CASE KeepTake(p)
    <2>1. cur[p] # 0 /\ cur' = cur
      BY <1>11 DEF KeepTake
    <2>2. pc' = [pc EXCEPT ![p] = "set"] /\ job' = [job EXCEPT ![p] = job'[p]]
      BY <1>11 DEF KeepTake, TakeNumber, TypeOK
    <2> QED
      BY <2>1, <2>2 DEF TypeOK
  <1>12. CASE Reread(p)
    BY <1>12 DEF Reread, TypeOK, saves
  <1>13. CASE QuitRead(p)
    BY <1>13 DEF QuitRead, TypeOK, saves
  <1>14. CASE JumpBase(p)
    BY <1>14 DEF JumpBase, saves
  <1> QED
    BY <1>1, <1>2, <1>3, <1>4, <1>5, <1>6, <1>7, <1>8, <1>9, <1>10, <1>11, <1>12,
       <1>13, <1>14 DEF Read

\* Joining another base keeps types and choice.
LEMMA ChangeStep ==
    ASSUME TypeOK, HeaderChosen, NEW p \in Procs, ChangeMsgBase(p)
    PROVE  TypeOK' /\ HeaderChosen'
  BY DEF ChangeMsgBase, TypeOK, HeaderChosen, Saving, disk, saves, hist

\* Nothing done, nothing lost.
LEMMA StutterStep ==
    ASSUME TypeOK, HeaderChosen, UNCHANGED vars
    PROVE  TypeOK' /\ HeaderChosen'
  BY DEF vars, TypeOK, HeaderChosen, Saving

\* The variables of a running node stay in their types: numbers within the
\* bound, the cursor within the window, every process at a step of its own.
THEOREM TypeCorrect ==
    ASSUME Maintainers = {}
    PROVE  Spec => [](TypeOK /\ HeaderChosen)
  <1>1. Init => HeaderChosen
    BY DEF Init, HeaderChosen, Saving
  <1>2. TypeOK /\ HeaderChosen /\ [Next]_vars => (TypeOK /\ HeaderChosen)'
    <2> SUFFICES ASSUME TypeOK, HeaderChosen, [Next]_vars
                 PROVE  TypeOK' /\ HeaderChosen'
      OBVIOUS
    <2>1. CASE \E p \in Procs : Save(p)
      BY <2>1, TypeSave, ChosenSave
    <2>2. CASE \E p \in Procs : ChangeMsgBase(p)
      BY <2>2, ChangeStep
    <2>3. CASE \E p \in Nodes : Read(p)
      BY <2>3, TypeRead, ChosenRead DEF Procs
    <2>4. CASE UNCHANGED vars
      BY <2>4, StutterStep
    <2> QED
      BY <2>1, <2>2, <2>3, <2>4 DEF Next
  <1> QED
    BY <1>1, <1>2, TypeInit, PTL DEF Spec
-----------------------------------------------------------------------------
(* Message numbers.  As long as nothing untoward has happened, one process   *)
(* at most is saving; its number is above every header's from the moment it  *)
(* takes it to the moment its header is appended; and every window still has *)
(* the numbers of the headers it was read from, so that writing it back      *)
(* changes no number.                                                        *)

OneSaver == \A p, q \in Procs : Saving(p) /\ Saving(q) => p = q

Taken(p) ==
    /\ Saving(p) => job[p].kind # "none"
    /\ pc[p] = "set" => /\ job[p].hdr.num = ptr[base[p]].high + 1
                        /\ ptrs[p].high = job[p].hdr.num
    /\ pc[p] \in {"rename", "seek", "hdr"} =>
          /\ job[p].hdr.num = ptr[base[p]].high
          /\ \A i \in 1 .. Len(dat[base[p]]) : dat[base[p]][i].num < job[p].hdr.num
    /\ pc[p] = "hdr" => at[p] = Len(dat[base[p]])
    /\ pc[p] = "text" => job[p].kind # "keep"

NumberTaken == \A p \in Procs : Taken(p)

Fits(p) ==
    /\ buf[p].off + Len(buf[p].hdrs) <= Len(dat[base[p]])
    /\ \A i \in 1 .. Len(buf[p].hdrs) : buf[p].hdrs[i].num = dat[base[p]][buf[p].off + i].num

WindowsFit == \A p \in Procs : Fits(p)

\* Outside the reader there is no window.
NoWindow == \A p \in Procs : pc[p] = "idle" \/ (Saving(p) /\ job[p].kind = "post")
                                => buf[p] = NoBuf

Ordered == OneSaver /\ NumberTaken /\ PtrCovers /\ Ascending /\ WindowsFit /\ NoWindow

SameNumbers ==
    \A b \in Bases : /\ Len(dat'[b]) = Len(dat[b])
                     /\ \A i \in 1 .. Len(dat[b]) : dat'[b][i].num = dat[b][i].num

\* The header files are sequences.
LEMMA LenType ==
    ASSUME TypeOK
    PROVE  \A b \in Bases : Len(dat[b]) \in Nat /\ dat[b] \in Seq(Header)
  BY DEF TypeOK, Headers

\* Writing back a window that fits changes no number.
LEMMA WriteSame ==
    ASSUME TypeOK, NEW p \in Procs, Fits(p), NEW w \in Headers,
           Len(w) = Len(buf[p].hdrs),
           \A i \in 1 .. Len(w) : w[i].num = buf[p].hdrs[i].num,
           dat' = [dat EXCEPT ![base[p]] = WriteAt(@, buf[p].off, w)]
    PROVE  SameNumbers
  <1> DEFINE s == dat[base[p]]
             u == WriteAt(s, buf[p].off, w)
  <1>1. s \in Headers /\ buf[p].off \in Nat /\ base[p] \in Bases /\ buf[p].hdrs \in Headers
    BY DEF TypeOK
  <1>2. Len(s) \in Nat /\ Len(w) \in Nat
    BY <1>1 DEF Headers
  <1>3. /\ Len(u) = Len(s)
        /\ \A i \in 1 .. Len(s) :
              u[i] = IF i > buf[p].off /\ i <= buf[p].off + Len(w) THEN w[i - buf[p].off] ELSE s[i]
    <2>1. s \in Seq(Header) /\ w \in Seq(Header) /\ buf[p].off + Len(w) <= Len(s)
      BY <1>1 DEF Headers, Fits
    <2>2. /\ Len(u) = IF Len(s) > buf[p].off + Len(w) THEN Len(s) ELSE buf[p].off + Len(w)
          /\ \A i \in 1 .. Len(u) :
                u[i] = IF i > buf[p].off /\ i <= buf[p].off + Len(w) THEN w[i - buf[p].off]
                       ELSE IF i <= Len(s) THEN s[i] ELSE NoHeader
      BY <1>1, <2>1, WriteAtSeq, NoHeaderType
    <2> HIDE DEF u
    <2>3. Len(u) = Len(s)
      BY <1>1, <1>2, <2>1, <2>2
    <2> QED
      BY <1>2, <2>2, <2>3
  <1>4. \A i \in 1 .. Len(s) : u[i].num = s[i].num
    <2> SUFFICES ASSUME NEW i \in 1 .. Len(s) PROVE u[i].num = s[i].num
      OBVIOUS
    <2>1. CASE i > buf[p].off /\ i <= buf[p].off + Len(w)
      <3>1. i - buf[p].off \in 1 .. Len(w)
        BY <1>1, <1>2, <2>1
      <3>2. w[i - buf[p].off].num = s[i].num
        <4>1. buf[p].off + (i - buf[p].off) = i
          BY <1>1, <1>2
        <4>2. buf[p].hdrs[i - buf[p].off].num = s[buf[p].off + (i - buf[p].off)].num
          BY <3>1 DEF Fits
        <4> QED
          BY <3>1, <4>1, <4>2
      <3> QED
        BY <1>3, <2>1, <3>2
    <2>2. CASE ~(i > buf[p].off /\ i <= buf[p].off + Len(w))
      BY <1>3, <2>2
    <2> QED
      BY <2>1, <2>2
  <1>5. dat' = [dat EXCEPT ![base[p]] = u]
    OBVIOUS
  <1> HIDE DEF u
  <1> QED
    BY <1>1, <1>3, <1>4, <1>5 DEF SameNumbers, TypeOK

\* A header written at the end of the file is one header more.
LEMMA AppendOne ==
    ASSUME NEW s \in Headers, NEW h \in Header
    PROVE  /\ Len(WriteAt(s, Len(s), <<h>>)) = Len(s) + 1
           /\ \A i \in 1 .. Len(s) : WriteAt(s, Len(s), <<h>>)[i] = s[i]
           /\ WriteAt(s, Len(s), <<h>>)[Len(s) + 1] = h
  <1>1. <<h>> \in Seq(Header) /\ Len(<<h>>) = 1 /\ <<h>>[1] = h /\ Len(s) \in Nat
    BY OneHeader DEF Headers
  <1> DEFINE u == WriteAt(s, Len(s), <<h>>)
  <1>2. /\ Len(u) = IF Len(s) > Len(s) + 1 THEN Len(s) ELSE Len(s) + 1
        /\ \A i \in 1 .. Len(u) :
              u[i] = IF i > Len(s) /\ i <= Len(s) + 1 THEN <<h>>[i - Len(s)]
                     ELSE IF i <= Len(s) THEN s[i] ELSE NoHeader
    BY <1>1, WriteAtSeq, NoHeaderType DEF Headers
  <1> HIDE DEF u
  <1>3. Len(u) = Len(s) + 1 /\ (Len(s) + 1) - Len(s) = 1
    BY <1>1, <1>2
  <1>4. \A i \in 1 .. Len(s) : u[i] = s[i]
    BY <1>1, <1>2, <1>3
  <1>5. u[Len(s) + 1] = <<h>>[(Len(s) + 1) - Len(s)]
    BY <1>1, <1>2, <1>3
  <1> QED
    BY <1>1, <1>3, <1>4, <1>5 DEF u

\* A step that saves nothing: it may rewrite headers with their numbers, and
\* change the window of p.
LEMMA ReaderStep ==
    ASSUME TypeOK, TypeOK', Ordered, NEW p \in Procs,
           ptr' = ptr, base' = base, job' = job, at' = at, SameNumbers,
           \A q \in Procs \ {p} : buf'[q] = buf[q] /\ pc'[q] = pc[q] /\ ptrs'[q] = ptrs[q],
           ~Saving(p), ~Saving(p)', Fits(p)', pc'[p] = "idle" => buf'[p] = NoBuf
    PROVE  Ordered'
  <1> USE DEF Ordered
  <1>0. \A b \in Bases : Len(dat[b]) \in Nat
    BY LenType
  <1>1. \A q \in Procs : Saving(q)' => q # p /\ Saving(q) /\ pc'[q] = pc[q]
    BY DEF Saving
  <1>2. OneSaver'
    BY <1>1 DEF OneSaver
  <1>3. NumberTaken'
    <2> SUFFICES ASSUME NEW q \in Procs, Saving(q)'
                 PROVE  /\ job'[q].kind # "none"
                        /\ pc'[q] = "set" => /\ job'[q].hdr.num = ptr'[base'[q]].high + 1
                                             /\ ptrs'[q].high = job'[q].hdr.num
                        /\ pc'[q] \in {"rename", "seek", "hdr"} =>
                              /\ job'[q].hdr.num = ptr'[base'[q]].high
                              /\ \A i \in 1 .. Len(dat'[base'[q]]) :
                                    dat'[base'[q]][i].num < job'[q].hdr.num
                        /\ pc'[q] = "hdr" => at'[q] = Len(dat'[base'[q]])
                        /\ pc'[q] = "text" => job'[q].kind # "keep"
      BY DEF NumberTaken, Taken, Saving
    <2>1. base[q] \in Bases
      BY DEF TypeOK
    <2> QED
      BY <1>1, <2>1 DEF NumberTaken, Taken, SameNumbers
  <1>4. PtrCovers'
    BY DEF PtrCovers, SameNumbers
  <1>5. Ascending'
    BY DEF Ascending, SameNumbers
  <1>6. WindowsFit'
    <2> SUFFICES ASSUME NEW q \in Procs \ {p} PROVE Fits(q)'
      BY DEF WindowsFit
    <2>1. base[q] \in Bases /\ buf[q].off \in Nat /\ buf[q].hdrs \in Seq(Header)
      BY DEF TypeOK, Headers
    <2>2. \A i \in 1 .. Len(buf[q].hdrs) : buf[q].off + i \in 1 .. Len(dat[base[q]])
      BY <1>0, <2>1, SMTT(30) DEF WindowsFit, Fits
    <2>3. Fits(q) /\ buf'[q] = buf[q] /\ base'[q] = base[q]
      BY DEF WindowsFit
    <2>4. Len(dat'[base[q]]) = Len(dat[base[q]])
      BY <2>1 DEF SameNumbers
    <2>5. \A i \in 1 .. Len(buf[q].hdrs) :
             dat'[base[q]][buf[q].off + i].num = dat[base[q]][buf[q].off + i].num
      BY <2>1, <2>2 DEF SameNumbers
    <2> QED
      BY <2>3, <2>4, <2>5 DEF Fits
  <1>7. NoWindow'
    BY <1>1 DEF NoWindow
  <1> QED
    BY <1>2, <1>3, <1>4, <1>5, <1>6, <1>7
\* Taking a number keeps the order: the number is above all headers.
LEMMA TakeStep ==
    ASSUME TypeOK, TypeOK', Ordered, Orderly', NEW p \in Procs, NEW kind, NEW h, NEW src,
           TakeNumber(p, kind, h, src), ~Saving(p), kind # "none",
           ptr' = ptr, dat' = dat, base' = base, at' = at,
           \A q \in Procs \ {p} : buf'[q] = buf[q],
           Fits(p)', kind = "post" => buf'[p] = NoBuf
    PROVE  Ordered'
  <1> USE DEF Ordered
  <1>1. \A q \in Procs \ {p} : ~Saving(q)
    BY DEF TakeNumber, Under, Orderly
  <1>2. /\ pc' = [pc EXCEPT ![p] = "set"]
        /\ job'[p].hdr.num = ptr[base[p]].high + 1
        /\ job'[p].kind = kind
        /\ ptrs'[p].high = ptr[base[p]].high + 1
    BY DEF TakeNumber, Goto, TypeOK
  <1>3. pc'[p] = "set" /\ \A q \in Procs \ {p} : pc'[q] = pc[q]
    BY <1>2 DEF TypeOK
  <1>4. \A q \in Procs : Saving(q)' <=> q = p
    BY <1>1, <1>3 DEF Saving
  <1>5. OneSaver'
    BY <1>4 DEF OneSaver
  <1>6. NumberTaken'
    <2> SUFFICES ASSUME NEW q \in Procs, Saving(q)'
                 PROVE  /\ job'[q].kind # "none"
                        /\ pc'[q] = "set" => /\ job'[q].hdr.num = ptr'[base'[q]].high + 1
                                             /\ ptrs'[q].high = job'[q].hdr.num
                        /\ pc'[q] \notin {"rename", "seek", "hdr", "text"}
      BY DEF NumberTaken, Taken, Saving
    <2> QED
      BY <1>2, <1>3, <1>4
  <1>7. PtrCovers' /\ Ascending'
    BY DEF PtrCovers, Ascending
  <1>8. WindowsFit'
    <2> SUFFICES ASSUME NEW q \in Procs \ {p} PROVE Fits(q)'
      BY DEF WindowsFit
    <2>1. Fits(q) /\ buf'[q] = buf[q]
      BY DEF WindowsFit
    <2> QED
      BY <2>1 DEF Fits
  <1>9. NoWindow'
    BY <1>2, <1>3, <1>4 DEF NoWindow
  <1> QED
    BY <1>5, <1>6, <1>7, <1>8, <1>9

\* What was just read is a stretch of the file.
LEMMA WindowFits ==
    ASSUME NEW s \in Headers, NEW off \in Nat, off <= Len(s)
    PROVE  /\ Window(s, off).off + Len(Window(s, off).hdrs) <= Len(s)
           /\ \A i \in 1 .. Len(Window(s, off).hdrs) :
                 Window(s, off).hdrs[i].num = s[Window(s, off).off + i].num
  <1>1. Len(s) \in Nat
    BY DEF Headers
  <1>2. /\ Len(Window(s, off).hdrs) \in Nat
        /\ off + Len(Window(s, off).hdrs) <= Len(s)
    BY <1>1, WindowType, InWindowType, WindowAssumption
  <1>3. /\ Window(s, off).off = off
        /\ \A i \in 1 .. Len(Window(s, off).hdrs) : Window(s, off).hdrs[i] = s[off + i]
    BY WindowType
  <1> QED
    BY <1>1, <1>2, <1>3

\* Reading the window anew makes it fit.
LEMMA FreshFits ==
    ASSUME TypeOK, NEW p \in Procs, NEW off \in Nat, off <= Len(dat[base[p]]),
           dat' = dat, base' = base, buf'[p] = Window(dat[base[p]], off)
    PROVE  Fits(p)'
  <1> DEFINE s == dat[base[p]]
             u == Window(s, off)
  <1>1. s \in Headers
    BY DEF TypeOK
  <1>2. /\ u.off + Len(u.hdrs) <= Len(s)
        /\ \A i \in 1 .. Len(u.hdrs) : u.hdrs[i].num = s[u.off + i].num
    BY <1>1, WindowFits
  <1>3. buf'[p] = u /\ dat'[base'[p]] = s
    OBVIOUS
  <1> HIDE DEF u, s
  <1>4. /\ buf'[p].off + Len(buf'[p].hdrs) <= Len(dat'[base'[p]])
        /\ \A i \in 1 .. Len(buf'[p].hdrs) :
              buf'[p].hdrs[i].num = dat'[base'[p]][buf'[p].off + i].num
    BY <1>2, <1>3
  <1> QED
    BY <1>4 DEF Fits

\* Replacing the headers of a window leaves its seek point.
LEMMA HdrsReplaced ==
    ASSUME NEW r \in Bufs, NEW w
    PROVE  [r EXCEPT !.hdrs = w].hdrs = w /\ [r EXCEPT !.hdrs = w].off = r.off
  BY DEF Bufs

\* Changing the rest of a header does not change its number.
LEMMA HeaderChange ==
    ASSUME TypeOK, NEW p \in Procs, cur[p] # 0, NEW h \in Header, h.num = Current(p).num,
           NEW w, w = [buf[p].hdrs EXCEPT ![cur[p]] = h]
    PROVE  /\ w \in Headers
           /\ Len(w) = Len(buf[p].hdrs)
           /\ \A i \in 1 .. Len(w) : w[i].num = buf[p].hdrs[i].num
  <1>1. buf[p].hdrs \in Seq(Header) /\ cur[p] \in 1 .. Len(buf[p].hdrs)
    BY CurrentType DEF TypeOK, Headers
  <1> QED
    BY <1>1 DEF Current, Headers

\* Marking the header shown as deleted leaves the window fitting the file.
LEMMA FlagFits ==
    ASSUME TypeOK, NEW p \in Procs, Fits(p), cur[p] # 0, dat' = dat, base' = base,
           buf' = [buf EXCEPT ![p].hdrs[cur[p]].del = TRUE]
    PROVE  Fits(p)' /\ \A q \in Procs \ {p} : buf'[q] = buf[q]
  <1> DEFINE h == [Current(p) EXCEPT !.del = TRUE]
             w == [buf[p].hdrs EXCEPT ![cur[p]] = h]
  <1>1. Current(p) \in Header
    BY CurrentType
  <1>2. h \in Header /\ h.num = Current(p).num
    BY <1>1 DEF Header
  <1>3. /\ w \in Headers /\ Len(w) = Len(buf[p].hdrs)
        /\ \A i \in 1 .. Len(w) : w[i].num = buf[p].hdrs[i].num
    <2> HIDE DEF h
    <2> QED
      BY <1>2, HeaderChange
  <1>4. buf' = [buf EXCEPT ![p] = [buf[p] EXCEPT !.hdrs = w]]
    BY DEF Current, TypeOK
  <1> HIDE DEF w
  <1>5. w \in Headers /\ buf' = [buf EXCEPT ![p] = [buf[p] EXCEPT !.hdrs = w]]
    BY <1>3, <1>4
  <1>6. buf \in [Procs -> Bufs]
    BY DEF TypeOK, Bufs
  <1>7. /\ buf'[p].hdrs = w /\ buf'[p].off = buf[p].off
        /\ \A q \in Procs \ {p} : buf'[q] = buf[q]
    <2>1. buf[p] \in Bufs
      BY <1>6
    <2>2. /\ buf'[p] = [buf[p] EXCEPT !.hdrs = w]
          /\ \A q \in Procs \ {p} : buf'[q] = buf[q]
      BY <1>5, <1>6
    <2>3. [buf[p] EXCEPT !.hdrs = w].hdrs = w /\ [buf[p] EXCEPT !.hdrs = w].off = buf[p].off
      BY <2>1, HdrsReplaced
    <2> QED
      BY <2>2, <2>3
  <1> QED
    BY <1>3, <1>7 DEF Fits

\* An unwritten header file has the same numbers.
LEMMA SameIfUnchanged ==
    ASSUME dat' = dat
    PROVE  SameNumbers
  BY DEF SameNumbers
\* The steps of a reader keep the order, stale windows written back included.
LEMMA OrderedRead ==
    ASSUME TypeOK, TypeOK', HeaderChosen, Ordered, Orderly', NEW p \in Procs, Read(p)
    PROVE  Ordered'
  <1> USE DEF Saving
  <1>0. /\ Fits(p) /\ base[p] \in Bases /\ dat[base[p]] \in Headers
        /\ Len(dat[base[p]]) \in Nat /\ buf[p].off \in Nat /\ buf[p].hdrs \in Headers
        /\ Len(buf[p].hdrs) \in Nat
    BY DEF Ordered, WindowsFit, TypeOK, Headers
  <1>1. CASE ReadMessages(p)
    <2>1. PICK off \in 0 .. Len(dat[base[p]]) - 1 :
             buf' = [buf EXCEPT ![p] = Window(dat[base[p]], off)]
      BY <1>1 DEF ReadMessages
    <2>2. buf'[p] = Window(dat[base[p]], off)
      BY <2>1 DEF TypeOK
    <2>3. off \in Nat /\ off <= Len(dat[base[p]])
      BY <1>0, <2>1
    <2>4. Fits(p)'
      <3>1. dat' = dat /\ base' = base
        BY <1>1 DEF ReadMessages, disk
      <3> QED
        BY <2>2, <2>3, <3>1, FreshFits
    <2>5. /\ pc[p] = "idle" /\ pc' = [pc EXCEPT ![p] = "read"]
          /\ ptrs' = [ptrs EXCEPT ![p] = ptr[base[p]]]
          /\ ptr' = ptr /\ dat' = dat /\ base' = base /\ job' = job /\ at' = at
      BY <1>1 DEF ReadMessages, Goto, disk, saves
    <2>6. pc'[p] = "read" /\ \A q \in Procs \ {p} : buf'[q] = buf[q] /\ pc'[q] = pc[q] /\ ptrs'[q] = ptrs[q]
      BY <2>1, <2>5 DEF TypeOK
    <2> QED
      BY <2>4, <2>5, <2>6, ReaderStep, SameIfUnchanged
  <1>2. CASE ShowMsg(p)
    <2>1. PICK off \in 0 .. Len(dat[base[p]]) : buf' = buf \/ buf' = [buf EXCEPT ![p] = Window(dat[base[p]], off)]
      BY <1>0, <1>2 DEF ShowMsg
    <2>2. /\ pc[p] = "read" /\ pc' = pc /\ ptrs' = ptrs
          /\ ptr' = ptr /\ dat' = dat /\ base' = base /\ job' = job /\ at' = at
      BY <1>2 DEF ShowMsg, disk, saves
    <2>3. buf'[p] \in {buf[p], Window(dat[base[p]], off)}
      BY <2>1 DEF TypeOK
    <2>4. Fits(p)'
      <3>1. CASE buf'[p] = buf[p]
        BY <1>0, <2>2, <3>1 DEF Fits
      <3>2. CASE buf'[p] = Window(dat[base[p]], off)
        BY <1>0, <2>2, <3>2, FreshFits
      <3> QED
        BY <2>3, <3>1, <3>2
    <2>5. \A q \in Procs \ {p} : buf'[q] = buf[q]
      BY <2>1 DEF TypeOK
    <2> QED
      BY <2>2, <2>4, <2>5, ReaderStep, SameIfUnchanged
  <1>3. CASE DeleteMsg(p)
    <2>1. /\ pc[p] = "read" /\ pc' = pc /\ ptrs' = ptrs /\ cur[p] # 0
          /\ ptr' = ptr /\ dat' = dat /\ base' = base /\ job' = job /\ at' = at
          /\ buf' = [buf EXCEPT ![p].hdrs[cur[p]].del = TRUE]
      BY <1>3 DEF DeleteMsg, saves, Unlink
    <2>2. Fits(p)' /\ \A q \in Procs \ {p} : buf'[q] = buf[q]
      BY <1>0, <2>1, FlagFits
    <2> QED
      BY <2>1, <2>2, ReaderStep, SameIfUnchanged
  <1>4. CASE EditMsgHdr(p)
    <2>1. PICK d \in Drafts :
             LET h == [Current(p) EXCEPT !.to = d.to, !.priv = d.priv]
                 w == [buf[p].hdrs EXCEPT ![cur[p]] = h]
             IN  /\ buf' = [buf EXCEPT ![p].hdrs = w]
                 /\ dat' = [dat EXCEPT ![base[p]] = WriteAt(@, buf[p].off, w)]
      BY <1>4 DEF EditMsgHdr
    <2> DEFINE h == [Current(p) EXCEPT !.to = d.to, !.priv = d.priv]
               w == [buf[p].hdrs EXCEPT ![cur[p]] = h]
    <2>2. cur[p] # 0 /\ Current(p) \in Header
      BY <1>4, CurrentType DEF EditMsgHdr
    <2>3. h \in Header /\ h.num = Current(p).num
      <3>1. d.to \in Users \cup {All} /\ d.priv \in BOOLEAN
        BY NamesAssumption
      <3> QED
        BY <2>2, <3>1 DEF Header
    <2>4. /\ w \in Headers /\ Len(w) = Len(buf[p].hdrs)
          /\ \A i \in 1 .. Len(w) : w[i].num = buf[p].hdrs[i].num
      <3> HIDE DEF h
      <3> QED
        BY <2>2, <2>3, HeaderChange
    <2>5. /\ buf' = [buf EXCEPT ![p].hdrs = w]
          /\ dat' = [dat EXCEPT ![base[p]] = WriteAt(@, buf[p].off, w)]
      BY <2>1
    <2> HIDE DEF w
    <2>6. dat' = [dat EXCEPT ![base[p]] = WriteAt(@, buf[p].off, w)] /\ w \in Headers
      BY <2>4, <2>5
    <2>7. SameNumbers
      BY <1>0, <2>4, <2>6, WriteSame
    <2>8. /\ buf'[p].hdrs = w /\ buf'[p].off = buf[p].off
          /\ \A q \in Procs \ {p} : buf'[q] = buf[q]
      <3>1. buf \in [Procs -> Bufs] /\ buf[p] \in Bufs
        BY DEF TypeOK, Bufs
      <3>2. /\ buf'[p] = [buf[p] EXCEPT !.hdrs = w]
            /\ \A q \in Procs \ {p} : buf'[q] = buf[q]
        BY <2>5, <3>1
      <3>3. [buf[p] EXCEPT !.hdrs = w].hdrs = w /\ [buf[p] EXCEPT !.hdrs = w].off = buf[p].off
        BY <3>1, HdrsReplaced
      <3> QED
        BY <3>2, <3>3
    <2>9. /\ pc[p] = "read" /\ pc' = pc /\ ptrs' = ptrs
          /\ ptr' = ptr /\ base' = base /\ job' = job /\ at' = at
      BY <1>4 DEF EditMsgHdr, saves
    <2>10. Fits(p)'
      <3>1. Len(dat'[base[p]]) = Len(dat[base[p]])
        BY <1>0, <2>7 DEF SameNumbers
      <3>2. ASSUME NEW i \in 1 .. Len(w)
            PROVE  w[i].num = dat'[base[p]][buf[p].off + i].num
        <4>1. buf[p].off + i \in 1 .. Len(dat[base[p]])
          BY <1>0, <2>4, SMTT(30) DEF Fits
        <4>2. w[i].num = dat[base[p]][buf[p].off + i].num
          BY <1>0, <2>4 DEF Fits
        <4> QED
          BY <1>0, <2>7, <4>1, <4>2 DEF SameNumbers
      <3> QED
        BY <1>0, <2>4, <2>8, <2>9, <3>1, <3>2 DEF Fits
    <2> QED
      BY <2>7, <2>8, <2>9, <2>10, ReaderStep
  <1>5. CASE EditMsg(p) \/ EditFile(p)
    <2>1. /\ pc[p] \in {"read", "edit"} /\ pc'[p] \in {"read", "edit"}
          /\ \A q \in Procs \ {p} : pc'[q] = pc[q]
          /\ ptr' = ptr /\ dat' = dat /\ base' = base /\ job' = job /\ at' = at
          /\ buf' = buf /\ ptrs' = ptrs
      BY <1>5 DEF EditMsg, EditFile, Goto, disk, mem, saves, TypeOK
    <2>2. Fits(p)'
      BY <1>0, <2>1 DEF Fits
    <2> QED
      BY <2>1, <2>2, ReaderStep, SameIfUnchanged
  <1>6. CASE ReplyMsg(p) \/ KeepMsg(p)
    <2>1. /\ pc[p] = "read" /\ pc'[p] \in {"read", "reply", "keep"}
          /\ \A q \in Procs \ {p} : pc'[q] = pc[q]
          /\ ptr' = ptr /\ base' = base /\ job' = job /\ at' = at
          /\ buf' = buf /\ ptrs' = ptrs
          /\ dat' = [dat EXCEPT ![base[p]] = WriteAt(@, buf[p].off, buf[p].hdrs)]
      BY <1>6 DEF ReplyMsg, KeepMsg, WriteBack, Goto, mem, saves, TypeOK
    <2>2. SameNumbers
      BY <1>0, <2>1, WriteSame
    <2>3. Fits(p)'
      <3>1. Len(dat'[base[p]]) = Len(dat[base[p]])
        BY <1>0, <2>2 DEF SameNumbers
      <3>2. ASSUME NEW i \in 1 .. Len(buf[p].hdrs)
            PROVE  buf[p].hdrs[i].num = dat'[base[p]][buf[p].off + i].num
        <4>1. buf[p].off + i \in 1 .. Len(dat[base[p]])
          <5>1. buf[p].off + Len(buf[p].hdrs) <= Len(dat[base[p]])
            BY <1>0 DEF Fits
          <5> QED
            BY <1>0, <5>1, SMTT(30)
        <4> QED
          BY <1>0, <2>2, <4>1 DEF SameNumbers, Fits
      <3> QED
        BY <1>0, <2>1, <3>1, <3>2 DEF Fits
    <2> QED
      BY <2>1, <2>2, <2>3, ReaderStep
  <1>7. CASE ReplyMessage(p)
    <2>1. CASE Goto(p, "replied") /\ UNCHANGED <<disk, mem, saves, hist>>
      <3>1. /\ pc[p] = "reply" /\ pc'[p] = "replied"
            /\ \A q \in Procs \ {p} : pc'[q] = pc[q]
            /\ ptr' = ptr /\ dat' = dat /\ base' = base /\ job' = job /\ at' = at
            /\ buf' = buf /\ ptrs' = ptrs
        BY <1>7, <2>1 DEF ReplyMessage, Goto, disk, mem, saves, TypeOK
      <3>2. Fits(p)'
        BY <1>0, <3>1 DEF Fits
      <3> QED
        BY <3>1, <3>2, ReaderStep, SameIfUnchanged
    <2>2. CASE /\ TakeNumber(p, "reply", Draft(p, [to |-> Current(p).from,
                                                   priv |-> Current(p).priv]), Current(p).num)
               /\ UNCHANGED <<disk, base, buf, cur, at, saved>>
      <3>1. /\ ptr' = ptr /\ dat' = dat /\ base' = base /\ at' = at /\ buf' = buf
            /\ pc[p] = "reply"
        BY <1>7, <2>2 DEF ReplyMessage, disk
      <3>2. Fits(p)'
        BY <1>0, <3>1 DEF Fits
      <3> QED
        BY <2>2, <3>1, <3>2, TakeStep
    <2> QED
      BY <1>7, <2>1, <2>2 DEF ReplyMessage
  <1>8. CASE Replied(p)
    <2>1. /\ pc[p] = "replied" /\ pc'[p] = "reread" /\ cur[p] # 0
          /\ \A q \in Procs \ {p} : pc'[q] = pc[q]
          /\ ptr' = ptr /\ dat' = dat /\ base' = base /\ job' = job /\ at' = at
          /\ ptrs' = ptrs
          /\ buf' = buf \/ buf' = [buf EXCEPT ![p].hdrs[cur[p]].del = TRUE]
      BY <1>8 DEF Replied, Goto, saves, TypeOK, Unlink, HeaderChosen
    <2>2. Fits(p)' /\ \A q \in Procs \ {p} : buf'[q] = buf[q]
      <3>1. CASE buf' = buf
        BY <1>0, <2>1, <3>1 DEF Fits
      <3>2. CASE buf' = [buf EXCEPT ![p].hdrs[cur[p]].del = TRUE]
        BY <1>0, <2>1, <3>2, FlagFits
      <3> QED
        BY <2>1, <3>1, <3>2
    <2> QED
      BY <2>1, <2>2, ReaderStep, SameIfUnchanged
  <1>9. CASE KeepTake(p)
    <2>1. /\ pc[p] = "keep" /\ cur[p] # 0
          /\ TakeNumber(p, "keep", Current(p), Current(p).num)
          /\ ptr' = ptr /\ dat' = dat /\ base' = base /\ at' = at
          /\ buf' = [buf EXCEPT ![p].hdrs[cur[p]].del = TRUE]
      BY <1>9 DEF KeepTake, disk, HeaderChosen
    <2>2. Fits(p)' /\ \A q \in Procs \ {p} : buf'[q] = buf[q]
      BY <1>0, <2>1, FlagFits
    <2> QED
      BY <2>1, <2>2, TakeStep
  <1>10. CASE Reread(p)
    <2>1. /\ pc[p] = "reread" /\ pc'[p] = "read"
          /\ \A q \in Procs \ {p} : pc'[q] = pc[q] /\ buf'[q] = buf[q]
          /\ ptr' = ptr /\ dat' = dat /\ base' = base /\ job' = job /\ at' = at
          /\ ptrs' = ptrs
          /\ buf'[p] = Window(dat[base[p]], buf[p].off)
      BY <1>10 DEF Reread, Goto, disk, saves, TypeOK
    <2>2. buf[p].off <= Len(dat[base[p]])
      BY <1>0 DEF Fits
    <2>3. Fits(p)'
      BY <1>0, <2>1, <2>2, FreshFits
    <2> QED
      BY <2>1, <2>3, ReaderStep, SameIfUnchanged
  <1>11. CASE QuitRead(p)
    <2>1. /\ pc[p] = "read" /\ pc'[p] = "idle"
          /\ \A q \in Procs \ {p} : pc'[q] = pc[q] /\ buf'[q] = buf[q]
          /\ ptr' = ptr /\ dat' = dat /\ base' = base /\ job' = job /\ at' = at
          /\ ptrs' = ptrs
          /\ buf'[p] = NoBuf
      BY <1>11 DEF QuitRead, Goto, disk, saves, TypeOK
    <2>2. Fits(p)'
      BY <1>0, <2>1 DEF Fits, NoBuf
    <2> QED
      BY <2>1, <2>2, ReaderStep, SameIfUnchanged
  <1>12. CASE JumpBase(p)
    BY <1>12 DEF JumpBase, Orderly
  <1> QED
    BY <1>1, <1>2, <1>3, <1>4, <1>5, <1>6, <1>7, <1>8, <1>9, <1>10, <1>11, <1>12 DEF Read

\* A step of the one process that is saving, which leaves the windows alone and
\* at most appends to msgbase.dat.
LEMMA SaverStep ==
    ASSUME TypeOK, TypeOK', Ordered, NEW p \in Procs, Saving(p),
           buf' = buf, base' = base,
           \A q \in Procs \ {p} : pc'[q] = pc[q],
           \A b \in Bases :
              /\ Len(dat'[b]) >= Len(dat[b])
              /\ \A i \in 1 .. Len(dat[b]) : dat'[b][i].num = dat[b][i].num,
           PtrCovers', Ascending', Taken(p)',
           Saving(p)' => job'[p].kind = job[p].kind,
           pc'[p] = "idle" => job[p].kind = "post"
    PROVE  Ordered'
  <1> USE DEF Ordered
  <1>1. \A q \in Procs \ {p} : ~Saving(q) /\ ~Saving(q)'
    BY DEF OneSaver, Saving
  <1>2. OneSaver'
    BY <1>1 DEF OneSaver
  <1>3. NumberTaken'
    <2> SUFFICES ASSUME NEW q \in Procs \ {p} PROVE Taken(q)'
      BY DEF NumberTaken
    <2> QED
      BY <1>1 DEF Taken, Saving
  <1>4. WindowsFit'
    <2> SUFFICES ASSUME NEW q \in Procs PROVE Fits(q)'
      BY DEF WindowsFit
    <2>1. /\ base[q] \in Bases /\ buf[q].off \in Nat /\ buf[q].hdrs \in Seq(Header)
          /\ Len(dat[base[q]]) \in Nat /\ dat'[base[q]] \in Seq(Header)
      BY SMTT(30) DEF TypeOK, Headers
    <2>2. Fits(q)
      BY DEF WindowsFit
    <2>3. \A i \in 1 .. Len(buf[q].hdrs) : buf[q].off + i \in 1 .. Len(dat[base[q]])
      BY <2>1, <2>2, SMTT(30) DEF Fits
    <2>4. \A i \in 1 .. Len(buf[q].hdrs) :
             dat'[base[q]][buf[q].off + i].num = dat[base[q]][buf[q].off + i].num
      BY <2>1, <2>3
    <2>5. Len(dat'[base[q]]) >= Len(dat[base[q]]) /\ Len(dat'[base[q]]) \in Nat
      BY <2>1
    <2>6. buf[q].off + Len(buf[q].hdrs) <= Len(dat'[base[q]])
      BY <2>1, <2>2, <2>5, SMTT(30) DEF Fits
    <2> QED
      BY <2>2, <2>4, <2>6 DEF Fits
  <1>5. NoWindow'
    <2> SUFFICES ASSUME NEW q \in Procs,
                        pc'[q] = "idle" \/ (Saving(q)' /\ job'[q].kind = "post")
                 PROVE  buf[q] = NoBuf
      BY DEF NoWindow
    <2>1. CASE q = p
      BY <2>1 DEF NoWindow
    <2>2. CASE q # p
      BY <1>1, <2>2 DEF NoWindow
    <2> QED
      BY <2>1, <2>2
  <1> QED
    BY <1>2, <1>3, <1>4, <1>5

\* The new header goes behind the others and has the highest number.
LEMMA AppendStep ==
    ASSUME TypeOK, Ordered, NEW p \in Procs, pc[p] = "hdr", ptr' = ptr,
           dat' = [dat EXCEPT ![base[p]] = WriteAt(@, at[p], <<job[p].hdr>>)]
    PROVE  /\ PtrCovers' /\ Ascending'
           /\ \A b \in Bases :
                 /\ Len(dat'[b]) >= Len(dat[b])
                 /\ \A i \in 1 .. Len(dat[b]) : dat'[b][i].num = dat[b][i].num
  <1> DEFINE s == dat[base[p]]
             h == job[p].hdr
             u == WriteAt(s, Len(s), <<h>>)
  <1>1. /\ base[p] \in Bases /\ s \in Headers /\ h \in Header /\ Len(s) \in Nat
        /\ \A b \in Bases : Len(dat[b]) \in Nat
        /\ \A b \in Bases : ptr[b].high \in Nat
        /\ \A b \in Bases : \A i \in 1 .. Len(dat[b]) : dat[b][i].num \in Nat
    <2>1. base[p] \in Bases /\ s \in Headers
      BY DEF TypeOK
    <2>2. job[p].hdr \in Header
      BY DEF TypeOK
    <2>3. \A b \in Bases : Len(dat[b]) \in Nat /\ dat[b] \in Seq(Header)
      BY LenType
    <2>4. Nums \subseteq Nat
      BY NumberFact DEF Nums
    <2>5. \A b \in Bases : ptr[b].high \in Nat
      BY <2>4 DEF TypeOK
    <2>6. ASSUME NEW b \in Bases, NEW i \in 1 .. Len(dat[b]) PROVE dat[b][i].num \in Nat
      <3>1. dat[b][i] \in Header
        BY <2>3
      <3> QED
        BY <2>4, <3>1 DEF Header
    <2> QED
      BY <2>1, <2>2, <2>3, <2>5, <2>6
  <1>2. /\ Len(u) = Len(s) + 1
        /\ \A i \in 1 .. Len(s) : u[i] = s[i]
        /\ u[Len(s) + 1] = h
    BY <1>1, AppendOne
  <1>3. /\ at[p] = Len(s) /\ h.num = ptr[base[p]].high
        /\ \A i \in 1 .. Len(s) : s[i].num < h.num
    BY DEF Ordered, NumberTaken, Taken
  <1>4. dat' = [dat EXCEPT ![base[p]] = u]
    BY <1>3
  <1> HIDE DEF u, h
  <1>5. dat'[base[p]] = u /\ \A b \in Bases \ {base[p]} : dat'[b] = dat[b]
    BY <1>1, <1>4 DEF TypeOK
  <1>6. \A b \in Bases :
           /\ Len(dat'[b]) >= Len(dat[b])
           /\ \A i \in 1 .. Len(dat[b]) : dat'[b][i].num = dat[b][i].num
    <2> SUFFICES ASSUME NEW b \in Bases
                 PROVE  /\ Len(dat'[b]) >= Len(dat[b])
                        /\ \A i \in 1 .. Len(dat[b]) : dat'[b][i].num = dat[b][i].num
      OBVIOUS
    <2>1. CASE b = base[p]
      BY <1>1, <1>2, <1>5, <2>1
    <2>2. CASE b # base[p]
      BY <1>1, <1>5, <2>2
    <2> QED
      BY <2>1, <2>2
  <1>7. PtrCovers'
    <2> SUFFICES ASSUME NEW b \in Bases, NEW i \in 1 .. Len(dat'[b])
                 PROVE  dat'[b][i].num <= ptr[b].high
      BY DEF PtrCovers
    <2>1. CASE b # base[p]
      BY <1>5, <2>1 DEF Ordered, PtrCovers
    <2>2. CASE b = base[p] /\ i = Len(s) + 1
      BY <1>1, <1>2, <1>3, <1>5, <2>2
    <2>3. CASE b = base[p] /\ i # Len(s) + 1
      <3>1. i \in 1 .. Len(s)
        BY <1>1, <1>2, <1>5, <2>3
      <3> QED
        BY <1>2, <1>5, <2>3, <3>1 DEF Ordered, PtrCovers
    <2> QED
      BY <2>1, <2>2, <2>3
  <1>8. Ascending'
    <2> SUFFICES ASSUME NEW b \in Bases, NEW i \in 1 .. Len(dat'[b]),
                        NEW j \in 1 .. Len(dat'[b]), i < j
                 PROVE  dat'[b][i].num < dat'[b][j].num
      BY DEF Ascending
    <2>1. CASE b # base[p]
      BY <1>5, <2>1 DEF Ordered, Ascending
    <2>2. CASE b = base[p]
      <3>1. i \in 1 .. Len(s) /\ (j \in 1 .. Len(s) \/ j = Len(s) + 1)
        BY <1>1, <1>2, <1>5, <2>2
      <3>2. CASE j \in 1 .. Len(s)
        BY <1>2, <1>5, <2>2, <3>1, <3>2, SMTT(30) DEF Ordered, Ascending
      <3>3. CASE j = Len(s) + 1
        BY <1>2, <1>3, <1>5, <2>2, <3>1, <3>3
      <3> QED
        BY <3>1, <3>2, <3>3
    <2> QED
      BY <2>1, <2>2
  <1> QED
    BY <1>6, <1>7, <1>8

\* The steps of a save keep the order.
LEMMA OrderedSave ==
    ASSUME TypeOK, TypeOK', Ordered, Orderly', NEW p \in Procs, Save(p)
    PROVE  Ordered'
  <1>0. /\ \A b \in Bases : Len(dat[b]) \in Nat
        /\ base[p] \in Bases /\ Fits(p) /\ Taken(p) /\ PtrCovers /\ Ascending
    BY LenType DEF Ordered, NumberTaken, WindowsFit, TypeOK
  <1>1. CASE EnterMsg(p)
    <2>1. PICK d \in Drafts : TakeNumber(p, "post", Draft(p, d), 0)
      BY <1>1 DEF EnterMsg
    <2>2. /\ ptr' = ptr /\ dat' = dat /\ base' = base /\ at' = at /\ buf' = buf
          /\ pc[p] = "idle"
      BY <1>1 DEF EnterMsg, disk
    <2>3. Fits(p)' /\ buf[p] = NoBuf /\ ~Saving(p)
      BY <1>0, <2>2 DEF Fits, Ordered, NoWindow, Saving
    <2> QED
      BY <2>1, <2>2, <2>3, TakeStep
  <1>2. CASE SetMsgPtrs(p)
    <2>1. /\ pc[p] = "set" /\ pc'[p] \in {"rename", "seek"}
          /\ \A q \in Procs \ {p} : pc'[q] = pc[q]
          /\ dat' = dat /\ base' = base /\ buf' = buf /\ job' = job /\ ptrs' = ptrs
          /\ ptr' = [ptr EXCEPT ![base[p]] = ptrs[p]]
      BY <1>2 DEF SetMsgPtrs, Goto, mem, saves, TypeOK
    <2>2. /\ ptr'[base[p]] = ptrs[p]
          /\ \A b \in Bases \ {base[p]} : ptr'[b] = ptr[b]
          /\ ptr[base[p]].high \in Nat
      <3>1. Nums \subseteq Nat
        BY NumberFact DEF Nums
      <3> QED
        BY <1>0, <2>1, <3>1 DEF TypeOK
    <2>3. ptrs[p].high = job[p].hdr.num /\ job[p].hdr.num = ptr[base[p]].high + 1
      BY <1>0, <2>1 DEF Taken
    <2>4. \A b \in Bases : \A i \in 1 .. Len(dat[b]) : dat[b][i].num \in Nat
      <3> SUFFICES ASSUME NEW b \in Bases, NEW i \in 1 .. Len(dat[b])
                   PROVE  dat[b][i].num \in Nat
        OBVIOUS
      <3>1. dat[b][i] \in Header /\ Nums \subseteq Nat
        BY LenType, NumberFact DEF Nums
      <3> QED
        BY <3>1 DEF Header
    <2>5. PtrCovers'
      <3> SUFFICES ASSUME NEW b \in Bases, NEW i \in 1 .. Len(dat[b])
                   PROVE  dat[b][i].num <= ptr'[b].high
        BY <2>1 DEF PtrCovers
      <3>1. dat[b][i].num <= ptr[b].high
        BY <1>0 DEF PtrCovers
      <3>2. CASE b = base[p]
        BY <2>2, <2>3, <2>4, <3>1, <3>2
      <3>3. CASE b # base[p]
        BY <2>2, <3>1, <3>3
      <3> QED
        BY <3>2, <3>3
    <2>6. \A i \in 1 .. Len(dat[base[p]]) : dat[base[p]][i].num < job[p].hdr.num
      BY <1>0, <2>2, <2>3, <2>4, SMTT(30) DEF PtrCovers
    <2>7. Taken(p)'
      BY <1>0, <2>1, <2>2, <2>3, <2>6 DEF Taken, Saving
    <2>8. Ascending'
      BY <1>0, <2>1 DEF Ascending
    <2>9. Saving(p)
      BY <2>1 DEF Saving
    <2> QED
      BY <1>0, <2>1, <2>5, <2>7, <2>8, <2>9, SaverStep
  <1>3. CASE KeepRename(p) \/ SeekEnd(p)
    <2>1. /\ pc[p] \in {"rename", "seek"}
          /\ pc'[p] = IF pc[p] = "rename" THEN "seek" ELSE "hdr"
          /\ pc[p] = "seek" => at'[p] = Len(dat[base[p]])
          /\ \A q \in Procs \ {p} : pc'[q] = pc[q]
          /\ ptr' = ptr /\ dat' = dat /\ base' = base /\ buf' = buf /\ job' = job
      BY <1>3 DEF KeepRename, SeekEnd, Goto, disk, mem, saves, TypeOK
    <2>2. Taken(p)'
      BY <1>0, <2>1 DEF Taken, Saving
    <2>3. PtrCovers' /\ Ascending' /\ Saving(p)
      BY <1>0, <2>1 DEF PtrCovers, Ascending, Saving
    <2> QED
      BY <1>0, <2>1, <2>2, <2>3, SaverStep
  <1>4. CASE AppendHeader(p)
    <2>1. /\ pc[p] = "hdr"
          /\ \/ job[p].kind = "keep" /\ pc'[p] = "reread"
             \/ job[p].kind # "keep" /\ pc'[p] = "text" /\ job' = job
          /\ \A q \in Procs \ {p} : pc'[q] = pc[q]
          /\ ptr' = ptr /\ base' = base /\ buf' = buf
          /\ dat' = [dat EXCEPT ![base[p]] = WriteAt(@, at[p], <<job[p].hdr>>)]
      BY <1>4 DEF AppendHeader, Goto, EndSave, mem, TypeOK
    <2>2. /\ PtrCovers' /\ Ascending'
          /\ \A b \in Bases :
                 /\ Len(dat'[b]) >= Len(dat[b])
                 /\ \A i \in 1 .. Len(dat[b]) : dat'[b][i].num = dat[b][i].num
      BY <2>1, AppendStep
    <2>3. Taken(p)' /\ Saving(p)
      BY <1>0, <2>1 DEF Taken, Saving
    <2>4. Saving(p)' => job'[p].kind = job[p].kind
      BY <2>1 DEF Saving
    <2> QED
      BY <2>1, <2>2, <2>3, <2>4, SaverStep
  <1>5. CASE WriteText(p)
    <2>1. /\ pc[p] = "text" /\ pc'[p] = IF job[p].kind = "reply" THEN "replied" ELSE "idle"
          /\ \A q \in Procs \ {p} : pc'[q] = pc[q]
          /\ ptr' = ptr /\ dat' = dat /\ base' = base /\ buf' = buf
      BY <1>5 DEF WriteText, Goto, EndSave, mem, TypeOK
    <2>2. Saving(p) /\ ~Saving(p)' /\ Taken(p)' /\ PtrCovers' /\ Ascending'
      BY <1>0, <2>1 DEF Taken, Saving, PtrCovers, Ascending
    <2>3. job[p].kind \in {"post", "reply"}
      <3>1. job[p].kind \in {"none", "post", "reply", "keep"}
        BY DEF TypeOK
      <3> QED
        BY <1>0, <2>1, <2>2, <3>1 DEF Taken
    <2> QED
      BY <1>0, <2>1, <2>2, <2>3, SaverStep
  <1>6. CASE SaveFails(p)
    <2>1. /\ pc[p] \in {"set", "seek", "text"} /\ job[p].kind # "keep"
          /\ ptr' = ptr /\ dat' = dat /\ base' = base /\ buf' = buf
      BY <1>6 DEF SaveFails, Under, Orderly, disk, mem
    <2>2. Saving(p) /\ job[p].kind \in {"post", "reply"}
      <3>1. job[p].kind \in {"none", "post", "reply", "keep"}
        BY DEF TypeOK
      <3> QED
        BY <1>0, <2>1, <3>1 DEF Taken, Saving
    <2>3. pc' = [pc EXCEPT ![p] = IF job[p].kind = "post" THEN "idle" ELSE "replied"]
      BY <1>6, <2>2 DEF SaveFails, EndSave, Goto
    <2>4. /\ pc'[p] = IF job[p].kind = "post" THEN "idle" ELSE "replied"
          /\ \A q \in Procs \ {p} : pc'[q] = pc[q]
      BY <2>3 DEF TypeOK
    <2>5. ~Saving(p)' /\ Taken(p)' /\ PtrCovers' /\ Ascending'
      BY <1>0, <2>1, <2>4 DEF Taken, Saving, PtrCovers, Ascending
    <2> QED
      BY <1>0, <2>1, <2>2, <2>4, <2>5, SaverStep
  <1> QED
    BY <1>1, <1>2, <1>3, <1>4, <1>5, <1>6 DEF Save
\* Joining another base keeps the order.
LEMMA OrderedChange ==
    ASSUME TypeOK, TypeOK', Ordered, NEW p \in Procs, ChangeMsgBase(p)
    PROVE  Ordered'
  <1>1. /\ pc[p] = "idle" /\ pc' = pc /\ base' \in [Procs -> Bases]
        /\ \A q \in Procs \ {p} : base'[q] = base[q] /\ ptrs'[q] = ptrs[q]
        /\ ptr' = ptr /\ dat' = dat /\ buf' = buf /\ job' = job /\ at' = at
    BY DEF ChangeMsgBase, disk, saves, TypeOK
  <1>2. OneSaver' /\ PtrCovers' /\ Ascending' /\ NoWindow'
    BY <1>1 DEF Ordered, OneSaver, Saving, PtrCovers, Ascending, NoWindow
  <1>3. NumberTaken'
    <2> SUFFICES ASSUME NEW q \in Procs PROVE Taken(q)'
      BY DEF NumberTaken
    <2> QED
      BY <1>1 DEF Ordered, NumberTaken, Taken, Saving
  <1>4. WindowsFit'
    <2> SUFFICES ASSUME NEW q \in Procs PROVE Fits(q)'
      BY DEF WindowsFit
    <2>1. CASE q = p
      <3>1. buf'[p] = NoBuf /\ base'[p] \in Bases
        BY <1>1 DEF Ordered, NoWindow
      <3>2. Len(dat'[base'[p]]) \in Nat
        BY <1>1, <3>1, LenType
      <3> QED
        BY <2>1, <3>1, <3>2 DEF Fits, NoBuf
    <2>2. CASE q # p
      BY <1>1, <2>2 DEF Ordered, WindowsFit, Fits
    <2> QED
      BY <2>1, <2>2
  <1> QED
    BY <1>2, <1>3, <1>4 DEF Ordered

\* Nothing done, nothing out of order.
LEMMA OrderedStutter ==
    ASSUME Ordered, UNCHANGED vars
    PROVE  Ordered'
  BY DEF vars, Ordered, OneSaver, NumberTaken, Taken, Saving, PtrCovers, Ascending,
         WindowsFit, Fits, NoWindow

\* The program starts in order.
LEMMA OrderedInit == Init => Ordered
  <1> SUFFICES ASSUME Init PROVE Ordered
    OBVIOUS
  <1>1. \A p \in Procs : pc[p] = "idle" /\ buf[p] = NoBuf /\ dat[base[p]] = <<>>
    <2>1. 1 \in Bases
      BY BasesAssumption DEF Bases
    <2> QED
      BY <2>1 DEF Init
  <1>2. \A b \in Bases : dat[b] = <<>>
    BY DEF Init
  <1> QED
    BY <1>1, <1>2 DEF Ordered, OneSaver, NumberTaken, Taken, Saving, PtrCovers,
       Ascending, WindowsFit, Fits, NoWindow, NoBuf

\* What has gone wrong stays on record.
LEMMA OrderlyBefore ==
    ASSUME Maintainers = {}, [Next]_vars, Orderly'
    PROVE  Orderly
  <1>1. mishap \subseteq mishap'
    <2>1. CASE \E p \in Procs : Save(p) \/ ChangeMsgBase(p)
      BY <2>1 DEF Save, EnterMsg, TakeNumber, SetMsgPtrs, KeepRename, SeekEnd,
         AppendHeader, WriteText, SaveFails, ChangeMsgBase, hist
    <2>2. CASE \E p \in Nodes : Read(p)
      <3>1. PICK p \in Nodes : Read(p)
        BY <2>2
      <3>2. CASE ReadMessages(p) \/ ShowMsg(p) \/ DeleteMsg(p) \/ EditMsgHdr(p) \/ EditMsg(p)
        BY <3>2 DEF ReadMessages, ShowMsg, DeleteMsg, Unlink, EditMsgHdr, EditMsg, hist
      <3>3. CASE EditFile(p) \/ ReplyMsg(p) \/ KeepMsg(p) \/ ReplyMessage(p)
        BY <3>3 DEF EditFile, ReplyMsg, KeepMsg, ReplyMessage, TakeNumber, hist
      <3>4. CASE Replied(p) \/ KeepTake(p) \/ Reread(p) \/ QuitRead(p) \/ JumpBase(p)
        BY <3>4 DEF Replied, Unlink, KeepTake, TakeNumber, Reread, QuitRead, JumpBase, hist
      <3> QED
        BY <3>1, <3>2, <3>3, <3>4 DEF Read
    <2>3. CASE UNCHANGED vars
      BY <2>3 DEF vars
    <2> QED
      BY <2>1, <2>2, <2>3 DEF Next
  <1> QED
    BY <1>1 DEF Orderly

\* Every step without a mishap keeps the order.
LEMMA OrderedStep ==
    ASSUME Maintainers = {}, TypeOK, TypeOK', HeaderChosen, Ordered, Orderly', [Next]_vars
    PROVE  Ordered'
  <1>1. CASE \E p \in Procs : Save(p)
    BY <1>1, OrderedSave
  <1>2. CASE \E p \in Procs : ChangeMsgBase(p)
    BY <1>2, OrderedChange
  <1>3. CASE \E p \in Nodes : Read(p)
    BY <1>3, OrderedRead DEF Procs
  <1>4. CASE UNCHANGED vars
    BY <1>4, OrderedStutter
  <1> QED
    BY <1>1, <1>2, <1>3, <1>4 DEF Next

\* The invariant of the running system: Ordered until something untoward.
Inv == TypeOK /\ HeaderChosen /\ (Orderly => Ordered)

\* The inductive invariant holds in every reachable state.
LEMMA Invariance ==
    ASSUME Maintainers = {}
    PROVE  Spec => []Inv
  <1>1. Init => Orderly /\ Ordered
    BY OrderedInit DEF Init, Orderly
  <1>2. (Orderly => Ordered) /\ TypeOK /\ TypeOK' /\ HeaderChosen /\ [Next]_vars
           => (Orderly => Ordered)'
    BY OrderlyBefore, OrderedStep
  <1>3. Spec => []TypeOK /\ []HeaderChosen
    BY TypeCorrect, PTL
  <1> QED
    BY <1>1, <1>2, <1>3, PTL DEF Spec, Inv

\* While the system runs without the maintenance tools, and saves do not
\* overlap, the headers of every base stay in the order of their numbers: the
\* windows that readers write back (readmsgs.c, updatemsgdatas) never bring an
\* old number back or lose a new one.  Bases may be as long as 16-bit numbers allow and
\* much longer than a window, which the search moves to any place in them.
THEOREM NumbersCorrect ==
    ASSUME Maintainers = {}
    PROVE  Spec => []NumbersAscend
  <1>1. Inv => NumbersAscend
    BY DEF Inv, Ordered, NumbersAscend
  <1> QED
    BY <1>1, Invariance, PTL

\* ... and the next number entermsg, keepmsg or a tool takes is above that of
\* every header, so that no text file is written over.
THEOREM HighCorrect ==
    ASSUME Maintainers = {}
    PROVE  Spec => []HighCoversHeaders
  <1>1. Inv => HighCoversHeaders
    BY DEF Inv, Ordered, HighCoversHeaders
  <1> QED
    BY <1>1, Invariance, PTL

\* No step of a node or a tool takes msgbase.ptr back.
LEMMA HighStep ==
    ASSUME Maintainers = {}, TypeOK, Ordered, [Next]_vars
    PROVE  \A b \in Bases : ptr'[b].high >= ptr[b].high
  <1> SUFFICES ASSUME NEW b \in Bases PROVE ptr'[b].high >= ptr[b].high
    OBVIOUS
  <1>0. ptr[b].high \in Nat
    <2>1. Nums \subseteq Nat
      BY NumberFact DEF Nums
    <2> QED
      BY <2>1 DEF TypeOK
  <1>1. CASE \E p \in Procs : SetMsgPtrs(p)
    <2>1. PICK p \in Procs : SetMsgPtrs(p)
      BY <1>1
    <2>2. ptrs[p].high = ptr[base[p]].high + 1
      BY <2>1 DEF Ordered, NumberTaken, Taken, SetMsgPtrs
    <2>3. ptr' = [ptr EXCEPT ![base[p]] = ptrs[p]]
      BY <2>1 DEF SetMsgPtrs
    <2>4. ptr'[b] = IF b = base[p] THEN ptrs[p] ELSE ptr[b]
      BY <2>3 DEF TypeOK
    <2> QED
      BY <1>0, <2>2, <2>4
  <1>2. CASE ptr' = ptr
    BY <1>0, <1>2
  <1>3. (\E p \in Procs : SetMsgPtrs(p)) \/ ptr' = ptr
    <2>1. CASE \E p \in Procs : (Save(p) /\ ~SetMsgPtrs(p)) \/ ChangeMsgBase(p)
      BY <2>1 DEF Save, EnterMsg, KeepRename, SeekEnd, AppendHeader, WriteText,
         SaveFails, ChangeMsgBase, disk
    <2>2. CASE \E p \in Nodes : Read(p)
      BY <2>2 DEF Read, ReadMessages, ShowMsg, DeleteMsg, EditMsgHdr, EditMsg, EditFile,
         ReplyMsg, KeepMsg, ReplyMessage, Replied, KeepTake, Reread, QuitRead, JumpBase,
         disk
    <2>3. CASE UNCHANGED vars
      BY <2>3 DEF vars
    <2> QED
      BY <2>1, <2>2, <2>3 DEF Next
  <1> QED
    BY <1>1, <1>2, <1>3

\* msgbase.ptr only ever grows, so no message number is handed out twice.
THEOREM HighOnlyGrows ==
    ASSUME Maintainers = {}
    PROVE  Spec => HighNeverFalls
  <1> DEFINE Grows == Orderly' /\ (\A m \in Maintainers : ~Maintain(m))
                        => \A b \in Bases : ptr'[b].high >= ptr[b].high
  <1>1. Inv /\ [Next]_vars => [Grows]_vars
    BY OrderlyBefore, HighStep DEF Inv
  <1> HIDE DEF Grows
  <1>2. Spec => [][Grows]_vars
    BY <1>1, Invariance, PTL DEF Spec
  <1> QED
    BY <1>2 DEF HighNeverFalls, Grows

-----------------------------------------------------------------------------
(* Messages.  A text belongs to the header of its number, and a message that *)
(* was saved can be read under some number until it is deleted.  Both rest   *)
(* on the windows: that they have the headers they were read from, and that  *)
(* none that may yet be written back flags the header of such a message.     *)

\* A header of a number and an identity is in a file or window; none of that number is
\* flagged as deleted.
Has(s, n, id) == \E i \in 1 .. Len(s) : s[i].num = n /\ s[i].id = id
Clear(s, n) == \A i \in 1 .. Len(s) : s[i].num = n => ~s[i].del

\* A keepmsg whose text is still under the old number, and one that has moved it.
Keeps(p) == pc[p] \in {"set", "rename"} /\ job[p].kind = "keep"
Moved(p) == pc[p] \in {"seek", "hdr"} /\ job[p].kind = "keep"

\* A window has the headers of the file it was read from, not the numbers alone.
SameIds(p) == \A i \in 1 .. Len(buf[p].hdrs) : buf[p].hdrs[i].id = dat[base[p]][buf[p].off + i].id

\* Every text is that of the header of its number, or on its way to a new header.
Belongs(b, n) ==
    text[b][n] # None =>
       \/ Has(dat[b], n, text[b][n])
       \/ \E p \in Procs : /\ Moved(p) /\ base[p] = b
                           /\ job[p].hdr.num = n /\ job[p].hdr.id = text[b][n]

\* The header of the message being saved: the one kept is in the file, and a new one
\* once it was appended.
Source(p) ==
    /\ pc[p] = "rename" => job[p].kind = "keep"
    /\ Keeps(p) => Has(dat[base[p]], job[p].src, job[p].hdr.id)
    /\ pc[p] = "text" => Has(dat[base[p]], job[p].hdr.num, job[p].hdr.id)

Matched == /\ \A p \in Procs : SameIds(p) /\ Source(p)
           /\ \A b \in Bases, n \in Nums : Belongs(b, n)

\* Windows that may yet be written back.
Held == {"read", "edit", "keep"}

\* Nobody has flagged the header of number n, nor will by writing a window back.
Clean(b, n) ==
    /\ Clear(dat[b], n)
    /\ \A p \in Procs : base[p] = b /\ pc[p] \in Held => Clear(buf[p].hdrs, n)

\* The message can be read under the number n and stays so ...
Home(b, id, n) == Has(dat[b], n, id) /\ Clean(b, n) /\ text[b][n] = id
\* ... unless keepmsg is about to give it another one.
Leaving(b, n) == \E p \in Procs : Keeps(p) /\ base[p] = b /\ job[p].src = n
Carried(p, b, id) ==
    /\ base[p] = b /\ job[p].hdr.id = id /\ ~job[p].hdr.del
    /\ Keeps(p) \/ Moved(p)
    /\ Keeps(p) => \E n \in Nums : n = job[p].src /\ Home(b, id, n)
    /\ Moved(p) => text[b][job[p].hdr.num] = id
Lives(b, id) ==
    /\ id # None
    /\ \/ \E n \in Nums : Home(b, id, n) /\ ~Leaving(b, n)
       \/ \E p \in Procs : Carried(p, b, id)

\* The header of a message whose text is not written yet is not flagged.
Coming(p) ==
    Saving(p) /\ job[p].kind # "keep" =>
       /\ ~job[p].hdr.del /\ job[p].hdr.id # None
       /\ pc[p] = "text" => \E b \in Bases, n \in Nums : b = base[p] /\ n = job[p].hdr.num /\ Clean(b, n)

Living == /\ \A p \in Procs : Coming(p)
          /\ \A m \in saved : Lives(m[1], m[2])

-----------------------------------------------------------------------------
(* Files and windows. *)

\* A number has one header.
LEMMA OneHeaderEach ==
    ASSUME TypeOK, Ascending, NEW b \in Bases, NEW n, NEW x, NEW y,
           Has(dat[b], n, x), Has(dat[b], n, y)
    PROVE  x = y
  <1>1. PICK i \in 1 .. Len(dat[b]) : dat[b][i].num = n /\ dat[b][i].id = x
    BY DEF Has
  <1>2. PICK j \in 1 .. Len(dat[b]) : dat[b][j].num = n /\ dat[b][j].id = y
    BY DEF Has
  <1>3. dat[b][i] \in Header /\ dat[b][j] \in Header /\ Len(dat[b]) \in Nat
    BY LenType
  <1>4. n \in Nat
    BY <1>1, <1>3, NumberFact DEF Header, Nums
  <1>5. ~(i < j) /\ ~(j < i)
    BY <1>1, <1>2, <1>4 DEF Ascending
  <1>6. i = j
    BY <1>3, <1>5
  <1> QED
    BY <1>1, <1>2, <1>6

\* A header of a window that fits is in the file.
LEMMA InFile ==
    ASSUME TypeOK, NEW p \in Procs, Fits(p), SameIds(p), NEW i \in 1 .. Len(buf[p].hdrs)
    PROVE  /\ buf[p].off + i \in 1 .. Len(dat[base[p]])
           /\ Has(dat[base[p]], buf[p].hdrs[i].num, buf[p].hdrs[i].id)
  <1>1. /\ base[p] \in Bases /\ Len(dat[base[p]]) \in Nat /\ buf[p].off \in Nat
        /\ Len(buf[p].hdrs) \in Nat
    BY LenType, SMTT(30) DEF TypeOK, Headers
  <1>2. buf[p].off + Len(buf[p].hdrs) <= Len(dat[base[p]])
    BY DEF Fits
  <1>3. buf[p].off + i \in 1 .. Len(dat[base[p]])
    <2>1. \A k, m, n \in Nat : k + m <= n => \A j \in 1 .. m : k + j \in 1 .. n
      OBVIOUS
    <2> QED
      BY <1>1, <1>2, <2>1, Zenon
  <1> QED
    BY <1>3 DEF Has, Fits, SameIds

\* The header a reader acts on is one of them.
LEMMA CurrentInFile ==
    ASSUME TypeOK, NEW p \in Procs, Fits(p), SameIds(p), cur[p] # 0
    PROVE  /\ Current(p) \in Header
           /\ Has(dat[base[p]], Current(p).num, Current(p).id)
  <1>1. cur[p] \in 1 .. Len(buf[p].hdrs) /\ Current(p) \in Header
    BY CurrentType
  <1> QED
    BY <1>1, InFile DEF Current

\* The same headers, be it to others.
Kin(v, w) ==
    /\ w \in Headers /\ Len(w) = Len(v)
    /\ \A i \in 1 .. Len(v) : w[i].num = v[i].num /\ w[i].id = v[i].id /\ w[i].del = v[i].del

\* A window that fits is written over the headers it was read from.
LEMMA WriteOver ==
    ASSUME TypeOK, NEW p \in Procs, Fits(p), NEW w \in Headers, Len(w) = Len(buf[p].hdrs),
           dat' = [dat EXCEPT ![base[p]] = WriteAt(@, buf[p].off, w)]
    PROVE  /\ \A b \in Bases \ {base[p]} : dat'[b] = dat[b]
           /\ Len(dat'[base[p]]) = Len(dat[base[p]])
           /\ \A i \in 1 .. Len(dat[base[p]]) :
                 dat'[base[p]][i] = IF i > buf[p].off /\ i <= buf[p].off + Len(w) THEN w[i - buf[p].off]
                                    ELSE dat[base[p]][i]
  <1>1. PICK s : s = dat[base[p]]
    OBVIOUS
  <1>2. PICK u : u = WriteAt(s, buf[p].off, w)
    OBVIOUS
  <1>3. s \in Seq(Header) /\ buf[p].off \in Nat /\ base[p] \in Bases /\ w \in Seq(Header)
    BY <1>1 DEF TypeOK, Headers
  <1>4. Len(s) \in Nat /\ Len(w) \in Nat /\ buf[p].off + Len(w) <= Len(s)
    BY <1>1, <1>3 DEF Fits
  <1>5. /\ Len(u) = IF Len(s) > buf[p].off + Len(w) THEN Len(s) ELSE buf[p].off + Len(w)
        /\ \A i \in 1 .. Len(u) :
              u[i] = IF i > buf[p].off /\ i <= buf[p].off + Len(w) THEN w[i - buf[p].off]
                     ELSE IF i <= Len(s) THEN s[i] ELSE NoHeader
    BY <1>2, <1>3, WriteAtSeq, NoHeaderType
  <1>6. Len(u) = Len(s)
    BY <1>3, <1>4, <1>5
  <1>7. \A i \in 1 .. Len(s) : u[i] = IF i > buf[p].off /\ i <= buf[p].off + Len(w) THEN w[i - buf[p].off]
                                      ELSE s[i]
    BY <1>4, <1>5, <1>6
  <1>8. dat' = [dat EXCEPT ![base[p]] = u]
    BY <1>1, <1>2
  <1>9. dat'[base[p]] = u /\ \A b \in Bases \ {base[p]} : dat'[b] = dat[b]
    BY <1>3, <1>8 DEF TypeOK
  <1> QED
    BY <1>1, <1>6, <1>7, <1>9

\* No header is gone or has become another, whatever was written.
SameHeaders ==
    \A b \in Bases :
       /\ Len(dat'[b]) >= Len(dat[b])
       /\ \A i \in 1 .. Len(dat[b]) : dat'[b][i].num = dat[b][i].num /\ dat'[b][i].id = dat[b][i].id

\* Nor is one flagged that was not flagged in the window.
LEMMA WriteKin ==
    ASSUME TypeOK, NEW p \in Procs, Fits(p), SameIds(p), NEW w, Kin(buf[p].hdrs, w),
           dat' = [dat EXCEPT ![base[p]] = WriteAt(@, buf[p].off, w)]
    PROVE  /\ SameHeaders
           /\ \A b \in Bases, n \in Nums : Clear(dat[b], n) /\ (base[p] = b => Clear(buf[p].hdrs, n))
                                             => Clear(dat'[b], n)
  <1>1. PICK b0, k, s, v, u : b0 = base[p] /\ k = buf[p].off /\ s = dat[b0] /\ v = buf[p].hdrs /\ u = dat'[b0]
    OBVIOUS
  <1>2. b0 \in Bases /\ k \in Nat /\ s \in Seq(Header) /\ v \in Seq(Header) /\ w \in Seq(Header)
    BY <1>1 DEF TypeOK, Headers, Kin
  <1>3. Len(w) = Len(v) /\ Len(v) \in Nat /\ Len(s) \in Nat /\ k + Len(v) <= Len(s)
    BY <1>1, <1>2 DEF Kin, Fits
  <1>4. /\ \A b \in Bases \ {b0} : dat'[b] = dat[b]
        /\ Len(u) = Len(s)
        /\ \A i \in 1 .. Len(s) : u[i] = IF i > k /\ i <= k + Len(w) THEN w[i - k] ELSE s[i]
    <2>1. w \in Headers /\ Len(w) = Len(buf[p].hdrs)
      BY DEF Kin
    <2>2. /\ \A b \in Bases \ {base[p]} : dat'[b] = dat[b]
          /\ Len(dat'[base[p]]) = Len(dat[base[p]])
          /\ \A i \in 1 .. Len(dat[base[p]]) :
                dat'[base[p]][i] = IF i > buf[p].off /\ i <= buf[p].off + Len(w) THEN w[i - buf[p].off]
                                   ELSE dat[base[p]][i]
      BY <2>1, WriteOver
    <2> QED
      BY <1>1, <2>2
  <1>5. \A i \in 1 .. Len(v) : /\ w[i].num = s[k + i].num /\ w[i].id = s[k + i].id
                               /\ w[i].num = v[i].num /\ w[i].del = v[i].del
    BY <1>1 DEF Kin, Fits, SameIds
  <1>6. ASSUME NEW i \in 1 .. Len(s)
        PROVE  \/ u[i] = s[i]
               \/ /\ i - k \in 1 .. Len(v) /\ u[i] = w[i - k]
                  /\ u[i].num = s[i].num /\ u[i].id = s[i].id
    <2>1. CASE i > k /\ i <= k + Len(w)
      <3>1. i - k \in 1 .. Len(v) /\ k + (i - k) = i
        BY <1>2, <1>3, <2>1
      <3>2. u[i] = w[i - k]
        BY <1>4, <2>1
      <3> QED
        BY <1>5, <3>1, <3>2
    <2> QED
      BY <1>4, <2>1
  <1>7. SameHeaders
    <2> SUFFICES ASSUME NEW b \in Bases
                 PROVE  /\ Len(dat'[b]) >= Len(dat[b])
                        /\ \A i \in 1 .. Len(dat[b]) : dat'[b][i].num = dat[b][i].num /\ dat'[b][i].id = dat[b][i].id
      BY DEF SameHeaders
    <2>1. CASE b = b0
      BY <1>1, <1>3, <1>4, <1>6, <2>1
    <2>2. CASE b # b0
      <3>1. dat'[b] = dat[b] /\ Len(dat[b]) \in Nat
        BY <1>4, <2>2, LenType
      <3> QED
        BY <3>1
    <2> QED
      BY <2>1, <2>2
  <1>8. ASSUME NEW b \in Bases, NEW n \in Nums, Clear(dat[b], n), b0 = b => Clear(v, n)
        PROVE  Clear(dat'[b], n)
    <2>1. CASE b = b0
      <3>1. ASSUME NEW i \in 1 .. Len(u), u[i].num = n
            PROVE  ~u[i].del
        <4>1. i \in 1 .. Len(s)
          BY <1>4
        <4>2. CASE u[i] = s[i]
          BY <1>1, <1>8, <2>1, <3>1, <4>1, <4>2 DEF Clear
        <4>3. CASE i - k \in 1 .. Len(v) /\ u[i] = w[i - k]
          BY <1>5, <1>8, <2>1, <3>1, <4>3 DEF Clear
        <4> QED
          BY <1>6, <4>1, <4>2, <4>3
      <3> QED
        BY <1>1, <2>1, <3>1 DEF Clear
    <2>2. CASE b # b0
      BY <1>4, <1>8, <2>2
    <2> QED
      BY <2>1, <2>2
  <1> QED
    BY <1>1, <1>7, <1>8

\* The same for a header appended, whose number is above all others.
LEMMA AppendKin ==
    ASSUME TypeOK, NEW p \in Procs, pc[p] = "hdr", Taken(p),
           dat' = [dat EXCEPT ![base[p]] = WriteAt(@, at[p], <<job[p].hdr>>)]
    PROVE  /\ SameHeaders
           /\ Has(dat'[base[p]], job[p].hdr.num, job[p].hdr.id)
           /\ \A b \in Bases, n \in Nums :
                 Clear(dat[b], n) /\ (base[p] = b /\ job[p].hdr.num = n => ~job[p].hdr.del)
                    => Clear(dat'[b], n)
  <1>1. PICK b0, s, h, u : b0 = base[p] /\ s = dat[b0] /\ h = job[p].hdr /\ u = dat'[b0]
    OBVIOUS
  <1>2. b0 \in Bases /\ s \in Headers /\ h \in Header /\ Len(s) \in Nat
    BY <1>1, LenType DEF TypeOK
  <1>3. at[p] = Len(s)
    BY <1>1 DEF Taken
  <1>4. u = WriteAt(s, Len(s), <<h>>) /\ \A b \in Bases \ {b0} : dat'[b] = dat[b]
    BY <1>1, <1>2, <1>3 DEF TypeOK
  <1>5. Len(u) = Len(s) + 1 /\ (\A i \in 1 .. Len(s) : u[i] = s[i]) /\ u[Len(s) + 1] = h
    BY <1>2, <1>4, AppendOne
  <1>6. SameHeaders
    <2> SUFFICES ASSUME NEW b \in Bases
                 PROVE  /\ Len(dat'[b]) >= Len(dat[b])
                        /\ \A i \in 1 .. Len(dat[b]) : dat'[b][i].num = dat[b][i].num /\ dat'[b][i].id = dat[b][i].id
      BY DEF SameHeaders
    <2>1. CASE b = b0
      BY <1>1, <1>2, <1>5, <2>1
    <2>2. CASE b # b0
      <3>1. dat'[b] = dat[b] /\ Len(dat[b]) \in Nat
        BY <1>4, <2>2, LenType
      <3> QED
        BY <3>1
    <2> QED
      BY <2>1, <2>2
  <1>7. Has(u, h.num, h.id)
    <2>1. Len(s) + 1 \in 1 .. Len(u)
      BY <1>2, <1>5
    <2> QED
      BY <1>5, <2>1 DEF Has
  <1>8. ASSUME NEW b \in Bases, NEW n \in Nums, Clear(dat[b], n), b0 = b /\ h.num = n => ~h.del
        PROVE  Clear(dat'[b], n)
    <2>1. CASE b = b0
      <3>1. ASSUME NEW i \in 1 .. Len(u), u[i].num = n
            PROVE  ~u[i].del
        <4>1. i \in 1 .. Len(s) \/ i = Len(s) + 1
          BY <1>2, <1>5
        <4> QED
          BY <1>1, <1>5, <1>8, <2>1, <3>1, <4>1 DEF Clear
      <3> QED
        BY <1>1, <2>1, <3>1 DEF Clear
    <2>2. CASE b # b0
      BY <1>4, <1>8, <2>2
    <2> QED
      BY <2>1, <2>2
  <1> QED
    BY <1>1, <1>6, <1>7, <1>8

\* Headers that stay can be found, and windows of them fit.
LEMMA HeadersFound ==
    ASSUME TypeOK, TypeOK', SameHeaders
    PROVE  /\ \A b \in Bases : \A n, x : Has(dat[b], n, x) => Has(dat'[b], n, x)
           /\ \A p \in Procs : Fits(p) /\ SameIds(p) /\ buf'[p] = buf[p] /\ base'[p] = base[p]
                                  => SameIds(p)'
  <1>1. \A b \in Bases : Len(dat[b]) \in Nat /\ dat'[b] \in Seq(Header)
    BY LenType DEF TypeOK, Headers
  <1>2. \A b \in Bases : 1 .. Len(dat[b]) \subseteq 1 .. Len(dat'[b])
    BY <1>1 DEF SameHeaders
  <1>3. ASSUME NEW b \in Bases, NEW n, NEW x, Has(dat[b], n, x)
        PROVE  Has(dat'[b], n, x)
    <2>1. PICK i \in 1 .. Len(dat[b]) : dat[b][i].num = n /\ dat[b][i].id = x
      BY <1>3 DEF Has
    <2>2. i \in 1 .. Len(dat'[b]) /\ dat'[b][i].num = n /\ dat'[b][i].id = x
      BY <1>2, <2>1 DEF SameHeaders
    <2> QED
      BY <2>2 DEF Has
  <1>4. ASSUME NEW p \in Procs, Fits(p), SameIds(p), buf'[p] = buf[p], base'[p] = base[p]
        PROVE  SameIds(p)'
    <2>1. base[p] \in Bases
      BY DEF TypeOK
    <2>2. ASSUME NEW i \in 1 .. Len(buf[p].hdrs)
          PROVE  buf[p].hdrs[i].id = dat'[base[p]][buf[p].off + i].id
      <3>1. buf[p].off + i \in 1 .. Len(dat[base[p]])
        BY <1>4, InFile
      <3>2. buf[p].hdrs[i].id = dat[base[p]][buf[p].off + i].id
        BY <1>4 DEF SameIds
      <3> QED
        BY <2>1, <3>1, <3>2 DEF SameHeaders
    <2> QED
      BY <1>4, <2>2 DEF SameIds
  <1> QED
    BY <1>3, <1>4

-----------------------------------------------------------------------------
(* What a reader's step does with its window, and a saver's with the file. *)

Flagged(v, w, c) ==
    /\ w \in Headers /\ Len(w) = Len(v)
    /\ \A i \in 1 .. Len(v) : /\ w[i].num = v[i].num /\ w[i].id = v[i].id
                              /\ i # c => w[i].del = v[i].del

Fresh(p) == \E off \in Nat : off <= Len(dat[base[p]]) /\ buf'[p] = Window(dat[base[p]], off)

Reads(p) ==
    /\ base' = base
    /\ \A q \in Procs \ {p} : buf'[q] = buf[q] /\ pc'[q] = pc[q]
    /\ \/ /\ buf'[p].off = buf[p].off /\ Kin(buf[p].hdrs, buf'[p].hdrs)
          /\ pc'[p] \in Held => pc[p] \in Held
          /\ \/ dat' = dat
             \/ /\ pc[p] \in Held
                /\ dat' = [dat EXCEPT ![base[p]] = WriteAt(@, buf[p].off, buf'[p].hdrs)]
       \/ /\ dat' = dat /\ cur[p] # 0
          /\ buf'[p].off = buf[p].off /\ Flagged(buf[p].hdrs, buf'[p].hdrs, cur[p])
          /\ pc'[p] \in Held => pc[p] \in Held /\ DeleteMsg(p)
       \/ dat' = dat /\ Fresh(p)
       \/ dat' = dat /\ buf'[p] = NoBuf

\* A window left alone.
LEMMA SameWindow ==
    ASSUME TypeOK, NEW p \in Procs, buf'[p] = buf[p]
    PROVE  buf'[p].off = buf[p].off /\ Kin(buf[p].hdrs, buf'[p].hdrs)
  BY DEF Kin, TypeOK

\* A window with a header flagged.
LEMMA FlagWindow ==
    ASSUME TypeOK, NEW p \in Procs, cur[p] # 0,
           buf' = [buf EXCEPT ![p].hdrs[cur[p]].del = TRUE]
    PROVE  /\ \A q \in Procs \ {p} : buf'[q] = buf[q]
           /\ buf'[p].off = buf[p].off /\ Flagged(buf[p].hdrs, buf'[p].hdrs, cur[p])
  <1>1. PICK v, c, w : v = buf[p].hdrs /\ c = cur[p] /\ w = [v EXCEPT ![c].del = TRUE]
    OBVIOUS
  <1>2. v \in Seq(Header) /\ c \in 1 .. Len(v) /\ Len(v) \in Nat
    BY <1>1, CurrentType DEF TypeOK, Headers
  <1>3. v[c] \in Header /\ [v[c] EXCEPT !.del = TRUE] \in Header
    <2>1. v[c] \in Header
      BY <1>2
    <2> QED
      BY <2>1 DEF Header
  <1>4. w \in Seq(Header) /\ Len(w) = Len(v) /\ \A i \in 1 .. Len(v) : i # c => w[i] = v[i]
    BY <1>1, <1>2, <1>3
  <1>5. w[c] = [v[c] EXCEPT !.del = TRUE]
    BY <1>1, <1>2
  <1>6. w[c].num = v[c].num /\ w[c].id = v[c].id
    BY <1>3, <1>5 DEF Header
  <1>7. Flagged(v, w, c)
    BY <1>2, <1>4, <1>6 DEF Flagged, Headers
  <1>8. buf \in [Procs -> Bufs] /\ buf[p] \in Bufs
    BY DEF TypeOK, Bufs
  <1>9. buf' = [buf EXCEPT ![p] = [buf[p] EXCEPT !.hdrs = w]]
    BY <1>1, <1>8
  <1>10. buf'[p].hdrs = w /\ buf'[p].off = buf[p].off /\ \A q \in Procs \ {p} : buf'[q] = buf[q]
    <2>1. buf'[p] = [buf[p] EXCEPT !.hdrs = w] /\ \A q \in Procs \ {p} : buf'[q] = buf[q]
      BY <1>8, <1>9
    <2>2. [buf[p] EXCEPT !.hdrs = w].hdrs = w /\ [buf[p] EXCEPT !.hdrs = w].off = buf[p].off
      BY <1>8, HdrsReplaced
    <2> QED
      BY <2>1, <2>2
  <1> QED
    BY <1>1, <1>7, <1>10

\* Every command of the reader but the jump to another base.
LEMMA ReadSteps ==
    ASSUME TypeOK, TypeOK', HeaderChosen, Ordered, Orderly', NEW p \in Procs, Read(p)
    PROVE  Reads(p)
  <1>0. /\ Fits(p) /\ base[p] \in Bases /\ Len(dat[base[p]]) \in Nat
        /\ buf[p].off \in Nat /\ buf[p].off <= Len(dat[base[p]])
    <2>1. /\ Fits(p) /\ base[p] \in Bases /\ Len(dat[base[p]]) \in Nat
          /\ buf[p].off \in Nat /\ Len(buf[p].hdrs) \in Nat
      <3>1. Fits(p)
        BY DEF Ordered, WindowsFit
      <3>2. base[p] \in Bases /\ buf[p].off \in Nat /\ buf[p].hdrs \in Seq(Header)
        BY DEF TypeOK, Headers
      <3> QED
        BY <3>1, <3>2, LenType
    <2> QED
      BY <2>1 DEF Fits
  <1>1. CASE ReadMessages(p)
    <2>1. PICK off \in 0 .. Len(dat[base[p]]) - 1 :
             buf' = [buf EXCEPT ![p] = Window(dat[base[p]], off)]
      BY <1>1 DEF ReadMessages
    <2>2. off \in Nat /\ off <= Len(dat[base[p]])
      BY <1>0, <2>1
    <2>3. /\ buf'[p] = Window(dat[base[p]], off)
          /\ base' = base /\ dat' = dat
          /\ \A q \in Procs \ {p} : buf'[q] = buf[q] /\ pc'[q] = pc[q]
      BY <1>1, <2>1 DEF ReadMessages, Goto, disk, TypeOK
    <2>4. Fresh(p)
      BY <2>2, <2>3 DEF Fresh
    <2> QED
      BY <2>3, <2>4 DEF Reads
  <1>2. CASE ShowMsg(p)
    <2>1. /\ base' = base /\ dat' = dat /\ pc' = pc /\ pc[p] = "read"
          /\ buf' = buf \/ \E off \in 0 .. Len(dat[base[p]]) : buf' = [buf EXCEPT ![p] = Window(dat[base[p]], off)]
      BY <1>2 DEF ShowMsg, disk
    <2>2. CASE buf' = buf
      BY <2>1, <2>2, SameWindow DEF Reads
    <2>3. ASSUME NEW off \in 0 .. Len(dat[base[p]]), buf' = [buf EXCEPT ![p] = Window(dat[base[p]], off)]
          PROVE  Reads(p)
      <3>1. /\ buf'[p] = Window(dat[base[p]], off)
            /\ \A q \in Procs \ {p} : buf'[q] = buf[q]
        BY <2>3 DEF TypeOK
      <3>2. Fresh(p)
        BY <1>0, <3>1 DEF Fresh
      <3> QED
        BY <2>1, <3>1, <3>2 DEF Reads
    <2> QED
      BY <2>1, <2>2, <2>3
  <1>3. CASE DeleteMsg(p)
    <2>1. /\ base' = base /\ dat' = dat /\ pc' = pc /\ pc[p] = "read" /\ cur[p] # 0
          /\ buf' = [buf EXCEPT ![p].hdrs[cur[p]].del = TRUE]
      BY <1>3 DEF DeleteMsg, Unlink
    <2> QED
      BY <1>3, <2>1, FlagWindow DEF Reads, Held
  <1>4. CASE EditMsgHdr(p)
    <2>1. PICK d \in Drafts :
             LET h == [Current(p) EXCEPT !.to = d.to, !.priv = d.priv]
                 w == [buf[p].hdrs EXCEPT ![cur[p]] = h]
             IN  /\ buf' = [buf EXCEPT ![p].hdrs = w]
                 /\ dat' = [dat EXCEPT ![base[p]] = WriteAt(@, buf[p].off, w)]
      BY <1>4 DEF EditMsgHdr
    <2>2. PICK v, c, h, w : /\ v = buf[p].hdrs /\ c = cur[p]
                            /\ h = [Current(p) EXCEPT !.to = d.to, !.priv = d.priv]
                            /\ w = [v EXCEPT ![c] = h]
      OBVIOUS
    <2>3. cur[p] # 0 /\ v \in Seq(Header) /\ c \in 1 .. Len(v) /\ v[c] \in Header
      BY <1>4, <2>2, CurrentType DEF EditMsgHdr, TypeOK, Headers
    <2>4. h \in Header /\ h.num = v[c].num /\ h.id = v[c].id /\ h.del = v[c].del
      <3>1. d.to \in Users \cup {All} /\ d.priv \in BOOLEAN
        BY NamesAssumption
      <3>2. h = [v[c] EXCEPT !.to = d.to, !.priv = d.priv]
        BY <2>2 DEF Current
      <3> QED
        BY <2>3, <3>1, <3>2 DEF Header
    <2>5. w \in Seq(Header) /\ Len(w) = Len(v) /\ w[c] = h /\ \A i \in 1 .. Len(v) : i # c => w[i] = v[i]
      BY <2>2, <2>3, <2>4
    <2>6. Kin(v, w)
      BY <2>3, <2>4, <2>5 DEF Kin, Headers
    <2>7. /\ buf' = [buf EXCEPT ![p] = [buf[p] EXCEPT !.hdrs = w]]
          /\ dat' = [dat EXCEPT ![base[p]] = WriteAt(@, buf[p].off, w)]
      BY <2>1, <2>2
    <2>8. buf'[p].hdrs = w /\ buf'[p].off = buf[p].off /\ \A q \in Procs \ {p} : buf'[q] = buf[q]
      <3>1. buf \in [Procs -> Bufs] /\ buf[p] \in Bufs
        BY DEF TypeOK, Bufs
      <3> QED
        BY <2>7, <3>1, HdrsReplaced
    <2>9. base' = base /\ pc' = pc /\ pc[p] \in Held
      BY <1>4 DEF EditMsgHdr, Held
    <2> QED
      BY <2>2, <2>6, <2>7, <2>8, <2>9 DEF Reads
  <1>5. CASE EditMsg(p) \/ EditFile(p)
    <2>1. /\ base' = base /\ dat' = dat /\ buf' = buf /\ pc[p] \in Held
          /\ \A q \in Procs \ {p} : pc'[q] = pc[q]
      BY <1>5 DEF EditMsg, EditFile, Goto, disk, mem, TypeOK, Held
    <2> QED
      BY <2>1, SameWindow DEF Reads
  <1>6. CASE ReplyMsg(p) \/ KeepMsg(p)
    <2>1. /\ base' = base /\ buf' = buf /\ pc[p] \in Held
          /\ dat' = [dat EXCEPT ![base[p]] = WriteAt(@, buf[p].off, buf[p].hdrs)]
          /\ \A q \in Procs \ {p} : pc'[q] = pc[q]
      BY <1>6 DEF ReplyMsg, KeepMsg, WriteBack, Goto, mem, TypeOK, Held
    <2> QED
      BY <2>1, SameWindow DEF Reads
  <1>7. CASE ReplyMessage(p)
    <2>1. /\ base' = base /\ buf' = buf /\ dat' = dat /\ pc'[p] \notin Held
          /\ \A q \in Procs \ {p} : pc'[q] = pc[q]
      BY <1>7 DEF ReplyMessage, TakeNumber, Goto, disk, mem, TypeOK, Held
    <2> QED
      BY <2>1, SameWindow DEF Reads
  <1>8. CASE Replied(p)
    <2>1. /\ base' = base /\ dat' = dat /\ pc'[p] \notin Held /\ cur[p] # 0
          /\ \A q \in Procs \ {p} : pc'[q] = pc[q]
          /\ buf' = buf \/ buf' = [buf EXCEPT ![p].hdrs[cur[p]].del = TRUE]
      BY <1>8 DEF Replied, Unlink, Goto, TypeOK, Held, HeaderChosen
    <2> QED
      BY <2>1, SameWindow, FlagWindow DEF Reads
  <1>9. CASE KeepTake(p)
    <2>1. /\ base' = base /\ dat' = dat /\ pc'[p] \notin Held /\ cur[p] # 0
          /\ \A q \in Procs \ {p} : pc'[q] = pc[q]
          /\ buf' = [buf EXCEPT ![p].hdrs[cur[p]].del = TRUE]
      BY <1>9 DEF KeepTake, TakeNumber, Goto, disk, TypeOK, Held, HeaderChosen
    <2> QED
      BY <2>1, FlagWindow DEF Reads
  <1>10. CASE Reread(p)
    <2>1. /\ base' = base /\ dat' = dat /\ buf'[p] = Window(dat[base[p]], buf[p].off)
          /\ \A q \in Procs \ {p} : buf'[q] = buf[q] /\ pc'[q] = pc[q]
      BY <1>10 DEF Reread, Goto, disk, TypeOK
    <2>2. Fresh(p)
      BY <1>0, <2>1 DEF Fresh
    <2> QED
      BY <2>1, <2>2 DEF Reads
  <1>11. CASE QuitRead(p)
    <2>1. /\ base' = base /\ dat' = dat /\ buf'[p] = NoBuf
          /\ \A q \in Procs \ {p} : buf'[q] = buf[q] /\ pc'[q] = pc[q]
      BY <1>11 DEF QuitRead, Goto, disk, TypeOK
    <2> QED
      BY <2>1 DEF Reads
  <1>12. CASE JumpBase(p)
    BY <1>12 DEF JumpBase, Orderly
  <1> QED
    BY <1>1, <1>2, <1>3, <1>4, <1>5, <1>6, <1>7, <1>8, <1>9, <1>10, <1>11, <1>12 DEF Read

\* A save leaves the windows alone, and appends to the file if anything.
Appends(p) ==
    /\ pc[p] = "hdr"
    /\ dat' = [dat EXCEPT ![base[p]] = WriteAt(@, at[p], <<job[p].hdr>>)]
Saves(p) ==
    /\ base' = base /\ buf' = buf /\ pc'[p] \notin Held
    /\ \A q \in Procs \ {p} : pc'[q] = pc[q]
    /\ dat' = dat \/ Appends(p)

LEMMA SaveSteps ==
    ASSUME TypeOK, Ordered, Orderly', NEW p \in Procs, Save(p)
    PROVE  Saves(p)
  <1> USE DEF Saves, Held
  <1>1. CASE EnterMsg(p)
    BY <1>1 DEF EnterMsg, TakeNumber, Goto, disk, TypeOK
  <1>2. CASE SetMsgPtrs(p) \/ KeepRename(p) \/ SeekEnd(p)
    BY <1>2 DEF SetMsgPtrs, KeepRename, SeekEnd, Goto, disk, mem, TypeOK
  <1>3. CASE AppendHeader(p)
    BY <1>3 DEF AppendHeader, EndSave, Goto, mem, TypeOK, Appends
  <1>4. CASE WriteText(p)
    BY <1>4 DEF WriteText, EndSave, Goto, mem, TypeOK
  <1>5. CASE SaveFails(p)
    <2>1. job[p].kind # "keep" /\ dat' = dat /\ base' = base /\ buf' = buf
      BY <1>5 DEF SaveFails, Under, Orderly, disk, mem
    <2>2. job[p].kind \in {"post", "reply"}
      <3>1. job[p].kind \in {"none", "post", "reply", "keep"}
        BY DEF TypeOK
      <3>2. Saving(p) /\ Taken(p)
        BY <1>5 DEF SaveFails, Saving, Ordered, NumberTaken
      <3> QED
        BY <2>1, <3>1, <3>2 DEF Taken
    <2>3. pc' = [pc EXCEPT ![p] = IF job[p].kind = "post" THEN "idle" ELSE "replied"]
      BY <1>5, <2>2 DEF SaveFails, EndSave, Goto
    <2> QED
      BY <2>1, <2>3 DEF TypeOK
  <1> QED
    BY <1>1, <1>2, <1>3, <1>4, <1>5 DEF Save

Acts(p) == Reads(p) \/ Saves(p)

\* A window just read has the headers of the file.
LEMMA FreshWindow ==
    ASSUME TypeOK, NEW p \in Procs, Fresh(p), dat' = dat, base' = base
    PROVE  /\ SameIds(p)'
           /\ \A n : Clear(dat[base[p]], n) => Clear(buf'[p].hdrs, n)
  <1>1. PICK off \in Nat : off <= Len(dat[base[p]]) /\ buf'[p] = Window(dat[base[p]], off)
    BY DEF Fresh
  <1>2. PICK s, v : s = dat[base[p]] /\ v = Window(s, off)
    OBVIOUS
  <1>3. s \in Headers
    BY <1>2 DEF TypeOK
  <1>4. /\ v.off = off
        /\ Len(v.hdrs) = InWindow(s, off)
        /\ \A i \in 1 .. Len(v.hdrs) : v.hdrs[i] = s[off + i]
    <2>1. /\ Window(s, off).off = off
          /\ Len(Window(s, off).hdrs) = InWindow(s, off)
          /\ \A i \in 1 .. Len(Window(s, off).hdrs) : Window(s, off).hdrs[i] = s[off + i]
      BY <1>3, WindowType, Zenon
    <2> QED
      BY <1>2, <2>1, Zenon
  <1>5. Len(s) \in Nat
    BY <1>3 DEF Headers
  <1>6. \A i \in 1 .. Len(v.hdrs) : off + i \in 1 .. Len(s)
    BY <1>1, <1>2, <1>3, <1>4, <1>5, InWindowType, WindowAssumption
  <1>7. SameIds(p)'
    BY <1>1, <1>2, <1>4 DEF SameIds
  <1>8. \A n : Clear(s, n) => Clear(v.hdrs, n)
    BY <1>4, <1>6 DEF Clear
  <1> QED
    BY <1>1, <1>2, <1>7, <1>8

\* Every step of a reader or saver leaves the headers that are there.
LEMMA HeadStep ==
    ASSUME TypeOK, TypeOK', Ordered, \A q \in Procs : SameIds(q), NEW p \in Procs, Acts(p)
    PROVE  SameHeaders /\ \A q \in Procs : SameIds(q)'
  <1>0. \A q \in Procs : Fits(q) /\ SameIds(q) /\ Taken(q)
    BY DEF Ordered, WindowsFit, NumberTaken
  <1>1. base' = base /\ \A q \in Procs \ {p} : buf'[q] = buf[q]
    BY DEF Acts, Reads, Saves
  <1>2. SameHeaders
    <2>1. CASE dat' = dat
      <3>1. \A b \in Bases : Len(dat[b]) \in Nat
        BY LenType
      <3> QED
        BY <2>1, <3>1 DEF SameHeaders
    <2>2. CASE Appends(p)
      BY <1>0, <2>2, AppendKin DEF Appends
    <2>3. CASE /\ Kin(buf[p].hdrs, buf'[p].hdrs)
               /\ dat' = [dat EXCEPT ![base[p]] = WriteAt(@, buf[p].off, buf'[p].hdrs)]
      BY <1>0, <2>3, WriteKin
    <2> QED
      BY <2>1, <2>2, <2>3 DEF Acts, Reads, Saves
  <1>3. ASSUME NEW q \in Procs, buf'[q] = buf[q]
        PROVE  SameIds(q)'
    BY <1>0, <1>1, <1>2, <1>3, HeadersFound
  <1>4. SameIds(p)'
    <2>1. CASE buf'[p] = buf[p]
      BY <1>3, <2>1
    <2>2. CASE dat' = dat /\ Fresh(p)
      BY <1>1, <2>2, FreshWindow
    <2>3. CASE buf'[p] = NoBuf
      BY <2>3 DEF SameIds, NoBuf
    <2>4. CASE /\ buf'[p].off = buf[p].off
               /\ Kin(buf[p].hdrs, buf'[p].hdrs) \/ Flagged(buf[p].hdrs, buf'[p].hdrs, cur[p])
      <3>1. /\ Len(buf'[p].hdrs) = Len(buf[p].hdrs)
            /\ \A i \in 1 .. Len(buf[p].hdrs) : buf'[p].hdrs[i].id = buf[p].hdrs[i].id
        BY <2>4 DEF Kin, Flagged
      <3>2. base[p] \in Bases
        BY DEF TypeOK
      <3>3. ASSUME NEW i \in 1 .. Len(buf[p].hdrs)
            PROVE  buf[p].hdrs[i].id = dat'[base[p]][buf[p].off + i].id
        <4>1. buf[p].off + i \in 1 .. Len(dat[base[p]])
          BY <1>0, InFile
        <4> QED
          BY <1>0, <1>2, <3>2, <4>1 DEF SameHeaders, SameIds
      <3> QED
        BY <1>1, <2>4, <3>1, <3>3 DEF SameIds
    <2>5. Saves(p) => buf'[p] = buf[p]
      BY DEF Saves
    <2> QED
      BY <2>1, <2>2, <2>3, <2>4, <2>5 DEF Acts, Reads
  <1> QED
    BY <1>1, <1>2, <1>3, <1>4

\* Nor does it flag one, unless it deletes that message or appends a deleted one.
LEMMA CleanStep ==
    ASSUME TypeOK, TypeOK', Ordered, \A q \in Procs : SameIds(q), NEW p \in Procs, Acts(p),
           NEW b \in Bases, NEW n \in Nums, Clean(b, n),
           DeleteMsg(p) /\ base[p] = b => Current(p).num # n,
           Appends(p) /\ base[p] = b /\ job[p].hdr.num = n => ~job[p].hdr.del
    PROVE  Clean(b, n)'
  <1>0. \A q \in Procs : Fits(q) /\ SameIds(q) /\ Taken(q)
    BY DEF Ordered, WindowsFit, NumberTaken
  <1>1. /\ base' = base
        /\ \A q \in Procs \ {p} : buf'[q] = buf[q] /\ pc'[q] = pc[q]
    BY DEF Acts, Reads, Saves
  <1>2. Clear(dat[b], n) /\ (base[p] = b /\ pc[p] \in Held => Clear(buf[p].hdrs, n))
    BY DEF Clean
  <1>3. Clear(dat'[b], n)
    <2>1. CASE dat' = dat
      BY <1>2, <2>1
    <2>2. CASE Appends(p)
      BY <1>0, <1>2, <2>2, AppendKin DEF Appends
    <2>3. CASE /\ Kin(buf[p].hdrs, buf'[p].hdrs) /\ pc[p] \in Held
               /\ dat' = [dat EXCEPT ![base[p]] = WriteAt(@, buf[p].off, buf'[p].hdrs)]
      <3>1. \A c \in Bases, m \in Nums : Clear(dat[c], m) /\ (base[p] = c => Clear(buf[p].hdrs, m))
                                           => Clear(dat'[c], m)
        BY <1>0, <2>3, WriteKin
      <3> QED
        BY <1>2, <2>3, <3>1, Zenon
    <2> QED
      BY <2>1, <2>2, <2>3 DEF Acts, Reads, Saves
  <1>4. ASSUME base[p] = b, pc'[p] \in Held
        PROVE  Clear(buf'[p].hdrs, n)
    <2>1. CASE /\ Kin(buf[p].hdrs, buf'[p].hdrs) /\ pc[p] \in Held
      BY <1>2, <1>4, <2>1 DEF Kin, Clear
    <2>2. CASE /\ Flagged(buf[p].hdrs, buf'[p].hdrs, cur[p]) /\ pc[p] \in Held /\ DeleteMsg(p) /\ cur[p] # 0
      <3>1. Current(p).num # n
        BY <1>4, <2>2
      <3> QED
        BY <1>2, <1>4, <2>2, <3>1 DEF Flagged, Clear, Current
    <2>3. CASE dat' = dat /\ Fresh(p)
      BY <1>1, <1>2, <1>4, <2>3, FreshWindow
    <2>4. CASE buf'[p] = NoBuf
      BY <2>4 DEF NoBuf, Clear
    <2>5. Reads(p)
      BY <1>4 DEF Acts, Saves
    <2> QED
      BY <1>4, <2>1, <2>2, <2>3, <2>4, <2>5 DEF Reads
  <1> QED
    BY <1>1, <1>2, <1>3, <1>4 DEF Clean

\* A window has no number above all headers.
LEMMA NotInWindow ==
    ASSUME TypeOK, Ordered, \A q \in Procs : SameIds(q), NEW p \in Procs,
           NEW b \in Bases, NEW n, \A i \in 1 .. Len(dat[b]) : dat[b][i].num # n
    PROVE  Clean(b, n) /\ \A x : ~Has(dat[b], n, x)
  <1>1. \A q \in Procs : Fits(q) /\ SameIds(q)
    BY DEF Ordered, WindowsFit
  <1>2. \A x : ~Has(dat[b], n, x)
    BY DEF Has
  <1>3. ASSUME NEW q \in Procs, base[q] = b, NEW i \in 1 .. Len(buf[q].hdrs)
        PROVE  buf[q].hdrs[i].num # n
    BY <1>1, <1>2, <1>3, InFile
  <1> QED
    BY <1>2, <1>3 DEF Clean, Clear

-----------------------------------------------------------------------------
(* What a step does to the save of its process and to the texts. *)

Silent == text' = text /\ saved' = saved
Rests(p) == ~Saving(p) /\ ~Saving(p)' /\ job' = job
Deletes(p) == Unlink(p) /\ cur[p] # 0 /\ (DeleteMsg(p) \/ pc'[p] \notin Held)
Rewrites(p) ==
    /\ cur[p] # 0 /\ saved' = saved
    /\ text' = [text EXCEPT ![base[p]][Current(p).num] = Current(p).id]
Starts(p) ==
    /\ Silent /\ ~Saving(p) /\ pc'[p] = "set" /\ dat' = dat
    /\ job'[p].kind \in {"post", "reply"} /\ ~job'[p].hdr.del /\ job'[p].hdr.id # None
StartsKeep(p) ==
    /\ Silent /\ pc[p] = "keep" /\ pc'[p] = "set" /\ dat' = dat /\ cur[p] # 0
    /\ job'[p].kind = "keep" /\ job'[p].src = Current(p).num
    /\ job'[p].hdr.id = Current(p).id /\ job'[p].hdr.del = Current(p).del
Proceeds(p) ==
    /\ Silent /\ job' = job /\ dat' = dat
    /\ \/ /\ pc[p] = "set"
          /\ pc'[p] = IF job[p].kind = "keep" THEN "rename" ELSE "seek"
       \/ pc[p] = "seek" /\ pc'[p] = "hdr"
Fails(p) == Silent /\ Saving(p) /\ ~Saving(p)' /\ job[p].kind # "keep" /\ dat' = dat

Turn(p) ==
    /\ Acts(p)
    /\ \A q \in Procs \ {p} : job'[q] = job[q] /\ pc'[q] = pc[q]
    /\ \/ Rests(p) /\ (Silent \/ Rewrites(p) \/ Deletes(p))
       \/ Starts(p) \/ StartsKeep(p) \/ Proceeds(p) \/ Fails(p)
       \/ KeepRename(p) \/ AppendHeader(p) \/ WriteText(p)

\* Taking a number starts a save.
LEMMA TakenJob ==
    ASSUME TypeOK, NEW p \in Procs, NEW kind, NEW h \in [num : Int, id : Nums, home : Bases \cup {0}, from : Users \cup {All},
                      to : Users \cup {All}, priv : BOOLEAN, del : BOOLEAN],
           NEW src, TakeNumber(p, kind, h, src)
    PROVE  /\ \A q \in Procs \ {p} : job'[q] = job[q] /\ pc'[q] = pc[q]
           /\ pc'[p] = "set" /\ job'[p].kind = kind /\ job'[p].src = src
           /\ job'[p].hdr.id = h.id /\ job'[p].hdr.del = h.del
  <1>1. PICK top : job' = [job EXCEPT ![p] = [kind |-> kind, src |-> src, hdr |-> [h EXCEPT !.num = top]]]
    BY DEF TakeNumber
  <1>2. pc' = [pc EXCEPT ![p] = "set"]
    BY DEF TakeNumber, Goto
  <1>3. [h EXCEPT !.num = top].id = h.id /\ [h EXCEPT !.num = top].del = h.del
    OBVIOUS
  <1>4. PICK g : g = [h EXCEPT !.num = top]
    OBVIOUS
  <1>5. /\ job'[p] = [kind |-> kind, src |-> src, hdr |-> g]
        /\ \A q \in Procs \ {p} : job'[q] = job[q]
    BY <1>1, <1>4 DEF TypeOK
  <1>6. pc'[p] = "set" /\ \A q \in Procs \ {p} : pc'[q] = pc[q]
    BY <1>2 DEF TypeOK
  <1> QED
    BY <1>3, <1>4, <1>5, <1>6

\* A message entered or a reply has an identity of its own and is not deleted.
LEMMA DraftStarts ==
    ASSUME TypeOK, NEW p \in Procs, ~Saving(p), NEW kind \in {"post", "reply"},
           NEW d \in [to : Users \cup {All}, priv : BOOLEAN], NEW src,
           TakeNumber(p, kind, Draft(p, d), src), Silent, dat' = dat
    PROVE  Starts(p) /\ \A q \in Procs \ {p} : job'[q] = job[q] /\ pc'[q] = pc[q]
  <1>1. issued < MaxNum /\ issued \in Nat
    BY NumberFact DEF TakeNumber, TypeOK, Nums
  <1>2. Draft(p, d).id = issued + 1 /\ ~Draft(p, d).del
    BY DEF Draft
  <1>3. PICK h : h = Draft(p, d)
    OBVIOUS
  <1>4. /\ h \in [num : Int, id : Nums, home : Bases \cup {0}, from : Users \cup {All},
                  to : Users \cup {All}, priv : BOOLEAN, del : BOOLEAN]
        /\ TakeNumber(p, kind, h, src)
    BY <1>1, <1>3, DraftType
  <1>5. /\ \A q \in Procs \ {p} : job'[q] = job[q] /\ pc'[q] = pc[q]
        /\ pc'[p] = "set" /\ job'[p].kind = kind
        /\ job'[p].hdr.id = h.id /\ job'[p].hdr.del = h.del
    BY <1>4, TakenJob
  <1>6. job'[p].hdr.id # None
    BY <1>1, <1>2, <1>3, <1>5 DEF None
  <1> QED
    BY <1>2, <1>3, <1>5, <1>6 DEF Starts

LEMMA ReadTurns ==
    ASSUME TypeOK, TypeOK', HeaderChosen, Ordered, Orderly', NEW p \in Procs, Read(p)
    PROVE  Turn(p)
  <1>0. Acts(p)
    BY ReadSteps DEF Acts
  <1>1. CASE ReadMessages(p) \/ ShowMsg(p) \/ EditMsg(p) \/ EditMsgHdr(p) \/ ReplyMsg(p) \/ KeepMsg(p) \/ Reread(p) \/ QuitRead(p)
    <2>1. /\ Rests(p) /\ Silent
          /\ \A q \in Procs \ {p} : job'[q] = job[q] /\ pc'[q] = pc[q]
      BY <1>1, ZenonT(40) DEF Rests, Silent, Saving, Goto, disk, mem, saves, hist, TypeOK, ReadMessages, ShowMsg, EditMsg,
         EditMsgHdr, ReplyMsg, KeepMsg, Reread, QuitRead
    <2> QED
      BY <1>0, <2>1 DEF Turn
  <1>2. CASE DeleteMsg(p)
    <2>1. /\ Rests(p) /\ Deletes(p)
          /\ \A q \in Procs \ {p} : job'[q] = job[q] /\ pc'[q] = pc[q]
      BY <1>2 DEF Rests, Deletes, Saving, saves, DeleteMsg
    <2> QED
      BY <1>0, <2>1 DEF Turn
  <1>3. CASE EditFile(p)
    <2>1. /\ Rests(p) /\ cur[p] # 0 /\ saved' = saved
          /\ \A q \in Procs \ {p} : job'[q] = job[q] /\ pc'[q] = pc[q]
          /\ text' \in {text, [text EXCEPT ![base[p]][Current(p).num] = Current(p).id]}
      BY <1>3 DEF Rests, Saving, Goto, mem, saves, hist, TypeOK, EditFile, HeaderChosen
    <2> QED
      BY <1>0, <2>1 DEF Turn, Silent, Rewrites
  <1>4. CASE ReplyMessage(p)
    <2>1. CASE Goto(p, "replied") /\ UNCHANGED <<disk, mem, saves, hist>>
      <3>1. /\ Rests(p) /\ Silent
            /\ \A q \in Procs \ {p} : job'[q] = job[q] /\ pc'[q] = pc[q]
        BY <1>4, <2>1 DEF Rests, Silent, Saving, Goto, disk, saves, hist, TypeOK, ReplyMessage
      <3> QED
        BY <1>0, <3>1 DEF Turn
    <2>2. CASE /\ TakeNumber(p, "reply", Draft(p, [to |-> Current(p).from,
                                                   priv |-> Current(p).priv]), Current(p).num)
               /\ UNCHANGED <<disk, base, buf, cur, at, saved>>
      <3>1. cur[p] # 0 /\ Current(p) \in Header /\ ~Saving(p)
        BY <1>4, CurrentType DEF ReplyMessage, HeaderChosen, Saving
      <3>2. [to |-> Current(p).from, priv |-> Current(p).priv] \in [to : Users \cup {All}, priv : BOOLEAN]
        BY <3>1 DEF Header
      <3>3. Silent /\ dat' = dat
        BY <2>2 DEF Silent, disk
      <3> QED
        BY <1>0, <2>2, <3>1, <3>2, <3>3, DraftStarts DEF Turn
    <2> QED
      BY <1>4, <2>1, <2>2 DEF ReplyMessage
  <1>5. CASE Replied(p)
    <2>1. /\ Rests(p) /\ cur[p] # 0 /\ pc'[p] \notin Held
          /\ \A q \in Procs \ {p} : job'[q] = job[q] /\ pc'[q] = pc[q]
          /\ UNCHANGED <<text, saved, buf, mishap>> \/ Unlink(p)
      BY <1>5 DEF Rests, Saving, Goto, saves, TypeOK, Replied, HeaderChosen, Held
    <2> QED
      BY <1>0, <2>1 DEF Turn, Silent, Deletes
  <1>6. CASE KeepTake(p)
    <2>1. /\ pc[p] = "keep" /\ cur[p] # 0 /\ Silent /\ dat' = dat
          /\ TakeNumber(p, "keep", Current(p), Current(p).num)
      BY <1>6 DEF KeepTake, HeaderChosen, Silent, disk
    <2>2. Current(p) \in Header
      BY <2>1, CurrentType
    <2>3. PICK h : h = Current(p) /\ h \in [num : Int, id : Nums, home : Bases \cup {0}, from : Users \cup {All},
                      to : Users \cup {All}, priv : BOOLEAN, del : BOOLEAN]
      BY <2>2, NumberFact DEF Header, Nums
    <2>4. /\ \A q \in Procs \ {p} : job'[q] = job[q] /\ pc'[q] = pc[q]
          /\ pc'[p] = "set" /\ job'[p].kind = "keep" /\ job'[p].src = h.num
          /\ job'[p].hdr.id = h.id /\ job'[p].hdr.del = h.del
      BY <2>1, <2>3, TakenJob
    <2> QED
      BY <1>0, <2>1, <2>3, <2>4 DEF Turn, StartsKeep
  <1>7. CASE JumpBase(p)
    BY <1>7 DEF JumpBase, Orderly
  <1> QED
    BY <1>1, <1>2, <1>3, <1>4, <1>5, <1>6, <1>7 DEF Read

LEMMA SaveTurns ==
    ASSUME TypeOK, TypeOK', Ordered, Orderly', NEW p \in Procs, Save(p)
    PROVE  Turn(p)
  <1>0. Acts(p)
    BY SaveSteps DEF Acts
  <1>1. CASE EnterMsg(p)
    <2>1. PICK d \in Drafts : TakeNumber(p, "post", Draft(p, d), 0)
      BY <1>1 DEF EnterMsg
    <2>2. /\ d \in [to : Users \cup {All}, priv : BOOLEAN] /\ ~Saving(p)
          /\ Silent /\ dat' = dat
      BY <1>1, NamesAssumption DEF EnterMsg, Saving, Silent, disk
    <2> QED
      BY <1>0, <2>1, <2>2, DraftStarts DEF Turn
  <1>2. CASE SetMsgPtrs(p) \/ SeekEnd(p)
    <2>1. /\ Proceeds(p)
          /\ \A q \in Procs \ {p} : job'[q] = job[q] /\ pc'[q] = pc[q]
      BY <1>2 DEF Proceeds, Silent, SetMsgPtrs, SeekEnd, Goto, disk, mem, saves, hist, TypeOK
    <2> QED
      BY <1>0, <2>1 DEF Turn
  <1>3. CASE KeepRename(p) \/ AppendHeader(p) \/ WriteText(p)
    <2>1. \A q \in Procs \ {p} : job'[q] = job[q] /\ pc'[q] = pc[q]
      BY <1>3, ZenonT(40) DEF KeepRename, AppendHeader, WriteText, EndSave, Goto, disk, mem, saves, hist, TypeOK
    <2> QED
      BY <1>0, <1>3, <2>1 DEF Turn
  <1>4. CASE SaveFails(p)
    <2>1. job[p].kind # "keep" /\ Silent /\ dat' = dat /\ Saving(p)
      BY <1>4 DEF SaveFails, Under, Orderly, disk, Silent, Saving
    <2>2. job[p].kind \in {"post", "reply"}
      <3>1. job[p].kind \in {"none", "post", "reply", "keep"}
        BY DEF TypeOK
      <3> QED
        BY <2>1, <3>1 DEF Taken, Ordered, NumberTaken
    <2>3. /\ pc' = [pc EXCEPT ![p] = IF job[p].kind = "post" THEN "idle" ELSE "replied"]
          /\ job' = [job EXCEPT ![p] = NoJob]
      BY <1>4, <2>2 DEF SaveFails, EndSave, Goto
    <2>4. ~Saving(p)' /\ \A q \in Procs \ {p} : job'[q] = job[q] /\ pc'[q] = pc[q]
      BY <2>3 DEF TypeOK, Saving
    <2> QED
      BY <1>0, <2>1, <2>4 DEF Turn, Fails
  <1> QED
    BY <1>1, <1>2, <1>3, <1>4 DEF Save

-----------------------------------------------------------------------------
(* Texts belong to their headers. *)

\* The headers that are there are found after the step, and one appended as well.
LEMMA FoundAfter ==
    ASSUME TypeOK, TypeOK', Ordered, \A q \in Procs : SameIds(q), NEW p \in Procs, Turn(p)
    PROVE  /\ \A b \in Bases : \A n, x : Has(dat[b], n, x) => Has(dat'[b], n, x)
           /\ AppendHeader(p) => Has(dat'[base[p]], job[p].hdr.num, job[p].hdr.id)
           /\ base' = base
  <1>1. Acts(p) /\ Taken(p) /\ base' = base
    BY DEF Turn, Acts, Reads, Saves, Ordered, NumberTaken
  <1>2. SameHeaders
    BY <1>1, HeadStep
  <1>3. \A b \in Bases : \A n, x : Has(dat[b], n, x) => Has(dat'[b], n, x)
    BY <1>2, HeadersFound
  <1>4. ASSUME AppendHeader(p)
        PROVE  Has(dat'[base[p]], job[p].hdr.num, job[p].hdr.id)
    <2>1. /\ pc[p] = "hdr"
          /\ dat' = [dat EXCEPT ![base[p]] = WriteAt(@, at[p], <<job[p].hdr>>)]
      BY <1>4 DEF AppendHeader
    <2> QED
      BY <1>1, <2>1, AppendKin
  <1> QED
    BY <1>1, <1>3, <1>4

\* What is kept is in the file, and what is written as a text has its header there.
LEMMA SourceTurn ==
    ASSUME TypeOK, TypeOK', Ordered, \A q \in Procs : SameIds(q) /\ Source(q),
           NEW p \in Procs, Turn(p), NEW q \in Procs
    PROVE  Source(q)'
  <1>1. /\ \A b \in Bases : \A n, x : Has(dat[b], n, x) => Has(dat'[b], n, x)
        /\ AppendHeader(p) => Has(dat'[base[p]], job[p].hdr.num, job[p].hdr.id)
        /\ base' = base /\ base[p] \in Bases /\ base[q] \in Bases
    BY FoundAfter DEF TypeOK
  <1>2. CASE q # p
    <2>1. job'[q] = job[q] /\ pc'[q] = pc[q] /\ Source(q)
      BY <1>2 DEF Turn
    <2> QED
      BY <1>1, <2>1 DEF Source, Keeps
  <1>3. CASE Rests(p) \/ Starts(p) \/ Fails(p) \/ WriteText(p)
    <2>1. pc'[p] \notin {"rename", "text"} /\ ~Keeps(p)'
      <3>1. ~Saving(p)' => pc'[p] \notin {"rename", "text"} /\ ~Keeps(p)'
        BY DEF Saving, Keeps
      <3>2. Starts(p) => pc'[p] \notin {"rename", "text"} /\ ~Keeps(p)'
        BY DEF Starts, Keeps
      <3>3. WriteText(p) => pc'[p] \in {"idle", "replied"}
        BY DEF WriteText, EndSave, Goto, TypeOK
      <3> QED
        BY <1>3, <3>1, <3>2, <3>3 DEF Rests, Fails, Keeps
    <2> QED
      BY <1>2, <2>1 DEF Source
  <1>4. CASE StartsKeep(p)
    <2>1. Fits(p) /\ cur[p] # 0
      BY <1>4 DEF Ordered, WindowsFit, StartsKeep
    <2>2. Has(dat[base[p]], Current(p).num, Current(p).id)
      BY <2>1, CurrentInFile
    <2> QED
      BY <1>1, <1>2, <1>4, <2>2 DEF Source, StartsKeep
  <1>5. CASE Proceeds(p)
    <2>1. /\ job' = job /\ pc'[p] # "text" /\ (Keeps(p)' => Keeps(p))
          /\ pc'[p] = "rename" => job[p].kind = "keep"
      BY <1>5 DEF Proceeds, Keeps
    <2> QED
      BY <1>1, <1>2, <2>1 DEF Source
  <1>6. CASE KeepRename(p)
    <2>1. pc'[p] = "seek"
      BY <1>6 DEF KeepRename, Goto, TypeOK
    <2> QED
      BY <1>2, <2>1 DEF Source, Keeps
  <1>7. CASE AppendHeader(p)
    <2>1. pc'[p] = "reread" \/ (pc'[p] = "text" /\ job' = job)
      BY <1>7 DEF AppendHeader, EndSave, Goto, TypeOK
    <2> QED
      BY <1>1, <1>2, <1>7, <2>1 DEF Source, Keeps
  <1> QED
    BY <1>2, <1>3, <1>4, <1>5, <1>6, <1>7 DEF Turn

\* A text is moved to the number of a header with the same identity.
LEMMA RenameText ==
    ASSUME TypeOK, Ordered, Matched, NEW p \in Procs, KeepRename(p)
    PROVE  LET b == base[p]
               n == job[p].hdr.num
               s == job[p].src
           IN  /\ Moved(p)' /\ job' = job /\ base' = base /\ s # n
               /\ \/ text[b][s] = None /\ text' = text
                  \/ /\ text[b][s] = job[p].hdr.id
                     /\ text'[b][n] = text[b][s] /\ text'[b][s] = None
               /\ \A c \in Bases, m \in Nums : (c = b /\ m \in {n, s}) \/ text'[c][m] = text[c][m]
  <1>1. PICK b, n, s, t : b = base[p] /\ n = job[p].hdr.num /\ s = job[p].src /\ t = text[b]
    OBVIOUS
  <1>2. b \in Bases /\ n \in Nums /\ s \in Nums /\ t \in [Nums -> Nums] /\ text \in [Bases -> [Nums -> Nums]]
    BY <1>1 DEF TypeOK, Header
  <1>3. /\ pc[p] = "rename" /\ pc'[p] = "seek" /\ job' = job /\ base' = base
        /\ text' = IF t[s] = None \/ s = n THEN text
                   ELSE [text EXCEPT ![b] = [t EXCEPT ![n] = t[s], ![s] = None]]
    BY <1>1 DEF KeepRename, Goto, TypeOK, mem, saves
  <1>4. job[p].kind = "keep" /\ Has(dat[b], s, job[p].hdr.id)
    BY <1>1, <1>3 DEF Matched, Source, Keeps
  <1>5. s # n
    <2>1. PICK i \in 1 .. Len(dat[b]) : dat[b][i].num = s
      BY <1>4 DEF Has
    <2>2. dat[b][i].num < n
      BY <1>1, <1>3 DEF Ordered, NumberTaken, Taken
    <2>3. n \in Nat
      BY <1>2, NumberFact DEF Nums
    <2> QED
      BY <2>1, <2>2, <2>3
  <1>6. t[s] # None => t[s] = job[p].hdr.id
    <2> SUFFICES ASSUME t[s] # None PROVE t[s] = job[p].hdr.id
      OBVIOUS
    <2>1. Belongs(b, s)
      BY <1>2 DEF Matched
    <2>2. \A q \in Procs : ~Moved(q)
      BY <1>3 DEF Moved, Ordered, OneSaver, Saving
    <2>3. Has(dat[b], s, t[s])
      BY <1>1, <2>1, <2>2 DEF Belongs
    <2> QED
      BY <1>2, <1>4, <2>3, OneHeaderEach DEF Ordered
  <1>7. t[s] # None => /\ text'[b][n] = t[s] /\ text'[b][s] = None
                       /\ \A c \in Bases, m \in Nums : (c = b /\ m \in {n, s}) \/ text'[c][m] = text[c][m]
    BY <1>1, <1>2, <1>3, <1>5
  <1>8. Moved(p)'
    BY <1>3, <1>4 DEF Moved
  <1> QED
    BY <1>1, <1>3, <1>5, <1>6, <1>7, <1>8

LEMMA BelongsTurn ==
    ASSUME TypeOK, TypeOK', Ordered, Matched, NEW p \in Procs, Turn(p),
           NEW b \in Bases, NEW n \in Nums
    PROVE  Belongs(b, n)'
  <1>1. /\ \A c \in Bases : \A m, x : Has(dat[c], m, x) => Has(dat'[c], m, x)
        /\ AppendHeader(p) => Has(dat'[base[p]], job[p].hdr.num, job[p].hdr.id)
        /\ base' = base /\ base[p] \in Bases
    BY FoundAfter DEF TypeOK, Matched
  <1>2. CASE text'[b][n] = text[b][n]
    <2> SUFFICES ASSUME text[b][n] # None PROVE Belongs(b, n)'
      BY <1>2 DEF Belongs
    <2>1. CASE Has(dat[b], n, text[b][n])
      BY <1>1, <1>2, <2>1 DEF Belongs
    <2>2. CASE \E q \in Procs : /\ Moved(q) /\ base[q] = b
                                /\ job[q].hdr.num = n /\ job[q].hdr.id = text[b][n]
      <3>1. PICK q \in Procs : /\ Moved(q) /\ base[q] = b
                               /\ job[q].hdr.num = n /\ job[q].hdr.id = text[b][n]
        BY <2>2
      <3>2. CASE q # p
        <4>1. job'[q] = job[q] /\ pc'[q] = pc[q]
          BY <3>2 DEF Turn
        <4>2. Moved(q)'
          BY <3>1, <4>1 DEF Moved
        <4> QED
          BY <1>1, <1>2, <3>1, <4>1, <4>2 DEF Belongs
      <3>3. CASE q = p
        <4>1. pc[p] \in {"seek", "hdr"} /\ job[p].kind = "keep" /\ Saving(p)
          BY <3>1, <3>3 DEF Moved, Saving
        <4>2. Proceeds(p) \/ AppendHeader(p)
          BY <4>1 DEF Turn, Rests, Starts, StartsKeep, Fails, KeepRename, WriteText
        <4>3. CASE Proceeds(p)
          <5>1. Moved(p)' /\ job' = job
            BY <4>1, <4>3 DEF Proceeds, Moved
          <5> QED
            BY <1>1, <1>2, <3>1, <3>3, <5>1 DEF Belongs
        <4>4. CASE AppendHeader(p)
          BY <1>1, <1>2, <3>1, <3>3, <4>4 DEF Belongs
        <4> QED
          BY <4>2, <4>3, <4>4
      <3> QED
        BY <3>2, <3>3
    <2> QED
      BY <2>1, <2>2 DEF Matched, Belongs
  <1>3. CASE Rewrites(p) /\ text'[b][n] # text[b][n]
    <2>1. Fits(p) /\ SameIds(p) /\ cur[p] # 0
      BY <1>3 DEF Ordered, WindowsFit, Matched, Rewrites
    <2>2. Current(p) \in Header /\ Has(dat[base[p]], Current(p).num, Current(p).id)
      BY <2>1, CurrentInFile
    <2>3. b = base[p] /\ n = Current(p).num /\ text'[b][n] = Current(p).id
      BY <1>3, <2>2 DEF Rewrites, TypeOK, Header
    <2> QED
      BY <1>1, <2>2, <2>3 DEF Belongs
  <1>4. CASE Deletes(p) /\ text'[b][n] # text[b][n]
    <2>1. text'[b][n] = None
      BY <1>4, CurrentType DEF Deletes, Unlink, TypeOK, Header
    <2> QED
      BY <2>1 DEF Belongs
  <1>5. CASE KeepRename(p) /\ text'[b][n] # text[b][n]
    <2>1. PICK s : s = job[p].src
      OBVIOUS
    <2>2. /\ Moved(p)' /\ job' = job
          /\ b = base[p] /\ n \in {job[p].hdr.num, s}
          /\ text'[b][job[p].hdr.num] = job[p].hdr.id /\ text'[b][s] = None
      BY <1>5, <2>1, RenameText
    <2> QED
      BY <1>1, <2>2 DEF Belongs
  <1>6. CASE WriteText(p) /\ text'[b][n] # text[b][n]
    <2>1. b = base[p] /\ n = job[p].hdr.num /\ text'[b][n] = job[p].hdr.id /\ pc[p] = "text"
      BY <1>6 DEF WriteText, TypeOK, Header
    <2>2. Has(dat[b], n, job[p].hdr.id)
      BY <2>1 DEF Matched, Source
    <2> QED
      BY <1>1, <2>1, <2>2 DEF Belongs
  <1>7. \/ text' = text \/ Rewrites(p) \/ Deletes(p) \/ KeepRename(p) \/ WriteText(p)
    BY DEF Turn, Silent, Starts, StartsKeep, Proceeds, Fails, AppendHeader
  <1> QED
    BY <1>2, <1>3, <1>4, <1>5, <1>6, <1>7

\* A step of a reader or saver keeps texts with their headers.
LEMMA MatchedTurn ==
    ASSUME TypeOK, TypeOK', Ordered, Matched, NEW p \in Procs, Turn(p)
    PROVE  Matched'
  <1>1. \A q \in Procs : SameIds(q) /\ Source(q)
    BY DEF Matched
  <1>2. \A q \in Procs : SameIds(q)'
    BY <1>1, HeadStep DEF Turn
  <1>3. \A q \in Procs : Source(q)'
    BY <1>1, SourceTurn
  <1>4. \A b \in Bases, n \in Nums : Belongs(b, n)'
    BY BelongsTurn
  <1> QED
    BY <1>2, <1>3, <1>4 DEF Matched

\* The text under a header is its own or none.
LEMMA TextsMatch ==
    ASSUME TypeOK, Ordered, Matched
    PROVE  TextMatchesHeader
  <1> SUFFICES ASSUME NEW b \in Bases, NEW i \in 1 .. Len(dat[b]), text[b][dat[b][i].num] # None
               PROVE  text[b][dat[b][i].num] = dat[b][i].id
    BY DEF TextMatchesHeader
  <1>1. PICK n : n = dat[b][i].num
    OBVIOUS
  <1>2. dat[b][i] \in Header /\ n \in Nums /\ n \in Nat /\ Has(dat[b], n, dat[b][i].id)
    <2>1. dat[b][i] \in Header
      BY LenType
    <2>2. n \in Nums
      BY <1>1, <2>1 DEF Header
    <2> QED
      BY <1>1, <2>1, <2>2, NumberFact DEF Has, Nums
  <1>3. ASSUME NEW q \in Procs, Moved(q), base[q] = b, job[q].hdr.num = n
        PROVE  FALSE
    <2>1. n < n
      BY <1>1, <1>3 DEF Moved, Ordered, NumberTaken, Taken
    <2> QED
      BY <1>2, <2>1
  <1>4. Has(dat[b], n, text[b][n])
    BY <1>1, <1>2, <1>3 DEF Matched, Belongs
  <1> QED
    BY <1>1, <1>2, <1>4, OneHeaderEach DEF Ordered

-----------------------------------------------------------------------------
(* Messages stay readable. *)

\* Nothing can be read, or carried to another number, before it has one.
LEMMA AboveAll ==
    ASSUME TypeOK, Ordered, \A q \in Procs : SameIds(q), NEW p \in Procs,
           pc[p] \in {"rename", "seek", "hdr"}
    PROVE  /\ Clean(base[p], job[p].hdr.num)
           /\ \A x : ~Has(dat[base[p]], job[p].hdr.num, x)
  <1>1. PICK b, n : b = base[p] /\ n = job[p].hdr.num
    OBVIOUS
  <1>2. \A i \in 1 .. Len(dat[b]) : dat[b][i].num < n
    BY <1>1 DEF Ordered, NumberTaken, Taken
  <1>3. b \in Bases /\ n \in Nat
    <2>1. b \in Bases /\ n \in Nums
      BY <1>1 DEF TypeOK, Header
    <2> QED
      BY <2>1, NumberFact DEF Nums
  <1>4. \A i \in 1 .. Len(dat[b]) : dat[b][i].num # n
    BY <1>2, <1>3
  <1> QED
    BY <1>1, <1>3, <1>4, NotInWindow

LEMMA ComingTurn ==
    ASSUME TypeOK, TypeOK', Ordered, Orderly', Matched, \A q \in Procs : Coming(q),
           NEW p \in Procs, Turn(p), NEW q \in Procs
    PROVE  Coming(q)'
  <1>0. /\ \A r \in Procs : SameIds(r)
        /\ base' = base /\ Acts(p)
    BY FoundAfter DEF Matched, Turn
  <1> SUFFICES ASSUME Saving(q)', job'[q].kind # "keep"
               PROVE  /\ ~job'[q].hdr.del /\ job'[q].hdr.id # None
                      /\ pc'[q] = "text" => \E b \in Bases, n \in Nums : /\ b = base'[q] /\ n = job'[q].hdr.num
                                                                         /\ Clean(b, n)'
    BY DEF Coming
  <1>1. CASE q # p
    <2>1. job'[q] = job[q] /\ pc'[q] = pc[q] /\ Saving(q)
      BY <1>1 DEF Turn, Saving
    <2>2. ~job[q].hdr.del /\ job[q].hdr.id # None
      BY <2>1 DEF Coming
    <2>3. ASSUME pc[q] = "text"
          PROVE  \E b \in Bases, n \in Nums : b = base[q] /\ n = job[q].hdr.num /\ Clean(b, n)'
      <3>1. PICK b \in Bases, n \in Nums : b = base[q] /\ n = job[q].hdr.num
        BY DEF TypeOK, Header
      <3>2. Clean(b, n)
        BY <2>1, <2>3, <3>1 DEF Coming
      <3>3. ~Saving(p)
        BY <1>1, <2>1 DEF Ordered, OneSaver
      <3>4. DeleteMsg(p) => Current(p).num # n
        BY <1>1, <2>1, <3>1 DEF DeleteMsg, Unlink, Under, Orderly
      <3>5. ~Appends(p)
        BY <3>3 DEF Appends, Saving
      <3>6. Clean(b, n)'
        BY <1>0, <3>2, <3>4, <3>5, CleanStep
      <3> QED
        BY <3>1, <3>6
    <2> QED
      BY <1>0, <2>1, <2>2, <2>3
  <1>2. CASE q = p
    <2>1. ~Rests(p) /\ ~Fails(p) /\ ~StartsKeep(p)
      BY <1>2 DEF Rests, Fails, StartsKeep
    <2>2. ~WriteText(p)
      BY <1>2 DEF WriteText, EndSave, Goto, TypeOK, Saving
    <2>3. CASE Starts(p)
      BY <1>2, <2>3 DEF Starts
    <2>4. CASE Proceeds(p) \/ KeepRename(p)
      <3>1. job' = job /\ pc'[p] # "text" /\ Saving(p)
        BY <2>4 DEF Proceeds, KeepRename, Goto, TypeOK, Saving, saves
      <3> QED
        BY <1>2, <3>1 DEF Coming
    <2>5. CASE AppendHeader(p)
      <3>1. pc[p] = "hdr" /\ Saving(p) /\ job'[p].kind # "keep"
        BY <1>2, <2>5 DEF AppendHeader, Saving
      <3>2. job' = job /\ job[p].kind # "keep"
        BY <1>2, <2>5 DEF AppendHeader, EndSave, Goto, TypeOK, Saving
      <3>3. ~job[p].hdr.del /\ job[p].hdr.id # None
        BY <3>1, <3>2 DEF Coming
      <3>4. PICK b \in Bases, n \in Nums : b = base[p] /\ n = job[p].hdr.num
        BY DEF TypeOK, Header
      <3>5. Clean(b, n)
        BY <1>0, <3>1, <3>4, AboveAll
      <3>6. Clean(b, n)'
        <4>1. ~DeleteMsg(p)
          BY <3>1 DEF DeleteMsg
        <4> QED
          BY <1>0, <3>3, <3>5, <4>1, CleanStep
      <3> QED
        BY <1>0, <1>2, <3>2, <3>3, <3>4, <3>6
    <2> QED
      BY <2>1, <2>2, <2>3, <2>4, <2>5 DEF Turn
  <1> QED
    BY <1>1, <1>2

\* A message stays where it is unless its text is moved or its header flagged.
LEMMA HomeTurn ==
    ASSUME TypeOK, TypeOK', Ordered, Matched, NEW p \in Procs, Turn(p),
           NEW b \in Bases, NEW n \in Nums, NEW id, Home(b, id, n), text'[b][n] = id,
           DeleteMsg(p) /\ base[p] = b => Current(p).num # n
    PROVE  Home(b, id, n)'
  <1>1. \A r \in Procs : SameIds(r)
    BY DEF Matched
  <1>2. Has(dat'[b], n, id) /\ Acts(p)
    BY <1>1, FoundAfter DEF Home, Turn
  <1>3. Appends(p) /\ base[p] = b => job[p].hdr.num # n
    BY <1>1, AboveAll DEF Home, Appends
  <1>4. Clean(b, n)'
    BY <1>1, <1>2, <1>3, CleanStep DEF Home
  <1> QED
    BY <1>2, <1>4 DEF Home

\* The message is elsewhere, or its text is its own, whatever text is written.
LEMMA TextTurn ==
    ASSUME TypeOK, TypeOK', Ordered, Matched, NEW p \in Procs, Turn(p), ~KeepRename(p),
           NEW b \in Bases, NEW n \in Nums, NEW id, text[b][n] = id, id # None, <<b, id>> \in saved',
           \/ Has(dat[b], n, id)
           \/ \E q \in Procs \ {p} : Saving(q) /\ base[q] = b /\ job[q].hdr.num = n /\ \A x : ~Has(dat[b], n, x)
    PROVE  text'[b][n] = id
  <1>1. /\ \A q \in Procs : Fits(q) /\ SameIds(q) /\ Source(q)
        /\ Ascending /\ OneSaver
    BY DEF Matched, Ordered, WindowsFit
  <1>2. CASE Rewrites(p)
    <2>1. Current(p) \in Header /\ Has(dat[base[p]], Current(p).num, Current(p).id)
      BY <1>1, <1>2, CurrentInFile DEF Rewrites
    <2>2. base[p] = b /\ Current(p).num = n => Current(p).id = id
      BY <1>1, <2>1, OneHeaderEach
    <2> QED
      BY <1>2, <2>1, <2>2 DEF Rewrites, TypeOK, Header
  <1>3. CASE Deletes(p)
    <2>1. Current(p) \in Header
      BY <1>3, CurrentType DEF Deletes
    <2>2. /\ text' = [text EXCEPT ![base[p]][Current(p).num] = None]
          /\ saved' = saved \ {<<base[p], text[base[p]][Current(p).num]>>}
      BY <1>3 DEF Deletes, Unlink
    <2> QED
      BY <2>1, <2>2 DEF TypeOK, Header
  <1>4. CASE WriteText(p)
    <2>1. pc[p] = "text" /\ Saving(p)
      BY <1>4 DEF WriteText, Saving
    <2>2. Has(dat[b], n, id)
      BY <1>1, <2>1 DEF OneSaver
    <2>3. Has(dat[base[p]], job[p].hdr.num, job[p].hdr.id)
      BY <1>1, <2>1 DEF Source
    <2>4. base[p] = b /\ job[p].hdr.num = n => job[p].hdr.id = id
      BY <1>1, <2>2, <2>3, OneHeaderEach
    <2> QED
      BY <1>4, <2>4 DEF WriteText, TypeOK, Header
  <1>5. text' = text \/ Rewrites(p) \/ Deletes(p) \/ WriteText(p)
    BY DEF Turn, Silent, Starts, StartsKeep, Proceeds, Fails, AppendHeader
  <1> QED
    BY <1>2, <1>3, <1>4, <1>5

\* Most steps leave what keepmsg carries alone.
SameKeepers ==
    /\ base' = base
    /\ \A q \in Procs : /\ Keeps(q)' <=> Keeps(q)
                        /\ Moved(q)' <=> Moved(q)
                        /\ Keeps(q) \/ Moved(q) => job'[q] = job[q]

LEMMA KeepersStay ==
    ASSUME TypeOK, NEW p \in Procs, Turn(p), ~StartsKeep(p), ~KeepRename(p),
           ~(AppendHeader(p) /\ Moved(p))
    PROVE  SameKeepers
  <1>1. base' = base
    BY DEF Turn, Acts, Reads, Saves
  <1>2. ASSUME NEW q \in Procs \ {p}
        PROVE  /\ Keeps(q)' <=> Keeps(q)
               /\ Moved(q)' <=> Moved(q)
               /\ job'[q] = job[q]
    <2>1. job'[q] = job[q] /\ pc'[q] = pc[q]
      BY DEF Turn
    <2> QED
      BY <2>1 DEF Keeps, Moved
  <1>3. /\ Keeps(p)' <=> Keeps(p)
        /\ Moved(p)' <=> Moved(p)
        /\ Keeps(p) \/ Moved(p) => job'[p] = job[p]
    <2>1. CASE Rests(p) \/ Fails(p)
      BY <2>1 DEF Rests, Fails, Saving, Keeps, Moved
    <2>2. CASE Starts(p)
      BY <2>2 DEF Starts, Saving, Keeps, Moved
    <2>3. CASE Proceeds(p)
      BY <2>3 DEF Proceeds, Keeps, Moved
    <2>4. CASE AppendHeader(p)
      <3>1. pc[p] = "hdr" /\ pc'[p] \in {"reread", "text"}
        BY <2>4 DEF AppendHeader, EndSave, Goto, TypeOK
      <3> QED
        BY <2>4, <3>1 DEF Keeps, Moved
    <2>5. CASE WriteText(p)
      <3>1. pc[p] = "text" /\ pc'[p] \in {"replied", "idle"}
        BY <2>5 DEF WriteText, EndSave, Goto, TypeOK
      <3> QED
        BY <3>1 DEF Keeps, Moved
    <2> QED
      BY <2>1, <2>2, <2>3, <2>4, <2>5 DEF Turn
  <1> QED
    BY <1>1, <1>2, <1>3 DEF SameKeepers

\* A message that is deleted is no longer one that was saved.
LEMMA HomeStays ==
    ASSUME TypeOK, TypeOK', Ordered, Matched, NEW p \in Procs, Turn(p), ~KeepRename(p),
           NEW b \in Bases, NEW n \in Nums, NEW id, id # None, Home(b, id, n), <<b, id>> \in saved'
    PROVE  Home(b, id, n)'
  <1>1. text'[b][n] = id
    BY TextTurn DEF Home
  <1>2. DeleteMsg(p) /\ base[p] = b => Current(p).num # n
    BY DEF DeleteMsg, Unlink, Home
  <1> QED
    BY <1>1, <1>2, HomeTurn

LEMMA LivesOn ==
    ASSUME TypeOK, TypeOK', Ordered, Matched, NEW p \in Procs, Turn(p), SameKeepers, ~KeepRename(p),
           ~(AppendHeader(p) /\ Moved(p)),
           NEW b \in Bases, NEW id, Lives(b, id), <<b, id>> \in saved'
    PROVE  Lives(b, id)'
  <1>1. CASE \E n \in Nums : Home(b, id, n) /\ ~Leaving(b, n)
    <2>1. PICK n \in Nums : Home(b, id, n) /\ ~Leaving(b, n)
      BY <1>1
    <2>2. Home(b, id, n)'
      BY <2>1, HomeStays DEF Lives
    <2>3. ~Leaving(b, n)'
      BY <2>1 DEF Leaving, SameKeepers
    <2> QED
      BY <2>2, <2>3 DEF Lives
  <1>2. ASSUME NEW q \in Procs, Carried(q, b, id)
        PROVE  Lives(b, id)'
    <2>1. /\ Keeps(q)' <=> Keeps(q)
          /\ Moved(q)' <=> Moved(q)
          /\ job'[q] = job[q] /\ base'[q] = b /\ base[q] = b
      BY <1>2 DEF Carried, SameKeepers
    <2>2. ASSUME Keeps(q)
          PROVE  \E n \in Nums : n = job'[q].src /\ Home(b, id, n)'
      BY <1>2, <2>1, <2>2, HomeStays DEF Carried, Lives
    <2>3. ASSUME Moved(q)
          PROVE  text'[b][job[q].hdr.num] = id
      <3>1. PICK n \in Nums : n = job[q].hdr.num
        BY DEF TypeOK, Header
      <3>2. text[b][n] = id /\ id # None
        BY <1>2, <2>3, <3>1 DEF Carried, Lives
      <3>3. Saving(q) /\ \A x : ~Has(dat[b], n, x)
        BY <2>1, <2>3, <3>1, AboveAll DEF Moved, Saving, Matched
      <3>4. CASE q # p
        BY <2>1, <3>1, <3>2, <3>3, <3>4, TextTurn
      <3>5. CASE q = p
        <4>1. Silent
          BY <2>3, <3>3, <3>5 DEF Turn, Rests, Starts, StartsKeep, Proceeds, Fails, WriteText, Moved
        <4> QED
          BY <3>1, <3>2, <4>1 DEF Silent
      <3> QED
        BY <3>4, <3>5
    <2>4. Carried(q, b, id)'
      BY <1>2, <2>1, <2>2, <2>3 DEF Carried
    <2> QED
      BY <1>2, <2>4 DEF Lives
  <1> QED
    BY <1>1, <1>2 DEF Lives

\* The text goes to the new number, with no header yet ...
LEMMA LivesRename ==
    ASSUME TypeOK, TypeOK', Ordered, Matched, NEW p \in Procs, Turn(p), KeepRename(p),
           NEW b \in Bases, NEW id, Lives(b, id)
    PROVE  Lives(b, id)'
  <1>1. PICK n, s : n = job[p].hdr.num /\ s = job[p].src
    OBVIOUS
  <1>2. /\ Moved(p)' /\ job' = job /\ base' = base /\ s # n
        /\ \/ text[base[p]][s] = None /\ text' = text
           \/ text[base[p]][s] = job[p].hdr.id /\ text'[base[p]][n] = text[base[p]][s]
        /\ \A c \in Bases, m \in Nums : (c = base[p] /\ m \in {n, s}) \/ text'[c][m] = text[c][m]
    BY <1>1, RenameText
  <1>3. pc[p] = "rename" /\ Keeps(p) /\ Saving(p)
    BY DEF KeepRename, Matched, Source, Keeps, Saving
  <1>4. \A q \in Procs \ {p} : ~Keeps(q) /\ ~Moved(q) /\ ~Keeps(q)' /\ ~Moved(q)'
    <2>1. \A q \in Procs \ {p} : ~Saving(q)
      BY <1>3 DEF Ordered, OneSaver
    <2> QED
      BY <2>1 DEF Turn, Keeps, Moved, Saving
  <1>5. ~Keeps(p)' /\ ~Moved(p)
    BY <1>2, <1>3 DEF Keeps, Moved
  <1>6. \A x : ~Has(dat[base[p]], n, x)
    BY <1>1, <1>3, AboveAll DEF Matched
  <1>7. CASE \E m \in Nums : Home(b, id, m) /\ ~Leaving(b, m)
    <2>1. PICK m \in Nums : Home(b, id, m) /\ ~Leaving(b, m)
      BY <1>7
    <2>2. text'[b][m] = id
      <3>1. base[p] = b => m # s /\ m # n
        BY <1>1, <1>3, <1>6, <2>1 DEF Leaving, Home
      <3> QED
        BY <1>2, <2>1, <3>1 DEF Home
    <2>3. ~DeleteMsg(p)
      BY <1>3 DEF DeleteMsg
    <2>4. Home(b, id, m)'
      BY <2>1, <2>2, <2>3, HomeTurn
    <2>5. ~Leaving(b, m)'
      BY <1>4, <1>5 DEF Leaving
    <2> QED
      BY <2>4, <2>5 DEF Lives
  <1>8. ASSUME NEW q \in Procs, Carried(q, b, id)
        PROVE  Lives(b, id)'
    <2>1. q = p
      BY <1>4, <1>8 DEF Carried
    <2>2. base[p] = b /\ job[p].hdr.id = id /\ ~job[p].hdr.del /\ text[b][s] = id /\ id # None
      BY <1>1, <1>3, <1>8, <2>1 DEF Carried, Home, Lives
    <2>3. text'[b][n] = id
      BY <1>2, <2>2
    <2>4. Carried(p, b, id)'
      BY <1>1, <1>2, <1>5, <2>2, <2>3 DEF Carried
    <2> QED
      BY <2>2, <2>4 DEF Lives
  <1> QED
    BY <1>7, <1>8 DEF Lives

\* ... which follows, not flagged.
LEMMA LivesAppend ==
    ASSUME TypeOK, TypeOK', Ordered, Matched, NEW p \in Procs, Turn(p), AppendHeader(p), Moved(p),
           NEW b \in Bases, NEW id, Lives(b, id), <<b, id>> \in saved'
    PROVE  Lives(b, id)'
  <1>0. /\ \A q \in Procs : SameIds(q)
        /\ Acts(p) /\ base' = base /\ text' = text /\ ~KeepRename(p)
    BY FoundAfter DEF Matched, Turn, AppendHeader, KeepRename
  <1>1. pc[p] = "hdr" /\ pc'[p] = "reread" /\ Saving(p)
    BY DEF AppendHeader, Moved, EndSave, Goto, TypeOK, Saving
  <1>2. \A q \in Procs : ~Keeps(q)' /\ (q # p => ~Keeps(q) /\ ~Moved(q))
    <2>1. \A q \in Procs \ {p} : ~Saving(q)
      BY <1>1 DEF Ordered, OneSaver
    <2> QED
      BY <1>1, <2>1 DEF Turn, Keeps, Moved, Saving
  <1>3. CASE \E m \in Nums : Home(b, id, m) /\ ~Leaving(b, m)
    <2>1. PICK m \in Nums : Home(b, id, m)
      BY <1>3
    <2>2. Home(b, id, m)'
      BY <1>0, <2>1, HomeStays DEF Lives
    <2> QED
      BY <1>2, <2>2 DEF Lives, Leaving
  <1>4. ASSUME NEW q \in Procs, Carried(q, b, id)
        PROVE  Lives(b, id)'
    <2>1. q = p
      BY <1>2, <1>4 DEF Carried
    <2>2. PICK n \in Nums : n = job[p].hdr.num
      BY DEF TypeOK, Header
    <2>3. base[p] = b /\ job[p].hdr.id = id /\ ~job[p].hdr.del /\ text[b][n] = id /\ id # None
      BY <1>4, <2>1, <2>2 DEF Carried, Lives
    <2>4. Has(dat'[b], n, id)
      BY <1>0, <2>2, <2>3, FoundAfter
    <2>5. Clean(b, n)
      BY <1>0, <1>1, <2>2, <2>3, AboveAll
    <2>6. Clean(b, n)'
      <3>1. ~DeleteMsg(p)
        BY <1>1 DEF DeleteMsg
      <3> QED
        BY <1>0, <2>3, <2>5, <3>1, CleanStep
    <2>7. Home(b, id, n)'
      BY <1>0, <2>3, <2>4, <2>6 DEF Home
    <2> QED
      BY <1>2, <2>3, <2>7 DEF Lives, Leaving
  <1> QED
    BY <1>3, <1>4 DEF Lives

\* A keepmsg that starts takes the message along, which its own window flags.
LEMMA LivesStart ==
    ASSUME TypeOK, TypeOK', Ordered, Matched, NEW p \in Procs, Turn(p), StartsKeep(p), OneSaver',
           NEW b \in Bases, NEW id, Lives(b, id), <<b, id>> \in saved'
    PROVE  Lives(b, id)'
  <1>0. /\ Fits(p) /\ SameIds(p) /\ base' = base /\ text' = text /\ cur[p] # 0 /\ pc[p] = "keep"
        /\ ~KeepRename(p)
    BY FoundAfter DEF Matched, Ordered, WindowsFit, StartsKeep, Silent, KeepRename
  <1>1. \A q \in Procs \ {p} : ~Keeps(q)' /\ ~Keeps(q) /\ ~Moved(q)
    <2>1. Saving(p)'
      BY DEF StartsKeep, Saving
    <2>2. \A q \in Procs \ {p} : ~Saving(q)'
      BY <2>1 DEF OneSaver
    <2> QED
      BY <2>2 DEF Turn, Keeps, Moved, Saving
  <1>2. ~Keeps(p) /\ ~Moved(p)
    BY <1>0 DEF Keeps, Moved
  <1>3. PICK n \in Nums : Home(b, id, n)
    BY <1>1, <1>2 DEF Lives, Carried
  <1>4. id # None /\ Home(b, id, n)'
    BY <1>0, <1>3, HomeStays DEF Lives
  <1>5. CASE base[p] = b /\ Current(p).num = n
    <2>1. Has(dat[b], n, Current(p).id) /\ cur[p] \in 1 .. Len(buf[p].hdrs)
      BY <1>0, <1>5, CurrentInFile, CurrentType
    <2>2. Current(p).id = id
      BY <1>3, <2>1, OneHeaderEach DEF Home, Ordered
    <2>3. ~Current(p).del
      BY <1>0, <1>3, <1>5, <2>1 DEF Home, Clean, Clear, Held, Current
    <2>4. /\ base'[p] = b /\ job'[p].hdr.id = id /\ ~job'[p].hdr.del
          /\ Keeps(p)' /\ ~Moved(p)' /\ job'[p].src = n
      BY <1>0, <1>5, <2>2, <2>3 DEF StartsKeep, Keeps, Moved
    <2>5. Carried(p, b, id)'
      BY <1>4, <2>4 DEF Carried
    <2> QED
      BY <1>4, <2>5 DEF Lives
  <1>6. CASE ~(base[p] = b /\ Current(p).num = n)
    <2>1. ~Leaving(b, n)'
      BY <1>0, <1>1, <1>6 DEF Leaving, StartsKeep
    <2> QED
      BY <1>4, <2>1 DEF Lives
  <1> QED
    BY <1>5, <1>6

\* A new message can be read once its text is written.
LEMMA LivesWritten ==
    ASSUME TypeOK, TypeOK', Ordered, Matched, Living, NEW p \in Procs, Turn(p), WriteText(p),
           NEW b \in Bases, NEW id, b = base[p], id = job[p].hdr.id
    PROVE  Lives(b, id)'
  <1>0. /\ \A q \in Procs : SameIds(q)
        /\ Acts(p) /\ base' = base
    BY FoundAfter DEF Matched, Turn
  <1>1. pc[p] = "text" /\ pc'[p] \in {"replied", "idle"} /\ Saving(p) /\ job[p].kind # "keep"
    BY DEF WriteText, EndSave, Goto, TypeOK, Saving, Ordered, NumberTaken, Taken
  <1>2. PICK n \in Nums : n = job[p].hdr.num /\ Clean(b, n) /\ id # None
    BY <1>1 DEF Living, Coming
  <1>3. Has(dat[b], n, id)
    BY <1>1, <1>2 DEF Matched, Source
  <1>4. Has(dat'[b], n, id)
    BY <1>0, <1>3, FoundAfter
  <1>5. Clean(b, n)'
    <2>1. ~DeleteMsg(p) /\ ~Appends(p)
      BY <1>1 DEF DeleteMsg, Appends
    <2> QED
      BY <1>0, <1>2, <2>1, CleanStep
  <1>6. text'[b][n] = id
    BY <1>2 DEF WriteText, TypeOK
  <1>7. ~Leaving(b, n)'
    <2>1. \A q \in Procs \ {p} : ~Saving(q)
      BY <1>1 DEF Ordered, OneSaver
    <2> QED
      BY <1>1, <2>1 DEF Turn, Leaving, Keeps, Saving
  <1> QED
    BY <1>2, <1>4, <1>5, <1>6, <1>7 DEF Lives, Home

\* No step of a reader or saver loses a message.
LEMMA LivingTurn ==
    ASSUME TypeOK, TypeOK', Ordered, OneSaver', Orderly', Matched, Living, NEW p \in Procs, Turn(p)
    PROVE  Living'
  <1>1. \A q \in Procs : Coming(q)'
    BY ComingTurn DEF Living
  <1>2. ASSUME NEW m \in saved'
        PROVE  Lives(m[1], m[2])'
    <2>1. PICK b \in Bases, id \in Nums : m = <<b, id>>
      BY DEF TypeOK
    <2>2. b = m[1] /\ id = m[2]
      BY <2>1
    <2>3. CASE m \in saved
      <3>1. Lives(b, id) /\ <<b, id>> \in saved'
        BY <1>2, <2>1, <2>2, <2>3 DEF Living
      <3>2. StartsKeep(p) => Lives(b, id)'
        BY <3>1, LivesStart
      <3>3. KeepRename(p) => Lives(b, id)'
        BY <3>1, LivesRename
      <3>4. AppendHeader(p) /\ Moved(p) => Lives(b, id)'
        BY <3>1, LivesAppend
      <3>5. ASSUME ~StartsKeep(p), ~KeepRename(p), ~(AppendHeader(p) /\ Moved(p))
            PROVE  Lives(b, id)'
        <4>1. SameKeepers
          BY <3>5, KeepersStay
        <4> QED
          BY <3>1, <3>5, <4>1, LivesOn
      <3>6. Lives(b, id)'
        BY <3>2, <3>3, <3>4, <3>5
      <3> QED
        BY <2>2, <3>6
    <2>4. CASE m \notin saved
      <3>1. WriteText(p) /\ m = <<base[p], job[p].hdr.id>>
        <4>1. saved' \subseteq saved \/ WriteText(p)
          BY DEF Turn, Rewrites, Deletes, Unlink, Silent, Starts, StartsKeep, Proceeds, Fails, KeepRename,
             AppendHeader, hist
        <4> QED
          BY <1>2, <2>4, <4>1 DEF WriteText
      <3>2. b = base[p] /\ id = job[p].hdr.id
        BY <2>1, <3>1
      <3>3. Lives(b, id)'
        BY <3>1, <3>2, LivesWritten
      <3> QED
        BY <2>2, <3>3
    <2> QED
      BY <2>3, <2>4
  <1> QED
    BY <1>1, <1>2 DEF Living

\* Joining another base touches neither, nor does a step of nobody.
LEMMA KeptElsewhere ==
    ASSUME TypeOK, TypeOK', Ordered, Ordered', Matched, Living,
           (\E p \in Procs : ChangeMsgBase(p)) \/ UNCHANGED vars
    PROVE  Matched' /\ Living'
  <1>1. /\ dat' = dat /\ text' = text /\ buf' = buf /\ pc' = pc /\ job' = job /\ saved' = saved
        /\ \A q \in Procs : pc[q] # "idle" => base'[q] = base[q]
    BY DEF ChangeMsgBase, disk, saves, hist, vars, TypeOK
  <1>2. \A q \in Procs : pc[q] = "idle" => buf[q] = NoBuf
    BY DEF Ordered, NoWindow
  <1>3. \A q \in Procs : SameIds(q)'
    <2> SUFFICES ASSUME NEW q \in Procs PROVE SameIds(q)'
      OBVIOUS
    <2>1. CASE pc[q] = "idle"
      BY <1>1, <1>2, <2>1 DEF SameIds, NoBuf
    <2>2. CASE pc[q] # "idle"
      BY <1>1, <2>2 DEF SameIds, Matched
    <2> QED
      BY <2>1, <2>2
  <1>4. \A q \in Procs : Source(q)'
    BY <1>1 DEF Matched, Source, Keeps
  <1>5. \A b \in Bases, n \in Nums : Belongs(b, n)'
    BY <1>1 DEF Matched, Belongs, Moved
  <1>6. ASSUME NEW b \in Bases, NEW n \in Nums, Clean(b, n)
        PROVE  Clean(b, n)'
    BY <1>1, <1>6 DEF Clean, Held
  <1>7. \A q \in Procs : Coming(q)'
    <2> SUFFICES ASSUME NEW q \in Procs, Saving(q), job[q].kind # "keep"
                 PROVE  /\ ~job'[q].hdr.del /\ job'[q].hdr.id # None
                        /\ pc'[q] = "text" => \E b \in Bases, n \in Nums : /\ b = base'[q] /\ n = job'[q].hdr.num
                                                                           /\ Clean(b, n)'
      BY <1>1 DEF Coming, Saving
    <2>1. ~job[q].hdr.del /\ job[q].hdr.id # None
      BY DEF Living, Coming
    <2>2. ASSUME pc[q] = "text"
          PROVE  \E b \in Bases, n \in Nums : b = base'[q] /\ n = job'[q].hdr.num /\ Clean(b, n)'
      <3>1. PICK b \in Bases, n \in Nums : b = base[q] /\ n = job[q].hdr.num /\ Clean(b, n)
        BY <2>2 DEF Living, Coming
      <3>2. Clean(b, n)'
        BY <1>6, <3>1, Zenon
      <3>3. b = base'[q] /\ n = job'[q].hdr.num
        BY <1>1, <2>2, <3>1
      <3> QED
        BY <3>2, <3>3, Zenon
    <2> QED
      BY <1>1, <2>1, <2>2
  <1>8. ASSUME NEW b \in Bases, NEW id, Lives(b, id)
        PROVE  Lives(b, id)'
    <2>0. id # None
      BY <1>8 DEF Lives
    <2>1. ASSUME NEW n \in Nums, Home(b, id, n)
          PROVE  Home(b, id, n)'
      <3>1. Clean(b, n)'
        BY <1>6, <2>1, Zenon DEF Home
      <3> QED
        BY <1>1, <2>1, <3>1 DEF Home
    <2>2. CASE \E n \in Nums : Home(b, id, n) /\ ~Leaving(b, n)
      <3>1. PICK n \in Nums : Home(b, id, n) /\ ~Leaving(b, n)
        BY <2>2
      <3>2. Home(b, id, n)'
        BY <2>1, <3>1
      <3>3. ~Leaving(b, n)'
        BY <1>1, <3>1 DEF Leaving, Keeps
      <3> QED
        BY <2>0, <3>2, <3>3 DEF Lives
    <2>3. ASSUME NEW q \in Procs, Carried(q, b, id)
          PROVE  Lives(b, id)'
      <3>1. base'[q] = base[q] /\ pc'[q] = pc[q] /\ job'[q] = job[q]
        BY <1>1, <2>3 DEF Carried, Keeps, Moved
      <3>2. /\ base'[q] = b /\ job'[q].hdr.id = id /\ ~job'[q].hdr.del
            /\ Keeps(q)' \/ Moved(q)'
            /\ Moved(q)' => text'[b][job'[q].hdr.num] = id
        BY <1>1, <2>3, <3>1 DEF Carried, Keeps, Moved
      <3>3. ASSUME Keeps(q)'
            PROVE  \E n \in Nums : n = job'[q].src /\ Home(b, id, n)'
        <4>1. PICK n \in Nums : n = job[q].src /\ Home(b, id, n)
          BY <2>3, <3>1, <3>3 DEF Carried, Keeps
        <4>2. Home(b, id, n)'
          BY <2>1, <4>1
        <4> QED
          BY <3>1, <4>1, <4>2
      <3>4. Carried(q, b, id)'
        BY <3>2, <3>3 DEF Carried
      <3> QED
        BY <2>0, <3>4 DEF Lives
    <2> QED
      BY <1>8, <2>2, <2>3 DEF Lives
  <1>9. \A m \in saved' : Lives(m[1], m[2])'
    <2> SUFFICES ASSUME NEW m \in saved PROVE Lives(m[1], m[2])'
      BY <1>1
    <2>1. PICK b \in Bases, id \in Nums : b = m[1] /\ id = m[2]
      BY DEF TypeOK
    <2>2. Lives(b, id)'
      BY <1>8, <2>1 DEF Living
    <2> QED
      BY <2>1, <2>2
  <1> QED
    BY <1>3, <1>4, <1>5, <1>7, <1>9 DEF Matched, Living

LEMMA KeptInit == Init => Matched /\ Living
  <1> SUFFICES ASSUME Init PROVE Matched /\ Living
    OBVIOUS
  <1>1. \A p \in Procs : pc[p] = "idle" /\ buf[p] = NoBuf
    BY DEF Init
  <1>2. saved = {} /\ \A b \in Bases, n \in Nums : text[b][n] = None
    BY DEF Init
  <1>3. Matched
    BY <1>1, <1>2 DEF Matched, SameIds, Source, Keeps, Belongs, NoBuf
  <1>4. Living
    BY <1>1, <1>2 DEF Living, Coming, Saving
  <1> QED
    BY <1>3, <1>4

LEMMA KeptStep ==
    ASSUME Maintainers = {}, TypeOK, TypeOK', HeaderChosen, Ordered, Orderly', Matched, Living, [Next]_vars
    PROVE  Matched' /\ Living'
  <1>1. Ordered'
    BY OrderedStep
  <1>2. ASSUME NEW p \in Procs, Turn(p)
        PROVE  Matched' /\ Living'
    <2>1. OneSaver'
      BY <1>1 DEF Ordered
    <2> QED
      BY <1>2, <2>1, MatchedTurn, LivingTurn
  <1>3. CASE \E p \in Procs : Save(p)
    BY <1>2, <1>3, SaveTurns
  <1>4. CASE \E p \in Nodes : Read(p)
    BY <1>2, <1>4, ReadTurns DEF Procs
  <1>5. CASE (\E p \in Procs : ChangeMsgBase(p)) \/ UNCHANGED vars
    BY <1>1, <1>5, KeptElsewhere
  <1> QED
    BY <1>3, <1>4, <1>5 DEF Next

LEMMA KeptHolds ==
    ASSUME Maintainers = {}
    PROVE  Spec => [](Inv /\ (Orderly => Matched /\ Living))
  <1>1. Init => (Orderly => Matched /\ Living)
    BY KeptInit
  <1>2. Inv /\ Inv' /\ (Orderly => Matched /\ Living) /\ [Next]_vars => (Orderly => Matched /\ Living)'
    BY OrderlyBefore, KeptStep DEF Inv
  <1> QED
    BY <1>1, <1>2, Invariance, PTL DEF Spec

\* Until a mishap nobody is shown the text of one message under the header of
\* another: saves, keepmsg's renaming, stale windows and an editor that writes a
\* deleted text again included (entermsg.c:272, readmsgs.c:782, 590).
THEOREM TextsCorrect ==
    ASSUME Maintainers = {}
    PROVE  Spec => []TextMatchesHeader
  <1>1. Inv /\ (Orderly => Matched /\ Living) => TextMatchesHeader
    <2> SUFFICES ASSUME Inv, Orderly, Matched PROVE TextMatchesHeader
      BY DEF TextMatchesHeader
    <2> QED
      BY TextsMatch DEF Inv
  <1> QED
    BY <1>1, KeptHolds, PTL

\* Until a mishap a message that was saved stays readable until it is deleted; a
\* window that is written back with its flags, or a keepmsg on the way, loses none.
THEOREM MessagesKept ==
    ASSUME Maintainers = {}
    PROVE  Spec => []NoLostMessage
  <1>1. Inv /\ (Orderly => Matched /\ Living) => NoLostMessage
    <2> SUFFICES ASSUME TypeOK, Ordered, Matched, Living, NEW m \in saved
                 PROVE  \/ Readable(m[1], m[2])
                        \/ \E p \in Procs : /\ pc[p] \in {"rename", "seek", "hdr"}
                                            /\ job[p].kind = "keep"
                                            /\ base[p] = m[1]
                                            /\ job[p].hdr.id = m[2]
      BY DEF NoLostMessage, SavedIsReadable, Inv
    <2>1. PICK b \in Bases, id \in Nums : b = m[1] /\ id = m[2]
      BY DEF TypeOK
    <2>2. ASSUME NEW n \in Nums, Home(b, id, n)
          PROVE  Readable(b, id)
      <3>1. PICK i \in 1 .. Len(dat[b]) : dat[b][i].num = n /\ dat[b][i].id = id
        BY <2>2 DEF Home, Has
      <3>2. ~dat[b][i].del /\ text[b][dat[b][i].num] = id
        BY <2>2, <3>1 DEF Home, Clean, Clear
      <3> QED
        BY <3>1, <3>2 DEF Readable
    <2>3. ASSUME NEW p \in Procs, Carried(p, b, id)
          PROVE  \/ Readable(b, id)
                 \/ /\ pc[p] \in {"rename", "seek", "hdr"} /\ job[p].kind = "keep"
                    /\ base[p] = b /\ job[p].hdr.id = id
      BY <2>2, <2>3 DEF Carried, Keeps, Moved
    <2>4. Lives(b, id)
      BY <2>1 DEF Living
    <2> QED
      BY <2>1, <2>2, <2>3, <2>4 DEF Lives
  <1> QED
    BY <1>1, KeptHolds, PTL
=============================================================================
