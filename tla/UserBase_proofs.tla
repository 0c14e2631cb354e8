-------------------------- MODULE UserBase_proofs --------------------------
(* Proofs about the record file, for any number of processes, slots, parts  *)
(* and polls, and any failures.                                             *)
EXTENDS UserBase, TLAPS

\* A step is a step of some process.
LEMMA Steps ==
    ASSUME Next
    PROVE  \E p \in Procs : Step(p)
  BY DEF Next

-----------------------------------------------------------------------------
(* Locks.                                                                   *)

\* Who reads or writes has the lock for it, and a writer's is the only one.
HasLock == \A p \in Procs : /\ pc[p] \in {"byid", "byname"} => lock[p] = "read"
                            /\ pc[p] = "write" => lock[p] = "write"
OneWriter == \A p, q \in Procs : p # q /\ lock[p] = "write" => lock[q] = "none"
Kinds  == {"none", "byid", "byname", "write"}
Ops    == [kind : Kinds, id : 0 .. MaxSlots, val : Vals \cup {{}}, pos : Nat]
LocksTyped == /\ pc \in [Procs -> Kinds \cup {"idle", "lock", "unlock", "exit"}]
              /\ lock \in [Procs -> {"none", "read", "write"}]
              /\ op \in [Procs -> Ops]
Locked == LocksTyped /\ HasLock /\ OneWriter

\* What callers ask for is typed.
LEMMA CallsType == \A c \in Calls : c \in Ops /\ c.kind \in Kinds \ {"none"}
  BY SlotsAssumption DEF Calls, Ops, Kinds

\* The failed read is typed as a record.
LEMMA ErrType == Err \in Seq(Vals)
  BY DEF Err

\* No call is typed as a call.
LEMMA NoOpType == NoOp \in Ops
  BY SlotsAssumption DEF NoOp, Ops, Kinds

\* Every step keeps the locks in order.
LEMMA LockedKept == Locked /\ [Next]_vars => Locked'
  <1>1. ASSUME Locked, UNCHANGED vars PROVE Locked'
    BY <1>1 DEF Locked, LocksTyped, HasLock, OneWriter, vars
  <1>2. ASSUME Locked, NEW p \in Procs, Step(p) PROVE Locked'
    <2> USE <1>2 DEF Locked, LocksTyped, HasLock, OneWriter, Goto, Return, Kinds
    <2>1. CASE Call(p)
      <3>1. PICK c \in Calls : op' = [op EXCEPT ![p] = c]
        BY <2>1 DEF Call
      <3>2. c \in Ops
        BY <3>1, CallsType
      <3> QED
        BY <2>1, <3>1, <3>2 DEF Call
    <2>2. CASE TryLock(p)
      <3>1. CASE Free(p) /\ lock' = [lock EXCEPT ![p] = LockType(p)] /\ Goto(p, op[p].kind)
                 /\ UNCHANGED op
        <4>1. op[p].kind \in Kinds
          BY DEF Ops
        <4>2. CASE op[p].kind = "write"
          BY <3>1, <4>2 DEF Free, LockType
        <4>3. CASE op[p].kind # "write"
          BY <3>1, <4>1, <4>3 DEF Free, LockType
        <4> QED
          BY <4>2, <4>3
      <3>2. CASE UNCHANGED <<lock, pc, op>>
        BY <3>2
      <3>3. CASE GiveUp(p) /\ UNCHANGED lock
        BY <2>2, <3>3, NoOpType DEF GiveUp, TryLock
      <3> QED
        BY <2>2, <3>1, <3>2, <3>3 DEF TryLock
    <2>3. CASE ReadById(p)
      BY <2>3 DEF ReadById
    <2>4. CASE ScanByName(p)
      <3>1. CASE op' = [op EXCEPT ![p].pos = op[p].pos + 1] /\ UNCHANGED pc
        <4>1. op' \in [Procs -> Ops]
          BY <3>1 DEF Ops
        <4> QED
          BY <2>4, <3>1, <4>1 DEF ScanByName
      <3>2. CASE Goto(p, "unlock") /\ UNCHANGED op
        BY <2>4, <3>2 DEF ScanByName
      <3> QED
        BY <2>4, <3>1, <3>2 DEF ScanByName
    <2>5. CASE WriteSome(p)
      <3>1. PICK n \in op[p].pos + 1 .. Parts :
               /\ op' = [op EXCEPT ![p].pos = n]
               /\ Goto(p, IF n = Parts THEN "unlock" ELSE "write")
        BY <2>5 DEF WriteSome
      <3>2. n \in Nat /\ op[p] \in Ops
        BY <3>1, PartsAssumption DEF Ops
      <3>3. op' \in [Procs -> Ops]
        BY <3>1, <3>2 DEF Ops
      <3> QED
        BY <2>5, <3>1, <3>3 DEF WriteSome
    <2>6. CASE WriteFails(p)
      BY <2>6, NoOpType DEF WriteFails
    <2>7. CASE UnlockAndClose(p)
      BY <2>7, NoOpType DEF UnlockAndClose
    <2>8. CASE Killed(p)
      BY <2>8, NoOpType DEF Killed
    <2>9. CASE Restart(p)
      BY <2>9 DEF Restart
    <2> QED
      BY <2>1, <2>2, <2>3, <2>4, <2>5, <2>6, <2>7, <2>8, <2>9 DEF Step
  <1> QED
    BY <1>1, <1>2, Steps

\* Nobody has a lock at first.
LEMMA InitLocked == Init => Locked
  BY NoOpType DEF Init, Locked, LocksTyped, HasLock, OneWriter

\* The locks in order, a writer is alone.
LEMMA LockedAlone == Locked => WriterAlone
  BY DEF Locked, HasLock, OneWriter, WriterAlone

\* Nobody else reads or writes the file while a record is being written.
THEOREM WriterAloneCorrect == Spec => []WriterAlone
  BY InitLocked, LockedKept, LockedAlone, PTL DEF Spec

-----------------------------------------------------------------------------
(* Records.  Until a writer is stopped half way, each record but the one    *)
(* being written is whole, and that one has the writer's parts in front.    *)

Records   == {Whole(v) : v \in Vals}
\* Writers ask for a record there is, or the next; the file only grows.
Asked     == \A p \in Procs : op[p].kind = "write" =>
                 /\ op[p].id \in 1 .. Len(file) + 1 /\ op[p].val \in Vals
                 /\ op[p].pos \in 0 .. Parts
Kind      == \A p \in Procs :
                 /\ pc[p] \in {"byid", "byname", "write"} => op[p].kind = pc[p]
                 /\ (pc[p] = "lock" /\ op[p].kind = "write") => op[p].pos = 0
                 /\ pc[p] = "write" => op[p].pos < Parts
FileTyped == file \in Seq(Seq(Vals)) /\ \A i \in 1 .. Len(file) : Len(file[i]) <= Parts
\* Record i under the hands of p.
Half(p, i) == /\ Len(file[i]) >= op[p].pos
              /\ \A j \in 1 .. op[p].pos : file[i][j] = op[p].val
Kept      == ~cut => \A i \in 1 .. Len(file) :
                 \/ file[i] \in Records
                 \/ \E p \in Procs : HalfWay(p) /\ op[p].id = i
HalfDone  == \A p \in Procs : HalfWay(p) =>
                 op[p].id \in 1 .. Len(file) /\ Half(p, op[p].id)
Reads     == got \in [Procs -> Seq(Vals)] /\ ReadsWhole
FileInv   == Locked /\ Asked /\ Kind /\ FileTyped /\ Kept /\ HalfDone /\ Reads

\* A whole record has all its parts.
LEMMA WholeType == \A v \in Vals : Whole(v) \in Seq(Vals) /\ Len(Whole(v)) = Parts
  BY PartsAssumption DEF Whole

\* What one write(2) does to the file.
Wrote(i, m, n, v) ==
    /\ FileTyped'
    /\ Len(file') = IF i > Len(file) THEN i ELSE Len(file)
    /\ \A k \in 1 .. Len(file) : k # i => file'[k] = file[k]
    /\ i \in 1 .. Len(file') /\ Len(file'[i]) >= n
    /\ \A j \in m + 1 .. n : file'[i][j] = v
    /\ \A j \in 1 .. m : file'[i][j] = file[i][j]

\* write(2) of parts m + 1 .. n over a record that has the first m.
LEMMA Written ==
    ASSUME NEW i \in 1 .. Len(file) + 1, NEW n \in 1 .. Parts, NEW m \in 0 .. n, NEW v \in Vals,
           FileTyped, WriteParts(i, m, n, v),
           IF i <= Len(file) THEN Len(file[i]) >= m ELSE m = 0
    PROVE  Wrote(i, m, n, v)
  <1> DEFINE old == IF i <= Len(file) THEN file[i] ELSE <<>>
             len == IF n > Len(old) THEN n ELSE Len(old)
             rec == [j \in 1 .. len |-> IF j > m /\ j <= n THEN v ELSE old[j]]
             top == IF i > Len(file) THEN i ELSE Len(file)
  <1>0. Parts \in Nat /\ Len(file) \in Nat /\ file \in Seq(Seq(Vals))
    BY PartsAssumption DEF FileTyped
  <1>1. old \in Seq(Vals) /\ Len(old) <= Parts /\ Len(old) >= m /\ len \in Nat
    BY <1>0 DEF FileTyped
  <1>2. \A j \in 1 .. len : (IF j > m /\ j <= n THEN v ELSE old[j]) \in Vals
    BY <1>0, <1>1
  <1> HIDE DEF old
  <1>3. rec \in [1 .. len -> Vals]
    BY <1>2
  <1>4. rec \in Seq(Vals) /\ Len(rec) = len /\ len <= Parts
    BY <1>0, <1>1, <1>3
  <1> HIDE DEF rec
  <1>5. file' = [k \in 1 .. top |-> IF k = i THEN rec ELSE file[k]] /\ top \in Nat
    BY <1>0 DEF WriteParts, rec, old
  <1>6. file' \in [1 .. top -> Seq(Vals)]
    BY <1>0, <1>4, <1>5
  <1>7. file' \in Seq(Seq(Vals)) /\ Len(file') = top
    BY <1>5, <1>6
  <1>8. \A k \in 1 .. top : Len(file'[k]) <= Parts
    BY <1>0, <1>4, <1>5 DEF FileTyped
  <1>9. file'[i] = rec
    BY <1>0, <1>5
  <1>10. \A j \in m + 1 .. n : rec[j] = v
    BY <1>0, <1>1 DEF rec
  <1>11. \A j \in 1 .. m : rec[j] = old[j] /\ i <= Len(file)
    BY <1>0, <1>1 DEF rec
  <1>12. FileTyped'
    BY <1>7, <1>8 DEF FileTyped
  <1>13. \A k \in 1 .. Len(file) : k # i => file'[k] = file[k]
    BY <1>0, <1>5
  <1>14. i \in 1 .. Len(file') /\ Len(file'[i]) >= n
    BY <1>0, <1>1, <1>4, <1>7, <1>9
  <1>15. \A j \in m + 1 .. n : file'[i][j] = v
    BY <1>9, <1>10
  <1>16. \A j \in 1 .. m : file'[i][j] = file[i][j]
    BY <1>9, <1>11 DEF old
  <1> QED
    BY <1>7, <1>12, <1>13, <1>14, <1>15, <1>16 DEF Wrote

\* The file has whole records at first.
LEMMA InitFile == Init => FileInv
  <1> SUFFICES ASSUME Init PROVE FileInv
    OBVIOUS
  <1>1. First \in [1 .. Len(First) -> Vals] /\ Len(First) \in Nat
    BY ValsAssumption
  <1>2. file \in [1 .. Len(First) -> Seq(Vals)]
    BY <1>1, WholeType DEF Init
  <1>3. file \in Seq(Seq(Vals)) /\ Len(file) = Len(First)
    BY <1>1, <1>2
  <1>4. \A i \in 1 .. Len(file) : file[i] \in Records /\ Len(file[i]) <= Parts
    BY <1>1, <1>3, WholeType, PartsAssumption DEF Init, Records
  <1>5. \A p \in Procs : pc[p] = "idle" /\ op[p].kind = "none" /\ got[p] = Err
    BY DEF Init, NoOp
  <1>6. got \in [Procs -> Seq(Vals)]
    BY ErrType DEF Init
  <1> QED
    BY <1>3, <1>4, <1>5, <1>6, InitLocked
       DEF FileInv, Asked, Kind, FileTyped, Kept, HalfDone, Reads, ReadsWhole, HalfWay

\* A step that does not write leaves the records as they are, and a writer
\* that stops half way is remembered.
LEMMA Quiet ==
    ASSUME FileInv, NEW p \in Procs, file' = file,
           \A q \in Procs \ {p} : pc'[q] = pc[q] /\ op'[q] = op[q],
           ~HalfWay(p)', ~cut' => ~cut /\ ~HalfWay(p)
    PROVE  FileTyped' /\ Kept' /\ HalfDone'
  <1>1. FileTyped'
    BY DEF FileInv, FileTyped
  <1>2. \A q \in Procs \ {p} : HalfWay(q)' <=> HalfWay(q)
    BY DEF HalfWay
  <1>3. Kept'
    BY <1>2 DEF FileInv, Kept
  <1>4. HalfDone'
    BY <1>2 DEF FileInv, HalfDone, Half
  <1> QED
    BY <1>1, <1>3, <1>4

\* A process that reads finds no record under another's hands.
LEMMA ReadWhole ==
    ASSUME FileInv, NEW p \in Procs, pc[p] \in {"byid", "byname"}, ~cut, NEW i, Complete(i)
    PROVE  file[i] \in Records
  <1>1. \A q \in Procs : pc[q] # "write"
    BY DEF FileInv, Locked, HasLock, OneWriter
  <1> QED
    BY <1>1 DEF FileInv, Kept, HalfWay, Complete

\* What it does for a writer p, who brings record i from part m to part n.
Does(p, i, m, n, v) ==
    /\ i \in 1 .. Len(file) + 1 /\ m \in 0 .. Parts /\ n \in 1 .. Parts /\ v \in Vals /\ m < n
    /\ i = op[p].id /\ m = op[p].pos /\ v = op[p].val
    /\ Wrote(i, m, n, v)
    /\ \A j \in 1 .. n : file'[i][j] = v
    /\ \A q \in Procs \ {p} : pc[q] # "write" /\ pc'[q] = pc[q] /\ op'[q] = op[q]
    /\ op'[p].kind = "write" /\ op'[p].id = i /\ op'[p].val = v /\ op'[p].pos = n
    /\ pc[p] = "write" /\ pc'[p] = IF n = Parts THEN "unlock" ELSE "write"
    /\ n = Parts => file'[i] = Whole(v)

\* A step of safe_write leaves the parts written so far in front of the record.
LEMMA Writes ==
    ASSUME FileInv, NEW p \in Procs, WriteSome(p)
    PROVE  \E i, m, n, v : Does(p, i, m, n, v)
  <1>1. /\ pc[p] = "write" /\ op[p].kind = "write" /\ Parts \in Nat /\ Len(file) \in Nat
        /\ op[p].id \in 1 .. Len(file) + 1 /\ op[p].val \in Vals /\ op[p].pos \in 0 .. Parts
    BY PartsAssumption DEF WriteSome, FileInv, Kind, Asked, FileTyped
  <1>2. PICK n \in op[p].pos + 1 .. Parts :
           /\ WriteParts(op[p].id, op[p].pos, n, op[p].val)
           /\ op' = [op EXCEPT ![p].pos = n]
           /\ pc' = [pc EXCEPT ![p] = IF n = Parts THEN "unlock" ELSE "write"]
    BY DEF WriteSome, Goto
  <1>3. PICK i \in 1 .. Len(file) + 1, m \in 0 .. Parts, v \in Vals :
           i = op[p].id /\ m = op[p].pos /\ v = op[p].val
    BY <1>1
  <1>4. /\ i \in 1 .. Len(file) + 1 /\ m \in 0 .. n /\ n \in 1 .. Parts /\ v \in Vals
        /\ i = op[p].id /\ m = op[p].pos /\ v = op[p].val /\ m < n
    BY <1>1, <1>2, <1>3
  <1>5. WriteParts(i, m, n, v)
    BY <1>2, <1>3, Zenon
  <1>6. IF i <= Len(file) THEN Len(file[i]) >= m ELSE m = 0
    <2>1. CASE m = 0
      BY <1>1, <1>4, <2>1 DEF FileInv, FileTyped
    <2>2. CASE m > 0
      BY <1>1, <1>4, <2>2 DEF FileInv, HalfDone, HalfWay, Half
    <2> QED
      BY <1>4, <2>1, <2>2
  <1>7. FileTyped
    BY DEF FileInv
  <1>8. Wrote(i, m, n, v)
    BY <1>4, <1>5, <1>6, <1>7, Written
  <1>9. \A j \in 1 .. n : file'[i][j] = v
    <2>1. m > 0 => \A j \in 1 .. m : file[i][j] = v
      BY <1>1, <1>4 DEF FileInv, HalfDone, HalfWay, Half
    <2> SUFFICES ASSUME NEW j \in 1 .. n PROVE file'[i][j] = v
      OBVIOUS
    <2>2. CASE j <= m
      BY <1>4, <1>8, <2>1, <2>2 DEF Wrote
    <2>3. CASE j > m
      BY <1>4, <1>8, <2>3 DEF Wrote
    <2> QED
      BY <1>4, <2>2, <2>3
  <1>10. \A q \in Procs \ {p} : pc[q] # "write" /\ pc'[q] = pc[q] /\ op'[q] = op[q]
    BY <1>1, <1>2 DEF FileInv, Locked, LocksTyped, HasLock, OneWriter
  <1>11. /\ op'[p].kind = "write" /\ op'[p].id = i /\ op'[p].val = v /\ op'[p].pos = n
        /\ pc'[p] = IF n = Parts THEN "unlock" ELSE "write"
    BY <1>1, <1>4, <1>2 DEF FileInv, Locked, LocksTyped, Ops
  <1>12. n = Parts => file'[i] = Whole(v)
    <2> SUFFICES ASSUME n = Parts PROVE file'[i] = Whole(v)
      OBVIOUS
    <2>1. file'[i] \in Seq(Vals) /\ Len(file'[i]) = Parts
      BY <1>1, <1>4, <1>8 DEF FileTyped, Wrote
    <2>2. file'[i] = [j \in 1 .. Parts |-> file'[i][j]]
      BY <2>1
    <2> QED
      BY <1>9, <2>2 DEF Whole
  <1>13. Does(p, i, m, n, v)
    BY <1>1, <1>3, <1>4, <1>8, <1>9, <1>10, <1>11, <1>12 DEF Does
  <1> QED
    BY <1>13

\* A step of safe_write keeps the records.
LEMMA WriteKept ==
    ASSUME FileInv, Locked', NEW p \in Procs, WriteSome(p)
    PROVE  FileInv'
  <1>1. PICK i, m, n, v : Does(p, i, m, n, v)
    BY Writes
  <1>2. /\ i \in 1 .. Len(file) + 1 /\ m \in 0 .. n /\ n \in 1 .. Parts /\ v \in Vals
        /\ i = op[p].id /\ m < n /\ Parts \in Nat /\ Len(file) \in Nat
    BY <1>1, PartsAssumption DEF Does, FileInv, FileTyped
  <1>3. /\ FileTyped'
        /\ Len(file') = IF i > Len(file) THEN i ELSE Len(file)
        /\ \A k \in 1 .. Len(file) : k # i => file'[k] = file[k]
        /\ i \in 1 .. Len(file') /\ Len(file'[i]) >= n
        /\ \A j \in 1 .. n : file'[i][j] = v
    BY <1>1 DEF Does, Wrote
  <1>4. \A q \in Procs \ {p} : pc[q] # "write" /\ pc'[q] = pc[q] /\ op'[q] = op[q]
    BY <1>1 DEF Does
  <1>5. /\ op'[p].kind = "write" /\ op'[p].id = i /\ op'[p].val = v /\ op'[p].pos = n
        /\ pc'[p] = IF n = Parts THEN "unlock" ELSE "write"
        /\ n = Parts => file'[i] = Whole(v)
    BY <1>1 DEF Does
  <1>6. Asked'
    <2>1. Len(file') >= Len(file) /\ i \in 1 .. Len(file') /\ Len(file') \in Nat
      BY <1>2, <1>3
    <2>2. \A q \in Procs \ {p} : op'[q].kind = "write" =>
             op[q].id \in 1 .. Len(file') + 1 /\ op[q].val \in Vals /\ op[q].pos \in 0 .. Parts
      BY <1>4, <2>1 DEF FileInv, Asked
    <2> QED
      BY <1>2, <1>4, <1>5, <2>1, <2>2 DEF Asked
  <1>7. Kind'
    BY <1>2, <1>4, <1>5 DEF FileInv, Kind
  <1>8. HalfDone'
    <2> SUFFICES ASSUME NEW q \in Procs, HalfWay(q)'
                 PROVE  (op[q].id \in 1 .. Len(file) /\ Half(q, op[q].id))'
      BY DEF HalfDone
    <2>1. q = p
      BY <1>4 DEF HalfWay
    <2> QED
      BY <1>2, <1>3, <1>5, <2>1 DEF Half
  <1>9. Kept'
    <2> SUFFICES ASSUME ~cut', NEW k \in 1 .. Len(file')
                 PROVE  \/ file'[k] \in Records
                        \/ \E q \in Procs : HalfWay(q)' /\ op'[q].id = k
      BY DEF Kept
    <2>1. CASE k # i
      <3>1. k \in 1 .. Len(file) /\ file'[k] = file[k] /\ ~cut
        BY <1>2, <1>3, <2>1 DEF WriteSome
      <3>2. \A q \in Procs : HalfWay(q) => q = p
        BY <1>4 DEF HalfWay
      <3>3. file[k] \in Records \/ \E q \in Procs : HalfWay(q) /\ op[q].id = k
        BY <3>1 DEF FileInv, Kept
      <3> QED
        BY <1>2, <2>1, <3>1, <3>2, <3>3
    <2>2. CASE k = i /\ n = Parts
      BY <1>2, <1>5, <2>2 DEF Records
    <2>3. CASE k = i /\ n # Parts
      BY <1>2, <1>5, <2>3 DEF HalfWay
    <2> QED
      BY <2>1, <2>2, <2>3
  <1>10. Reads'
    BY DEF FileInv, Reads, ReadsWhole, WriteSome
  <1> QED
    BY <1>3, <1>6, <1>7, <1>8, <1>9, <1>10 DEF FileInv

\* Every step keeps the records.
LEMMA FileKept == FileInv /\ [Next]_vars => FileInv'
  <1>1. ASSUME FileInv, UNCHANGED vars PROVE FileInv'
    BY <1>1, LockedKept
       DEF FileInv, Asked, Kind, FileTyped, Kept, HalfDone, Half, HalfWay, Reads, ReadsWhole, vars
  <1>2. ASSUME FileInv, NEW p \in Procs, Step(p) PROVE FileInv'
    <2>1. Locked'
      BY <1>2, LockedKept DEF FileInv, Next
    <2>2. /\ Locked /\ LocksTyped /\ Asked /\ Kind /\ Reads /\ FileTyped
          /\ op[p] \in Ops
      BY <1>2 DEF FileInv, Locked, LocksTyped
    <2>3. CASE Call(p)
      <3>1. PICK c \in Calls : op' = [op EXCEPT ![p] = c]
        BY <2>3 DEF Call
      <3>2. /\ pc[p] = "idle" /\ pc' = [pc EXCEPT ![p] = "lock"]
            /\ file' = file /\ got' = got /\ cut' = cut
        BY <2>3 DEF Call, Goto
      <3>3. op'[p] = c /\ pc'[p] = "lock" /\ \A q \in Procs \ {p} : op'[q] = op[q] /\ pc'[q] = pc[q]
        BY <2>2, <3>1, <3>2 DEF LocksTyped
      <3>4. c.kind = "write" => c.id \in 1 .. Len(file) + 1 /\ c.val \in Vals /\ c.pos = 0
        BY <2>2, SlotsAssumption DEF Calls, FileTyped
      <3>5. Asked'
        BY <2>2, <3>2, <3>3, <3>4, PartsAssumption DEF Asked
      <3>6. Kind'
        BY <2>2, <3>3, <3>4 DEF Kind
      <3>7. FileTyped' /\ Kept' /\ HalfDone'
        BY <1>2, <3>2, <3>3, Quiet DEF HalfWay
      <3> QED
        BY <2>1, <2>2, <3>2, <3>5, <3>6, <3>7 DEF FileInv, Reads, ReadsWhole
    <2>4. CASE TryLock(p)
      <3>1. file' = file /\ cut' = cut /\ pc[p] = "lock"
        BY <2>4 DEF TryLock
      <3>2. /\ pc' = [pc EXCEPT ![p] = pc'[p]]
            /\ op' = op \/ op' = [op EXCEPT ![p] = NoOp]
            /\ got' = got \/ got' = [got EXCEPT ![p] = Err]
            /\ \/ pc'[p] = op[p].kind /\ op' = op
               \/ pc'[p] = "lock" /\ op' = op
               \/ pc'[p] \in {"exit", "idle"}
        <4>1. CASE Goto(p, op[p].kind) /\ UNCHANGED <<op, got>>
          BY <2>2, <4>1 DEF Goto, LocksTyped
        <4>2. CASE UNCHANGED <<pc, op, got>>
          BY <2>2, <3>1, <4>2 DEF LocksTyped
        <4>3. CASE GiveUp(p)
          BY <2>2, <4>3 DEF GiveUp, Return, Goto, LocksTyped
        <4> QED
          BY <2>4, <4>1, <4>2, <4>3 DEF TryLock
      <3>3. /\ \A q \in Procs \ {p} : op'[q] = op[q] /\ pc'[q] = pc[q]
            /\ op'[p] = op[p] \/ op'[p] = NoOp
            /\ \/ pc'[p] = op[p].kind /\ op'[p] = op[p]
               \/ pc'[p] = "lock" /\ op'[p] = op[p]
               \/ pc'[p] \in {"exit", "idle"}
        BY <2>2, <3>2 DEF LocksTyped
      <3>4. Asked'
        BY <2>2, <3>1, <3>3 DEF Asked, NoOp
      <3>5. Kind'
        BY <2>2, <3>1, <3>3, PartsAssumption DEF Kind, NoOp
      <3>6. FileTyped' /\ Kept' /\ HalfDone'
        <4>1. ~HalfWay(p) /\ ~HalfWay(p)'
          BY <2>2, <3>1, <3>3 DEF HalfWay, Kind
        <4> QED
          BY <1>2, <3>1, <3>3, <4>1, Quiet
      <3>7. Reads'
        <4>1. CASE got' = got
          BY <2>2, <3>1, <4>1 DEF Reads, ReadsWhole
        <4>2. CASE got' = [got EXCEPT ![p] = Err]
          BY <2>2, <3>1, <4>2, ErrType DEF Reads, ReadsWhole
        <4> QED
          BY <3>2, <4>1, <4>2
      <3> QED
        BY <2>1, <3>4, <3>5, <3>6, <3>7 DEF FileInv
    <2>5. CASE ReadById(p)
      <3>1. /\ pc[p] = "byid" /\ pc' = [pc EXCEPT ![p] = "unlock"]
            /\ file' = file /\ op' = op /\ cut' = cut
            /\ got' = [got EXCEPT ![p] = IF Complete(op[p].id) THEN file[op[p].id] ELSE Err]
        BY <2>5 DEF ReadById, Goto
      <3>2. pc'[p] = "unlock" /\ \A q \in Procs \ {p} : pc'[q] = pc[q]
        BY <2>2, <3>1 DEF LocksTyped
      <3>3. ~cut => \A i : Complete(i) => file[i] \in Records
        BY <1>2, <3>1, ReadWhole
      <3>4. Reads'
        <4>1. Complete(op[p].id) => file[op[p].id] \in Seq(Vals)
          BY <2>2 DEF FileTyped, Complete
        <4> QED
          BY <2>2, <3>1, <3>3, <4>1, ErrType DEF Reads, ReadsWhole, Records
      <3>5. Asked' /\ Kind'
        BY <2>2, <3>1, <3>2 DEF Asked, Kind
      <3>6. FileTyped' /\ Kept' /\ HalfDone'
        BY <1>2, <3>1, <3>2, Quiet DEF HalfWay
      <3> QED
        BY <2>1, <3>4, <3>5, <3>6 DEF FileInv
    <2>6. CASE ScanByName(p)
      <3> DEFINE i == op[p].pos
      <3>1. pc[p] = "byname" /\ op[p].kind = "byname" /\ file' = file /\ cut' = cut
        BY <2>2, <2>6 DEF ScanByName, Kind
      <3>2. \/ op' = [op EXCEPT ![p].pos = i + 1] /\ pc' = pc /\ got' = got
            \/ /\ op' = op /\ pc' = [pc EXCEPT ![p] = "unlock"]
               /\ got' = [got EXCEPT ![p] = IF Complete(i) THEN file[i] ELSE Err]
        BY <2>6 DEF ScanByName, Goto
      <3>3. /\ op'[p].kind = "byname" /\ pc'[p] \in {"byname", "unlock"}
            /\ \A q \in Procs \ {p} : pc'[q] = pc[q] /\ op'[q] = op[q]
        <4>1. CASE op' = [op EXCEPT ![p].pos = i + 1] /\ pc' = pc
          <5>1. op'[p].kind = op[p].kind
            BY <2>2, <4>1 DEF LocksTyped, Ops
          <5> QED
            BY <3>1, <4>1, <5>1
        <4>2. CASE op' = op /\ pc' = [pc EXCEPT ![p] = "unlock"]
          BY <2>2, <3>1, <4>2 DEF LocksTyped
        <4> QED
          BY <3>2, <4>1, <4>2
      <3>4. ~cut => \A k : Complete(k) => file[k] \in Records
        BY <1>2, <3>1, ReadWhole
      <3>5. Reads'
        <4>1. Complete(i) => file[i] \in Seq(Vals)
          BY <2>2 DEF FileTyped, Complete
        <4>2. CASE got' = [got EXCEPT ![p] = IF Complete(i) THEN file[i] ELSE Err]
          BY <2>2, <3>1, <3>4, <4>1, <4>2, ErrType DEF Reads, ReadsWhole, Records
        <4>3. CASE got' = got
          BY <2>2, <3>1, <4>3 DEF Reads, ReadsWhole
        <4> QED
          BY <3>2, <4>2, <4>3
      <3>6. Asked' /\ Kind'
        BY <2>2, <3>1, <3>3 DEF Asked, Kind
      <3>7. FileTyped' /\ Kept' /\ HalfDone'
        BY <1>2, <3>1, <3>3, Quiet DEF HalfWay
      <3> QED
        BY <2>1, <3>5, <3>6, <3>7 DEF FileInv
    <2>7. CASE WriteSome(p)
      BY <1>2, <2>1, <2>7, WriteKept
    <2>8. CASE Restart(p)
      <3>1. /\ pc[p] = "exit" /\ pc' = [pc EXCEPT ![p] = "idle"]
            /\ file' = file /\ op' = op /\ cut' = cut /\ got' = [got EXCEPT ![p] = Err]
        BY <2>8 DEF Restart, Goto
      <3>2. pc'[p] = "idle" /\ \A q \in Procs \ {p} : pc'[q] = pc[q]
        BY <2>2, <3>1 DEF LocksTyped
      <3>3. Asked' /\ Kind' /\ Reads'
        BY <2>2, <3>1, <3>2, ErrType DEF Asked, Kind, Reads, ReadsWhole
      <3>4. FileTyped' /\ Kept' /\ HalfDone'
        BY <1>2, <3>1, <3>2, Quiet DEF HalfWay
      <3> QED
        BY <2>1, <3>3, <3>4 DEF FileInv
    <2>9. CASE WriteFails(p) \/ UnlockAndClose(p) \/ Killed(p)
      <3>1. /\ file' = file /\ got' = got /\ op' = [op EXCEPT ![p] = NoOp]
            /\ \E l \in {"idle", "exit"} : pc' = [pc EXCEPT ![p] = l]
            /\ ~cut' => ~cut /\ ~HalfWay(p)
        <4>1. CASE WriteFails(p)
          BY <4>1 DEF WriteFails, Return, Goto
        <4>2. CASE UnlockAndClose(p)
          BY <4>2 DEF UnlockAndClose, Return, Goto, HalfWay
        <4>3. CASE Killed(p)
          BY <4>3 DEF Killed, Return, Goto
        <4> QED
          BY <2>9, <4>1, <4>2, <4>3
      <3>2. /\ op'[p] = NoOp /\ pc'[p] \in {"idle", "exit"}
            /\ \A q \in Procs \ {p} : pc'[q] = pc[q] /\ op'[q] = op[q]
        BY <2>2, <3>1 DEF LocksTyped
      <3>3. Asked' /\ Kind' /\ Reads'
        BY <2>2, <3>1, <3>2 DEF Asked, Kind, Reads, ReadsWhole, NoOp
      <3>4. FileTyped' /\ Kept' /\ HalfDone'
        BY <1>2, <3>1, <3>2, Quiet DEF HalfWay
      <3> QED
        BY <2>1, <3>3, <3>4 DEF FileInv
    <2> QED
      BY <1>2, <2>3, <2>4, <2>5, <2>6, <2>7, <2>8, <2>9 DEF Step
  <1> QED
    BY <1>1, <1>2, Steps

\* A record that getubentbyid or getubentbyname returns was given whole to one
\* writeubent, unless a writer was stopped half way before.
THEOREM ReadsWholeCorrect == Spec => []ReadsWhole
  <1>1. FileInv => ReadsWhole
    BY DEF FileInv, Reads
  <1> QED
    BY <1>1, InitFile, FileKept, PTL DEF Spec

-----------------------------------------------------------------------------
(* The calls implement the store.                                           *)

\* The record under a writer's hands counts as written, every other is itself.
Image == /\ \A p \in Procs : HalfWay(p) => Now(op[p].id) = Whole(op[p].val)
         /\ \A i : (\A p \in Procs : HalfWay(p) => op[p].id # i) => Now(i) = file[i]

\* Because at most one process writes.
LEMMA ImageNow == FileInv => Image
  <1> SUFFICES ASSUME FileInv PROVE Image
    OBVIOUS
  <1>1. ASSUME NEW p \in Procs, HalfWay(p) PROVE Now(op[p].id) = Whole(op[p].val)
    <2> DEFINE q == CHOOSE r \in Procs : HalfWay(r) /\ op[r].id = op[p].id
    <2>1. q \in Procs /\ HalfWay(q)
      BY <1>1
    <2>2. q = p
      BY <1>1, <2>1 DEF FileInv, Locked, HasLock, OneWriter, HalfWay
    <2> QED
      BY <1>1, <2>2 DEF Now
  <1>2. ASSUME NEW i, \A p \in Procs : HalfWay(p) => op[p].id # i PROVE Now(i) = file[i]
    BY <1>2 DEF Now
  <1> QED
    BY <1>1, <1>2 DEF Image

\* The same after a step.
LEMMA ImageNext == (FileInv => Image)'
  BY ImageNow, PTL

\* What a step that writes nothing does.
Quietly(p) ==
    /\ file' = file /\ ~HalfWay(p) /\ ~HalfWay(p)'
    /\ \A q \in Procs \ {p} : pc'[q] = pc[q] /\ op'[q] = op[q]
    /\ \/ got' = got
       \/ got' = [got EXCEPT ![p] = Err]
       \/ /\ pc[p] \in {"byid", "byname"}
          /\ \E i : Complete(i) /\ got' = [got EXCEPT ![p] = file[i]]

\* Every step but those of safe_write leaves file and half-written record alone.
LEMMA QuietStep ==
    ASSUME FileInv, NEW p \in Procs, Step(p), ~WriteSome(p), ~cut'
    PROVE  Quietly(p)
  <1>1. LocksTyped /\ Kind /\ op[p] \in Ops
    BY DEF FileInv, Locked, LocksTyped
  <1>2. \A l : pc' = [pc EXCEPT ![p] = l] =>
           pc'[p] = l /\ \A q \in Procs \ {p} : pc'[q] = pc[q]
    BY <1>1 DEF LocksTyped
  <1>3. \A o : op' = [op EXCEPT ![p] = o] =>
           op'[p] = o /\ \A q \in Procs \ {p} : op'[q] = op[q]
    BY <1>1 DEF LocksTyped
  <1>4. CASE Call(p)
    BY <1>2, <1>3, <1>4 DEF Call, Goto, Quietly, HalfWay
  <1>5. CASE TryLock(p)
    <2>1. pc[p] = "lock" /\ file' = file
      BY <1>5 DEF TryLock
    <2>2. CASE Goto(p, op[p].kind) /\ UNCHANGED <<op, got>>
      BY <1>1, <1>2, <2>1, <2>2 DEF Goto, Quietly, HalfWay, Kind
    <2>3. CASE UNCHANGED <<pc, op, got>>
      BY <2>1, <2>3 DEF Quietly, HalfWay
    <2>4. CASE GiveUp(p)
      BY <1>2, <1>3, <2>1, <2>4 DEF GiveUp, Return, Goto, Quietly, HalfWay
    <2> QED
      BY <1>5, <2>2, <2>3, <2>4 DEF TryLock
  <1>6. CASE ReadById(p)
    BY <1>2, <1>6 DEF ReadById, Goto, Quietly, HalfWay
  <1>7. CASE ScanByName(p)
    <2>1. pc[p] = "byname" /\ file' = file
      BY <1>7 DEF ScanByName
    <2>2. CASE /\ op' = [op EXCEPT ![p].pos = op[p].pos + 1]
               /\ UNCHANGED <<pc, got>>
      <3>1. \A q \in Procs \ {p} : op'[q] = op[q]
        BY <1>1, <2>2 DEF LocksTyped
      <3> QED
        BY <2>1, <2>2, <3>1 DEF Quietly, HalfWay
    <2>3. CASE /\ got' = [got EXCEPT ![p] = IF Complete(op[p].pos) THEN file[op[p].pos] ELSE Err]
               /\ Goto(p, "unlock") /\ UNCHANGED op
      BY <1>2, <2>1, <2>3 DEF Goto, Quietly, HalfWay
    <2> QED
      BY <1>7, <2>2, <2>3 DEF ScanByName
  <1>8. CASE UnlockAndClose(p)
    BY <1>2, <1>3, <1>8 DEF UnlockAndClose, Return, Goto, Quietly, HalfWay
  <1>9. CASE WriteFails(p) \/ Killed(p)
    <2>1. /\ file' = file /\ got' = got /\ ~HalfWay(p)
          /\ pc' = [pc EXCEPT ![p] = "exit"] /\ op' = [op EXCEPT ![p] = NoOp]
      BY <1>9 DEF WriteFails, Killed, Return, Goto
    <2>2. ~HalfWay(p)' /\ \A q \in Procs \ {p} : pc'[q] = pc[q]
      BY <1>2, <2>1 DEF HalfWay
    <2>3. \A q \in Procs \ {p} : op'[q] = op[q]
      BY <1>3, <2>1
    <2> QED
      BY <2>1, <2>2, <2>3 DEF Quietly
  <1>10. CASE Restart(p)
    BY <1>2, <1>10 DEF Restart, Goto, Quietly, HalfWay
  <1> QED
    BY <1>4, <1>5, <1>6, <1>7, <1>8, <1>9, <1>10 DEF Step

\* The file is the store at first.
LEMMA StoreInit == Init => Store!Init
  <1> SUFFICES ASSUME Init PROVE Store!Init
    OBVIOUS
  <1>1. Len(file) = Len(First) /\ Len(First) \in Nat
    BY ValsAssumption DEF Init
  <1>2. \A i : Now(i) = file[i]
    BY DEF Init, Now, HalfWay
  <1>3. \A i \in 1 .. Len(First) : file[i] = Whole(First[i])
    BY DEF Init
  <1> QED
    BY <1>1, <1>2, <1>3 DEF Init, Store!Init, Stored

\* A step of a call is a step of the store or none.
LEMMA StoreStep ==
    ASSUME FileInv, FileInv', NEW p \in Procs, Step(p), ~cut'
    PROVE  Store!Next \/ UNCHANGED <<Stored, got>>
  <1>1. Image /\ Image' /\ Len(file) \in Nat
    BY ImageNow, ImageNext DEF FileInv, FileTyped
  <1>2. CASE WriteSome(p)
    <2>1. PICK i, m, n, v : Does(p, i, m, n, v)
      BY <1>2, Writes
    <2>2. /\ i \in 1 .. Len(file) + 1 /\ v \in Vals
          /\ Len(file') = IF i > Len(file) THEN i ELSE Len(file)
          /\ \A k \in 1 .. Len(file) : k # i => file'[k] = file[k]
          /\ got' = got
      BY <1>2, <2>1 DEF Does, Wrote, WriteSome
    <2>3. Now(i)' = Whole(v)
      <3>1. n \in 1 .. Parts /\ Parts \in Nat /\ op'[p].id = i /\ op'[p].val = v /\ op'[p].pos = n
        BY <2>1, PartsAssumption DEF Does
      <3>2. CASE n = Parts
        <4>1. \A q \in Procs : ~HalfWay(q)'
          BY <2>1, <3>2 DEF Does, HalfWay
        <4>2. file'[i] = Whole(v)
          BY <2>1, <3>2 DEF Does
        <4> QED
          BY <1>1, <4>1, <4>2 DEF Image
      <3>3. CASE n # Parts
        <4>1. HalfWay(p)'
          BY <2>1, <3>1, <3>3 DEF Does, HalfWay
        <4> QED
          BY <1>1, <3>1, <4>1 DEF Image
      <3> QED
        BY <3>2, <3>3
    <2>4. ASSUME NEW k \in 1 .. Len(file), k # i PROVE Now(k)' = Now(k)
      <3>1. \A q \in Procs : (HalfWay(q) \/ HalfWay(q)') => q = p
        BY <2>1 DEF Does, HalfWay
      <3>2. op[p].id = i /\ op'[p].id = i
        BY <2>1 DEF Does
      <3>3. Now(k) = file[k] /\ Now(k)' = file'[k]
        BY <1>1, <2>4, <3>1, <3>2 DEF Image
      <3> QED
        BY <2>2, <2>4, <3>3
    <2>5. Len(Stored) = Len(file) /\ DOMAIN Stored = 1 .. Len(file)
      BY <1>1 DEF Stored
    <2>6. Stored' = [j \in 1 .. (IF i > Len(Stored) THEN i ELSE Len(Stored)) |->
                       IF j = i THEN Whole(v) ELSE Stored[j]]
      <3>1. Stored' = [j \in 1 .. (IF i > Len(file) THEN i ELSE Len(file)) |-> Now(j)']
        BY <2>2 DEF Stored
      <3>2. \A j \in 1 .. (IF i > Len(file) THEN i ELSE Len(file)) :
               Now(j)' = IF j = i THEN Whole(v) ELSE Stored[j]
        BY <1>1, <2>2, <2>3, <2>4 DEF Stored
      <3> QED
        BY <2>5, <3>1, <3>2
    <2> QED
      BY <2>2, <2>5, <2>6 DEF Store!Next, Store!Put
  <1>3. CASE ~WriteSome(p)
    <2>1. Quietly(p)
      BY <1>3, QuietStep
    <2>2. Stored' = Stored
      <3>1. \A q \in Procs : /\ HalfWay(q)' <=> HalfWay(q)
                             /\ HalfWay(q) => op'[q] = op[q]
        BY <2>1 DEF Quietly, HalfWay
      <3>2. ASSUME NEW i PROVE Now(i)' = Now(i)
        <4>1. CASE \E q \in Procs : HalfWay(q) /\ op[q].id = i
          BY <1>1, <3>1, <4>1 DEF Image
        <4>2. CASE \A q \in Procs : HalfWay(q) => op[q].id # i
          BY <1>1, <2>1, <3>1, <4>2 DEF Image, Quietly
        <4> QED
          BY <4>1, <4>2
      <3> QED
        BY <2>1, <3>2 DEF Stored, Quietly
    <2>3. CASE got' = got
      BY <2>2, <2>3
    <2>4. CASE got' = [got EXCEPT ![p] = Err]
      BY <2>2, <2>4 DEF Store!Next, Store!GetFails
    <2>5. CASE /\ pc[p] \in {"byid", "byname"}
               /\ \E i : Complete(i) /\ got' = [got EXCEPT ![p] = file[i]]
      <3>1. PICK i : Complete(i) /\ got' = [got EXCEPT ![p] = file[i]]
        BY <2>5
      <3>2. \A q \in Procs : ~HalfWay(q)
        BY <2>5 DEF FileInv, Locked, HasLock, OneWriter, HalfWay
      <3>3. i \in DOMAIN Stored /\ Stored[i] = file[i]
        BY <1>1, <3>1, <3>2 DEF Image, Stored, Complete
      <3> QED
        BY <2>2, <3>1, <3>3 DEF Store!Next, Store!Get
    <2> QED
      BY <2>1, <2>3, <2>4, <2>5 DEF Quietly
  <1> QED
    BY <1>2, <1>3

\* What the callers of user.c see is a store of whole records, each read and
\* written in one step, until a writer is stopped half way.
THEOREM AtomicCorrect == Spec => Atomic
  <1>1. FileInv /\ FileInv' /\ [Next]_vars => [cut' \/ Store!Next]_<<Stored, got>>
    <2>1. UNCHANGED vars => UNCHANGED <<Stored, got>>
      BY DEF vars, Stored, Now, HalfWay
    <2>2. ASSUME FileInv, FileInv', Next, ~cut' PROVE Store!Next \/ UNCHANGED <<Stored, got>>
      BY <2>2, Steps, StoreStep
    <2> QED
      BY <2>1, <2>2
  <1> QED
    BY <1>1, StoreInit, InitFile, FileKept, PTL DEF Spec, Atomic
=============================================================================
