------------------------------ MODULE UserBase ------------------------------
(***************************************************************************)
(* userbase.dat as user.c reads and writes it: the whole file is locked     *)
(* with fcntl for each call, by polling (lock_and_open, main/misc.c), read  *)
(* with one read(2) for each record and written by safe_write, which may    *)
(* take several write(2).  A record is a sequence of Parts parts, the       *)
(* pieces a short write may leave; its contents are one of Vals.            *)
(***************************************************************************)
EXTENDS Integers, Sequences

CONSTANTS
    Procs,     \* nodes, upload checkers, tools
    Vals,      \* contents of a record
    Deleted,   \* contents that are marked UBENT_STAT_DELETED
    First,     \* contents of the records there are at first
    Parts,     \* most write(2) calls a record can take
    Retries,   \* polls for the lock (300, 100 ms apart)
    Failures,  \* what goes wrong: "full", a write fails; "kill", a process is killed
    MaxSlots   \* bound: records in the file

ASSUME ValsAssumption == Deleted \subseteq Vals /\ First \in Seq(Vals)
ASSUME PartsAssumption == Parts \in Nat \ {0} /\ Retries \in Nat \ {0}
ASSUME SlotsAssumption == MaxSlots \in Nat /\ Len(First) <= MaxSlots

VARIABLES
    file,   \* the records: each a sequence of parts, the last one maybe short
    lock,   \* the fcntl lock each process has on the file
    pc,     \* where each process is in a call
    op,     \* the call: what is asked, and how far it is
    tries,  \* polls that failed
    got,    \* the record each process read last, or Err
    cut     \* history: a record was left half written

vars == <<file, lock, pc, op, tries, got, cut>>

Err      == <<>>
Whole(v) == [i \in 1 .. Parts |-> v]
NoOp     == [kind |-> "none", id |-> 0, val |-> {}, pos |-> 0]

\* A short record at the end of the file reads as the end of the file.
Complete(i) == i \in 1 .. Len(file) /\ Len(file[i]) = Parts

Init ==
    /\ file = [i \in 1 .. Len(First) |-> Whole(First[i])]
    /\ lock = [p \in Procs |-> "none"]
    /\ pc = [p \in Procs |-> "idle"]
    /\ op = [p \in Procs |-> NoOp]
    /\ tries = [p \in Procs |-> 0]
    /\ got = [p \in Procs |-> Err]
    /\ cut = FALSE

Goto(p, l) == pc' = [pc EXCEPT ![p] = l]

\* The call ends: nothing it counted is kept.
Return(p, l) ==
    /\ Goto(p, l)
    /\ op' = [op EXCEPT ![p] = NoOp]
    /\ tries' = [tries EXCEPT ![p] = 0]

\* getubentbyid, getubentbyname and writeubent.  A caller writes a record it
\* has read, or a new one in the first free slot.
Calls == [kind : {"byid"}, id : 1 .. MaxSlots, val : {{}}, pos : {0}] \cup
         [kind : {"byname"}, id : {0}, val : Vals, pos : {1}] \cup
         {c \in [kind : {"write"}, id : 1 .. MaxSlots, val : Vals, pos : {0}] :
             c.id <= Len(file) + 1}

Call(p) ==
    /\ pc[p] = "idle"
    /\ \E c \in Calls : op' = [op EXCEPT ![p] = c]
    /\ Goto(p, "lock")
    /\ UNCHANGED <<file, lock, tries, got, cut>>

\* F_RDLCK for a file opened for reading, F_WRLCK for one opened for writing.
LockType(p) == IF op[p].kind = "write" THEN "write" ELSE "read"

Free(p) == \A q \in Procs \ {p} :
              IF LockType(p) = "write" THEN lock[q] = "none" ELSE lock[q] # "write"

\* Mutant: the poll goes on for ever.
PollForEver(p) ==
    /\ pc[p] = "lock"
    /\ Free(p)
    /\ lock' = [lock EXCEPT ![p] = LockType(p)]
    /\ Goto(p, op[p].kind)
    /\ UNCHANGED <<file, op, tries, got, cut>>

\* saveuserbase ends the process when it cannot write.
GiveUp(p) ==
    IF op[p].kind = "write" THEN Return(p, "exit") /\ UNCHANGED got
    ELSE Return(p, "idle") /\ got' = [got EXCEPT ![p] = Err]

TryLock(p) ==
    /\ pc[p] = "lock"
    /\ \/ /\ Free(p)
          /\ lock' = [lock EXCEPT ![p] = LockType(p)]
          /\ Goto(p, op[p].kind)
          /\ UNCHANGED <<op, tries, got>>
       \/ /\ ~Free(p)
          /\ tries[p] + 1 < Retries
          /\ tries' = [tries EXCEPT ![p] = @ + 1]
          /\ UNCHANGED <<lock, pc, op, got>>
       \/ /\ ~Free(p)
          /\ tries[p] + 1 = Retries
          /\ GiveUp(p)
          /\ UNCHANGED lock
    /\ UNCHANGED <<file, cut>>

ReadById(p) ==
    /\ pc[p] = "byid"
    /\ got' = [got EXCEPT ![p] = IF Complete(op[p].id) THEN file[op[p].id] ELSE Err]
    /\ Goto(p, "unlock")
    /\ UNCHANGED <<file, lock, op, tries, cut>>

\* The name stands first in a record, the mark of a deleted one behind it.
Named(r, v) == r[1] = v /\ r[Parts] \notin Deleted

\* One record of the scan for a name.
ScanByName(p) ==
    /\ pc[p] = "byname"
    /\ LET i == op[p].pos
       IN  IF Complete(i) /\ ~Named(file[i], op[p].val)
           THEN /\ op' = [op EXCEPT ![p].pos = i + 1]
                /\ UNCHANGED <<pc, got>>
           ELSE /\ got' = [got EXCEPT ![p] = IF Complete(i) THEN file[i] ELSE Err]
                /\ Goto(p, "unlock")
                /\ UNCHANGED op
    /\ UNCHANGED <<file, lock, tries, cut>>

\* Parts m + 1 .. n of record i become v.
WriteParts(i, m, n, v) ==
    LET old == IF i <= Len(file) THEN file[i] ELSE <<>>
        rec == [j \in 1 .. (IF n > Len(old) THEN n ELSE Len(old)) |->
                   IF j > m /\ j <= n THEN v ELSE old[j]]
    IN  file' = [j \in 1 .. (IF i > Len(file) THEN i ELSE Len(file)) |->
                    IF j = i THEN rec ELSE file[j]]

\* Mutant: one write(2), and what it did not take is forgotten.
WriteOnce(p) ==
    /\ pc[p] = "write"
    /\ \E n \in op[p].pos + 1 .. Parts :
          /\ WriteParts(op[p].id, op[p].pos, n, op[p].val)
          /\ op' = [op EXCEPT ![p].pos = n]
    /\ Goto(p, "unlock")
    /\ UNCHANGED <<lock, tries, got, cut>>

\* One write(2) of safe_write.
WriteSome(p) ==
    /\ pc[p] = "write"
    /\ \E n \in op[p].pos + 1 .. Parts :
          /\ WriteParts(op[p].id, op[p].pos, n, op[p].val)
          /\ op' = [op EXCEPT ![p].pos = n]
          /\ Goto(p, IF n = Parts THEN "unlock" ELSE "write")
    /\ UNCHANGED <<lock, tries, got, cut>>

HalfWay(p) == pc[p] = "write" /\ op[p].pos > 0

WriteFails(p) ==
    /\ "full" \in Failures
    /\ pc[p] = "write"
    /\ cut' = (cut \/ HalfWay(p))
    /\ lock' = [lock EXCEPT ![p] = "none"]
    /\ Return(p, "exit")
    /\ UNCHANGED <<file, got>>

UnlockAndClose(p) ==
    /\ pc[p] = "unlock"
    /\ lock' = [lock EXCEPT ![p] = "none"]
    /\ Return(p, "idle")
    /\ UNCHANGED <<file, got, cut>>

\* A process dies anywhere; the system gives its lock up.
Killed(p) ==
    /\ "kill" \in Failures
    /\ pc[p] # "exit"
    /\ cut' = (cut \/ HalfWay(p))
    /\ lock' = [lock EXCEPT ![p] = "none"]
    /\ Return(p, "exit")
    /\ UNCHANGED <<file, got>>

\* The node is started again.
Restart(p) ==
    /\ pc[p] = "exit"
    /\ got' = [got EXCEPT ![p] = Err]
    /\ Goto(p, "idle")
    /\ UNCHANGED <<file, lock, op, tries, cut>>

Step(p) == \/ Call(p) \/ TryLock(p) \/ ReadById(p) \/ ScanByName(p) \/ WriteSome(p)
           \/ WriteFails(p) \/ UnlockAndClose(p) \/ Killed(p) \/ Restart(p)

Next == \E p \in Procs : Step(p)

\* A process that polls goes on polling.  One that has the lock may be slow, or
\* never come back: nothing is asked of it.
Spec == Init /\ [][Next]_vars /\ \A p \in Procs : WF_vars(TryLock(p))

-----------------------------------------------------------------------------
(* Properties *)

TypeOK ==
    /\ file \in Seq(Seq(Vals))
    /\ Len(file) <= MaxSlots
    /\ lock \in [Procs -> {"none", "read", "write"}]
    /\ pc \in [Procs -> {"idle", "lock", "byid", "byname", "write", "unlock", "exit"}]
    /\ op \in [Procs -> [kind : {"none", "byid", "byname", "write"}, id : 0 .. MaxSlots,
                         val : Vals \cup {{}}, pos : Nat]]
    /\ tries \in [Procs -> 0 .. Retries - 1]
    /\ got \in [Procs -> Seq(Vals)]
    /\ cut \in BOOLEAN

\* A process that writes a record has the file to itself.
WriterAlone ==
    \A p, q \in Procs : p # q /\ pc[p] = "write" => pc[q] \notin {"byid", "byname", "write"}

\* Nobody ever reads half of one version of a record and half of another: what
\* getubentbyid and getubentbyname return was given to one writeubent, unless a
\* writer was stopped half way before.
ReadsWhole == \A p \in Procs : ~cut => got[p] = Err \/ \E v \in Vals : got[p] = Whole(v)

\* Nobody waits for the lock for ever, even when a process that has it hangs.
LockWaitEnds == \A p \in Procs : pc[p] = "lock" ~> pc[p] # "lock"

\* The calls are atomic, as long as no writer is stopped half way: a record
\* counts as written from the first write(2), nobody else being able to look.
Now(i) ==
    IF \E p \in Procs : HalfWay(p) /\ op[p].id = i
    THEN Whole(op[CHOOSE p \in Procs : HalfWay(p) /\ op[p].id = i].val)
    ELSE file[i]

Stored == [i \in 1 .. Len(file) |-> Now(i)]

Store == INSTANCE UserStore WITH
            Procs <- Procs, Err <- Err,
            Records <- {Whole(v) : v \in Vals},
            First <- [i \in 1 .. Len(First) |-> Whole(First[i])],
            db <- Stored,
            got <- got

Atomic == Store!Init /\ [][cut' \/ Store!Next]_<<Stored, got>>
============================================================================
