----------------------------- MODULE UserStore -----------------------------
(***************************************************************************)
(* What user.c promises its callers: userbase.dat is an array of records,   *)
(* read and written whole, one at a time.  A read that returns -1 says      *)
(* nothing: the record may not exist, or the file may have been locked for  *)
(* too long.                                                                *)
(***************************************************************************)
EXTENDS Naturals, Sequences

CONSTANTS Procs, Records, Err, First

VARIABLES db,   \* the records
          got   \* what each process read last, or Err

Init == db = First /\ got = [p \in Procs |-> Err]

Get(p) == \E i \in DOMAIN db : got' = [got EXCEPT ![p] = db[i]]

GetFails(p) == got' = [got EXCEPT ![p] = Err]

\* A record is replaced, or a new one put behind the last.
Put(i, r) == db' = [j \in 1 .. (IF i > Len(db) THEN i ELSE Len(db)) |->
                       IF j = i THEN r ELSE db[j]]

Next == \/ \E p \in Procs : (Get(p) \/ GetFails(p)) /\ UNCHANGED db
        \/ \E i \in 1 .. Len(db) + 1, r \in Records : Put(i, r) /\ UNCHANGED got

Spec == Init /\ [][Next]_<<db, got>>
============================================================================
