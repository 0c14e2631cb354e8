------------------------------ MODULE Transfer ------------------------------
(***************************************************************************)
(* What a file transfer promises the programs that rely on its log: a file *)
(* grows block by block in the sender's order, it gets its name only when  *)
(* it is whole, and only what the receiver has whole is logged.            *)
(* A file is refused or given up at any time.                              *)
(***************************************************************************)
EXTENDS Integers, Sequences

CONSTANT Content   \* the blocks of each file that may be sent

VARIABLES held,    \* what the receiver has of each file
          whole,   \* files that have got their name
          logged   \* files a log calls transferred

tvars == <<held, whole, logged>>

Sendable == DOMAIN Content
Start(f, n) == SubSeq(Content[f], 1, n)

TInit ==
    /\ DOMAIN held = Sendable
    /\ \A f \in Sendable : \E n \in 0..Len(Content[f]) : held[f] = Start(f, n)
    /\ whole \subseteq Sendable
    /\ logged = {}

\* Blocks arrive, or what has arrived is thrown away.
Grow(f) == /\ f \notin whole
           /\ \E n \in Len(held[f]) + 1 .. Len(Content[f]) : held' = [held EXCEPT ![f] = Start(f, n)]
           /\ UNCHANGED <<whole, logged>>

Discard(f) == /\ f \notin whole
              /\ held' = [held EXCEPT ![f] = <<>>]
              /\ UNCHANGED <<whole, logged>>

Finish(f) == /\ held[f] = Content[f]
             /\ whole' = whole \cup {f}
             /\ UNCHANGED <<held, logged>>

Log(f) == /\ held[f] = Content[f]
          /\ whole' = whole \cup {f}
          /\ logged' = logged \cup {f}
          /\ UNCHANGED held

TNext == \E f \in Sendable : Grow(f) \/ Discard(f) \/ Finish(f) \/ Log(f)

TSpec == TInit /\ [][TNext]_tvars
=============================================================================
