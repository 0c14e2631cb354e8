----------------------------- MODULE MCUserBase -----------------------------
(* Instances of UserBase for TLC: the file is empty at first. *)
EXTENDS UserBase

CONSTANTS v1, v2

NoRecord == <<>>
============================================================================
