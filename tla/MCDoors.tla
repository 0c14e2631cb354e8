------------------------------ MODULE MCDoors ------------------------------
(* Two runs of door programs, so that one runs inside the other, and       *)
(* messages to the user with a chat between them.                          *)
EXTENDS Doors

ChatCast == <<"olm", "chat", "olm">>
TwoDoors == <<2, 1>>
=============================================================================
