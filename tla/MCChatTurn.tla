----------------------------- MODULE MCChatTurn -----------------------------
(***************************************************************************)
(* Instances of ChatTurn for TLC.                                          *)
(***************************************************************************)
EXTENDS ChatTurn, TLC

\* Sockets are interchangeable, and chats where none exists yet; the runs of safety
\* properties use this.
Symmetry == Permutations(Socket) \cup Permutations(Chat \ Existing)
=============================================================================
