---------------------------- MODULE MCChatServer ----------------------------
(* ChatServer on a small instance: values for the constants and symmetry.  *)
EXTENDS ChatServer, TLC

CONSTANTS debug, DEBUG_OPER, constructor, Object

\* The key of handleNew's own, and a name that every JavaScript object has.
MCFixedName == debug :> DEBUG_OPER @@ constructor :> Object

Symmetry == Permutations(Socket) \cup Permutations(Key) \cup Permutations(User)

=============================================================================
