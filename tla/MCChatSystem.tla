---------------------------- MODULE MCChatSystem ----------------------------
(* ChatSystem on small instances: which process was started with which key. *)
EXTENDS ChatSystem, TLC

CONSTANTS s1, s2, k1, k2

\* Two ssh users.
MCTwoKeys == s1 :> k1 @@ s2 :> k2

\* Nobody uses a fixed key.
MCFixedName == <<>>

\* The users may be exchanged, and the sockets together with their keys.
Swap     == s1 :> s2 @@ s2 :> s1 @@ k1 :> k2 @@ k2 :> k1
Symmetry == Permutations(User) \cup {Swap @@ p : p \in Permutations(User)}

=============================================================================
