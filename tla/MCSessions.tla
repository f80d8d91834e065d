----------------------------- MODULE MCSessions -----------------------------
(* Sessions on a small instance: one session may try twice, the other once. *)
EXTENDS Sessions, TLC

CONSTANTS a, b

MCMaxTries == a :> 2 @@ b :> 1

=============================================================================
