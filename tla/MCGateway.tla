----------------------------- MODULE MCGateway ------------------------------
(* Gateway on a small instance: no value needs a definition of its own.    *)
EXTENDS Gateway, TLC

=============================================================================
