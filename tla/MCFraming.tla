----------------------------- MODULE MCFraming ------------------------------
(* Framing on a small instance: no value needs a definition of its own.    *)
EXTENDS Framing, TLC

=============================================================================
