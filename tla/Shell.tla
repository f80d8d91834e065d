------------------------------- MODULE Shell --------------------------------
(***************************************************************************)
(* What one session of the ssh gateway promises, whatever packets come and *)
(* whichever end breaks first: at most one bbs.js, started only after the  *)
(* login, and none left behind when the session is gone.  Gateway is shown *)
(* to implement this; Sessions is built on it.                             *)
(***************************************************************************)
VARIABLES
    stage,  \* "login", "open" or "gone"
    shell   \* "none", "running" or "ended": the bbs.js process

vars == <<stage, shell>>

Init == stage = "login" /\ shell = "none"

Admit == stage = "login" /\ stage' = "open" /\ UNCHANGED shell

Start == stage = "open" /\ shell = "none" /\ shell' = "running" /\ UNCHANGED stage

\* By itself, or killed by the gateway.
End == shell = "running" /\ shell' = "ended" /\ UNCHANGED stage

Leave == stage # "gone" /\ shell # "running" /\ stage' = "gone" /\ UNCHANGED shell

Next == Admit \/ Start \/ End \/ Leave

Spec == Init /\ [][Next]_vars

=============================================================================
