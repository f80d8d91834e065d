------------------------------ MODULE Listener ------------------------------
(***************************************************************************)
(* The main program of the ssh gateway (main of gateway.c): it checks its  *)
(* arguments, listens, and forks a process for every connection; the ends  *)
(* of those processes are collected by the handler of SIGCHLD.  What a     *)
(* session process does between SessionBegins and SessionEnds is Shell,    *)
(* in detail Gateway.  The kernel, libssh and the operator, who may kill   *)
(* the program and start it again, are external.                           *)
(***************************************************************************)
EXTENDS Naturals, FiniteSets

CONSTANTS
    Session,       \* ssh connections, each used once
    AddressMax,    \* ADDRESS_MAX, 64
    AddressLength  \* lengths the operator may give the address argument

ASSUME ListenerAssumption ==
    AddressMax \in Nat \ {0} /\ AddressLength \subseteq Nat

VARIABLES
    main,     \* "down" or "listening"
    address,  \* the length of the string in the buffer address
    proc,     \* per connection: "away", "knocking" (not yet accepted),
              \* "forked" (its process still has the listening socket),
              \* "running", "zombie" (ended, not waited for), "reaped", or
              \* "dropped"
    sigchld   \* a SIGCHLD is pending; several are one

listenerVars == <<main, address, proc, sigchld>>

Become(s, state) == proc' = [proc EXCEPT ![s] = state]

ListenerInit ==
    /\ main = "down" /\ address = 0
    /\ proc = [s \in Session |-> "away"]
    /\ sigchld = FALSE

\* usage(): an address that is too short or does not fit with its 0.  (A
\* wrong number of arguments and a port that is no number end here too.)
AddressLegalNoZero(length) == length >= 7 /\ length <= AddressMax       \* a mutant
AddressLegal(length)       == length >= 7 /\ length <= AddressMax - 1

\* ssh_bind_listen fails while a process has the old listening socket.
PortHeld == \E s \in Session : proc[s] = "forked"
Start ==
    /\ main = "down" /\ ~PortHeld
    /\ \E length \in AddressLength : AddressLegal(length) /\ address' = length
    /\ main' = "listening"
    /\ UNCHANGED <<proc, sigchld>>

\* A client connects: the kernel queues it for accept().
Knock(s) ==
    /\ main = "listening" /\ proc[s] = "away"
    /\ Become(s, "knocking")
    /\ UNCHANGED <<main, address, sigchld>>

\* ssh_bind_accept and fork; when one of them fails the parent says so and
\* disconnects.
Dropped(s) == Become(s, "dropped")
Accept(s) ==
    /\ main = "listening" /\ proc[s] = "knocking"
    /\ Become(s, "forked") \/ Dropped(s)
    /\ UNCHANGED <<main, address, sigchld>>

\* The child: the handler removed, ssh_bind_free, ssh_event_new.
SessionBegins(s) ==
    /\ proc[s] = "forked"
    /\ Become(s, "running")
    /\ UNCHANGED <<main, address, sigchld>>

\* exit(0), or a signal: the parent is told; with no parent left init waits.
SessionEnds(s) ==
    /\ proc[s] \in {"forked", "running"}
    /\ IF main = "listening"
       THEN Become(s, "zombie") /\ sigchld' = TRUE
       ELSE Become(s, "reaped") /\ UNCHANGED sigchld
    /\ UNCHANGED <<main, address>>

\* sigchld_handler: one signal may stand for several ends.
Zombies == {s \in Session : proc[s] = "zombie"}
WaitedForOne == {CHOOSE s \in Zombies : TRUE}   \* a mutant: if, not while
WaitedFor    == Zombies
Handler ==
    /\ main = "listening" /\ sigchld
    /\ sigchld' = FALSE
    /\ proc' = [s \in Session |-> IF s \in WaitedFor THEN "reaped" ELSE proc[s]]
    /\ UNCHANGED <<main, address>>

\* The operator stops the program: connections not accepted are reset, the
\* sessions go on, and init waits for the processes.
Stop ==
    /\ main = "listening"
    /\ main' = "down" /\ sigchld' = FALSE
    /\ proc' = [s \in Session |-> IF proc[s] = "knocking" THEN "dropped"
                                  ELSE IF proc[s] = "zombie" THEN "reaped" ELSE proc[s]]
    /\ UNCHANGED address

ListenerTypeOK ==
    /\ main \in {"down", "listening"}
    /\ address \in 0..(AddressMax - 1)   \* address[length] = 0 is inside
    /\ proc \in [Session -> {"away", "knocking", "forked", "running", "zombie", "reaped",
                             "dropped"}]
    /\ sigchld \in BOOLEAN

=============================================================================
