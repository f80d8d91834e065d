------------------------------ MODULE Gateway -------------------------------
(***************************************************************************)
(* One session process of the ssh gateway (handle_session of gateway.c and *)
(* its callbacks), from the key exchange to its end, with the bbs.js child *)
(* it forks.  libssh runs the callbacks inside ssh_event_dopoll, as many   *)
(* as there are packets, so a poll is a phase: it begins, callbacks run,   *)
(* it returns.  libssh, the ssh client, server.js behind getkey and the    *)
(* kernel are external: what they do is chosen freely.                     *)
(*                                                                         *)
(* Terminals are counted: openpty makes a new one, a descriptor is the     *)
(* terminal it belongs to, and 0 stands for -1.                            *)
(***************************************************************************)
EXTENDS Naturals, FiniteSets

CONSTANTS
    Attempts,      \* 3, the attempts a user has
    Polls,         \* 100, the polls a user has to authenticate
    MaxTerminals,  \* bound: terminals the client asks for
    MaxChannels,   \* bound: channels the client opens
    MaxBurst,      \* bound: packets handled in one poll
    MaxStall       \* bound: 100 ms periods getkey() waits for server.js

ASSUME GatewayAssumption ==
    /\ Attempts \in Nat \ {0} /\ Polls \in Nat \ {0}
    /\ MaxTerminals \in Nat /\ MaxChannels \in Nat
    /\ MaxBurst \in Nat \ {0} /\ MaxStall \in Nat

VARIABLES
    pc,             \* where handle_session is
    burst,          \* packets handled in the present poll
    polls,          \* n
    elapsed,        \* history: time since the key exchange, in 100 ms
    attempts,       \* sdata.auth_attempts
    authenticated,  \* sdata.authenticated
    opened,         \* channels opened so far: sdata.channel is the last
    watched,        \* the channel with channel_cb
    closed,         \* channels closed by either side
    connected,      \* the ssh connection stands
    pid,            \* cdata.pid: 0, "child" or "failed" (-1)
    child,          \* "none", "running", "exited", "crashed" (not yet waited
                    \* for), "reapedExited" or "reapedCrashed"
    ptyMaster, ptySlave,  \* cdata
    childTty,       \* cdata.child_stdin, child_stdout: the child's terminal
    terminals,      \* terminals made so far
    fitting,        \* the terminal that has the size the client said last, or 0
    ptyAsked,       \* terminals asked for so far
    registered,     \* cdata.event # NULL
    exitSent        \* the exit status has been sent to the client

authVars  == <<polls, elapsed, attempts, authenticated>>
chanVars  == <<opened, watched, closed, connected>>
childVars == <<pid, child, childTty>>
ptyVars   == <<ptyMaster, ptySlave, terminals, fitting, ptyAsked>>
vars == <<pc, burst, authVars, chanVars, childVars, ptyVars, registered, exitSent>>

Channel == 1..MaxChannels

Ended  == {"exited", "crashed"}                \* not yet waited for
Reaped == {"reapedExited", "reapedCrashed"}  \* waitpid has stored the status

-----------------------------------------------------------------------------
Init ==
    /\ pc = "keyExchange"
    /\ burst = 0 /\ polls = 0 /\ elapsed = 0 /\ attempts = 0
    /\ authenticated = FALSE
    /\ opened = 0 /\ watched = 0 /\ closed = {} /\ connected = TRUE
    /\ pid = "none" /\ child = "none" /\ childTty = 0
    /\ ptyMaster = 0 /\ ptySlave = 0 /\ terminals = 0 /\ fitting = 0 /\ ptyAsked = 0
    /\ registered = FALSE /\ exitSent = FALSE

Goto(label) == pc' = label

KeyExchange ==
    /\ pc = "keyExchange"
    /\ Goto(IF connected THEN "login" ELSE "gone")
    /\ UNCHANGED <<burst, authVars, chanVars, childVars, ptyVars, registered, exitSent>>

-----------------------------------------------------------------------------
(* The first loop: until the user is authenticated and has a channel.      *)

LoggedIn   == authenticated /\ opened # 0
GaveUpLate == attempts > Attempts \/ polls > Polls   \* a mutant: one more
GaveUp     == attempts >= Attempts \/ polls >= Polls

LoginLoop ==
    /\ pc = "login"
    /\ Goto(IF LoggedIn THEN "session" ELSE IF GaveUp THEN "gone" ELSE "loginPoll")
    /\ burst' = 0
    /\ watched' = IF LoggedIn THEN opened ELSE watched
    /\ UNCHANGED <<authVars, opened, closed, connected, childVars, ptyVars, registered,
                   exitSent>>

\* ssh_event_dopoll(event, 100) returns: after a packet, or after 100 ms, or
\* with an error when the connection is gone.
LoginPollEnds ==
    /\ pc = "loginPoll"
    /\ IF connected
       THEN /\ Goto("login")
            /\ polls' = polls + 1
            /\ elapsed' = IF burst = 0 THEN elapsed + 1 ELSE elapsed
       ELSE Goto("gone") /\ UNCHANGED <<polls, elapsed>>
    /\ UNCHANGED <<burst, attempts, authenticated, chanVars, childVars, ptyVars, registered,
                   exitSent>>

-----------------------------------------------------------------------------
(* Callbacks, run by libssh inside a poll.                                 *)

Packet(phase) ==
    /\ pc \in phase /\ connected /\ burst < MaxBurst
    /\ burst' = burst + 1

\* auth_password.  getkey() blocks until server.js has answered: 64 bytes, or
\* fewer, or none (denied, or the key came in pieces).  With no server.js the
\* send on the unconnected socket raises SIGPIPE.
AuthPassword ==
    /\ Packet({"loginPoll"}) /\ ~authenticated
    /\ \E stall \in 0..MaxStall : elapsed' = elapsed + stall
    /\ \/ Goto(pc) /\ authenticated' = TRUE /\ UNCHANGED attempts
       \/ Goto(pc) /\ attempts' = attempts + 1 /\ UNCHANGED authenticated
       \/ Goto("gone") /\ UNCHANGED <<attempts, authenticated>>
    /\ UNCHANGED <<polls, chanVars, childVars, ptyVars, registered, exitSent>>

\* channel_open: the new channel replaces the one in sdata.
ChannelOpen ==
    /\ Packet({"loginPoll", "sessionPoll"}) /\ authenticated /\ opened < MaxChannels
    /\ opened' = opened + 1
    /\ UNCHANGED <<pc, authVars, watched, closed, connected, childVars, ptyVars, registered,
                   exitSent>>

\* pty_request: the size is stored, then openpty overwrites both descriptors
\* and gives the new terminal that size, or fails.
SizeOfNewDefault == 0             \* a mutant: openpty called without the size
SizeOfNew        == terminals + 1
PtyRequest ==
    /\ Packet({"sessionPoll"}) /\ watched \notin closed /\ ptyAsked < MaxTerminals
    /\ ptyAsked' = ptyAsked + 1
    /\ \/ /\ terminals' = terminals + 1
          /\ ptyMaster' = terminals + 1
          /\ ptySlave' = terminals + 1
          /\ fitting' = SizeOfNew
       \/ fitting' = 0 /\ UNCHANGED <<ptyMaster, ptySlave, terminals>>
    /\ UNCHANGED <<pc, authVars, chanVars, childVars, registered, exitSent>>

\* pty_resize: the size is stored and given to the latest terminal, if any.
PtyResize ==
    /\ Packet({"sessionPoll"}) /\ watched \notin closed
    /\ fitting' = ptyMaster
    /\ UNCHANGED <<pc, authVars, chanVars, childVars, ptyMaster, ptySlave, terminals,
                   ptyAsked, registered, exitSent>>

\* data_function copies what the client types to child_stdin, process_stdout
\* what the child writes to the channel; nothing is kept, the poll ends.
DataFunction  == connected /\ watched \notin closed
ProcessStdout == registered /\ child = "running"
Copy ==
    /\ burst < MaxBurst /\ pc = "sessionPoll"
    /\ DataFunction \/ ProcessStdout
    /\ burst' = burst + 1
    /\ UNCHANGED <<pc, authVars, chanVars, childVars, ptyVars, registered, exitSent>>

\* exec_pty: fork and, in the child, execl of bbs.js; fork may fail, which
\* closes the terminal.  (A second attempt in the same poll starts a child
\* that cannot log in on it and exits: one of the children that may end.)
ExecPty ==
    \/ /\ pid' = "child" /\ child' = "running"
       /\ childTty' = ptyMaster
    \/ /\ pid' = "failed" /\ UNCHANGED <<child, childTty>>

\* shell_request; without a terminal nothing is started.
HasChildForgotten == FALSE   \* a mutant: cdata->pid not looked at
HasChild          == pid = "child"
ShellRequest ==
    /\ Packet({"sessionPoll"}) /\ watched \notin closed
    /\ IF ~HasChild /\ ptyMaster # 0 /\ ptySlave # 0
       THEN ExecPty
       ELSE UNCHANGED childVars
    /\ UNCHANGED <<pc, authVars, chanVars, ptyVars, registered, exitSent>>

\* The client closes a channel.
ChannelClosed(ch) ==
    /\ Packet({"sessionPoll"}) /\ ch <= opened /\ ch \notin closed
    /\ closed' = closed \cup {ch}
    /\ UNCHANGED <<pc, authVars, opened, watched, connected, childVars, ptyVars, registered,
                   exitSent>>

-----------------------------------------------------------------------------
(* The second loop.                                                        *)

SessionPoll ==
    /\ pc = "session"
    /\ Goto("sessionPoll")
    /\ burst' = 0
    /\ UNCHANGED <<authVars, chanVars, childVars, ptyVars, registered, exitSent>>

\* The loop goes on while waitpid(cdata.pid, &rc, WNOHANG) returns 0; after a
\* failed fork it returns -1.
ChildOverlooked == TRUE   \* a mutant: waitpid left out of the condition
ChildLives      == pid = "none" \/ (pid = "child" /\ child = "running")
Waited == IF child = "exited" THEN "reapedExited"
          ELSE IF child = "crashed" THEN "reapedCrashed" ELSE child

\* ssh_event_dopoll(event, -1) returns when there was something: a packet, a
\* broken connection, which closes the channel, or the end of the child's
\* terminal.  The child's output is registered once; when that fails the
\* channel is closed too.
SessionPollEnds ==
    /\ pc = "sessionPoll"
    /\ burst > 0 \/ ~connected \/ (registered /\ child \in Ended)
    /\ registered' = (registered \/ pid # "none")
    /\ \/ closed' = IF connected THEN closed ELSE closed \cup {opened}
       \/ pid = "child" /\ ~registered /\ closed' = closed \cup {opened}
    /\ IF opened \in closed'
       THEN Goto("cleanup") /\ UNCHANGED child
       ELSE /\ Goto(IF ChildLives THEN "session" ELSE "cleanup")
            /\ child' = IF pid = "child" THEN Waited ELSE child
    /\ UNCHANGED <<burst, authVars, opened, watched, connected, pid, childTty, ptyVars,
                   exitSent>>

-----------------------------------------------------------------------------
(* After the loops.                                                        *)

\* What kill(cdata.pid, 0) < 0 and WIFEXITED(rc) may be.  A reaped pid is not
\* in use again yet; pid 0 is the gateway's own group; -1 is everybody, and
\* whether there is anybody to signal is not known.  Before waitpid has stored
\* a status rc is uninitialised.
NoSuchProcess == IF pid = "child" THEN {child \in Reaped}
                 ELSE IF pid = "none" THEN {FALSE} ELSE BOOLEAN
WIfExited     == IF child \in Reaped THEN {child = "reapedExited"} ELSE BOOLEAN

\* The exit status is for a child that ended by itself.
ReportsStatusOnly(gone, exited) == exited   \* a mutant: kill(pid, 0) left out
ReportsStatus(gone, exited)     == gone /\ exited

\* SIGKILL, if something has been forked.
KilledNot == child   \* a mutant: nobody killed
Killed    == IF pid = "child" /\ child = "running" THEN "crashed" ELSE child

Cleanup ==
    /\ pc = "cleanup"
    /\ \E gone \in NoSuchProcess, exited \in WIfExited :
          IF ReportsStatus(gone, exited)
          THEN exitSent' = TRUE /\ UNCHANGED child
          ELSE child' = Killed /\ UNCHANGED exitSent
    /\ ptyMaster' = 0 /\ childTty' = 0
    /\ closed' = closed \cup {opened}
    /\ Goto("linger")
    /\ UNCHANGED <<burst, authVars, opened, watched, connected, pid, ptySlave, terminals,
                   fitting, ptyAsked, registered>>

\* Up to 5 seconds for the client to disconnect, then ssh_disconnect and exit.
Linger ==
    /\ pc = "linger"
    /\ Goto("gone")
    /\ UNCHANGED <<burst, authVars, chanVars, childVars, ptyVars, registered, exitSent>>

-----------------------------------------------------------------------------
(* The outside.                                                            *)

\* bbs.js ends by process.exit, or by a signal or an exec that failed.
ChildEnds ==
    /\ child = "running"
    /\ child' \in Ended
    /\ UNCHANGED <<pc, burst, authVars, chanVars, pid, childTty, ptyVars, registered,
                   exitSent>>

\* The client, or the network.
Disconnect ==
    /\ connected /\ pc # "gone"
    /\ connected' = FALSE
    /\ UNCHANGED <<pc, burst, authVars, opened, watched, closed, childVars, ptyVars,
                   registered, exitSent>>

Step == KeyExchange \/ LoginLoop \/ LoginPollEnds \/ SessionPoll \/ SessionPollEnds
            \/ Cleanup \/ Linger

Callback == AuthPassword \/ ChannelOpen \/ PtyRequest \/ PtyResize \/ ShellRequest \/ Copy
                \/ \E ch \in Channel : ChannelClosed(ch)

Next == Step \/ Callback \/ ChildEnds \/ Disconnect

Spec == Init /\ [][Next]_vars

\* The gateway's process runs; nobody has to send packets, end or disconnect.
FairSpec == Spec /\ WF_vars(Step)

-----------------------------------------------------------------------------
(* Properties.                                                             *)

\* The types of the variables.
TypeOK ==
    /\ pc \in {"keyExchange", "login", "loginPoll", "session", "sessionPoll",
               "cleanup", "linger", "gone"}
    /\ burst \in 0..MaxBurst
    /\ polls \in 0..Polls
    /\ elapsed \in Nat
    /\ attempts \in 0..(Attempts - 1 + MaxBurst)
    /\ authenticated \in BOOLEAN
    /\ opened \in 0..MaxChannels /\ watched \in 0..opened /\ closed \subseteq 1..opened
    /\ connected \in BOOLEAN
    /\ pid \in {"none", "child", "failed"}
    /\ child \in {"none", "running"} \cup Ended \cup Reaped
    /\ ptyAsked \in 0..MaxTerminals /\ terminals \in 0..ptyAsked /\ fitting \in 0..terminals
    /\ ptyMaster \in 0..terminals /\ ptySlave \in 0..terminals /\ childTty \in 0..terminals
    /\ registered \in BOOLEAN /\ exitSent \in BOOLEAN

\* No bbs.js outlives its session, whichever way and at whatever moment the
\* session ends: it has ended by itself or was killed.
NoOrphan == pc = "gone" => child # "running"

\* The client is told an exit status when, and only when, the child exited by
\* itself and was waited for: never for one that crashed, that was killed, or
\* whose end raced with the closing of the channel.  (After a failed fork the
\* code reads an uninitialised status.)
ExitStatusTrue ==
    pid # "failed" /\ pc \in {"linger", "gone"} =>
        (exitSent <=> child = "reapedExited")

\* While the child runs the gateway keeps its pid and its terminal, whatever
\* terminals and shells the client asks for again: keys typed go to it and the
\* one process that is killed in the end is it.
ChildKept ==
    [][child = "running" /\ pc # "cleanup" =>
            pid' = pid /\ childTty' = childTty]_vars

\* bbs.js draws on a terminal of the size of the client's window: resizes sent
\* before or after it has started reach the terminal it runs on, unless the
\* client has asked for a second terminal.
ChildFits == child = "running" /\ fitting # childTty => ptyAsked > 1

\* The session, seen from outside, is a Shell: one bbs.js at most, after the
\* login only, and none left when the session is gone.
Stage == IF pc \in {"keyExchange", "login", "loginPoll"} THEN "login"
         ELSE IF pc = "gone" THEN "gone" ELSE "open"
Outside == INSTANCE Shell
             WITH stage <- Stage,
                  shell <- IF child \in Ended \cup Reaped THEN "ended" ELSE child
IsShell == Outside!Spec

\* The session ends when the connection is lost or the child has ended.
SessionEnds == (~connected \/ child \in Ended) ~> pc = "gone"

\* gateway.c:319-320: a user who has not been able to authenticate in 10
\* seconds is disconnected.
TenSecondsAtMost ==
    pc \in {"login", "loginPoll"} /\ ~authenticated => elapsed <= Polls

\* What does hold: until the login is over the time spent is that of the polls,
\* at most, and one wait of getkey() for every attempt that was answered.
AttemptsAnswered == attempts + IF authenticated THEN 1 ELSE 0
LoginTime ==
    pc \in {"login", "loginPoll"} => elapsed <= polls + MaxStall * AttemptsAnswered

\* Once the connection is lost every step brings the session nearer to its
\* end, the last packets of a poll and the end of the child included: neither
\* loop is begun again, in whatever phase the connection was lost.
Phase == [keyExchange |-> 7, login |-> 6, loginPoll |-> 5, session |-> 4, sessionPoll |-> 3,
          cleanup |-> 2, linger |-> 1, gone |-> 0]
StepsLeft ==
    (MaxBurst + 2) * Phase[pc] + (MaxBurst - burst) + IF child = "running" THEN 1 ELSE 0
WindsUp == [][~connected => StepsLeft' < StepsLeft]_vars

=============================================================================
