---------------------------- MODULE GatewayProofs ---------------------------
(***************************************************************************)
(* Proofs about Gateway, for any number of attempts, polls, packets,       *)
(* channels and terminals: the types, and from one inductive invariant     *)
(* that nothing is left running, that the exit status told is true, that a *)
(* running child keeps its terminal and fits it, and that a session is a   *)
(* Shell; how long the login takes at most, and that a session whose       *)
(* connection is lost is on its way to the end.                            *)
(***************************************************************************)
EXTENDS Gateway, TLAPS

Early == {"keyExchange", "login", "loginPoll"}
Late  == {"linger", "gone"}

\* Before the session loop nothing has been forked.
EarlyFits == pc \in Early => pid = "none"

\* There is a child exactly when fork has returned one.
ChildFitsPid == child = "none" <=> pid # "child"

\* After the clean-up no child runs, and only then a status has been sent.
LateFits ==
    /\ pc \in Late => child # "running"
    /\ exitSent => pc \in Late

\* The loop of the login is entered with attempts and polls to spare.
LoginFits ==
    /\ pc = "loginPoll" => polls < Polls /\ attempts <= Attempts - 1 + burst
    /\ pc \in {"session", "sessionPoll", "cleanup"} => opened # 0

\* With one terminal there is one size, the latest; a child is on a terminal.
SizeFits ==
    /\ ptyAsked <= 1 /\ pc \notin Late => fitting = ptyMaster
    /\ ptyAsked <= 1 /\ child = "running" => childTty = ptyMaster
    /\ child = "running" => childTty # 0

\* The types, the flags apart.
Flags ==
    /\ authenticated \in BOOLEAN /\ connected \in BOOLEAN
    /\ registered \in BOOLEAN /\ exitSent \in BOOLEAN
Counts ==
    /\ pc \in {"keyExchange", "login", "loginPoll", "session", "sessionPoll", "cleanup",
               "linger", "gone"}
    /\ burst \in 0..MaxBurst
    /\ polls \in 0..Polls /\ elapsed \in Nat
    /\ attempts \in 0..(Attempts - 1 + MaxBurst)
    /\ pid \in {"none", "child", "failed"}
    /\ child \in {"none", "running"} \cup Ended \cup Reaped
Channels == opened \in 0..MaxChannels /\ watched \in 0..opened /\ closed \subseteq 1..opened
Terminals ==
    /\ ptyAsked \in 0..MaxTerminals /\ terminals \in 0..ptyAsked /\ fitting \in 0..terminals
    /\ ptyMaster \in 0..terminals /\ ptySlave \in 0..terminals /\ childTty \in 0..terminals

Inv1 == Flags /\ ExitStatusTrue /\ EarlyFits /\ ChildFitsPid /\ LateFits
Inv2 == Counts /\ Channels /\ Terminals /\ LoginFits /\ SizeFits

IInv == Inv1 /\ Inv2

USE DEF authVars, chanVars, childVars, ptyVars, vars, Goto, Packet, Ended, Reaped, Early, Late

LEMMA TypesAgree == IInv => TypeOK
BY DEF IInv, Inv1, Inv2, Flags, Counts, Channels, Terminals, TypeOK

LEMMA InitInv1 == Init => Inv1
BY DEF Init, Inv1, Flags, EarlyFits, ChildFitsPid, LateFits, ExitStatusTrue

LEMMA InitInv2 == Init => Inv2
<1> SUFFICES ASSUME Init PROVE Inv2
    OBVIOUS
<1>1. Counts
    BY GatewayAssumption DEF Init, Counts
<1>2. Channels
    BY GatewayAssumption DEF Init, Channels
<1>3. Terminals /\ SizeFits /\ LoginFits
    BY GatewayAssumption DEF Init, Terminals, SizeFits, LoginFits
<1> QED
    BY <1>1, <1>2, <1>3 DEF Inv2

\* The child, its pid and the phase, one action after the other.
LEMMA NextInv1 == IInv /\ Next => Inv1'
<1> SUFFICES ASSUME IInv, Next PROVE Inv1'
    OBVIOUS
<1> USE GatewayAssumption DEF IInv, Inv1, Inv2, Flags, EarlyFits, ChildFitsPid, LateFits, ExitStatusTrue, Counts
<1>1. CASE KeyExchange
    BY <1>1 DEF KeyExchange
<1>2. CASE LoginLoop
    BY <1>2 DEF LoginLoop, LoggedIn, GaveUp
<1>3. CASE LoginPollEnds
    BY <1>3 DEF LoginPollEnds
<1>4. CASE SessionPoll
    BY <1>4 DEF SessionPoll
<1>5. CASE SessionPollEnds
    BY <1>5 DEF SessionPollEnds, ChildLives, Waited
<1>6. CASE Cleanup
    BY <1>6 DEF Cleanup, NoSuchProcess, WIfExited, ReportsStatus, Killed
<1>7. CASE Linger
    BY <1>7 DEF Linger
<1>8. CASE AuthPassword
    BY <1>8 DEF AuthPassword
<1>9. CASE ChannelOpen
    BY <1>9 DEF ChannelOpen
<1>10. CASE PtyRequest
    BY <1>10 DEF PtyRequest, SizeOfNew
<1>11. CASE PtyResize
    BY <1>11 DEF PtyResize
<1>12. CASE ShellRequest
    BY <1>12 DEF ShellRequest, HasChild, ExecPty
<1>13. CASE Copy
    BY <1>13 DEF Copy
<1>14. CASE ChildEnds
    BY <1>14 DEF ChildEnds
<1>15. CASE Disconnect
    BY <1>15 DEF Disconnect
<1>16. ASSUME NEW ch \in Channel, ChannelClosed(ch) PROVE Inv1'
    BY <1>16 DEF ChannelClosed, Channel
<1> QED
    BY <1>1, <1>2, <1>3, <1>4, <1>5, <1>6, <1>7, <1>8, <1>9, <1>10, <1>11, <1>12, <1>13, <1>14, <1>15, <1>16 DEF Next, Step, Callback

\* The counters, channels and terminals.
LEMMA NextInv2 == IInv /\ Next => Inv2'
<1> SUFFICES ASSUME IInv, Next PROVE Inv2'
    OBVIOUS
<1> USE GatewayAssumption DEF IInv, Inv1, Inv2, Counts, Channels, Terminals, EarlyFits, ChildFitsPid, LoginFits, SizeFits, LateFits
<1>1. CASE KeyExchange
    BY <1>1 DEF KeyExchange
<1>2. CASE LoginLoop
    BY <1>2 DEF LoginLoop, LoggedIn, GaveUp
<1>3. CASE LoginPollEnds
    BY <1>3 DEF LoginPollEnds
<1>4. CASE SessionPoll
    BY <1>4 DEF SessionPoll
<1>5. CASE SessionPollEnds
    <2>1. opened \in 1..MaxChannels
        BY <1>5 DEF SessionPollEnds
    <2>2. closed' = closed \/ closed' = closed \cup {opened}
        BY <1>5 DEF SessionPollEnds
    <2>3. closed' \subseteq 1..opened
        <3>1. closed \subseteq 1..opened /\ opened \in 1..opened
            BY <2>1
        <3> HIDE DEF IInv, Inv1, Inv2
        <3> QED
            BY <2>2, <3>1
    <2>4. opened' = opened /\ watched' = watched
        BY <1>5 DEF SessionPollEnds
    <2>5. Channels'
        BY <2>3, <2>4
    <2>6. Counts' /\ LoginFits'
        BY <1>5 DEF SessionPollEnds, Waited
    <2>7. Terminals' /\ SizeFits'
        BY <1>5 DEF SessionPollEnds, Waited
    <2> QED
        BY <2>5, <2>6, <2>7
<1>6. CASE Cleanup
    <2>1. opened \in 1..MaxChannels
        BY <1>6 DEF Cleanup
    <2>2. Channels'
        BY <1>6, <2>1 DEF Cleanup
    <2>3. child' \in {child, "crashed"} /\ child' # "running"
        BY <1>6 DEF Cleanup, NoSuchProcess, WIfExited, ReportsStatus, Killed
    <2>4. Counts' /\ LoginFits'
        BY <1>6, <2>3 DEF Cleanup
    <2>5. Terminals'
        BY <1>6 DEF Cleanup
    <2>6. SizeFits'
        BY <1>6, <2>3 DEF Cleanup
    <2> QED
        BY <2>2, <2>4, <2>5, <2>6
<1>7. CASE Linger
    BY <1>7 DEF Linger
<1>8. CASE AuthPassword
    BY <1>8 DEF AuthPassword
<1>9. CASE ChannelOpen
    BY <1>9 DEF ChannelOpen
<1>10. CASE PtyRequest
    <2>1. Counts' /\ Channels' /\ LoginFits'
        BY <1>10 DEF PtyRequest
    <2>2. Terminals'
        BY <1>10 DEF PtyRequest, SizeOfNew
    <2>3. SizeFits'
        BY <1>10 DEF PtyRequest, SizeOfNew
    <2> QED
        BY <2>1, <2>2, <2>3
<1>11. CASE PtyResize
    BY <1>11 DEF PtyResize
<1>12. CASE ShellRequest
    BY <1>12 DEF ShellRequest, HasChild, ExecPty
<1>13. CASE Copy
    BY <1>13 DEF Copy
<1>14. CASE ChildEnds
    BY <1>14 DEF ChildEnds
<1>15. CASE Disconnect
    BY <1>15 DEF Disconnect
<1>16. ASSUME NEW ch \in Channel, ChannelClosed(ch) PROVE Inv2'
    BY <1>16 DEF ChannelClosed, Channel
<1> QED
    BY <1>1, <1>2, <1>3, <1>4, <1>5, <1>6, <1>7, <1>8, <1>9, <1>10, <1>11, <1>12, <1>13, <1>14, <1>15, <1>16 DEF Next, Step, Callback

LEMMA NextIInv == IInv /\ [Next]_vars => IInv'
<1> SUFFICES ASSUME IInv, [Next]_vars PROVE IInv'
    OBVIOUS
<1>1. CASE Next
    BY <1>1, NextInv1, NextInv2 DEF IInv
<1>2. CASE UNCHANGED vars
    BY <1>2 DEF IInv, Inv1, Inv2, Flags, Counts, Channels, Terminals, EarlyFits, ChildFitsPid,
        LateFits, LoginFits, SizeFits, ExitStatusTrue
<1> QED
    BY <1>1, <1>2

\* The strengthening of the invariants below: how far the loops have come,
\* the child, its pid and its terminal agree.
THEOREM Invariance == Spec => []IInv
<1>1. Init => IInv
    BY InitInv1, InitInv2 DEF IInv
<1> QED
    BY <1>1, NextIInv, PTL DEF Spec

\* Every variable keeps its type; in particular the attempts and polls stay
\* within their limits, a burst of packets excepted.
THEOREM TypeCorrect == Spec => []TypeOK
BY TypesAgree, Invariance, PTL

\* No bbs.js outlives its session.
THEOREM NoOrphanHolds == Spec => []NoOrphan
<1>1. IInv => NoOrphan
    BY DEF IInv, Inv1, LateFits, NoOrphan
<1> QED
    BY <1>1, Invariance, PTL

\* An exit status is sent when and only when the child exited by itself.
THEOREM ExitStatusTrueHolds == Spec => []ExitStatusTrue
<1>1. IInv => ExitStatusTrue
    BY DEF IInv, Inv1
<1> QED
    BY <1>1, Invariance, PTL

\* bbs.js draws on a terminal of the size of the client's window.
THEOREM ChildFitsHolds == Spec => []ChildFits
<1>1. IInv => ChildFits
    BY DEF IInv, Inv1, Inv2, Counts, Terminals, LateFits, SizeFits, ChildFits
<1> QED
    BY <1>1, Invariance, PTL

\* A running child keeps its pid and its terminal until the clean-up.
THEOREM ChildKeptHolds == Spec => ChildKept
<1>1. IInv /\ [Next]_vars => [child = "running" /\ pc # "cleanup" =>
                                 pid' = pid /\ childTty' = childTty]_vars
    <2> SUFFICES ASSUME IInv, Next, child = "running", pc # "cleanup"
                 PROVE  pid' = pid /\ childTty' = childTty
        OBVIOUS
    <2>1. pid = "child"
        BY DEF IInv, Inv1, ChildFitsPid
    <2>2. CASE Step
        BY <2>2 DEF Step, KeyExchange, LoginLoop, LoginPollEnds, SessionPoll, SessionPollEnds,
            Cleanup, Linger
    <2>3. CASE Callback \/ ChildEnds \/ Disconnect
        BY <2>1, <2>3 DEF Callback, AuthPassword, ChannelOpen, PtyRequest, PtyResize,
            ShellRequest, HasChild, Copy, ChannelClosed, ChildEnds, Disconnect
    <2> QED
        BY <2>2, <2>3 DEF Next
<1> QED
    BY <1>1, Invariance, PTL DEF Spec, ChildKept

-----------------------------------------------------------------------------
(* A session is a Shell.                                                   *)

USE DEF Outside!vars

\* The code between the polls: it admits, kills or leaves, or nothing that
\* shows outside happens.
LEMMA StepIsShell == IInv /\ Step => [Outside!Next]_(Outside!vars)
<1> SUFFICES ASSUME IInv, Step PROVE [Outside!Next]_(Outside!vars)
    OBVIOUS
<1> USE DEF IInv, Inv1, EarlyFits, ChildFitsPid, LateFits, Stage,
        Outside!Next, Outside!Admit, Outside!Start, Outside!End, Outside!Leave
<1>1. CASE KeyExchange
    BY <1>1 DEF KeyExchange
<1>2. CASE LoginLoop
    BY <1>2 DEF LoginLoop
<1>3. CASE LoginPollEnds
    BY <1>3 DEF LoginPollEnds
<1>4. CASE SessionPoll
    BY <1>4 DEF SessionPoll
<1>5. CASE SessionPollEnds
    BY <1>5 DEF SessionPollEnds, Waited
<1>6. CASE Cleanup
    BY <1>6 DEF Cleanup, NoSuchProcess, WIfExited, ReportsStatus, Killed
<1>7. CASE Linger
    BY <1>7 DEF Linger
<1> QED
    BY <1>1, <1>2, <1>3, <1>4, <1>5, <1>6, <1>7 DEF Step

\* The packets and the outside: they start a shell, end one, or nothing.
LEMMA CallbackIsShell ==
    IInv /\ (Callback \/ ChildEnds \/ Disconnect) => [Outside!Next]_(Outside!vars)
<1> SUFFICES ASSUME IInv, Callback \/ ChildEnds \/ Disconnect
             PROVE  [Outside!Next]_(Outside!vars)
    OBVIOUS
<1> USE DEF IInv, Inv1, EarlyFits, ChildFitsPid, LateFits, Stage, Outside!Next, Outside!Admit, Outside!Start, Outside!End, Outside!Leave
<1>1. CASE AuthPassword
    BY <1>1 DEF AuthPassword
<1>2. CASE ShellRequest
    BY <1>2 DEF ShellRequest, HasChild, ExecPty
<1>3. CASE ChildEnds
    BY <1>3 DEF ChildEnds
<1>4. CASE ChannelOpen \/ PtyRequest \/ PtyResize \/ Copy \/ Disconnect
    BY <1>4 DEF ChannelOpen, PtyRequest, PtyResize, Copy, Disconnect
<1>5. ASSUME NEW ch \in Channel, ChannelClosed(ch) PROVE [Outside!Next]_(Outside!vars)
    BY <1>5 DEF ChannelClosed
<1> QED
    BY <1>1, <1>2, <1>3, <1>4, <1>5 DEF Callback

\* Seen from outside a session is a Shell: one bbs.js at most, only after the
\* login, and none left when the session is gone.
THEOREM ImplementsShell == Spec => IsShell
<1>1. Init => Outside!Init
    BY DEF Init, Outside!Init, Stage, Ended, Reaped
<1>2. IInv /\ [Next]_vars => [Outside!Next]_(Outside!vars)
    <2> SUFFICES ASSUME IInv, [Next]_vars PROVE [Outside!Next]_(Outside!vars)
        OBVIOUS
    <2>1. CASE Next
        BY <2>1, StepIsShell, CallbackIsShell DEF Next
    <2>2. CASE UNCHANGED vars
        BY <2>2 DEF Stage
    <2> QED
        BY <2>1, <2>2
<1> QED
    BY <1>1, <1>2, Invariance, PTL DEF Spec, IsShell, Outside!Spec

-----------------------------------------------------------------------------
(* How long the login takes.                                               *)

\* From the key exchange on.
TimeFits == pc \in Early => elapsed <= polls + MaxStall * AttemptsAnswered

LEMMA NextTime == IInv /\ TimeFits /\ [Next]_vars => TimeFits'
<1> SUFFICES ASSUME IInv, TimeFits, [Next]_vars, pc' \in Early
             PROVE  elapsed' <= polls' + MaxStall * AttemptsAnswered'
    BY DEF TimeFits
<1> USE GatewayAssumption DEF IInv, Inv1, Inv2, Flags, Counts
<1>1. pc \in Early
    BY DEF Next, Step, Callback, KeyExchange, LoginLoop, LoginPollEnds, SessionPoll,
        SessionPollEnds, Cleanup, Linger, AuthPassword, ChannelOpen, PtyRequest, PtyResize,
        ShellRequest, Copy, ChannelClosed, ChildEnds, Disconnect
<1>2. /\ elapsed \in Nat /\ polls \in Nat /\ AttemptsAnswered \in Nat /\ MaxStall \in Nat
      /\ MaxStall * AttemptsAnswered \in Nat
      /\ elapsed <= polls + MaxStall * AttemptsAnswered
    BY <1>1 DEF TimeFits, AttemptsAnswered
<1>3. CASE AuthPassword
    <2>1. PICK stall \in 0..MaxStall : elapsed' = elapsed + stall
        BY <1>3 DEF AuthPassword
    <2>2. AttemptsAnswered' = AttemptsAnswered + 1 /\ polls' = polls
        BY <1>3 DEF AuthPassword, AttemptsAnswered
    <2>3. MaxStall * (AttemptsAnswered + 1) = MaxStall * AttemptsAnswered + MaxStall
        BY <1>2
    <2> QED
        BY <1>2, <2>1, <2>2, <2>3
<1>4. CASE LoginPollEnds
    <2>1. AttemptsAnswered' = AttemptsAnswered
        BY <1>4 DEF LoginPollEnds, AttemptsAnswered
    <2>2. polls' = polls + 1 /\ elapsed' \in {elapsed, elapsed + 1}
        BY <1>4 DEF LoginPollEnds
    <2> QED
        BY <1>2, <2>1, <2>2
<1>5. CASE ~AuthPassword /\ ~LoginPollEnds
    <2>1. UNCHANGED authVars
        BY <1>5 DEF Next, Step, Callback, KeyExchange, LoginLoop, SessionPoll, SessionPollEnds,
            Cleanup, Linger, ChannelOpen, PtyRequest, PtyResize, ShellRequest, Copy,
            ChannelClosed, ChildEnds, Disconnect
    <2> QED
        BY <1>2, <2>1 DEF AttemptsAnswered
<1> QED
    BY <1>3, <1>4, <1>5

\* The login takes the time of its polls and one wait for server.js per
\* attempt, and no more.
THEOREM LoginTimeHolds == Spec => []LoginTime
<1>1. Init => TimeFits
    BY GatewayAssumption DEF Init, TimeFits, AttemptsAnswered
<1>2. TimeFits => LoginTime
    BY DEF TimeFits, LoginTime
<1> QED
    BY <1>1, <1>2, NextTime, Invariance, PTL DEF Spec

-----------------------------------------------------------------------------
(* The way to the end.                                                     *)

\* Each step without a connection is down in the phases, or in the packets or
\* the child of one.
LEMMA StepDown ==
    ASSUME IInv, Next, ~connected
    PROVE  \/ Phase[pc'] < Phase[pc] /\ (child' = "running" => child = "running")
           \/ pc' = pc /\ burst' = burst + 1 /\ child' = child
           \/ pc' = pc /\ burst' = burst /\ child = "running" /\ child' # "running"
<1> USE DEF IInv, Inv1, Inv2, Flags, Counts, Channels, LateFits, Phase
<1>1. CASE KeyExchange \/ LoginLoop \/ LoginPollEnds \/ SessionPoll \/ Linger
    BY <1>1 DEF KeyExchange, LoginLoop, LoginPollEnds, SessionPoll, Linger
<1>2. CASE SessionPollEnds
    BY <1>2 DEF SessionPollEnds
<1>3. CASE Cleanup
    BY <1>3 DEF Cleanup, Killed
<1>4. CASE Callback
    BY <1>4 DEF Callback, AuthPassword, ChannelOpen, PtyRequest, PtyResize, ShellRequest, Copy,
        ChannelClosed
<1>5. CASE ChildEnds
    BY <1>5 DEF ChildEnds
<1> QED
    BY <1>1, <1>2, <1>3, <1>4, <1>5 DEF Next, Step, Disconnect

\* Without a connection a session makes no step that does not bring it nearer
\* to its end, and it starts with so many left: it needs no more than these.
THEOREM WindsUpHolds == Spec => [](StepsLeft \in Nat) /\ WindsUp
<1>1. ASSUME IInv PROVE Phase[pc] \in 0..7 /\ burst \in 0..MaxBurst
    BY <1>1 DEF IInv, Inv2, Counts, Phase
<1>2. IInv => StepsLeft \in Nat
    BY <1>1, GatewayAssumption DEF StepsLeft
<1>3. IInv /\ IInv' /\ [Next]_vars => [~connected => StepsLeft' < StepsLeft]_vars
    <2> SUFFICES ASSUME IInv, IInv', Next, ~connected PROVE StepsLeft' < StepsLeft
        OBVIOUS
    <2> DEFINE a == Phase[pc]  b == Phase[pc']
    <2>1. a \in 0..7 /\ burst \in 0..MaxBurst /\ b \in 0..7 /\ burst' \in 0..MaxBurst
        BY <1>1 DEF IInv, Inv2, Counts, Phase
    <2>2. CASE b < a /\ (child' = "running" => child = "running")
        <3>1. b + 1 <= a
            BY <2>1, <2>2
        <3>2. (MaxBurst + 2) * b + (MaxBurst + 2) <= (MaxBurst + 2) * a
            BY <2>1, <3>1, GatewayAssumption
        <3> QED
            BY <2>1, <2>2, <3>2, GatewayAssumption DEF StepsLeft
    <2>3. CASE pc' = pc /\ burst' = burst + 1 /\ child' = child
        BY <2>1, <2>3, GatewayAssumption DEF StepsLeft
    <2>4. CASE pc' = pc /\ burst' = burst /\ child = "running" /\ child' # "running"
        BY <2>1, <2>4, GatewayAssumption DEF StepsLeft
    <2> QED
        BY <2>2, <2>3, <2>4, StepDown
<1> QED
    BY <1>2, <1>3, Invariance, PTL DEF Spec, WindsUp

=============================================================================
