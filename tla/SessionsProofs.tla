--------------------------- MODULE SessionsProofs ---------------------------
(***************************************************************************)
(* Proofs about Sessions, for any number of ssh connections, keys, users,  *)
(* attempts and deaths: the types, that everybody is in the chat under    *)
(* the name whose password was shown, that a key held is good, that a      *)
(* right password is refused only when somebody or something came between, *)
(* that nobody waits in vain, and that each session is a Shell.            *)
(***************************************************************************)
EXTENDS Sessions, TLAPS

\* The types, in parts.
AskTypes ==
    /\ stage \in [Session -> {"login", "open", "gone"}]
    /\ shell \in [Session -> {"none", "running", "ended"}]
    /\ talk \in [Session -> {"no", "sent", "inside", "closed", "key"}]
    /\ who \in [Session -> User \cup {NoUser}] /\ right \in [Session -> BOOLEAN]
    /\ unread \in [Session -> BOOLEAN]
    /\ tries \in [Session -> Nat] /\ \A s \in Session : tries[s] <= MaxTries[s]
    /\ key \in [Session -> Key \cup {NoKey}]
    /\ disturbed \in [Session -> BOOLEAN]
ServerTypes ==
    /\ up \in BOOLEAN
    /\ lock \in {"free", "taken", "stale"} /\ other \in {"no", "checked", "inside", "late"}
    /\ timers \subseteq Key \ fresh
MemberTypes ==
    /\ life \in [Session -> {"out", "in", "gone"}]
    /\ member \in [Session -> User \cup {NoUser}]
    /\ ticket \in [Key -> User \cup {NoUser}] /\ fresh \subseteq Key
Types == ListenerTypeOK /\ AskTypes /\ ServerTypes /\ MemberTypes

\* An attempt is made in the login, with attempts to spare, and the
\* server has it for some user.
AskFits ==
    \A s \in Session :
        /\ Asking(s) => stage[s] = "login" /\ tries[s] < MaxTries[s]
        /\ AtServer(s) => who[s] # NoUser
        /\ right[s] => Asking(s) \/ stage[s] = "open"
        /\ shell[s] = "running" => stage[s] = "open"

\* A key is held when it is on its way and in an open session; it was issued,
\* for the session's user, and its timer or its use alone make it bad.
KeyFits ==
    \A s \in Session :
        /\ key[s] # NoKey <=> stage[s] = "open" \/ talk[s] = "key"
        /\ key[s] # NoKey => key[s] \notin fresh /\ right[s] /\ who[s] # NoUser
        /\ key[s] # NoKey /\ ticket[key[s]] # NoUser => ticket[key[s]] = who[s]
        /\ key[s] # NoKey /\ life[s] = "out" /\ key[s] \in timers => ticket[key[s]] = who[s]

\* No two sessions hold one key.
KeysOwn == \A s, t \in Session : key[s] = key[t] /\ key[s] # NoKey => s = t

\* A member's session is open, and its user the session's.
MemberFits ==
    \A s \in Session : member[s] # NoUser /\ ~Over(s) => stage[s] = "open" /\ member[s] = who[s]

\* Who has asked while another had, or while the lock was not free to be
\* taken, is disturbed, and so is whoever was read and refused in spite of being
\* right; a lock is taken by somebody past it.
Disturbance ==
    /\ lock = "stale" \/ other # "no" => \A s \in Session : AtServer(s) => disturbed[s]
    /\ lock = "taken" => SomeInside \/ other \in {"inside", "late"}
    /\ \A s, t \in Session : AtServer(s) /\ AtServer(t) /\ s # t => disturbed[s]
    /\ \A s \in Session : talk[s] = "closed" /\ right[s] => disturbed[s] \/ unread[s]

IInv == Types /\ AskFits /\ KeyFits /\ KeysOwn /\ MemberFits /\ Disturbance

USE DEF listenerVars, shellVars, askVars, memberVars, lockVars, serverVars, vars, Set, Asking,
    AtServer, Become, Forgotten

LEMMA TypesAgree == Types => TypeOK
BY DEF Types, AskTypes, ServerTypes, MemberTypes, TypeOK

LEMMA InitIInv == Init => IInv
<1> SUFFICES ASSUME Init PROVE IInv
    OBVIOUS
<1> USE ListenerAssumption, SessionsAssumption DEF Init, ListenerInit, M!Init
<1>1. ListenerTypeOK
    <2>1. address \in 0..(AddressMax - 1)
        OBVIOUS
    <2> QED
        BY <2>1 DEF ListenerTypeOK
<1>2. AskTypes
    BY DEF AskTypes
<1>3. ServerTypes /\ MemberTypes
    BY DEF ServerTypes, MemberTypes
<1>4. AskFits /\ KeyFits /\ KeysOwn /\ MemberFits
    BY DEF AskFits, KeyFits, KeysOwn, MemberFits
<1>5. Disturbance
    BY DEF Disturbance, SomeInside
<1> QED
    BY <1>1, <1>2, <1>3, <1>4, <1>5 DEF IInv, Types

\* The program and the kernel: processes that are over stay so.
LEMMA GatewayKeeps ==
    ASSUME IInv, Gateway
    PROVE  IInv'
<1> USE ListenerAssumption DEF IInv, Types
<1>1. UNCHANGED <<shellVars, askVars, serverVars>>
    BY DEF Gateway
<1>2. ListenerTypeOK'
    <2>1. address' \in 0..(AddressMax - 1)
        BY DEF Gateway, Start, AddressLegal, Knock, Accept, Dropped, SessionBegins, Handler, Stop,
            ListenerTypeOK
    <2>2. main' \in {"down", "listening"} /\ sigchld' \in BOOLEAN
        BY DEF Gateway, Start, Knock, Accept, Dropped, SessionBegins, Handler, Stop, ListenerTypeOK
    <2>3. proc' \in [Session -> {"away", "knocking", "forked", "running", "zombie", "reaped",
                                 "dropped"}]
        BY DEF Gateway, Start, Knock, Accept, Dropped, SessionBegins, Handler, WaitedFor,
            Zombies, Stop, ListenerTypeOK
    <2> QED
        BY <2>1, <2>2, <2>3 DEF ListenerTypeOK
<1>3. \A s \in Session : Over(s) => Over(s)'
    BY DEF Gateway, Start, Knock, Accept, Dropped, SessionBegins, Handler,
        WaitedFor, Zombies, Stop, ListenerTypeOK, Over
<1>4. AskTypes' /\ ServerTypes' /\ MemberTypes'
    BY <1>1 DEF AskTypes, ServerTypes, MemberTypes
<1>5. AskFits' /\ KeyFits' /\ KeysOwn'
    BY <1>1 DEF AskFits, KeyFits, KeysOwn
<1>6. MemberFits'
    BY <1>1, <1>3 DEF MemberFits
<1>7. Disturbance'
    BY <1>1 DEF Disturbance, SomeInside
<1> QED
    BY <1>2, <1>4, <1>5, <1>6, <1>7

-----------------------------------------------------------------------------
(* The types, one action after the other.                                  *)

\* A process ends.
LEMMA EndsTypes ==
    ASSUME Types, NEW s \in Session, ProcessEnds(s)
    PROVE  Types'
<1> USE SessionsAssumption DEF Types
<1>1. UNCHANGED serverVars /\ address' = address /\ main' = main
    BY DEF ProcessEnds, SessionEnds
<1>2. ListenerTypeOK'
    <2>1. sigchld' \in BOOLEAN
        BY DEF ProcessEnds, SessionEnds, ListenerTypeOK
    <2>2. proc' \in [Session -> {"away", "knocking", "forked", "running", "zombie", "reaped",
                                 "dropped"}]
        BY DEF ProcessEnds, SessionEnds, ListenerTypeOK
    <2> QED
        BY <1>1, <2>1, <2>2 DEF ListenerTypeOK
<1>3. AskTypes'
    <2>1. tries' = [tries EXCEPT ![s] = 0]
        BY DEF ProcessEnds
    <2>2. tries' \in [Session -> Nat] /\ \A t \in Session : tries'[t] <= MaxTries[t]
        BY <2>1 DEF AskTypes
    <2> QED
        BY <2>2 DEF ProcessEnds, AskTypes
<1>4. ServerTypes' /\ MemberTypes'
    BY <1>1 DEF ServerTypes, MemberTypes
<1> QED
    BY <1>2, <1>3, <1>4

LEMMA ListenerSame == ASSUME ListenerTypeOK, UNCHANGED listenerVars PROVE ListenerTypeOK'
BY DEF ListenerTypeOK
LEMMA ServerSame ==
    ASSUME ServerTypes, MemberTypes, UNCHANGED serverVars
    PROVE  ServerTypes' /\ MemberTypes'
BY DEF ServerTypes, MemberTypes

\* What a session process may ask.
Asks(s) ==
    \/ AskNobody(s)
    \/ \E isRight \in BOOLEAN : AskIllegal(s, isRight) \/ \E u \in User : Ask(s, u, isRight)

\* The session process asks and is answered.
LEMMA AskingTypes ==
    ASSUME Types, AskFits, NEW s \in Session,
           Asks(s) \/ GotKey(s) \/ GotLess(s)
    PROVE  Types'
<1> USE SessionsAssumption DEF Types
<1>1. ASSUME NEW isRight \in BOOLEAN, AskIllegal(s, isRight) PROVE Types'
    <2>1. AskTypes'
        BY <1>1 DEF AskIllegal, AskTypes
    <2> QED
        BY <1>1, <2>1, ListenerSame, ServerSame DEF AskIllegal
<1>2. CASE AskNobody(s)
    BY <1>2, EndsTypes DEF AskNobody
<1>3. ASSUME NEW isRight \in BOOLEAN, NEW u \in User, Ask(s, u, isRight) PROVE Types'
    <2>1. AskTypes'
        BY <1>3 DEF Ask, AskTypes
    <2> QED
        BY <1>3, <2>1, ListenerSame, ServerSame DEF Ask
<1>4. CASE GotKey(s)
    <2>1. AskTypes'
        BY <1>4 DEF GotKey, AskTypes
    <2> QED
        BY <1>4, <2>1, ListenerSame, ServerSame DEF GotKey
<1>5. CASE GotLess(s)
    <2>1. tries[s] < MaxTries[s] /\ tries' = [tries EXCEPT ![s] = tries[s] + 1]
        BY <1>5 DEF GotLess, AskFits
    <2>2. tries' \in [Session -> Nat] /\ \A t \in Session : tries'[t] <= MaxTries[t]
        BY <2>1 DEF AskTypes
    <2>3. AskTypes'
        BY <1>5, <2>2 DEF GotLess, AskTypes
    <2> QED
        BY <1>5, <2>3, ListenerSame, ServerSame DEF GotLess
<1> QED
    BY <1>1, <1>2, <1>3, <1>4, <1>5 DEF Asks

\* The server dies.
LEMMA DiesTypes ==
    ASSUME Types, Dies
    PROVE  Types'
<1> USE SessionsAssumption DEF Types
<1>1. AskTypes'
    BY DEF Dies, AskTypes
<1>2. ServerTypes'
    BY DEF Dies, Left, ServerTypes
<1>3. MemberTypes'
    BY DEF Dies, MemberTypes
<1> QED
    BY <1>1, <1>2, <1>3, ListenerSame DEF Dies

\* auth().
LEMMA AuthTypes ==
    ASSUME Types, AskFits, NEW s \in Session, Auth(s)
    PROVE  Types'
<1> USE SessionsAssumption DEF Types, Refuse
<1>1. CASE AuthBegins(s)
    <2>1. AskTypes'
        BY <1>1 DEF AuthBegins, AskTypes
    <2>2. ServerTypes' /\ MemberTypes'
        BY <1>1 DEF AuthBegins, ServerTypes, MemberTypes
    <2> QED
        BY <1>1, <2>1, <2>2, ListenerSame DEF AuthBegins
<1>2. CASE AuthTorn(s)
    <2>1. AskTypes'
        BY <1>2 DEF AuthTorn, AskTypes
    <2> QED
        BY <1>2, <2>1, ListenerSame, ServerSame DEF AuthTorn
<1>3. CASE AuthEnds(s)
    <2>1. AskTypes'
        BY <1>3 DEF AuthEnds, AskTypes
    <2>2. ServerTypes'
        BY <1>3 DEF AuthEnds, Unlocked, ServerTypes, M!Issue
    <2>3. MemberTypes'
        BY <1>3 DEF AuthEnds, MemberTypes, M!Issue, NameOf, AskTypes
    <2> QED
        BY <1>3, <2>1, <2>2, <2>3, ListenerSame DEF AuthEnds
<1>4. CASE AuthGarbled(s)
    <2>1. AskTypes'
        BY <1>4 DEF AuthGarbled, AskTypes
    <2>2. ServerTypes' /\ MemberTypes'
        BY <1>4 DEF AuthGarbled, ServerTypes, MemberTypes
    <2> QED
        BY <1>4, <2>1, <2>2, ListenerSame DEF AuthGarbled
<1>5. CASE AuthThrows(s)
    BY <1>5, DiesTypes DEF AuthThrows
<1> QED
    BY <1>1, <1>2, <1>3, <1>4, <1>5 DEF Auth

\* The shell and the member it is.
LEMMA ShellTypes ==
    ASSUME IInv, NEW s \in Session,
           StartShell(s) \/ ShowKey(s) \/ ShellEnds(s) \/ SocketEnds(s) \/ SessionOver(s)
    PROVE  Types'
<1> USE SessionsAssumption DEF IInv, Types
<1>1. CASE StartShell(s) \/ ShellEnds(s)
    <2>1. AskTypes'
        BY <1>1 DEF StartShell, ShellEnds, AskTypes
    <2> QED
        BY <1>1, <2>1, ListenerSame, ServerSame DEF StartShell, ShellEnds
<1>2. CASE ShowKey(s)
    <2>1. key[s] \in Key
        BY <1>2 DEF ShowKey, AskFits, KeyFits, AskTypes
    <2>2. MemberTypes'
        BY <1>2, <2>1 DEF ShowKey, M!Join, M!Admit, M!Leave, MemberTypes
    <2>3. ServerTypes' /\ AskTypes'
        BY <1>2 DEF ShowKey, M!Join, M!Admit, M!Leave, ServerTypes, AskTypes
    <2> QED
        BY <1>2, <2>2, <2>3, ListenerSame DEF ShowKey
<1>3. CASE SocketEnds(s)
    <2>1. MemberTypes'
        BY <1>3 DEF SocketEnds, M!Leave, MemberTypes
    <2>2. ServerTypes' /\ AskTypes'
        BY <1>3 DEF SocketEnds, M!Leave, ServerTypes, AskTypes
    <2> QED
        BY <1>3, <2>1, <2>2, ListenerSame DEF SocketEnds
<1>4. CASE SessionOver(s)
    BY <1>4, EndsTypes DEF SessionOver
<1> QED
    BY <1>1, <1>2, <1>3, <1>4

\* The server's timers, the others that lock, crashes and restarts.
LEMMA OtherTypes ==
    ASSUME Types,
           OtherLocks \/ OtherEnds \/ LateEnds \/ Crash \/ Restart \/ \E k \in Key : KeyTimeout(k)
    PROVE  Types'
<1> USE SessionsAssumption DEF Types
<1>1. CASE OtherLocks \/ OtherEnds
    <2>1. UNCHANGED <<listenerVars, memberVars>> /\ AskTypes'
        BY <1>1 DEF OtherLocks, OtherEnds, AskTypes
    <2>2. lock' \in {"free", "taken", "stale"} /\ other' \in {"no", "checked", "inside", "late"}
        BY <1>1 DEF OtherLocks, OtherEnds, Left, ServerTypes
    <2>3. ServerTypes' /\ MemberTypes'
        BY <1>1, <2>1, <2>2 DEF OtherLocks, OtherEnds, ServerTypes, MemberTypes
    <2> QED
        BY <2>1, <2>3, ListenerSame
<1>2. CASE Crash
    BY <1>2, DiesTypes DEF Crash
<1>3. CASE Restart
    BY <1>3, ListenerSame DEF Restart, AskTypes, ServerTypes, MemberTypes
<1>4. ASSUME NEW k \in Key, KeyTimeout(k) PROVE Types'
    BY <1>4, ListenerSame DEF KeyTimeout, Expire, M!Expire, AskTypes, ServerTypes, MemberTypes
<1>5. CASE LateEnds
    <2>1. AskTypes' /\ UNCHANGED listenerVars
        BY <1>5 DEF LateEnds, AskTypes
    <2>2. ServerTypes' /\ MemberTypes'
        BY <1>5 DEF LateEnds, M!Issue, ServerTypes, MemberTypes
    <2> QED
        BY <2>1, <2>2, ListenerSame
<1> QED
    BY <1>1, <1>2, <1>3, <1>4, <1>5

-----------------------------------------------------------------------------
(* What the sessions, keys and members say of each other, one action after *)
(* the other.                                                              *)

Fits == AskFits /\ KeyFits /\ KeysOwn /\ MemberFits /\ Disturbance

LEMMA EndsFits ==
    ASSUME IInv, NEW s \in Session, ProcessEnds(s), ~Asking(s), shell[s] # "running"
    PROVE  Fits'
<1> USE SessionsAssumption DEF IInv, Types, AskTypes, ListenerTypeOK
<1>1. /\ stage' = [stage EXCEPT ![s] = "gone"] /\ who' = [who EXCEPT ![s] = NoUser]
      /\ right' = [right EXCEPT ![s] = FALSE] /\ key' = [key EXCEPT ![s] = NoKey]
      /\ unread' = [unread EXCEPT ![s] = FALSE]
      /\ tries' = [tries EXCEPT ![s] = 0] /\ disturbed' = [disturbed EXCEPT ![s] = FALSE]
      /\ UNCHANGED <<shell, talk, serverVars>>
    BY DEF ProcessEnds
<1>2. Over(s)' /\ \A t \in Session : Over(t) => Over(t)'
    BY DEF ProcessEnds, SessionEnds, Over
<1>3. AskFits'
    BY <1>1 DEF AskFits
<1>4. KeyFits'
    BY <1>1 DEF KeyFits
<1>5. KeysOwn'
    BY <1>1 DEF KeysOwn
<1>6. MemberFits'
    BY <1>1, <1>2 DEF MemberFits
<1>7. Disturbance'
    BY <1>1 DEF Disturbance, SomeInside
<1> QED
    BY <1>3, <1>4, <1>5, <1>6, <1>7 DEF Fits

\* Over depends on proc alone.
LEMMA OverSame == ASSUME UNCHANGED proc PROVE \A s \in Session : Over(s)' = Over(s)
BY DEF Over

LEMMA AskingFits ==
    ASSUME IInv, NEW s \in Session,
           Asks(s) \/ GotKey(s) \/ GotLess(s)
    PROVE  Fits'
<1> USE SessionsAssumption DEF IInv, Types, AskTypes
<1>1. ASSUME NEW isRight \in BOOLEAN, AskIllegal(s, isRight) PROVE Fits'
    <2>1. /\ stage[s] = "login" /\ ~Asking(s) /\ tries[s] < MaxTries[s]
          /\ talk' = [talk EXCEPT ![s] = "closed"] /\ right' = [right EXCEPT ![s] = isRight]
          /\ unread' = [unread EXCEPT ![s] = TRUE]
          /\ UNCHANGED <<listenerVars, shellVars, who, tries, key, disturbed, serverVars>>
        BY <1>1 DEF AskIllegal, MayAsk
    <2>2. AskFits'
        BY <2>1 DEF AskFits
    <2>3. KeyFits' /\ KeysOwn'
        BY <2>1 DEF KeyFits, KeysOwn
    <2>4. MemberFits'
        BY <2>1, OverSame DEF MemberFits
    <2>5. Disturbance'
        BY <2>1 DEF Disturbance, SomeInside
    <2> QED
        BY <2>2, <2>3, <2>4, <2>5 DEF Fits
<1>2. CASE AskNobody(s)
    <2>1. shell[s] # "running"
        BY <1>2 DEF AskNobody, MayAsk, AskFits
    <2> QED
        BY <1>2, <2>1, EndsFits DEF AskNobody, MayAsk
<1>3. ASSUME NEW isRight \in BOOLEAN, NEW u \in User, Ask(s, u, isRight) PROVE Fits'
    <2>1. /\ stage[s] = "login" /\ ~Asking(s) /\ tries[s] < MaxTries[s]
          /\ talk' = [talk EXCEPT ![s] = "sent"] /\ who' = [who EXCEPT ![s] = u]
          /\ right' = [right EXCEPT ![s] = isRight]
          /\ UNCHANGED <<listenerVars, shellVars, unread, tries, key, serverVars>>
        BY <1>3 DEF Ask, MayAsk
    <2>2. disturbed' = [t \in Session |->
              IF t = s
              THEN lock = "stale" \/ other # "no" \/ \E o \in Session \ {s} : AtServer(o)
              ELSE disturbed[t] \/ AtServer(t)]
        BY <1>3 DEF Ask
    <2>3. AskFits'
        BY <2>1 DEF AskFits
    <2>4. KeyFits' /\ KeysOwn'
        BY <2>1 DEF KeyFits, KeysOwn
    <2>5. MemberFits'
        BY <2>1, OverSame DEF MemberFits
    <2>6. Disturbance'
        BY <2>1, <2>2 DEF Disturbance, SomeInside
    <2> QED
        BY <2>3, <2>4, <2>5, <2>6 DEF Fits
<1>4. CASE GotKey(s)
    <2>1. /\ talk[s] = "key"
          /\ talk' = [talk EXCEPT ![s] = "no"] /\ stage' = [stage EXCEPT ![s] = "open"]
          /\ disturbed' = [disturbed EXCEPT ![s] = FALSE]
          /\ UNCHANGED <<listenerVars, shell, who, right, unread, tries, key, serverVars>>
        BY <1>4 DEF GotKey
    <2>2. AskFits'
        BY <2>1 DEF AskFits
    <2>3. KeyFits' /\ KeysOwn'
        BY <2>1 DEF KeyFits, KeysOwn
    <2>4. MemberFits'
        BY <2>1, OverSame DEF MemberFits
    <2>5. Disturbance'
        BY <2>1 DEF Disturbance, SomeInside
    <2> QED
        BY <2>2, <2>3, <2>4, <2>5 DEF Fits
<1>5. CASE GotLess(s)
    <2>1. /\ talk[s] \in {"key", "closed"} /\ stage[s] = "login"
          /\ talk' = [talk EXCEPT ![s] = "no"] /\ key' = [key EXCEPT ![s] = NoKey]
          /\ who' = [who EXCEPT ![s] = NoUser] /\ right' = [right EXCEPT ![s] = FALSE]
          /\ unread' = [unread EXCEPT ![s] = FALSE] /\ disturbed' = [disturbed EXCEPT ![s] = FALSE]
          /\ tries' = [tries EXCEPT ![s] = tries[s] + 1]
          /\ UNCHANGED <<listenerVars, shellVars, serverVars>>
        BY <1>5 DEF GotLess, AskFits
    <2>2. AskFits'
        BY <2>1 DEF AskFits
    <2>3. KeyFits' /\ KeysOwn'
        BY <2>1 DEF KeyFits, KeysOwn
    <2>4. MemberFits'
        BY <2>1, OverSame DEF MemberFits
    <2>5. Disturbance'
        BY <2>1 DEF Disturbance, SomeInside
    <2> QED
        BY <2>2, <2>3, <2>4, <2>5 DEF Fits
<1> QED
    BY <1>1, <1>2, <1>3, <1>4, <1>5 DEF Asks

\* The server dies, and everybody who has asked it knows.
LEMMA DiesFits ==
    ASSUME IInv, Dies
    PROVE  Fits'
<1> USE SessionsAssumption DEF IInv, Types, AskTypes, MemberTypes
<1>1. /\ timers' = {} /\ lock' = Left(other' = "inside") /\ other' \in {other, "no"} \ {"late"}
      /\ talk' = [s \in Session |-> IF AtServer(s) THEN "closed" ELSE talk[s]]
      /\ disturbed' = [s \in Session |-> disturbed[s] \/ AtServer(s)]
      /\ member' = [s \in Session |-> NoUser] /\ ticket' = [k \in Key |-> NoUser]
      /\ UNCHANGED <<listenerVars, shellVars, who, right, unread, tries, key, fresh>>
    BY DEF Dies
<1>2. \A s \in Session : talk'[s] \notin {"sent", "inside"} /\ (Asking(s)' => Asking(s))
    BY <1>1
<1>3. AskFits' /\ KeysOwn'
    BY <1>1 DEF AskFits, KeysOwn
<1>4. KeyFits'
    BY <1>1 DEF KeyFits
<1>5. MemberFits'
    BY <1>1 DEF MemberFits
<1>6. Disturbance'
    <2>1. lock' = "taken" => other' = "inside"
        BY <1>1 DEF Left
    <2>2. \A s \in Session : talk'[s] = "closed" /\ right'[s] => disturbed'[s] \/ unread'[s]
        BY <1>1 DEF Disturbance
    <2> QED
        BY <1>2, <2>1, <2>2 DEF Disturbance
<1> QED
    BY <1>3, <1>4, <1>5, <1>6 DEF Fits

\* auth(): a key is issued to the one who was right.
LEMMA AuthFits ==
    ASSUME IInv, NEW s \in Session, Auth(s)
    PROVE  Fits'
<1> USE SessionsAssumption DEF IInv, Types, AskTypes, Refuse
<1>1. CASE AuthBegins(s)
    <2>1. /\ talk[s] = "sent"
          /\ UNCHANGED <<listenerVars, shellVars, who, right, unread, tries, key, disturbed, up,
                         other, timers, memberVars>>
          /\ \/ lock = "free" /\ lock' = "taken" /\ talk' = [talk EXCEPT ![s] = "inside"]
             \/ lock # "free" /\ lock' = lock /\ talk' = [talk EXCEPT ![s] = "closed"]
        BY <1>1 DEF AuthBegins
    <2>2. AskFits'
        BY <2>1 DEF AskFits
    <2>3. KeyFits' /\ KeysOwn'
        BY <2>1 DEF KeyFits, KeysOwn
    <2>4. MemberFits'
        BY <2>1, OverSame DEF MemberFits
    <2>5. Disturbance'
        <3>1. lock # "free" => disturbed[s]
            BY <2>1 DEF ServerTypes, Disturbance, SomeInside
        <3> QED
            BY <2>1, <3>1 DEF Disturbance, SomeInside
    <2> QED
        BY <2>2, <2>3, <2>4, <2>5 DEF Fits
<1>2. CASE AuthTorn(s)
    <2>1. /\ talk[s] = "sent" /\ talk' = [talk EXCEPT ![s] = "closed"]
          /\ disturbed' = [disturbed EXCEPT ![s] = TRUE]
          /\ UNCHANGED <<listenerVars, shellVars, who, right, unread, tries, key, serverVars>>
        BY <1>2 DEF AuthTorn
    <2>2. AskFits'
        BY <2>1 DEF AskFits
    <2>3. KeyFits' /\ KeysOwn'
        BY <2>1 DEF KeyFits, KeysOwn
    <2>4. MemberFits'
        BY <2>1, OverSame DEF MemberFits
    <2>5. Disturbance'
        BY <2>1 DEF Disturbance, SomeInside
    <2> QED
        BY <2>2, <2>3, <2>4, <2>5 DEF Fits
<1>3. CASE AuthEnds(s)
    <2>1. /\ talk[s] = "inside" /\ lock' = "free"
          /\ UNCHANGED <<listenerVars, shellVars, who, right, unread, tries, up, other>>
        BY <1>3 DEF AuthEnds, Unlocked
    <2>2. UNCHANGED <<life, member>>
        BY <1>3 DEF AuthEnds, M!Issue
    <2>3. key[s] = NoKey /\ stage[s] = "login" /\ who[s] # NoUser
        BY <2>1 DEF AskFits, KeyFits
    <2>4. CASE \E k \in Key : /\ M!Issue(NameOf(s), k) /\ Set(key, s, k)
                              /\ timers' = timers \cup {k} /\ Set(talk, s, "key")
                              /\ right[s] /\ UNCHANGED disturbed
        <3>1. PICK k \in Key : /\ k \in fresh /\ fresh' = fresh \ {k}
                               /\ ticket' = [ticket EXCEPT ![k] = who[s]]
                               /\ key' = [key EXCEPT ![s] = k] /\ timers' = timers \cup {k}
                               /\ talk' = [talk EXCEPT ![s] = "key"]
                               /\ right[s] /\ UNCHANGED disturbed
            BY <2>4 DEF M!Issue, NameOf
        <3>2. \A t \in Session : key[t] # k
            BY <3>1 DEF KeyFits
        <3>3. AskFits'
            BY <2>1, <3>1 DEF AskFits
        <3>4. KeyFits'
            BY <2>1, <2>2, <2>3, <3>1, <3>2 DEF KeyFits, MemberTypes
        <3>5. KeysOwn'
            BY <3>1, <3>2 DEF KeysOwn
        <3>6. Disturbance'
            BY <2>1, <3>1 DEF Disturbance, SomeInside
        <3> QED
            BY <2>1, <2>2, <3>3, <3>4, <3>5, <3>6, OverSame DEF MemberFits, Fits
    <2>5. CASE /\ talk' = [talk EXCEPT ![s] = "closed"]
               /\ UNCHANGED <<key, timers, memberVars>>
               /\ (UNCHANGED disturbed /\ ~right[s]) \/ disturbed' = [disturbed EXCEPT ![s] = TRUE]
        <3>1. AskFits'
            BY <2>1, <2>5 DEF AskFits
        <3>2. KeyFits' /\ KeysOwn'
            BY <2>1, <2>5 DEF KeyFits, KeysOwn
        <3>3. Disturbance'
            BY <2>1, <2>5 DEF Disturbance, SomeInside
        <3> QED
            BY <2>1, <2>2, <3>1, <3>2, <3>3, OverSame DEF MemberFits, Fits
    <2> QED
        BY <1>3, <2>4, <2>5 DEF AuthEnds
<1>4. CASE AuthGarbled(s)
    <2>1. /\ talk[s] = "sent" /\ talk' = [talk EXCEPT ![s] = "closed"]
          /\ unread' = [unread EXCEPT ![s] = TRUE]
          /\ UNCHANGED <<listenerVars, shellVars, who, right, tries, key, disturbed, timers,
                         memberVars>>
          /\ UNCHANGED lockVars \/ (lock' = "taken" /\ other' = "late")
        BY <1>4 DEF AuthGarbled
    <2>2. AskFits'
        BY <2>1 DEF AskFits
    <2>3. KeyFits' /\ KeysOwn'
        BY <2>1 DEF KeyFits, KeysOwn
    <2>4. MemberFits'
        BY <2>1, OverSame DEF MemberFits
    <2>5. Disturbance'
        <3>1. \A t \in Session : AtServer(t)' => AtServer(t) /\ t # s
            BY <2>1
        <3>2. \A t \in Session : AtServer(t)' /\ other' = "late" => disturbed'[t]
            BY <2>1, <3>1 DEF Disturbance
        <3>3. lock' = "taken" => SomeInside' \/ other' \in {"inside", "late"}
            BY <2>1 DEF Disturbance, SomeInside
        <3> QED
            BY <2>1, <3>1, <3>2, <3>3 DEF Disturbance
    <2> QED
        BY <2>2, <2>3, <2>4, <2>5 DEF Fits
<1>5. CASE AuthThrows(s)
    BY <1>5, DiesFits DEF AuthThrows
<1> QED
    BY <1>1, <1>2, <1>3, <1>4, <1>5 DEF Auth

\* The shell shows its key and is a member, until it ends.
LEMMA ShellFits ==
    ASSUME IInv, NEW s \in Session,
           StartShell(s) \/ ShowKey(s) \/ ShellEnds(s) \/ SocketEnds(s) \/ SessionOver(s)
    PROVE  Fits'
<1> USE SessionsAssumption DEF IInv, Types, AskTypes, MemberTypes
<1>1. CASE StartShell(s) \/ ShellEnds(s)
    <2>1. UNCHANGED <<listenerVars, stage, askVars, serverVars>>
        BY <1>1 DEF StartShell, ShellEnds
    <2>2. AskFits'
        BY <1>1, <2>1 DEF StartShell, ShellEnds, AskFits
    <2> QED
        BY <2>1, <2>2, OverSame DEF KeyFits, KeysOwn, MemberFits, Disturbance, SomeInside, Fits
<1>2. CASE ShowKey(s)
    <2>1. /\ shell[s] = "running" /\ life[s] = "out"
          /\ UNCHANGED <<listenerVars, shellVars, askVars, up, lockVars, timers>>
          /\ IF ticket[key[s]] # NoUser THEN M!Join(s, key[s]) ELSE M!Leave(s)
        BY <1>2 DEF ShowKey
    <2>2. stage[s] = "open" /\ key[s] \in Key
        BY <2>1 DEF AskFits, KeyFits
    <2>3. CASE M!Join(s, key[s]) /\ ticket[key[s]] # NoUser
        <3>1. /\ life' = [life EXCEPT ![s] = "in"]
              /\ member' = [member EXCEPT ![s] = ticket[key[s]]]
              /\ ticket' = [ticket EXCEPT ![key[s]] = NoUser] /\ UNCHANGED fresh
            BY <2>1, <2>3 DEF M!Join, M!Admit
        <3>2. ticket[key[s]] = who[s]
            BY <2>2, <2>3 DEF KeyFits
        <3>3. \A t \in Session \ {s} : key[t] # NoKey => key[t] # key[s]
            BY DEF KeysOwn
        <3>4. KeyFits'
            BY <2>1, <2>2, <3>1, <3>3 DEF KeyFits
        <3>5. MemberFits'
            BY <2>1, <2>2, <3>1, <3>2, OverSame DEF MemberFits
        <3> QED
            BY <2>1, <3>4, <3>5 DEF AskFits, KeysOwn, Disturbance, SomeInside, Fits
    <2>4. CASE M!Leave(s)
        <3>1. /\ life' = [life EXCEPT ![s] = "gone"] /\ member' = [member EXCEPT ![s] = NoUser]
              /\ UNCHANGED <<ticket, fresh>>
            BY <2>4 DEF M!Leave
        <3>2. KeyFits'
            BY <2>1, <3>1 DEF KeyFits
        <3>3. MemberFits'
            BY <2>1, <3>1, OverSame DEF MemberFits
        <3> QED
            BY <2>1, <3>2, <3>3 DEF AskFits, KeysOwn, Disturbance, SomeInside, Fits
    <2> QED
        BY <2>1, <2>3, <2>4
<1>3. CASE SocketEnds(s)
    <2>1. /\ UNCHANGED <<listenerVars, shellVars, askVars, up, lockVars, timers>>
          /\ life' = [life EXCEPT ![s] = "gone"] /\ member' = [member EXCEPT ![s] = NoUser]
          /\ UNCHANGED <<ticket, fresh>>
        BY <1>3 DEF SocketEnds, M!Leave
    <2>2. KeyFits'
        BY <2>1 DEF KeyFits
    <2>3. MemberFits'
        BY <2>1, OverSame DEF MemberFits
    <2> QED
        BY <2>1, <2>2, <2>3 DEF AskFits, KeysOwn, Disturbance, SomeInside, Fits
<1>4. CASE SessionOver(s)
    BY <1>4, EndsFits DEF SessionOver
<1> QED
    BY <1>1, <1>2, <1>3, <1>4

LEMMA OtherFits ==
    ASSUME IInv,
           OtherLocks \/ OtherEnds \/ LateEnds \/ Crash \/ Restart \/ \E k \in Key : KeyTimeout(k)
    PROVE  Fits'
<1> USE SessionsAssumption DEF IInv, Types, AskTypes, MemberTypes
<1>1. CASE OtherLocks
    <2>1. /\ disturbed' = [s \in Session |-> disturbed[s] \/ AtServer(s)]
          /\ UNCHANGED <<listenerVars, shellVars, talk, who, right, unread, tries, key, up,
                         timers, memberVars>>
        BY <1>1 DEF OtherLocks
    <2>2. AskFits' /\ KeyFits' /\ KeysOwn'
        BY <2>1 DEF AskFits, KeyFits, KeysOwn
    <2>3. lock' = "taken" => SomeInside' \/ other' \in {"inside", "late"}
        BY <1>1 DEF OtherLocks, Disturbance
    <2>4. Disturbance'
        BY <2>1, <2>3 DEF Disturbance
    <2> QED
        BY <2>1, <2>2, <2>4, OverSame DEF MemberFits, Fits
<1>2. CASE OtherEnds
    <2>1. /\ other # "no" /\ other' = "no"
          /\ lock' = Left(SomeInside) \/ lock' = "free"
          /\ UNCHANGED <<listenerVars, shellVars, askVars, up, timers, memberVars>>
        BY <1>2 DEF OtherEnds
    <2>2. AskFits' /\ KeyFits' /\ KeysOwn'
        BY <2>1 DEF AskFits, KeyFits, KeysOwn
    <2>3. \A s \in Session : AtServer(s)' => disturbed'[s]
        BY <2>1 DEF Disturbance
    <2>4. lock' = "taken" => SomeInside'
        BY <2>1 DEF Left, SomeInside
    <2>5. Disturbance'
        BY <2>1, <2>3, <2>4 DEF Disturbance
    <2> QED
        BY <2>1, <2>2, <2>5, OverSame DEF MemberFits, Fits
<1>5. CASE Crash
    BY <1>5, DiesFits DEF Crash
<1>3. CASE Restart
    <2>1. /\ lock' = lock \/ lock' = "free" \/ (lock = "stale" /\ lock' = "stale")
          /\ UNCHANGED <<listenerVars, shellVars, askVars, other, timers, memberVars>>
        BY <1>3 DEF Restart
    <2>2. AskFits' /\ KeyFits' /\ KeysOwn'
        BY <2>1 DEF AskFits, KeyFits, KeysOwn
    <2>3. Disturbance'
        BY <2>1 DEF Disturbance, SomeInside
    <2> QED
        BY <2>1, <2>2, <2>3, OverSame DEF MemberFits, Fits
<1>4. ASSUME NEW k \in Key, KeyTimeout(k) PROVE Fits'
    <2>1. /\ timers' = timers \ {k}
          /\ UNCHANGED <<listenerVars, shellVars, askVars, up, lockVars, life, member, fresh>>
          /\ ticket' = [ticket EXCEPT ![k] = NoUser] \/ UNCHANGED ticket
        BY <1>4 DEF KeyTimeout, Expire, M!Expire
    <2>2. AskFits' /\ KeysOwn' /\ Disturbance'
        BY <2>1 DEF AskFits, KeysOwn, Disturbance, SomeInside
    <2>3. KeyFits'
        BY <2>1 DEF KeyFits
    <2> QED
        BY <2>1, <2>2, <2>3, OverSame DEF MemberFits, Fits
<1>6. CASE LateEnds
    <2>1. /\ other = "late" /\ other' = "no" /\ lock' = "free"
          /\ UNCHANGED <<listenerVars, shellVars, askVars, up, life, member>>
          /\ \/ UNCHANGED <<timers, ticket, fresh>>
             \/ \E u \in User, k \in Key : /\ k \in fresh /\ fresh' = fresh \ {k}
                                           /\ ticket' = [ticket EXCEPT ![k] = u]
                                           /\ timers' = timers \cup {k}
        BY <1>6 DEF LateEnds, M!Issue
    <2>2. AskFits' /\ KeysOwn' /\ Disturbance'
        BY <2>1 DEF AskFits, KeysOwn, Disturbance, SomeInside
    <2>3. KeyFits'
        BY <2>1 DEF KeyFits
    <2> QED
        BY <2>1, <2>2, <2>3, OverSame DEF MemberFits, Fits
<1> QED
    BY <1>1, <1>2, <1>3, <1>4, <1>5, <1>6

LEMMA NextIInv == IInv /\ [Next]_vars => IInv'
<1> SUFFICES ASSUME IInv, [Next]_vars PROVE IInv'
    OBVIOUS
<1>1. CASE Gateway
    BY <1>1, GatewayKeeps
<1>2. CASE OtherLocks \/ OtherEnds \/ LateEnds \/ Crash \/ Restart \/ \E k \in Key : KeyTimeout(k)
    BY <1>2, OtherTypes, OtherFits DEF IInv, Fits
<1>3. ASSUME NEW s \in Session,
             Asks(s) \/ GotKey(s) \/ GotLess(s)
      PROVE  IInv'
    BY <1>3, AskingTypes, AskingFits DEF IInv, Fits
<1>4. ASSUME NEW s \in Session, Auth(s) PROVE IInv'
    BY <1>4, AuthTypes, AuthFits DEF IInv, Fits
<1>5. ASSUME NEW s \in Session,
             StartShell(s) \/ ShowKey(s) \/ ShellEnds(s) \/ SocketEnds(s) \/ SessionOver(s)
      PROVE  IInv'
    BY <1>5, ShellTypes, ShellFits DEF IInv, Fits
<1>6. CASE UNCHANGED vars
    <2>1. Types'
        BY <1>6, ListenerSame, ServerSame DEF IInv, Types, AskTypes
    <2>2. AskFits' /\ KeyFits' /\ KeysOwn' /\ MemberFits' /\ Disturbance'
        BY <1>6, OverSame DEF IInv, AskFits, KeyFits, KeysOwn, MemberFits, Disturbance, SomeInside
    <2> QED
        BY <2>1, <2>2 DEF IInv
<1> QED
    BY <1>1, <1>2, <1>3, <1>4, <1>5, <1>6 DEF Next, Asks

\* Sessions, keys, members and the lock agree at all times.
THEOREM Invariance == Spec => []IInv
BY InitIInv, NextIInv, PTL DEF Spec

\* Every variable keeps its type: the address fits its buffer, nobody has
\* more attempts than allowed, no timer belongs to a key not issued.
THEOREM TypeCorrect == Spec => []TypeOK
<1>1. IInv => TypeOK
    BY TypesAgree DEF IInv
<1> QED
    BY <1>1, Invariance, PTL

\* Whoever is in the chat through an ssh session has shown the password of
\* that user in that session, and no two sessions share a key.
THEOREM OwnNameHolds == Spec => []OwnName
<1>1. IInv => OwnName
    BY DEF IInv, MemberFits, KeyFits, KeysOwn, OwnName
<1> QED
    BY <1>1, Invariance, PTL

\* A key the gateway holds logs its user on until its timer has fired.
THEOREM HeldKeyGoodHolds == Spec => []HeldKeyGood
<1>1. IInv => HeldKeyGood
    BY DEF IInv, KeyFits, HeldKeyGood
<1> QED
    BY <1>1, Invariance, PTL

\* A right password that is sent and read is refused only if somebody or
\* something came between.
THEOREM AloneAdmittedHolds == Spec => AloneAdmitted
<1>1. IInv /\ [Next]_vars =>
          [\A s \in Session : tries'[s] > tries[s] /\ right[s] =>
              disturbed[s] \/ talk[s] = "key" \/ unread[s]]_vars
    <2> SUFFICES ASSUME IInv, Next, NEW s \in Session, tries'[s] > tries[s], right[s]
                 PROVE  disturbed[s] \/ talk[s] = "key" \/ unread[s]
        OBVIOUS
    <2> USE DEF IInv, Types, AskTypes
    <2>1. tries[s] \in Nat /\ tries'[s] # tries[s]
        OBVIOUS
    <2>2. tries' # tries
        BY <2>1
    <2>3. ASSUME NEW t \in Session, ProcessEnds(t) PROVE FALSE
        <3>1. tries' = [tries EXCEPT ![t] = 0]
            BY <2>3 DEF ProcessEnds
        <3> QED
            BY <2>1, <3>1
    <2>4. PICK t \in Session : GotLess(t)
        BY <2>2, <2>3 DEF Next, Gateway, OtherLocks, OtherEnds, LateEnds, Crash, Dies, Restart,
            KeyTimeout, AskIllegal, AskNobody, Ask, Auth, AuthBegins, AuthTorn, AuthGarbled, AuthEnds,
            AuthThrows, GotKey, StartShell, ShowKey, ShellEnds, SocketEnds, SessionOver
    <2>5. t = s
        BY <2>1, <2>4 DEF GotLess
    <2> QED
        BY <2>4, <2>5 DEF GotLess, Disturbance
<1> QED
    BY <1>1, Invariance, PTL DEF Spec, AloneAdmitted

-----------------------------------------------------------------------------
(* Nobody is forgotten: who waits for whom, one group of actions after the *)
(* other.                                                                  *)

\* Whoever asks has a process; whoever has no answer yet has a server.
AskerRuns ==
    \A s \in Session : Asking(s) => proc[s] = "running" /\ (AtServer(s) => up)

\* The end of a process is signalled until it is waited for.
EndsSeen == \A s \in Session : proc[s] = "zombie" => main = "listening" /\ sigchld

\* A member is in the memory of a server that runs, and has, or had, a shell;
\* no shell outlives its session.
MembersLive ==
    /\ \A s \in Session : member[s] # NoUser => up /\ shell[s] # "none" /\ life[s] = "in"
    /\ \A s \in Session : Over(s) => shell[s] # "running"

Waits == AskerRuns /\ EndsSeen /\ MembersLive

LEMMA InitWaits == Init => Waits
<1> SUFFICES ASSUME Init PROVE Waits
    OBVIOUS
<1> QED
    BY DEF Init, ListenerInit, M!Init, Waits, AskerRuns, EndsSeen, MembersLive, Over

LEMMA GatewayWaits ==
    ASSUME IInv, Waits, Gateway
    PROVE  Waits'
<1> USE DEF IInv, Types, ListenerTypeOK, Waits
<1>1. UNCHANGED <<shellVars, askVars, serverVars>>
    BY DEF Gateway
<1>2. \A s \in Session : proc[s] = "running" => proc'[s] = "running"
    BY DEF Gateway, Start, Knock, Accept, Dropped, SessionBegins, Handler, WaitedFor,
        Zombies, Stop
<1>3. \A s \in Session : Over(s)' => Over(s)
    BY DEF Gateway, Start, Knock, Accept, Dropped, SessionBegins, Handler, WaitedFor,
        Zombies, Stop, Over
<1>4. EndsSeen'
    BY DEF EndsSeen, Gateway, Start, Knock, Accept, Dropped, SessionBegins, Handler,
        WaitedFor, Zombies, Stop
<1>5. AskerRuns'
    BY <1>1, <1>2 DEF AskerRuns
<1>6. MembersLive'
    BY <1>1, <1>3 DEF MembersLive
<1> QED
    BY <1>4, <1>5, <1>6

LEMMA EndsWaits ==
    ASSUME IInv, Waits, NEW s \in Session, ProcessEnds(s), ~Asking(s), shell[s] # "running"
    PROVE  Waits'
<1> USE DEF IInv, Types, AskTypes, ListenerTypeOK, Waits
<1>1. /\ UNCHANGED <<shell, talk, serverVars, main>>
      /\ \/ main = "listening" /\ sigchld' = TRUE /\ proc' = [proc EXCEPT ![s] = "zombie"]
         \/ main # "listening" /\ sigchld' = sigchld /\ proc' = [proc EXCEPT ![s] = "reaped"]
    BY DEF ProcessEnds, SessionEnds
<1>2. \A t \in Session \ {s} : proc'[t] = proc[t]
    BY <1>1
<1>3. AskerRuns'
    BY <1>1, <1>2 DEF AskerRuns
<1>4. EndsSeen'
    BY <1>1, <1>2 DEF EndsSeen
<1>5. MembersLive'
    BY <1>1, <1>2 DEF MembersLive, Over
<1> QED
    BY <1>3, <1>4, <1>5

\* The processes and the shells as before: only what is asked changes.
LEMMA TalkWaits ==
    ASSUME Waits, UNCHANGED <<proc, main, sigchld, shell, up, life, member>>,
           AskerRuns'
    PROVE  Waits'
BY OverSame DEF Waits, EndsSeen, MembersLive

LEMMA AskingWaits ==
    ASSUME IInv, Waits, NEW s \in Session,
           Asks(s) \/ GotKey(s) \/ GotLess(s)
    PROVE  Waits'
<1> USE DEF IInv, Types, AskTypes, Waits
<1>1. ASSUME NEW isRight \in BOOLEAN, AskIllegal(s, isRight) PROVE Waits'
    <2>1. AskerRuns'
        BY <1>1 DEF AskIllegal, MayAsk, AskerRuns
    <2> QED
        BY <1>1, <2>1, TalkWaits DEF AskIllegal
<1>2. CASE AskNobody(s)
    <2>1. shell[s] # "running"
        BY <1>2 DEF AskNobody, MayAsk, AskFits
    <2> QED
        BY <1>2, <2>1, EndsWaits DEF AskNobody, MayAsk
<1>3. ASSUME NEW isRight \in BOOLEAN, NEW u \in User, Ask(s, u, isRight) PROVE Waits'
    <2>1. AskerRuns'
        BY <1>3 DEF Ask, MayAsk, AskerRuns
    <2> QED
        BY <1>3, <2>1, TalkWaits DEF Ask
<1>4. CASE GotKey(s) \/ GotLess(s)
    <2>1. /\ talk[s] \in {"key", "closed"} /\ talk' = [talk EXCEPT ![s] = "no"]
          /\ UNCHANGED <<listenerVars, shell, serverVars>>
        BY <1>4 DEF GotKey, GotLess
    <2>2. AskerRuns'
        BY <2>1 DEF AskerRuns
    <2> QED
        BY <2>1, <2>2, TalkWaits
<1> QED
    BY <1>1, <1>2, <1>3, <1>4 DEF Asks

\* The server dies: nobody waits for it, and it has no members.
LEMMA DiesWaits ==
    ASSUME IInv, Waits, Dies
    PROVE  Waits'
<1> USE DEF IInv, Types, AskTypes, MemberTypes, Waits
<1>1. \A s \in Session : talk'[s] \notin {"sent", "inside"} /\ (Asking(s)' => Asking(s))
    BY DEF Dies
<1>2. AskerRuns'
    BY <1>1 DEF Dies, AskerRuns
<1>3. EndsSeen' /\ MembersLive'
    BY OverSame DEF Dies, EndsSeen, MembersLive
<1> QED
    BY <1>2, <1>3

LEMMA AuthWaits ==
    ASSUME IInv, Waits, NEW s \in Session, Auth(s)
    PROVE  Waits'
<1> USE DEF IInv, Types, AskTypes, Waits
<1>1. CASE AuthThrows(s)
    BY <1>1, DiesWaits DEF AuthThrows
<1>2. CASE AuthBegins(s) \/ AuthTorn(s) \/ AuthGarbled(s) \/ AuthEnds(s)
    <2>1. /\ UNCHANGED <<proc, main, sigchld, shell, up, life, member>>
          /\ up /\ talk[s] \in {"sent", "inside"}
        BY <1>2 DEF AuthBegins, AuthTorn, AuthGarbled, AuthEnds, M!Issue
    <2>2. \E v \in {"inside", "closed", "key"} : talk' = [talk EXCEPT ![s] = v]
        BY <1>2 DEF AuthBegins, AuthTorn, AuthGarbled, AuthEnds, Refuse
    <2>3. AskerRuns'
        BY <2>1, <2>2 DEF AskerRuns
    <2> QED
        BY <2>1, <2>3, OverSame DEF EndsSeen, MembersLive
<1> QED
    BY <1>1, <1>2 DEF Auth

LEMMA ShellWaits ==
    ASSUME IInv, Waits, NEW s \in Session,
           StartShell(s) \/ ShowKey(s) \/ ShellEnds(s) \/ SocketEnds(s) \/ SessionOver(s)
    PROVE  Waits'
<1> USE DEF IInv, Types, AskTypes, MemberTypes, Waits
<1>1. CASE SessionOver(s)
    BY <1>1, EndsWaits DEF SessionOver
<1>2. ASSUME StartShell(s) \/ ShowKey(s) \/ ShellEnds(s) \/ SocketEnds(s)
      PROVE  Waits'
    <2>1. UNCHANGED <<listenerVars, talk, up>>
        BY <1>2 DEF StartShell, ShowKey, ShellEnds, SocketEnds
    <2>2. AskerRuns' /\ EndsSeen'
        BY <2>1 DEF AskerRuns, EndsSeen
    <2>3. MembersLive'
        <3>1. CASE StartShell(s)
            <4>1. proc[s] = "running" /\ shell[s] = "none" /\ UNCHANGED <<life, member>>
                  /\ shell' = [shell EXCEPT ![s] = "running"]
                BY <3>1 DEF StartShell
            <4>2. ~Over(s)
                BY <4>1 DEF Over
            <4> QED
                BY <2>1, <4>1, <4>2, OverSame DEF MembersLive
        <3>2. CASE ShellEnds(s)
            BY <2>1, <3>2, OverSame DEF ShellEnds, MembersLive
        <3>3. CASE ShowKey(s)
            BY <2>1, <3>3, OverSame DEF ShowKey, M!Join, M!Admit, M!Leave, MembersLive
        <3>4. CASE SocketEnds(s)
            BY <2>1, <3>4, OverSame DEF SocketEnds, M!Leave, MembersLive
        <3> QED
            BY <1>2, <3>1, <3>2, <3>3, <3>4
    <2> QED
        BY <2>2, <2>3
<1> QED
    BY <1>1, <1>2

LEMMA OtherWaits ==
    ASSUME IInv, Waits,
           OtherLocks \/ OtherEnds \/ LateEnds \/ Crash \/ Restart \/ \E k \in Key : KeyTimeout(k)
    PROVE  Waits'
<1> USE DEF IInv, Types, AskTypes, ServerTypes, MemberTypes, Waits
<1>1. CASE OtherLocks \/ OtherEnds
    BY <1>1, OverSame DEF OtherLocks, OtherEnds, AskerRuns, EndsSeen, MembersLive
<1>2. CASE Crash
    BY <1>2, DiesWaits DEF Crash
<1>3. CASE Restart
    <2>1. AskerRuns'
        BY <1>3 DEF Restart, AskerRuns
    <2>2. EndsSeen' /\ MembersLive'
        BY <1>3, OverSame DEF Restart, EndsSeen, MembersLive
    <2> QED
        BY <2>1, <2>2
<1>4. ASSUME NEW k \in Key, KeyTimeout(k) PROVE Waits'
    <2>1. UNCHANGED <<proc, main, sigchld, shell, talk, up, life, member>>
        BY <1>4 DEF KeyTimeout, Expire, M!Expire
    <2> QED
        BY <2>1, OverSame DEF AskerRuns, EndsSeen, MembersLive
<1>5. CASE LateEnds
    <2>1. UNCHANGED <<proc, main, sigchld, shell, talk, up, life, member>>
        BY <1>5 DEF LateEnds, M!Issue
    <2> QED
        BY <2>1, OverSame DEF AskerRuns, EndsSeen, MembersLive
<1> QED
    BY <1>1, <1>2, <1>3, <1>4, <1>5

LEMMA NextWaits == IInv /\ Waits /\ [Next]_vars => Waits'
<1> SUFFICES ASSUME IInv, Waits, [Next]_vars PROVE Waits'
    OBVIOUS
<1>1. CASE UNCHANGED vars
    BY <1>1, OverSame DEF Waits, AskerRuns, EndsSeen, MembersLive
<1> QED
    BY <1>1, GatewayWaits, OtherWaits, AskingWaits, AuthWaits, ShellWaits DEF Next, Asks

\* Nobody waits for something that nobody will do: no request without its
\* process and its server, no lock without somebody past it, no process that ended
\* without its signal, no member without a connection whose end is to come.
THEOREM NobodyForgottenHolds == Spec => []NobodyForgotten
<1>1. IInv /\ Waits => NobodyForgotten
    <2> SUFFICES ASSUME IInv, Waits PROVE NobodyForgotten
        OBVIOUS
    <2>1. \A s \in Session : Over(s) /\ member[s] # NoUser => shell[s] = "ended"
        BY DEF IInv, Types, AskTypes, Waits, MembersLive
    <2> QED
        BY <2>1 DEF IInv, Disturbance, Waits, AskerRuns, EndsSeen, MembersLive, NobodyForgotten
<1>2. Spec => []Waits
    BY InitWaits, NextWaits, Invariance, PTL DEF Spec
<1> QED
    BY <1>1, <1>2, Invariance, PTL

-----------------------------------------------------------------------------
(* Each session is a Shell: its steps, and the steps of all others.        *)

LEMMA EndsOutside ==
    ASSUME IInv, NEW s \in Session, ProcessEnds(s), shell[s] # "running",
           NEW t \in Session
    PROVE  Outside(t)!Leave \/ UNCHANGED Outside(t)!vars
BY DEF IInv, Types, AskTypes, ProcessEnds, Outside!Leave, Outside!vars

LEMMA StepOutside ==
    ASSUME IInv, [Next]_vars, NEW t \in Session
    PROVE  [Outside(t)!Next]_(Outside(t)!vars)
<1> USE DEF IInv, Types, AskTypes, Outside!Next, Outside!vars
<1>1. CASE UNCHANGED shellVars
    BY <1>1
<1>2. ASSUME NEW s \in Session, AskNobody(s) \/ SessionOver(s)
      PROVE  [Outside(t)!Next]_(Outside(t)!vars)
    <2>1. ProcessEnds(s) /\ shell[s] # "running"
        BY <1>2 DEF AskNobody, MayAsk, SessionOver, AskFits
    <2> QED
        BY <2>1, EndsOutside
<1>3. ASSUME NEW s \in Session, GotKey(s)
      PROVE  [Outside(t)!Next]_(Outside(t)!vars)
    <2>1. stage[s] = "login"
        BY <1>3 DEF GotKey, AskFits
    <2> QED
        BY <1>3, <2>1 DEF GotKey, Outside!Admit
<1>4. ASSUME NEW s \in Session, StartShell(s)
      PROVE  [Outside(t)!Next]_(Outside(t)!vars)
    BY <1>4 DEF StartShell, Outside!Start
<1>5. ASSUME NEW s \in Session, ShellEnds(s)
      PROVE  [Outside(t)!Next]_(Outside(t)!vars)
    BY <1>5 DEF ShellEnds, Outside!End
<1>6. \/ UNCHANGED shellVars
      \/ \E s \in Session : AskNobody(s) \/ SessionOver(s) \/ GotKey(s) \/ StartShell(s)
                                \/ ShellEnds(s)
    BY DEF Next, Gateway, OtherLocks, OtherEnds, LateEnds, Crash, Dies, Restart, KeyTimeout,
        AskIllegal, Ask, Auth, AuthBegins, AuthTorn, AuthGarbled, AuthEnds, AuthThrows, GotLess, ShowKey, SocketEnds
<1> QED
    BY <1>1, <1>2, <1>3, <1>4, <1>5, <1>6

\* Every session, whatever the others, the server and the main program do,
\* is the Shell that Gateway implements: at most one bbs.js, only after the
\* login, and none left when the session is gone.
THEOREM SessionsAreShells == Spec => EachIsShell
<1>1. Init => \A s \in Session : Outside(s)!Init
    BY DEF Init, Outside!Init
<1>2. IInv /\ [Next]_vars => \A s \in Session : [Outside(s)!Next]_(Outside(s)!vars)
    BY StepOutside
<1> QED
    BY <1>1, <1>2, Invariance, PTL DEF Spec, EachIsShell

=============================================================================
