------------------------------ MODULE Sessions ------------------------------
(***************************************************************************)
(* Logging on from end to end: ssh connections accepted by the gateway     *)
(* (Listener), each a Shell, ask server.js for a key (getkey and auth());  *)
(* the bbs.js they start shows the key to server.js, whose keys and        *)
(* members are a Membership.  The server may die and be started again.     *)
(*                                                                         *)
(* The lock is auth.lock.  Password changes and add-user.js take it too,   *)
(* one of them at a time here.                                             *)
(*                                                                         *)
(* getkey puts the name and the password into JSON as they are.  Plain     *)
(* text is read back as it was typed.  In text with a quote, a backslash   *)
(* or a control character the server may read any name and password, or    *)
(* lines that ask for something else, or nothing.                          *)
(***************************************************************************)
EXTENDS Listener

CONSTANTS
    Key, User, NoUser, NoKey,
    MaxTries   \* bound: the attempts of each session (the code looks whether
               \* there were 3 between polls only, so some more are possible)

ASSUME SessionsAssumption ==
    NoUser \notin User /\ NoKey \notin Key /\ MaxTries \in [Session -> Nat]

VARIABLES
    stage, shell,   \* per session: Shell
    talk,           \* per session, its connection to the server: "no", "sent",
                    \* "inside" (auth() is past the lock), "closed" or "key"
    who, right,     \* per session: the user asked for and whether the password
                    \* is right, as the server reads them if it does
    unread,         \* per session: the server has read no request for a key
    tries,          \* per session: sdata.auth_attempts
    key,            \* per session: the key on its way or held in sdata.key
    disturbed,      \* per session, history: somebody else took part in the
                    \* attempt, or something broke
    up,             \* the server runs
    lock,           \* "free", "taken" or "stale" (it was left by the dead)
    other,          \* whoever else locks: "no", "checked" (it has seen no
                    \* lock), "inside", or "late", an auth() whose session has
                    \* its answer already
    timers,         \* keys whose setTimeout(keyWindow) has not fired
    life, member, ticket, fresh   \* Membership; a session is its connection

shellVars  == <<stage, shell>>
askVars    == <<talk, who, right, unread, tries, key, disturbed>>
memberVars == <<life, member, ticket, fresh>>
lockVars   == <<lock, other>>
serverVars == <<up, lockVars, timers, memberVars>>
vars       == <<listenerVars, shellVars, askVars, serverVars>>

\* A connection of getkey may be a member, too, under a fixed name (see
\* AuthGarbled), and so it may in ChatServer; no user and no ticket of these
\* sessions depends on it, and it is left out here.
M == INSTANCE Membership WITH Socket <- Session, FixedNames <- {}

Init ==
    /\ ListenerInit
    /\ stage = [s \in Session |-> "login"] /\ shell = [s \in Session |-> "none"]
    /\ talk = [s \in Session |-> "no"] /\ unread = [s \in Session |-> FALSE]
    /\ who = [s \in Session |-> NoUser] /\ right = [s \in Session |-> FALSE]
    /\ tries = [s \in Session |-> 0] /\ key = [s \in Session |-> NoKey]
    /\ disturbed = [s \in Session |-> FALSE]
    /\ up = TRUE /\ lock = "free" /\ other = "no" /\ timers = {}
    /\ M!Init

Set(f, s, v) == f' = [f EXCEPT ![s] = v]
Asking(s)    == talk[s] # "no"
AtServer(s)  == talk[s] \in {"sent", "inside"}
Over(s)      == proc[s] \in {"zombie", "reaped"}

\* The attempt is over, and what it was about is forgotten.
Forgotten(s) ==
    Set(who, s, NoUser) /\ Set(right, s, FALSE) /\ Set(unread, s, FALSE)
    /\ Set(key, s, NoKey) /\ Set(disturbed, s, FALSE)

\* The process of the session exits or is killed; what it knew is lost.
ProcessEnds(s) ==
    /\ SessionEnds(s)
    /\ Set(stage, s, "gone") /\ UNCHANGED shell
    /\ Forgotten(s) /\ Set(tries, s, 0) /\ UNCHANGED talk
    /\ UNCHANGED serverVars

-----------------------------------------------------------------------------
(* getkey() in the session process, and auth() in the server.              *)

MayAsk(s) ==
    proc[s] = "running" /\ stage[s] = "login" /\ ~Asking(s) /\ tries[s] < MaxTries[s]

\* A name or password of illegal length is not sent, though right it may be.
AskIllegal(s, isRight) ==
    /\ MayAsk(s)
    /\ Set(talk, s, "closed") /\ Set(right, s, isRight) /\ Set(unread, s, TRUE)
    /\ UNCHANGED <<listenerVars, shellVars, who, tries, key, disturbed, serverVars>>

\* connect and sendto, then recvfrom waits.
Ask(s, u, isRight) ==
    /\ MayAsk(s) /\ up
    /\ Set(talk, s, "sent") /\ Set(who, s, u) /\ Set(right, s, isRight)
    /\ disturbed' = [t \in Session |->
          IF t = s THEN lock = "stale" \/ other # "no" \/ \E o \in Session \ {s} : AtServer(o)
          ELSE disturbed[t] \/ AtServer(t)]
    /\ UNCHANGED <<listenerVars, shellVars, unread, tries, key, serverVars>>

\* With no server the send on the unconnected socket raises SIGPIPE.
AskNobody(s) == MayAsk(s) /\ ~up /\ ProcessEnds(s)

\* socket.destroy() after a refusal.
RefuseSilently(s) == Set(talk, s, "inside")   \* a mutant: destroy() forgotten
Refuse(s)         == Set(talk, s, "closed")

\* auth() begins: the lock is seen, or taken.
AuthBegins(s) ==
    /\ up /\ talk[s] = "sent"
    /\ IF lock = "free"
       THEN lock' = "taken" /\ Set(talk, s, "inside")
       ELSE Refuse(s) /\ UNCHANGED lock
    /\ UNCHANGED <<listenerVars, shellVars, who, right, unread, tries, key, disturbed, up, other,
                   timers, memberVars>>

\* The request came in pieces: the server cannot parse the first.
AuthTorn(s) ==
    /\ up /\ talk[s] = "sent"
    /\ Refuse(s)
    /\ Set(disturbed, s, TRUE)
    /\ UNCHANGED <<listenerVars, shellVars, who, right, unread, tries, key, serverVars>>

\* A quote, a backslash or a control character was in the text, and it is no
\* JSON; or it holds the line of a key that needs no ticket, and getkey's own
\* connection joins; or a whole request, and after it a line that ends the
\* connection or makes it join, while auth() goes on.  getkey always reads
\* something other than 64 bytes.
AuthGarbled(s) ==
    /\ up /\ talk[s] = "sent"
    /\ Refuse(s) /\ Set(unread, s, TRUE)
    /\ \/ UNCHANGED lockVars
       \/ lock = "free" /\ lock' = "taken" /\ other = "no" /\ other' = "late"
    /\ UNCHANGED <<listenerVars, shellVars, who, right, tries, key, disturbed, up, timers,
                   memberVars>>

\* Nobody waits for the answer of that auth(), which may be a key.
LateEnds ==
    /\ up /\ other = "late" /\ other' = "no"
    /\ lock # "free" /\ lock' = "free"
    /\ \/ UNCHANGED <<timers, memberVars>>
       \/ \E u \in User, k \in Key :
             M!Issue(u, k) /\ UNCHANGED life /\ timers' = timers \cup {k}
    /\ UNCHANGED <<listenerVars, shellVars, askVars, up>>

\* The callback of db.get: close, unlink, then compare and issue a key.
UnlockedIfRight(s) == IF right[s] THEN "free" ELSE "taken"   \* a mutant
Unlocked(s)        == "free"
NameShared(s) ==   \* a mutant: the name in a variable that all requests share
    IF \E t \in Session \ {s} : talk[t] = "sent"
    THEN who[CHOOSE t \in Session \ {s} : talk[t] = "sent"] ELSE who[s]
NameOf(s) == who[s]
AuthEnds(s) ==
    /\ up /\ talk[s] = "inside"
    /\ lock # "free" /\ lock' = Unlocked(s)
    /\ \/ /\ right[s]
          /\ \E k \in Key :
                /\ M!Issue(NameOf(s), k) /\ UNCHANGED life
                /\ Set(key, s, k) /\ timers' = timers \cup {k}
          /\ Set(talk, s, "key")
          /\ UNCHANGED disturbed
       \/ ~right[s] /\ Refuse(s) /\ UNCHANGED <<key, timers, memberVars, disturbed>>
       \/ /\ Refuse(s) /\ Set(disturbed, s, TRUE)   \* an error of LevelDB
          /\ UNCHANGED <<key, timers, memberVars>>
    /\ UNCHANGED <<listenerVars, shellVars, who, right, unread, tries, up, other>>

\* recvfrom returns the whole key ...
GotKey(s) ==
    /\ proc[s] = "running" /\ talk[s] = "key"
    /\ Set(talk, s, "no") /\ Set(stage, s, "open")
    /\ Set(disturbed, s, FALSE)
    /\ UNCHANGED <<listenerVars, shell, who, right, unread, tries, key, serverVars>>

\* ... or the first piece of it, which is thrown away, or nothing.
GotLess(s) ==
    /\ proc[s] = "running" /\ talk[s] \in {"key", "closed"}
    /\ Set(talk, s, "no") /\ Set(tries, s, tries[s] + 1) /\ Forgotten(s)
    /\ UNCHANGED <<listenerVars, shellVars, serverVars>>

-----------------------------------------------------------------------------
(* The session: Shell, with the member its bbs.js is.                      *)

\* bbs.js is started with the key and shows it to the server.
StartShell(s) ==
    /\ proc[s] = "running" /\ stage[s] = "open" /\ shell[s] = "none"
    /\ Set(shell, s, "running")
    /\ UNCHANGED <<listenerVars, stage, askVars, serverVars>>

ShowKey(s) ==
    /\ shell[s] = "running" /\ life[s] = "out" /\ up
    /\ IF ticket[key[s]] # NoUser THEN M!Join(s, key[s]) ELSE M!Leave(s)
    /\ UNCHANGED <<listenerVars, shellVars, askVars, up, lockVars, timers>>

\* bbs.js exits: its user quits, its connection is closed or refused, or the
\* gateway kills it because the ssh connection is gone.
ShellEnds(s) ==
    /\ shell[s] = "running"
    /\ Set(shell, s, "ended")
    /\ UNCHANGED <<listenerVars, stage, askVars, serverVars>>

\* 'end', 'error' or 'quit': kill().
SocketEnds(s) ==
    /\ up /\ shell[s] = "ended" /\ life[s] # "gone"
    /\ M!Leave(s)
    /\ UNCHANGED <<listenerVars, shellVars, askVars, up, lockVars, timers>>

\* Too many attempts, ten seconds, a lost connection, or the end of bbs.js.
SessionOver(s) ==
    /\ proc[s] \in {"forked", "running"} /\ ~Asking(s) /\ shell[s] # "running"
    /\ ProcessEnds(s)

-----------------------------------------------------------------------------
(* The server and the others.                                              *)

\* The timer of a key looks whether its user is logged on.
ExpireUser(k) ==   \* a mutant: every key of the user is deleted
    /\ ticket' = [j \in Key |-> IF ticket[j] = ticket[k] THEN NoUser ELSE ticket[j]]
    /\ UNCHANGED <<life, member, fresh>>
Expire(k) == M!Expire(k)
KeyTimeout(k) ==
    /\ up /\ k \in timers
    /\ timers' = timers \ {k}
    /\ IF ticket[k] # NoUser /\ ~M!Online(ticket[k])
       THEN Expire(k) ELSE UNCHANGED memberVars
    /\ UNCHANGED <<listenerVars, shellVars, askVars, up, lockVars>>

\* A password change or add-user.js looks for the lock, creates it, which
\* succeeds on a file that exists, and opens the store ...
OtherLocks ==
    /\ \/ other = "no" /\ lock = "free" /\ other' = "checked" /\ UNCHANGED lock
       \/ other = "checked" /\ other' = "inside" /\ lock' = "taken"
    /\ disturbed' = [s \in Session |-> disturbed[s] \/ AtServer(s)]
    /\ UNCHANGED <<listenerVars, shellVars, talk, who, right, unread, tries, key, up, timers,
                   memberVars>>

\* What the dead leave: the lock is a file.
Left(inside) == IF lock = "taken" /\ ~inside THEN "stale" ELSE lock
SomeInside   == \E s \in Session : talk[s] = "inside"

\* ... and unlinks, whoever's lock it is; or it dies before that, of the
\* missing file, of the store that is open already, or killed.
OtherEnds ==
    /\ other \in {"checked", "inside"} /\ other' = "no"
    /\ lock' = Left(SomeInside) \/ (other = "inside" /\ lock # "free" /\ lock' = "free")
    /\ UNCHANGED <<listenerVars, shellVars, askVars, up, timers, memberVars>>

\* The server dies: keys, members and timers were in its memory, and the
\* kernel closes its connections.  Whoever else locks may have been part of
\* it.
Dies ==
    /\ up /\ up' = FALSE /\ timers' = {}
    /\ other' \in {other, "no"} \ {"late"} /\ lock' = Left(other' = "inside")
    /\ talk' = [s \in Session |-> IF AtServer(s) THEN "closed" ELSE talk[s]]
    /\ disturbed' = [s \in Session |-> disturbed[s] \/ AtServer(s)]
    /\ life' = [s \in Session |-> IF life[s] = "in" THEN "gone" ELSE life[s]]
    /\ member' = [s \in Session |-> NoUser]
    /\ ticket' = [k \in Key |-> NoUser]
    /\ UNCHANGED <<listenerVars, shellVars, who, right, unread, tries, key, fresh>>

\* Of an exception: auth() misses its lock, or finds the store open; or else.
AuthThrows(s) == talk[s] = "inside" /\ (lock = "free" \/ other \in {"inside", "late"}) /\ Dies
Crash         == Dies

Restart ==
    /\ ~up /\ up' = TRUE
    /\ lock' \in IF lock = "stale" THEN {"stale", "free"} ELSE {lock}
    /\ UNCHANGED <<listenerVars, shellVars, askVars, other, timers, memberVars>>

\* The main program and the kernel.
Gateway ==
    /\ \/ Start \/ Handler \/ Stop
       \/ \E s \in Session : Knock(s) \/ Accept(s) \/ SessionBegins(s)
    /\ UNCHANGED <<shellVars, askVars, serverVars>>

Auth(s) == AuthBegins(s) \/ AuthTorn(s) \/ AuthGarbled(s) \/ AuthEnds(s) \/ AuthThrows(s)

Next ==
    \/ Gateway \/ OtherLocks \/ OtherEnds \/ LateEnds \/ Crash \/ Restart
    \/ \E k \in Key : KeyTimeout(k)
    \/ \E s \in Session :
          \/ AskNobody(s)
          \/ \E isRight \in BOOLEAN :
                AskIllegal(s, isRight) \/ \E u \in User : Ask(s, u, isRight)
          \/ Auth(s) \/ GotKey(s) \/ GotLess(s)
          \/ StartShell(s) \/ ShowKey(s) \/ ShellEnds(s) \/ SocketEnds(s)
          \/ SessionOver(s)

Spec == Init /\ [][Next]_vars

\* The server's callbacks are called, processes go on, a signal is handled
\* and the end of a connection is seen.  Nobody has to connect, to ask, to
\* quit, or to start a program.
Serves(s) == Auth(s) \/ SocketEnds(s)
GoesOn(s) ==
    \/ SessionBegins(s) /\ UNCHANGED <<shellVars, askVars, serverVars>>
    \/ GotKey(s) \/ GotLess(s)

FairSpec ==
    /\ Spec
    /\ WF_vars(Handler /\ UNCHANGED <<shellVars, askVars, serverVars>>)
    /\ \A s \in Session : WF_vars(Serves(s)) /\ WF_vars(GoesOn(s))

-----------------------------------------------------------------------------
(* Properties.                                                             *)

\* The types of the variables.
TypeOK ==
    /\ ListenerTypeOK
    /\ stage \in [Session -> {"login", "open", "gone"}]
    /\ shell \in [Session -> {"none", "running", "ended"}]
    /\ talk \in [Session -> {"no", "sent", "inside", "closed", "key"}]
    /\ who \in [Session -> User \cup {NoUser}] /\ right \in [Session -> BOOLEAN]
    /\ unread \in [Session -> BOOLEAN]
    /\ tries \in [Session -> Nat] /\ \A s \in Session : tries[s] <= MaxTries[s]
    /\ key \in [Session -> Key \cup {NoKey}]
    /\ disturbed \in [Session -> BOOLEAN]
    /\ up \in BOOLEAN
    /\ lock \in {"free", "taken", "stale"} /\ other \in {"no", "checked", "inside", "late"}
    /\ timers \subseteq Key \ fresh
    /\ life \in [Session -> {"out", "in", "gone"}]
    /\ member \in [Session -> User \cup {NoUser}]
    /\ ticket \in [Key -> User \cup {NoUser}] /\ fresh \subseteq Key

\* Whoever is in the chat through the bbs.js of a session has shown the right
\* password of that very user in that very session, and no two sessions have a
\* key in common: whatever other sessions log on, are refused or crash
\* meanwhile.  (The user is the one the server has read, which is the one
\* typed when the text was plain.  A connection of getkey that joins under a
\* fixed name has shown nothing.)
OwnName ==
    /\ \A s \in Session : member[s] # NoUser /\ ~Over(s) => member[s] = who[s] /\ right[s]
    /\ \A s, t \in Session : key[s] = key[t] /\ key[s] # NoKey => s = t

\* A key that the gateway holds is good until its timer has fired (the server
\* has not crashed): the bbs.js started in time logs on.
HeldKeyGood ==
    \A s \in Session :
        stage[s] = "open" /\ life[s] = "out" /\ key[s] \in timers => ticket[key[s]] = who[s]

\* A right password is refused only if somebody else came in between or
\* something broke during that attempt, or if the text was garbled or of a
\* length that is not sent: no attempt that is over, of anybody, makes the
\* server or the gateway refuse it.
AloneAdmitted ==
    [][\A s \in Session : tries'[s] > tries[s] /\ right[s] =>
          disturbed[s] \/ talk[s] = "key" \/ unread[s]]_vars

\* Nobody waits for something that nobody will do.  Whoever asks for a key has
\* a process to take the answer, and until that has come a server that is up;
\* a lock that does not stem from a death has somebody past it who will
\* unlink it (perhaps another than its owner, who then dies of that: the lock
\* keeps nobody out of add-user.js between its two system calls); a process to
\* be waited for has its signal pending, though several ends make one signal;
\* and the member left of a session that is over has a connection whose end
\* the server, which is up, has still to see.
NobodyForgotten ==
    /\ \A s \in Session :
          Asking(s) => proc[s] = "running" /\ (AtServer(s) => up)
    /\ lock = "taken" => SomeInside \/ other \in {"inside", "late"}
    /\ \A s \in Session : proc[s] = "zombie" => main = "listening" /\ sigchld
    /\ \A s \in Session :
          Over(s) /\ member[s] # NoUser => up /\ shell[s] = "ended" /\ life[s] = "in"

\* Each session, seen from outside, is a Shell, as a session of Gateway is.
Outside(s) == INSTANCE Shell WITH stage <- stage[s], shell <- shell[s]
EachIsShell ==
    /\ \A s \in Session : Outside(s)!Init
    /\ [][\A s \in Session : [Outside(s)!Next]_(Outside(s)!vars)]_vars

\* A session that asks for a key gets an answer: getkey() does not hang.
AskingAnswered == \A s \in Session : []<>~Asking(s)

\* A session that is over leaves nothing behind in the end, neither a process
\* nor the member its bbs.js was in the chat; and a main program that was stopped can
\* be started again while its sessions go on (gateway.c:477-478).
NothingLeft ==
    /\ \A s \in Session :
          []<>(Over(s) => proc[s] = "reaped" /\ (up => member[s] = NoUser))
    /\ []<>(main = "down" => ~PortHeld)

=============================================================================
