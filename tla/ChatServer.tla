----------------------------- MODULE ChatServer -----------------------------
(***************************************************************************)
(* The session layer of server.js: the sockets, the one-time logon keys    *)
(* with their expiry timers, the list of logged-on clients and what is     *)
(* written to each of them.                                                *)
(*                                                                         *)
(* node runs one handler at a time, so a handler - a line of a 'data'      *)
(* event, an 'end', an 'error', a timer, a callback of LevelDB - is one    *)
(* action.  Any connection may send any line.  The lines of a chunk are    *)
(* handled to the last one even if an earlier one destroys the socket:     *)
(* the handlers of lines ask whether the socket is logged on, never        *)
(* whether it is open.  (The model lets other handlers run between the     *)
(* lines of such a chunk; node does not.)                                  *)
(*                                                                         *)
(* The password database is the module Accounts; here an answer of auth()  *)
(* or changePassword() is an input.                                        *)
(***************************************************************************)
EXTENDS Naturals, Sequences, FiniteSets

CONSTANTS
    Socket,      \* connections a chat client may open, each used once
    Key,         \* keys generateKey() may return; fresh ones never repeat
    User,        \* account names that pass auth()
    FixedKey,    \* keys that always log on: 'debug', which handleNew itself puts
                 \* into the table, and what 'in' finds in every object, such
                 \* as 'constructor'
    FixedName,   \* the name each of them logs on
    NoUser,      \* the value false of socket.username, a missing entry of keys
    NoKey,       \* the value false of socket.key
    NoSocket,    \* no socket has used the key, or is waiting
    MaxBacklog   \* bound: input is taken while every unread stream is shorter

Name   == User \cup {FixedName[k] : k \in FixedKey}
AnyKey == Key \cup FixedKey

Requests == Socket \X {"auth", "password"}

ASSUME ConstantsAssumption ==
    /\ NoUser \notin Name
    /\ NoKey \notin AnyKey
    /\ FixedKey \cap Key = {}
    /\ NoSocket \notin Socket \cup Requests
    /\ MaxBacklog \in Nat

VARIABLES
    conn,           \* "new", "open" or "destroyed", the life of a net.Socket
    authenticated,  \* socket.authenticated
    username,       \* socket.username
    sockKey,        \* socket.key
    clients,        \* the array of logged-on sockets, in logon order
    keys,           \* keys issued and not yet used: the user of each
    keyTimers,      \* keys whose setTimeout(keyWindow) has not fired
    toClient,       \* per socket, written by the server and not yet read
    pending,        \* the request of a socket that LevelDB is working on
    issuedTo,       \* history: whom a key was generated for
    usedBy          \* history: the socket that logged on with a key

socketVars  == <<conn, authenticated, username, sockKey>>
keyVars     == <<keys, keyTimers, issuedTo, usedBy>>
serverVars  == <<socketVars, clients, keyVars, toClient, pending>>

-----------------------------------------------------------------------------
(* Messages, server to client; bodies are left out.                        *)

UserMsg(u)   == [type |-> "user", nick |-> u]
JoinMsg(u)   == [type |-> "join", nick |-> u]
QuitMsg(u)   == [type |-> "quit", nick |-> u]
PubMsg(u)    == [type |-> "pubmsg", nick |-> u]
PrivMsg(u)   == [type |-> "privmsg", nick |-> u]
ErrorMsg     == [type |-> "error"]
NoticeMsg    == [type |-> "notice"]
StatusMsg(n) == [type |-> "status", count |-> n]
UsersMsg(f)  == [type |-> "users", users |-> f]

ServerMsg ==
    [type : {"user", "join", "quit", "pubmsg", "privmsg"}, nick : Name]
        \cup {JoinMsg(NoUser)} \cup [type : {"error", "notice"}]
        \cup [type : {"status"}, count : Nat]
        \cup [type : {"users"}, users : [Name -> Nat]]

-----------------------------------------------------------------------------
(* Helpers of server.js.                                                   *)

Members(list) == {list[i] : i \in DOMAIN list}

\* How many connections each user has: the object sendUsers() builds.
Connections(u) == {i \in DOMAIN clients : username[clients[i]] = u}
UserCounts     == [u \in Name |-> Cardinality(Connections(u))]

\* getSocketByUsername: is the user logged on, and the oldest such socket.
LoggedOn(u) == Connections(u) # {}
SocketByUsername(u) ==
    clients[CHOOSE i \in Connections(u) : \A j \in Connections(u) : i <= j]

\* removeSocket: clients.splice(clients.indexOf(socket), 1).
IndexOf(list, s) ==
    CHOOSE i \in DOMAIN list :
        list[i] = s /\ \A j \in DOMAIN list : list[j] = s => i <= j
RemoveSocketUnchecked(list, s) ==   \* a mutant: the test for -1 forgotten
    IF list = <<>> THEN list
    ELSE LET n == IF s \in Members(list) THEN IndexOf(list, s) ELSE Len(list)
         IN  [i \in 1..(Len(list) - 1) |-> IF i < n THEN list[i] ELSE list[i + 1]]
RemoveSocketNever(list, s) == list  \* a mutant: the call forgotten
RemoveSocket(list, s) ==
    IF s \in Members(list)
    THEN [i \in 1..(Len(list) - 1) |->
            IF i < IndexOf(list, s) THEN list[i] ELSE list[i + 1]]
    ELSE list

\* A write to a socket that has been destroyed is lost.
Reaches(s) == conn[s] = "open"
Send(s, m) == toClient' = IF Reaches(s) THEN [toClient EXCEPT ![s] = Append(@, m)] ELSE toClient

\* broadcast: one write to every listed socket but the sender.
BroadcastToAll(out, list, from, m) ==   \* a mutant: the sender not skipped
    [t \in Socket |-> IF t \in Members(list) /\ Reaches(t) THEN Append(out[t], m) ELSE out[t]]
Broadcast(out, list, from, m) ==
    [t \in Socket |-> IF t \in Members(list) \ {from} /\ Reaches(t)
                      THEN Append(out[t], m)
                      ELSE out[t]]

\* What a client that logs on is sent, n clients being on.
WelcomeNoJoin(u, n)    == <<UserMsg(u), StatusMsg(n)>>               \* a mutant
WelcomeJoinFirst(u, n) == <<JoinMsg(u), UserMsg(u), StatusMsg(n)>>   \* a mutant
Welcome(u, n)          == <<UserMsg(u), JoinMsg(u), StatusMsg(n)>>

\* What the others are sent when s is killed, its name not yet reset.
FarewellTooLate(s) == QuitMsg(NoUser)        \* a mutant: name reset before
Farewell(s)        == QuitMsg(username[s])

Talking(s) == conn[s] = "open" /\ authenticated[s]

-----------------------------------------------------------------------------
Init ==
    /\ conn = [s \in Socket |-> "new"]
    /\ authenticated = [s \in Socket |-> FALSE]
    /\ username = [s \in Socket |-> NoUser]
    /\ sockKey = [s \in Socket |-> NoKey]
    /\ clients = <<>>
    /\ keys = [k \in AnyKey |-> NoUser]
    /\ keyTimers = {}
    /\ toClient = [s \in Socket |-> <<>>]
    /\ pending = NoSocket
    /\ issuedTo = [k \in AnyKey |-> NoUser]
    /\ usedBy = [k \in AnyKey |-> NoSocket]

\* net.createServer's callback: a client has connected.
Connection(s) ==
    /\ conn[s] = "new"
    /\ conn' = [conn EXCEPT ![s] = "open"]
    /\ authenticated' = [authenticated EXCEPT ![s] = FALSE]
    /\ username' = [username EXCEPT ![s] = NoUser]
    /\ sockKey' = [sockKey EXCEPT ![s] = NoKey]
    /\ UNCHANGED <<clients, keyVars, toClient, pending>>

\* auth() has accepted u: the key is stored and its window opens.
StoreKey(u, k) ==
    /\ issuedTo[k] = NoUser
    /\ keys' = [keys EXCEPT ![k] = u]
    /\ issuedTo' = [issuedTo EXCEPT ![k] = u]
    /\ keyTimers' = keyTimers \cup {k}
    /\ UNCHANGED <<clients, usedBy, toClient>>

\* For a connection of the gateway's getkey(), which sends nothing else.
IssueKey(u, k) == StoreKey(u, k) /\ UNCHANGED <<socketVars, pending>>

\* The setTimeout callback keyWindow ms after IssueKey.
KeyTimeout(k) ==
    /\ k \in keyTimers
    /\ keyTimers' = keyTimers \ {k}
    /\ keys' = IF LoggedOn(issuedTo[k])
               THEN keys
               ELSE [keys EXCEPT ![k] = NoUser]
    /\ UNCHANGED <<socketVars, clients, issuedTo, usedBy, toClient, pending>>

\* The key table as handleNew looks it up: 'debug' has just been put there,
\* and inherited names are in every table.
KeyTable(k) ==
    IF k \in FixedKey THEN [keys EXCEPT ![k] = FixedName[k]] ELSE keys

ConsumeNothing(k) == KeyTable(k)   \* a mutant: delete keys[msg.key] forgotten
Consume(k) == [KeyTable(k) EXCEPT ![k] = NoUser]

\* handleNew with a key that is in the table: the key is gone ...
TakeKey(s, k) ==
    /\ conn[s] # "new" /\ ~authenticated[s]
    /\ KeyTable(k)[k] # NoUser
    /\ keys' = Consume(k)
    /\ usedBy' = [usedBy EXCEPT ![k] = IF k \in FixedKey THEN @ ELSE s]
    /\ UNCHANGED <<conn, keyTimers, issuedTo, pending>>

\* ... and the client is logged on.
Logon(s, k) ==
    LET u    == KeyTable(k)[k]
        list == Append(clients, s)
    IN  /\ TakeKey(s, k)
        /\ authenticated' = [authenticated EXCEPT ![s] = TRUE]
        /\ username' = [username EXCEPT ![s] = u]
        /\ sockKey' = [sockKey EXCEPT ![s] = k]
        /\ clients' = list
        /\ toClient' =
             LET welcomed == IF Reaches(s)
                             THEN [toClient EXCEPT ![s] = @ \o Welcome(u, Len(list))]
                             ELSE toClient
             IN  Broadcast(welcomed, list, s, JoinMsg(u))

\* If an earlier line of the chunk has destroyed the socket, the first write
\* emits 'error' at once, which kills the socket in the middle of handleNew:
\* the others are told of the quit, then of the join of nobody.  (When older
\* output was still unsent node emits nothing, and Logon is what happens.)
LogonLate(s, k) ==
    /\ conn[s] = "destroyed" /\ TakeKey(s, k)
    /\ toClient' = LET told == Broadcast(toClient, clients, s, QuitMsg(KeyTable(k)[k]))
                   IN  Broadcast(told, clients, s, JoinMsg(NoUser))
    /\ UNCHANGED <<authenticated, username, sockKey, clients>>

\* socket.destroy(), without kill().
DestroyForgotten(s) == UNCHANGED serverVars   \* a mutant: left open
Destroy(s) ==
    /\ conn' = [conn EXCEPT ![s] = "destroyed"]
    /\ UNCHANGED <<authenticated, username, sockKey, clients, keyVars, toClient>>

\* handleNew with a key that is not (or no longer) in the table.
KeyRefused(s, k) ==
    /\ conn[s] # "new" /\ ~authenticated[s]
    /\ KeyTable(k)[k] = NoUser
    /\ Destroy(s) /\ UNCHANGED pending

\* handleNew with anything that is neither a key nor an auth request.
NotLoggedOn(s) ==
    /\ conn[s] # "new" /\ ~authenticated[s]
    /\ Destroy(s) /\ UNCHANGED pending

\* handleNew with an auth request: refused at once if the database is locked
\* (which it is while another request is pending), else LevelDB is asked.
OnAuth(s) ==
    /\ conn[s] # "new" /\ ~authenticated[s]
    /\ \/ Destroy(s) /\ UNCHANGED pending
       \/ /\ pending = NoSocket /\ pending' = <<s, "auth">>
          /\ UNCHANGED <<socketVars, clients, keyVars, toClient>>

\* Its callback destroys the socket, in case of success after the key has been
\* written.  A socket that has logged on meanwhile stays in the array.
AuthEnds(s) ==
    /\ pending = <<s, "auth">> /\ pending' = NoSocket
    /\ \/ Destroy(s)
       \/ /\ \E u \in User, k \in Key : StoreKey(u, k)
          /\ conn' = [conn EXCEPT ![s] = "destroyed"]
          /\ UNCHANGED <<authenticated, username, sockKey>>

\* kill(): delete keys[socket.key].
ForgetUser(s) ==   \* a mutant: the user's keys, not the socket's
    [k \in AnyKey |-> IF keys[k] = username[s] THEN NoUser ELSE keys[k]]
ForgetKey(s) ==
    IF sockKey[s] = NoKey THEN keys ELSE [keys EXCEPT ![sockKey[s]] = NoUser]

\* kill(socket, message).
Kill(s) ==
    LET list == RemoveSocket(clients, s)
    IN  /\ conn' = [conn EXCEPT ![s] = "destroyed"]
        /\ clients' = list
        /\ keys' = ForgetKey(s)
        /\ toClient' = IF authenticated[s]
                       THEN Broadcast(toClient, list, s, Farewell(s))
                       ELSE toClient
        /\ authenticated' = [authenticated EXCEPT ![s] = FALSE]
        /\ username' = [username EXCEPT ![s] = NoUser]
        /\ sockKey' = [sockKey EXCEPT ![s] = NoKey]
        /\ UNCHANGED <<keyTimers, issuedTo, usedBy>>

\* handleMessage of a logged-on socket, one action per command.
OnQuit(s)   == authenticated[s] /\ Kill(s) /\ UNCHANGED pending
Answer(s, m) ==
    /\ authenticated[s] /\ Send(s, m)
    /\ UNCHANGED <<socketVars, clients, keyVars>>
OnUsers(s)  == Answer(s, UsersMsg(UserCounts)) /\ UNCHANGED pending
OnStatus(s) == Answer(s, StatusMsg(Len(clients))) /\ UNCHANGED pending
OnPubmsg(s) ==
    /\ authenticated[s]
    /\ toClient' = Broadcast(toClient, clients, s, PubMsg(username[s]))
    /\ UNCHANGED <<socketVars, clients, keyVars, pending>>
OnPrivmsg(s, target) ==
    /\ authenticated[s]
    /\ IF LoggedOn(target)
       THEN Send(SocketByUsername(target), PrivMsg(username[s]))
       ELSE Send(s, ErrorMsg)
    /\ UNCHANGED <<socketVars, clients, keyVars, pending>>

\* 'password': refused at once (malformed, too short, locked), or LevelDB is
\* asked.
OnPassword(s) ==
    \/ Answer(s, NoticeMsg) /\ UNCHANGED pending
    \/ /\ authenticated[s] /\ pending = NoSocket /\ pending' = <<s, "password">>
       /\ UNCHANGED <<socketVars, clients, keyVars, toClient>>

\* Its last callback answers, whatever has become of the socket.  If it has
\* been destroyed the answer is lost, or makes an 'error'.
PasswordEnds(s) ==
    /\ pending = <<s, "password">> /\ pending' = NoSocket
    /\ \/ Send(s, NoticeMsg) /\ UNCHANGED <<socketVars, clients, keyVars>>
       \/ conn[s] = "destroyed" /\ Kill(s)

\* A line that JSON.parse or its handler rejects.
OnMalformed(s) == conn[s] # "new" /\ Kill(s) /\ UNCHANGED pending

\* The peer has closed its end.
OnEnd(s) == conn[s] = "open" /\ Kill(s) /\ UNCHANGED pending

\* A connection error; also emitted for a write after destroy().
OnError(s) == conn[s] # "new" /\ Kill(s) /\ UNCHANGED pending

\* The peer reads the oldest message written to it.
Read(s) ==
    /\ toClient[s] # <<>>
    /\ toClient' = [toClient EXCEPT ![s] = Tail(@)]
    /\ UNCHANGED <<socketVars, clients, keyVars, pending>>

-----------------------------------------------------------------------------
Room == \A s \in Socket : Len(toClient[s]) < MaxBacklog

Line(s) ==
    \/ \E k \in AnyKey : Logon(s, k) \/ LogonLate(s, k) \/ KeyRefused(s, k)
    \/ NotLoggedOn(s) \/ OnAuth(s)
    \/ OnQuit(s) \/ OnUsers(s) \/ OnStatus(s) \/ OnPubmsg(s) \/ OnPassword(s)
    \/ \E target \in Name : OnPrivmsg(s, target)
    \/ OnMalformed(s)

Next ==
    \/ /\ Room
       /\ \E s \in Socket :
             Connection(s) \/ Line(s) \/ OnEnd(s) \/ OnError(s) \/ AuthEnds(s) \/ PasswordEnds(s)
    \/ \E u \in User, k \in Key : IssueKey(u, k)
    \/ \E k \in Key : KeyTimeout(k)
    \/ \E s \in Socket : Read(s)

Spec == Init /\ [][Next]_serverVars

-----------------------------------------------------------------------------
(* Properties.                                                             *)

\* The types of the variables of server.js.
TypeOK ==
    /\ conn \in [Socket -> {"new", "open", "destroyed"}]
    /\ authenticated \in [Socket -> BOOLEAN]
    /\ username \in [Socket -> Name \cup {NoUser}]
    /\ sockKey \in [Socket -> AnyKey \cup {NoKey}]
    /\ clients \in Seq(Socket)
    /\ keys \in [AnyKey -> Name \cup {NoUser}]
    /\ keyTimers \subseteq Key
    /\ toClient \in [Socket -> Seq(ServerMsg)]
    /\ pending \in Requests \cup {NoSocket}
    /\ issuedTo \in [AnyKey -> User \cup {NoUser}]
    /\ usedBy \in [AnyKey -> Socket \cup {NoSocket}]

\* The clients array and the sockets' flags tell one story: the array holds
\* each logged-on socket exactly once, and all of them have a name.  kill() may
\* run several times on a socket ('quit', then 'error') and in any order with
\* logons, a key may come after a kill, and handlers trust either the flag or
\* the array.
ClientsAgree ==
    /\ Members(clients) = {s \in Socket : authenticated[s]}
    /\ \A i, j \in DOMAIN clients : clients[i] = clients[j] => i = j
    /\ \A s \in Members(clients) : conn[s] # "new" /\ username[s] # NoUser

\* Whoever is logged on with a generated key is the user that key was
\* generated for, and no key logs on two sockets, however logons, kills and
\* timers interleave.
LogonIdentity ==
    \A s \in Socket : authenticated[s] /\ sockKey[s] \notin FixedKey =>
        /\ username[s] = issuedTo[sockKey[s]]
        /\ usedBy[sockKey[s]] = s

\* A key that has logged a socket on never comes back: it stays out of the
\* table and stays that socket's, whoever presents it later.
KeySingleUse ==
    [][\A k \in Key : usedBy[k] # NoSocket =>
            keys'[k] = NoUser /\ usedBy'[k] = usedBy[k]]_serverVars

\* Until its own timer fires a key nobody has used is good: other sessions
\* of the same user that log on, quit or run out of time do not take it away.
KeyWindowHonoured ==
    \A k \in keyTimers : usedBy[k] = NoSocket => keys[k] = issuedTo[k]

\* From outside the session layer is a Membership: a key is a ticket for one
\* use under the name of its user and only its own timer takes it back, whoever
\* leaves, in whatever way, takes nobody else's ticket along, and a connection
\* that is gone is in the array only as a ghost.
Life(s) == IF authenticated[s]
           THEN IF conn[s] = "destroyed" THEN "ghost" ELSE "in"
           ELSE IF conn[s] = "destroyed" THEN "gone" ELSE "out"
Outside == INSTANCE Membership
             WITH life   <- [s \in Socket |-> Life(s)],
                  member <- username,
                  ticket <- [k \in Key |-> keys[k]],
                  FixedNames <- {FixedName[k] : k \in FixedKey},
                  fresh  <- {k \in Key : issuedTo[k] = NoUser}
IsMembership == Outside!Spec

=============================================================================
