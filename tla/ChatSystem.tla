----------------------------- MODULE ChatSystem -----------------------------
(***************************************************************************)
(* The server's session layer (ChatServer) together with the bbs.js        *)
(* processes it serves.  Each process has one connection: two FIFO streams *)
(* of whole messages, toServer and toClient.  A process may quit, be       *)
(* refused or be killed at any moment; the server learns of it from the    *)
(* stream ('quit', 'end') or from a reset ('error').                       *)
(***************************************************************************)
EXTENDS ChatServer, Integers

CONSTANTS
    AppKey,        \* the key each process got on its command line
    Disconnected,  \* the name '--Disconnected--' before the 'user' message
    MaxTyped       \* bound: commands a user types in one session

ASSUME SystemAssumption ==
    /\ AppKey \in [Socket -> AnyKey]
    /\ Disconnected \notin Name
    /\ MaxTyped \in Nat

VARIABLES
    proc,      \* "down", "running", "quitting" or "exited", per bbs.js process
    toServer,  \* per process, written to the server and not yet handled
    view,      \* the user list on the process's screen
    appName,   \* app.username
    typed,     \* commands typed so far
    heard      \* history: members at logon, corrected by each join and quit read

procVars == <<proc, view, appName, typed>>
sysVars  == <<serverVars, procVars, toServer, heard>>

-----------------------------------------------------------------------------
(* Messages, client to server.                                             *)

KeyLine(k)       == [type |-> "key", key |-> k]
PrivLine(target) == [type |-> "privmsg", target |-> target]
PasswordLine     == [type |-> "password"]
QuitLine         == [type |-> "quit"]
UsersLine        == [type |-> "users"]
PubLine          == [type |-> "pubmsg"]

Commands == {UsersLine, PubLine, PasswordLine} \cup {PrivLine(target) : target \in Name}
ClientMsg == Commands \cup {QuitLine} \cup {KeyLine(k) : k \in AnyKey}

Nobody  == [u \in Name |-> 0]
Alive(c) == proc[c] \in {"running", "quitting"}

\* What is written to a connection that is no longer there is lost.
Write(c, line) ==
    toServer' = IF conn[c] = "destroyed" THEN toServer
                ELSE [toServer EXCEPT ![c] = Append(@, line)]

-----------------------------------------------------------------------------
SysInit ==
    /\ Init
    /\ proc = [c \in Socket |-> "down"]
    /\ toServer = [c \in Socket |-> <<>>]
    /\ view = [c \in Socket |-> Nobody]
    /\ appName = [c \in Socket |-> Disconnected]
    /\ typed = [c \in Socket |-> 0]
    /\ heard = [c \in Socket |-> Nobody]

\* What the 'connect' handler of client.js writes.
HelloLate(c) == <<UsersLine, KeyLine(AppKey[c])>>   \* a mutant: the key second
Hello(c)     == <<KeyLine(AppKey[c])>>

\* The gateway has obtained the key and has started bbs.js, whose client
\* connects and sends the key.  One step: a connection on the loopback is up
\* before the process first looks at its terminal.
ClientStart(c) ==
    /\ proc[c] = "down"
    /\ AppKey[c] \in FixedKey \/ issuedTo[AppKey[c]] # NoUser
    /\ Connection(c)
    /\ proc' = [proc EXCEPT ![c] = "running"]
    /\ toServer' = [toServer EXCEPT ![c] = Hello(c)]
    /\ UNCHANGED <<view, appName, typed, heard>>

\* The messages on which client.js asks for the user list again.
RefreshedByJoin == {"join"}           \* a mutant: quits overlooked
RefreshedBy     == {"join", "quit"}

\* What a message says about the number of u's connections.
Change(u, m) == (IF m = JoinMsg(u) THEN 1 ELSE 0) - (IF m = QuitMsg(u) THEN 1 ELSE 0)

\* handleMessage of client.js on the next message from the server.
ClientReceive(c) ==
    LET m == Head(toClient[c]) IN
    /\ Alive(c)
    /\ Read(c)
    /\ appName' = IF m.type = "user" THEN [appName EXCEPT ![c] = m.nick] ELSE appName
    /\ view' = IF m.type = "users" THEN [view EXCEPT ![c] = m.users] ELSE view
    /\ IF m.type \in RefreshedBy THEN Write(c, UsersLine) ELSE UNCHANGED toServer
    /\ heard' = IF authenticated[c]
                THEN [heard EXCEPT ![c] = [u \in Name |-> @[u] + Change(u, m)]]
                ELSE heard
    /\ UNCHANGED <<proc, typed>>

\* /users, /msg, /passwd or a line of chat.
ClientTypes(c, line) ==
    /\ proc[c] = "running" /\ typed[c] < MaxTyped
    /\ typed' = [typed EXCEPT ![c] = @ + 1]
    /\ Write(c, line)
    /\ UNCHANGED <<serverVars, proc, view, appName, heard>>

\* ESC or /quit: 'quit' is sent, the process ends when it has been flushed.
ClientQuits(c) ==
    /\ proc[c] = "running"
    /\ proc' = [proc EXCEPT ![c] = "quitting"]
    /\ Write(c, QuitLine)
    /\ UNCHANGED <<serverVars, view, appName, typed, heard>>

\* The process is gone: its memory is lost, and what it has not read too.
Exit(c) ==
    /\ proc' = [proc EXCEPT ![c] = "exited"]
    /\ view' = [view EXCEPT ![c] = Nobody]
    /\ appName' = [appName EXCEPT ![c] = Disconnected]
    /\ typed' = [typed EXCEPT ![c] = 0]
    /\ toClient' = [toClient EXCEPT ![c] = <<>>]
    /\ UNCHANGED <<socketVars, clients, keyVars, pending, toServer, heard>>

\* The write callback of 'quit', or the 'close' event: process.exit(0).
ClientExits(c) ==
    /\ proc[c] = "quitting" \/ (proc[c] = "running" /\ conn[c] = "destroyed")
    /\ Exit(c)

\* The gateway kills the process, or its terminal goes away.
ClientDies(c) == proc[c] = "running" /\ Exit(c)

\* The history variable after a step of the server: a logon starts the count
\* from the members before it, a socket that is killed has none.
Recount ==
    heard' = [c \in Socket |-> IF ~authenticated'[c] THEN Nobody
                               ELSE IF authenticated[c] THEN heard[c]
                               ELSE UserCounts]

\* The server handles the next line of c.  Once it has destroyed the socket it
\* still handles the rest of the chunk, and what is not in the chunk is lost.
\* Room bounds how far the server runs ahead of the slowest reader.
Dispatch(c, m) ==
    \/ m.type = "key" /\ (Logon(c, m.key) \/ LogonLate(c, m.key) \/ KeyRefused(c, m.key))
    \/ m.type # "key" /\ NotLoggedOn(c)
    \/ m.type = "quit" /\ OnQuit(c)
    \/ m.type = "users" /\ OnUsers(c)
    \/ m.type = "pubmsg" /\ OnPubmsg(c)
    \/ m.type = "privmsg" /\ OnPrivmsg(c, m.target)
    \/ m.type = "password" /\ OnPassword(c)
ServerReceive(c) ==
    /\ toServer[c] # <<>> /\ Room
    /\ Dispatch(c, Head(toServer[c]))
    /\ \/ toServer' = [toServer EXCEPT ![c] = Tail(@)]
       \/ conn'[c] = "destroyed" /\ toServer' = [toServer EXCEPT ![c] = <<>>]
    /\ Recount
    /\ UNCHANGED procVars

\* LevelDB is done with c's change of password, whatever c has done meanwhile.
ServerAnswers(c) ==
    /\ Room /\ PasswordEnds(c)
    /\ Recount
    /\ UNCHANGED <<procVars, toServer>>

\* The server sees the end of the stream, having read all of it.
ServerEnd(c) ==
    /\ proc[c] = "exited" /\ toServer[c] = <<>>
    /\ OnEnd(c)
    /\ Recount
    /\ UNCHANGED <<procVars, toServer>>

\* The connection is reset: what the server has not read is lost.
ServerError(c) ==
    /\ proc[c] = "exited" /\ conn[c] = "open"
    /\ OnError(c)
    /\ toServer' = [toServer EXCEPT ![c] = <<>>]
    /\ Recount
    /\ UNCHANGED procVars

\* Keys come and go while the clients talk.
Keys ==
    /\ \/ \E u \in User, k \in Key : IssueKey(u, k)
       \/ \E k \in Key : KeyTimeout(k)
    /\ UNCHANGED <<procVars, toServer, heard>>

SysNext ==
    \/ Keys
    \/ \E c \in Socket :
         \/ ClientStart(c) \/ ClientReceive(c) \/ ClientQuits(c)
         \/ ClientExits(c) \/ ClientDies(c)
         \/ \E line \in Commands : ClientTypes(c, line)
         \/ ServerReceive(c) \/ ServerAnswers(c) \/ ServerEnd(c) \/ ServerError(c)

SysSpec == SysInit /\ [][SysNext]_sysVars

\* Both event loops serve every stream that has something to read, a process
\* that is to exit does, and the kernel reports its death.  Nobody has to
\* type, quit, die or log in.
Fairness ==
    \A c \in Socket :
        /\ WF_sysVars(ClientReceive(c))
        /\ WF_sysVars(ClientExits(c))
        /\ WF_sysVars(ServerReceive(c))
        /\ WF_sysVars(ServerEnd(c))

FairSpec == SysSpec /\ Fairness

-----------------------------------------------------------------------------
(* Properties.                                                             *)

\* The types of the system's variables.
SysTypeOK ==
    /\ TypeOK
    /\ proc \in [Socket -> {"down", "running", "quitting", "exited"}]
    /\ toServer \in [Socket -> Seq(ClientMsg)]
    /\ view \in [Socket -> [Name -> Nat]]
    /\ appName \in [Socket -> Name \cup {Disconnected}]
    /\ typed \in [Socket -> 0..MaxTyped]
    /\ heard \in [Socket -> [Name -> Int]]

\* A client's user list is what the server would answer now, or something in
\* flight will correct it: a request, an announcement that makes the client
\* send one, or a reply that is still right and is the last one unread.
\* Nothing refreshes the list periodically, so a lost trigger would leave a
\* client wrong until the next join or quit.
RequestSent(c)  == \E i \in DOMAIN toServer[c] : toServer[c][i].type = "users"
ChangeUnread(c) == \E i \in DOMAIN toClient[c] : toClient[c][i].type \in {"join", "quit"}
ReplyUnread(c)  ==
    \E i \in DOMAIN toClient[c] :
        /\ toClient[c][i] = UsersMsg(UserCounts)
        /\ \A j \in DOMAIN toClient[c] : j > i => toClient[c][j].type # "users"
ViewRight(c) ==
    /\ view[c] = UserCounts
    /\ \A i \in DOMAIN toClient[c] : toClient[c][i].type # "users"
Current(c) == RequestSent(c) \/ ChangeUnread(c) \/ ReplyUnread(c) \/ ViewRight(c)
ViewsCurrent ==
    \A c \in Socket : proc[c] = "running" /\ Talking(c) => Current(c)

\* docs/PROTOCOL.md:54: 'user' is the first thing a client reads, whatever
\* the other clients do while it logs on.
FirstMessageIsUser ==
    \A c \in Socket : Alive(c) /\ appName[c] = Disconnected /\ toClient[c] # <<>> =>
        Head(toClient[c]).type = "user"

\* The 'connect' handler sends the key before anything else: a connection
\* that is open and not logged on has its key as the next line to be read,
\* whatever the user has typed meanwhile, and no other key is to come.  So
\* neither is a command read before the logon, which would destroy the
\* connection, nor a key after it, nor a key after the end.
KeyFirst(c) ==
    /\ conn[c] = "open" /\ ~authenticated[c] =>
          toServer[c] # <<>> /\ toServer[c][1].type = "key"
    /\ \A i \in DOMAIN toServer[c] :
          toServer[c][i].type = "key" => i = 1 /\ conn[c] = "open" /\ ~authenticated[c]
KeyComesFirst == \A c \in Socket : KeyFirst(c)

\* Clients that are bbs.js leave no ghosts: the server alone would log on a
\* socket that it has destroyed (handleNew looks at the flag, which kill() has
\* reset), and such a member stays on the list unless a write to it makes an
\* 'error'.  What keeps it from happening is the order in which the client
\* writes, through quits, deaths, late answers of LevelDB and lines
\* that are left in a chunk.
NoGhosts == \A s \in Members(clients) : conn[s] = "open"

\* The joins and quits a client is told of account for every change of the
\* membership since it logged on: one join per logon, one quit per departure,
\* to everybody, however it departed.
Unread(c, m) == Cardinality({i \in DOMAIN toClient[c] : toClient[c][i] = m})
AnnouncementsBalance ==
    \A c \in Socket : Talking(c) /\ Alive(c) =>
        \A u \in Name : heard[c][u] + Unread(c, JoinMsg(u)) - Unread(c, QuitMsg(u))
                            = UserCounts[u]

\* Once people stop coming and going, every client's list becomes and stays
\* the server's.
ViewsSettle ==
    <>[](\A c \in Socket : proc[c] = "running" /\ Talking(c) => view[c] = UserCounts)

\* A process that is gone is taken off the list, whether or not it said so.
DeadClientsLeave ==
    \A c \in Socket : proc[c] = "exited" ~> c \notin Members(clients)

\* A process that has started ends up logged on or gone, never half-way in.
StartedIsDecided ==
    \A c \in Socket : proc[c] = "running" ~> (authenticated[c] \/ proc[c] = "exited")

=============================================================================
