-------------------------- MODULE ChatSystemProofs --------------------------
(***************************************************************************)
(* Proofs about ChatSystem, for any number of processes, keys, users and   *)
(* unread messages: types, that keys come first and so nobody becomes a    *)
(* ghost, what the first message is, that every client's user list is      *)
(* right or about to be refreshed, and that the server keeps to its        *)
(* Membership whatever the client processes do.                            *)
(***************************************************************************)
EXTENDS ChatSystem, ChatServerProofs

\* The part a step of the system has in the server.
ServerPart == ServerStep \/ UNCHANGED serverVars

LEMMA DispatchIsStep ==
    ASSUME NEW c \in Socket, NEW m \in ClientMsg, Dispatch(c, m)
    PROVE  HandlerStep
<1>1. m.type = "key" => m.key \in AnyKey
  BY DEF ClientMsg, Commands, KeyLine, PrivLine, PasswordLine, QuitLine, UsersLine, PubLine
<1>2. m.type = "privmsg" => m.target \in Name
  BY DEF ClientMsg, Commands, KeyLine, PrivLine, PasswordLine, QuitLine, UsersLine, PubLine
<1> QED
  BY <1>1, <1>2 DEF Dispatch, HandlerStep, Line

LEMMA LineType ==
    /\ \A k \in AnyKey : KeyLine(k) \in ClientMsg
    /\ QuitLine \in ClientMsg /\ UsersLine \in ClientMsg
    /\ Commands \subseteq ClientMsg
BY DEF ClientMsg, Commands

\* What a step of each kind is to the server.
LEMMA ServerPartOfStep ==
    ASSUME SysTypeOK, [SysNext]_sysVars
    PROVE  ServerPart \/ \E c \in Socket : Exit(c)
<1>1. ASSUME NEW c \in Socket, ServerReceive(c)
      PROVE  ServerStep
  <2>1. Head(toServer[c]) \in ClientMsg
    BY <1>1 DEF ServerReceive, SysTypeOK
  <2> QED
    BY <1>1, <2>1, DispatchIsStep DEF ServerReceive, ServerStep
<1>2. ASSUME NEW c \in Socket,
             \/ ClientStart(c) \/ ClientReceive(c)
             \/ ServerAnswers(c) \/ ServerEnd(c) \/ ServerError(c)
      PROVE  ServerStep
  BY <1>2 DEF ClientStart, ClientReceive, ServerAnswers, ServerEnd, ServerError, ServerStep,
              HandlerStep
<1>3. ASSUME NEW c \in Socket,
             ClientQuits(c) \/ \E line \in Commands : ClientTypes(c, line)
      PROVE  UNCHANGED serverVars
  BY <1>3 DEF ClientQuits, ClientTypes
<1>4. ASSUME NEW c \in Socket, ClientExits(c) \/ ClientDies(c)
      PROVE  Exit(c)
  BY <1>4 DEF ClientExits, ClientDies
<1>5. ASSUME Keys
      PROVE  ServerStep
  BY <1>5 DEF Keys, ServerStep, HandlerStep
<1>6. ASSUME UNCHANGED sysVars
      PROVE  UNCHANGED serverVars
  BY <1>6 DEF sysVars
<1> QED
  BY <1>1, <1>2, <1>3, <1>4, <1>5, <1>6 DEF SysNext, ServerPart

\* The server's invariants hold in the system too.
LEMMA SysAgree ==
    ASSUME SysTypeOK, ClientsAgree, [SysNext]_sysVars
    PROVE  TypeOK' /\ ClientsAgree'
<1>1. TypeOK
  BY DEF SysTypeOK
<1>2. ASSUME NEW c \in Socket, Exit(c)
      PROVE  TypeOK' /\ ClientsAgree'
  BY <1>1, <1>2 DEF Exit, TypeOK, ClientsAgree, Members, socketVars, keyVars
<1> QED
  BY <1>1, <1>2, ServerPartOfStep, AgreeStep, AgreeStutter DEF ServerPart

-----------------------------------------------------------------------------
(* Types.                                                                  *)

LEMMA SysTypeInit == SysInit => SysTypeOK /\ ClientsAgree
<1> SUFFICES ASSUME SysInit PROVE SysTypeOK /\ ClientsAgree
  OBVIOUS
<1>1. TypeOK /\ ClientsAgree
  BY TypeInit, ClientsInit DEF SysInit
<1> QED
  BY <1>1, SystemAssumption DEF SysInit, SysTypeOK, Nobody

LEMMA WriteType ==
    ASSUME SysTypeOK, NEW c \in Socket, NEW line \in ClientMsg, Write(c, line)
    PROVE  toServer' \in [Socket -> Seq(ClientMsg)]
BY DEF Write, SysTypeOK

LEMMA RecountType ==
    ASSUME SysTypeOK, Recount
    PROVE  heard' \in [Socket -> [Name -> Int]]
<1>1. UserCounts \in [Name -> Int] /\ Nobody \in [Name -> Int]
  BY UserCountsType DEF SysTypeOK, Nobody
<1> QED
  BY <1>1 DEF Recount, SysTypeOK

LEMMA ReceiveType ==
    ASSUME SysTypeOK, NEW c \in Socket, ClientReceive(c)
    PROVE  /\ toServer' \in [Socket -> Seq(ClientMsg)]
           /\ view' \in [Socket -> [Name -> Nat]]
           /\ appName' \in [Socket -> Name \cup {Disconnected}]
           /\ heard' \in [Socket -> [Name -> Int]]
<1> DEFINE m == Head(toClient[c])
<1>1. m \in ServerMsg
  BY DEF ClientReceive, Read, SysTypeOK, TypeOK
<1>2. m.type = "user" => m.nick \in Name
  BY <1>1 DEF ServerMsg, JoinMsg
<1>3. m.type = "users" => m.users \in [Name -> Nat]
  BY <1>1 DEF ServerMsg, JoinMsg
<1>4. toServer' \in [Socket -> Seq(ClientMsg)]
  BY WriteType, LineType DEF ClientReceive, SysTypeOK
<1>5. view' \in [Socket -> [Name -> Nat]]
  BY <1>3 DEF ClientReceive, SysTypeOK
<1>6. appName' \in [Socket -> Name \cup {Disconnected}]
  BY <1>2 DEF ClientReceive, SysTypeOK
<1>7. heard' \in [Socket -> [Name -> Int]]
  <2>1. \A u \in Name : Change(u, m) \in Int
    BY DEF Change
  <2>2. [u \in Name |-> heard[c][u] + Change(u, m)] \in [Name -> Int]
    BY <2>1 DEF SysTypeOK
  <2> QED
    BY <2>2 DEF ClientReceive, SysTypeOK
<1> QED
  BY <1>4, <1>5, <1>6, <1>7

LEMMA SysTypeStep ==
    ASSUME SysTypeOK, ClientsAgree, [SysNext]_sysVars
    PROVE  SysTypeOK'
<1>1. TypeOK'
  BY SysAgree
<1>2. ASSUME NEW c \in Socket, ClientStart(c)
      PROVE  SysTypeOK'
  <2>1. toServer' \in [Socket -> Seq(ClientMsg)]
    <3>1. Hello(c) \in Seq(ClientMsg)
      BY LineType, SystemAssumption DEF Hello
    <3> QED
      BY <1>2, <3>1 DEF ClientStart, SysTypeOK
  <2> QED
    BY <1>1, <1>2, <2>1 DEF ClientStart, SysTypeOK
<1>3. ASSUME NEW c \in Socket, ClientReceive(c)
      PROVE  SysTypeOK'
  BY <1>1, <1>3, ReceiveType DEF ClientReceive, SysTypeOK
<1>4. ASSUME NEW c \in Socket, NEW line \in Commands, ClientTypes(c, line)
      PROVE  SysTypeOK'
  <2>1. toServer' \in [Socket -> Seq(ClientMsg)]
    BY <1>4, WriteType, LineType DEF ClientTypes
  <2>2. typed' \in [Socket -> 0..MaxTyped]
    BY <1>4, SystemAssumption DEF ClientTypes, SysTypeOK
  <2> QED
    BY <1>1, <1>4, <2>1, <2>2 DEF ClientTypes, SysTypeOK
<1>5. ASSUME NEW c \in Socket, ClientQuits(c)
      PROVE  SysTypeOK'
  <2>1. toServer' \in [Socket -> Seq(ClientMsg)]
    BY <1>5, WriteType, LineType DEF ClientQuits
  <2> QED
    BY <1>1, <1>5, <2>1 DEF ClientQuits, SysTypeOK
<1>6. ASSUME NEW c \in Socket, Exit(c), UNCHANGED heard
      PROVE  SysTypeOK'
  <2>1. typed' \in [Socket -> 0..MaxTyped]
    BY <1>6, SystemAssumption DEF Exit, SysTypeOK
  <2>2. view' \in [Socket -> [Name -> Nat]]
    BY <1>6 DEF Exit, SysTypeOK, Nobody
  <2> QED
    BY <1>1, <1>6, <2>1, <2>2 DEF Exit, SysTypeOK
<1>7. ASSUME NEW c \in Socket,
             ServerReceive(c) \/ ServerAnswers(c) \/ ServerEnd(c) \/ ServerError(c)
      PROVE  SysTypeOK'
  <2>1. heard' \in [Socket -> [Name -> Int]]
    BY <1>7, RecountType DEF ServerReceive, ServerAnswers, ServerEnd, ServerError
  <2>2. toServer' \in [Socket -> Seq(ClientMsg)]
    <3>1. toServer[c] # <<>> => Tail(toServer[c]) \in Seq(ClientMsg)
      BY DEF SysTypeOK
    <3>2. \/ toServer' = toServer
          \/ toServer[c] # <<>> /\ toServer' = [toServer EXCEPT ![c] = Tail(toServer[c])]
          \/ toServer' = [toServer EXCEPT ![c] = <<>>]
      BY <1>7 DEF ServerReceive, ServerAnswers, ServerEnd, ServerError
    <3>3. <<>> \in Seq(ClientMsg)
      OBVIOUS
    <3> QED
      BY <3>1, <3>2, <3>3 DEF SysTypeOK
  <2> QED
    BY <1>1, <1>7, <2>1, <2>2
       DEF ServerReceive, ServerAnswers, ServerEnd, ServerError, procVars, SysTypeOK
<1>8. ASSUME Keys \/ UNCHANGED sysVars
      PROVE  SysTypeOK'
  BY <1>1, <1>8 DEF Keys, sysVars, procVars, SysTypeOK
<1>9. ASSUME NEW c \in Socket, ClientExits(c) \/ ClientDies(c)
      PROVE  SysTypeOK'
  BY <1>6, <1>9 DEF ClientExits, ClientDies, Exit
<1> QED
  BY <1>2, <1>3, <1>4, <1>5, <1>7, <1>8, <1>9 DEF SysNext

LEMMA SysInvariant == SysSpec => [](SysTypeOK /\ ClientsAgree)
<1>1. SysTypeOK /\ ClientsAgree /\ [SysNext]_sysVars => (SysTypeOK /\ ClientsAgree)'
  BY SysAgree, SysTypeStep
<1> QED
  BY <1>1, SysTypeInit, PTL DEF SysSpec

\* Type correctness of the whole system, the client processes included.
THEOREM SysTypeCorrect == SysSpec => []SysTypeOK
BY SysInvariant, PTL

-----------------------------------------------------------------------------
(* The key comes first, and so nobody becomes a ghost.                     *)

\* The inductive invariant: KeyFirst; a stream that is empty until its process
\* connects; members are open; and whoever waits for a change of password was
\* logged on, and still is unless it has been destroyed.
KeyFirstInv ==
    /\ \A c \in Socket : proc[c] = "down" <=> conn[c] = "new"
    /\ \A c \in Socket : conn[c] = "new" => toServer[c] = <<>>
    /\ KeyComesFirst
AskerFits ==
    \A c \in Socket : pending = <<c, "password">> =>
        conn[c] # "new" /\ (conn[c] = "open" => authenticated[c])
OpenInv == KeyFirstInv /\ NoGhosts /\ AskerFits

\* What the handlers are then.
OpenStep ==
    \/ \E s \in Socket, k \in AnyKey : conn[s] = "open" /\ Logon(s, k)
    \/ \E s \in Socket : Kill(s)
    \/ \E s \in Socket : conn[s] # "new" /\ ~authenticated[s] /\ Destroy(s)
    \/ \E s \in Socket : Connection(s)
    \/ \E u \in User, k \in Key : IssueKey(u, k)
    \/ \E k \in Key : KeyTimeout(k)
    \/ \E s \in Socket : (conn[s] = "open" => authenticated[s]) /\ Answering(s)

LEMMA AnsweringSame ==
    ASSUME NEW s \in Socket, Answering(s)
    PROVE  UNCHANGED <<conn, authenticated, username, sockKey, clients, keyVars>>
BY WritingSame DEF Writing, socketVars

LEMMA DispatchIsOpen ==
    ASSUME SysTypeOK, KeyFirstInv, NEW c \in Socket, ServerReceive(c)
    PROVE  OpenStep
<1> DEFINE m == Head(toServer[c])
<1>1. m \in ClientMsg /\ m = toServer[c][1] /\ 1 \in DOMAIN toServer[c] /\ Dispatch(c, m)
  <2>1. toServer[c] \in Seq(ClientMsg) /\ toServer[c] # <<>> /\ Dispatch(c, m)
    BY DEF ServerReceive, SysTypeOK
  <2> QED
    BY <2>1
<1>2. conn[c] # "new"
  BY <1>1 DEF KeyFirstInv
<1>3. m.type = "key" => conn[c] = "open" /\ ~authenticated[c]
  BY <1>1 DEF KeyFirstInv, KeyComesFirst, KeyFirst
<1> HIDE DEF m
<1>4. m.type = "key" => m.key \in AnyKey
  BY <1>1 DEF ClientMsg, Commands, KeyLine, PrivLine, PasswordLine, QuitLine, UsersLine, PubLine
<1>5. m.type = "privmsg" => m.target \in Name
  BY <1>1 DEF ClientMsg, Commands, KeyLine, PrivLine, PasswordLine, QuitLine, UsersLine, PubLine
<1>6. CASE m.type = "key" /\ (Logon(c, m.key) \/ LogonLate(c, m.key) \/ KeyRefused(c, m.key))
  BY <1>2, <1>3, <1>4, <1>6 DEF LogonLate, KeyRefused, OpenStep
<1>7. CASE NotLoggedOn(c) \/ OnQuit(c)
  BY <1>7 DEF NotLoggedOn, OnQuit, OpenStep
<1>8. CASE OnUsers(c) \/ OnPubmsg(c) \/ (m.type = "privmsg" /\ OnPrivmsg(c, m.target))
           \/ OnPassword(c)
  BY <1>5, <1>8 DEF OnUsers, OnPubmsg, OnPrivmsg, OnPassword, Answer, Answering, Noticed, Asking,
                    OpenStep
<1> QED
  BY <1>1, <1>6, <1>7, <1>8 DEF Dispatch

LEMMA ServerIsOpen ==
    ASSUME SysTypeOK, OpenInv,
           \/ \E c \in Socket : \/ ServerReceive(c) \/ ServerAnswers(c)
                                \/ ServerEnd(c) \/ ServerError(c) \/ ClientStart(c)
           \/ Keys
    PROVE  OpenStep
<1>1. ASSUME NEW c \in Socket, ServerAnswers(c)
      PROVE  OpenStep
  <2>1. conn[c] = "open" => authenticated[c]
    BY <1>1 DEF ServerAnswers, PasswordEnds, OpenInv, AskerFits
  <2> QED
    BY <1>1, <2>1 DEF ServerAnswers, PasswordEnds, Answering, Noticed, OpenStep
<1>2. ASSUME NEW c \in Socket, ServerEnd(c) \/ ServerError(c) \/ ClientStart(c)
      PROVE  OpenStep
  BY <1>2 DEF ServerEnd, ServerError, ClientStart, OnEnd, OnError, OpenStep
<1>3. ASSUME Keys
      PROVE  OpenStep
  BY <1>3 DEF Keys, OpenStep
<1> QED
  BY <1>1, <1>2, <1>3, DispatchIsOpen DEF OpenInv

\* Only a logon makes a socket logged on, no handler makes one new or open
\* again, and whoever stays open stays logged on.
LEMMA FlagsMove ==
    ASSUME TypeOK, OpenStep \/ UNCHANGED serverVars, NEW t \in Socket
    PROVE  /\ conn'[t] = "new" => conn[t] = "new"
           /\ authenticated'[t] =>
                 authenticated[t] \/ \E k \in AnyKey : conn[t] = "open" /\ Logon(t, k)
           /\ conn[t] # "new" /\ conn'[t] = "open" =>
                 conn[t] = "open" /\ (authenticated[t] => authenticated'[t])
<1> DEFINE Moves == /\ conn'[t] = "new" => conn[t] = "new"
                    /\ authenticated'[t] =>
                          authenticated[t] \/ \E k \in AnyKey : conn[t] = "open" /\ Logon(t, k)
                    /\ conn[t] # "new" /\ conn'[t] = "open" =>
                          conn[t] = "open" /\ (authenticated[t] => authenticated'[t])
<1>1. ASSUME NEW s \in Socket, Kill(s) \/ Destroy(s) \/ Connection(s)
      PROVE  Moves
  BY <1>1 DEF Kill, Destroy, Connection, TypeOK
<1>2. ASSUME NEW s \in Socket, NEW k \in AnyKey, conn[s] = "open", Logon(s, k)
      PROVE  Moves
  <2>1. conn' = conn /\ authenticated' = [authenticated EXCEPT ![s] = TRUE]
    BY <1>2 DEF Logon, TakeKey
  <2> QED
    BY <1>2, <2>1 DEF TypeOK
<1>3. ASSUME \/ \E u \in User, k \in Key : IssueKey(u, k)
             \/ \E k \in Key : KeyTimeout(k)
             \/ \E s \in Socket : Answering(s)
             \/ UNCHANGED serverVars
      PROVE  Moves
  <2>1. UNCHANGED <<conn, authenticated>>
    BY <1>3, AnsweringSame DEF IssueKey, KeyTimeout, serverVars, socketVars
  <2> QED
    BY <2>1
<1> HIDE DEF Moves
<1>4. Moves
  BY <1>1, <1>2, <1>3 DEF OpenStep
<1> QED
  BY <1>4 DEF Moves

\* A member comes in on an open connection, and leaves before it is destroyed.
LEMMA NoGhostsStep ==
    ASSUME TypeOK, ClientsAgree, NoGhosts, OpenStep \/ UNCHANGED serverVars
    PROVE  NoGhosts'
<1>1. ASSUME NEW s \in Socket, NEW k \in AnyKey, conn[s] = "open", Logon(s, k)
      PROVE  NoGhosts'
  <2>1. conn' = conn /\ Members(clients') = Members(clients) \cup {s}
    BY <1>1, AppendMembers DEF Logon, TakeKey, TypeOK
  <2> QED
    BY <1>1, <2>1 DEF NoGhosts
<1>2. ASSUME NEW s \in Socket, Kill(s)
      PROVE  NoGhosts'
  <2>1. Members(clients') = Members(clients) \ {s}
    BY <1>2, RemoveSocketRemoves DEF Kill, TypeOK, ClientsAgree, NoDuplicates
  <2>2. \A t \in Socket \ {s} : conn'[t] = conn[t]
    BY <1>2 DEF Kill, TypeOK
  <2> QED
    BY <2>1, <2>2 DEF NoGhosts, ClientsAgree
<1>3. ASSUME NEW s \in Socket, (~authenticated[s] /\ Destroy(s)) \/ Connection(s)
      PROVE  NoGhosts'
  <2>1. s \notin Members(clients) /\ clients' = clients
    BY <1>3 DEF Destroy, Connection, ClientsAgree
  <2>2. \A t \in Socket \ {s} : conn'[t] = conn[t]
    BY <1>3 DEF Destroy, Connection, TypeOK
  <2> QED
    BY <2>1, <2>2 DEF NoGhosts, ClientsAgree
<1>4. ASSUME \/ \E u \in User, k \in Key : IssueKey(u, k)
             \/ \E k \in Key : KeyTimeout(k)
             \/ \E s \in Socket : Answering(s)
             \/ UNCHANGED serverVars
      PROVE  NoGhosts'
  <2>1. UNCHANGED <<conn, clients>>
    BY <1>4, AnsweringSame DEF IssueKey, StoreKey, KeyTimeout, serverVars, socketVars
  <2> QED
    BY <2>1 DEF NoGhosts
<1> QED
  BY <1>1, <1>2, <1>3, <1>4 DEF OpenStep

\* A request is taken from a client that is logged on, and ended once.
LEMMA PendingMoves ==
    ASSUME [SysNext]_sysVars
    PROVE  \/ pending' = pending \/ pending' = NoSocket
           \/ \E c \in Socket : /\ pending' = <<c, "password">> /\ authenticated[c]
                                /\ UNCHANGED <<conn, authenticated>>
<1>1. ASSUME NEW c \in Socket, ServerReceive(c)
      PROVE  \/ pending' = pending
             \/ /\ pending' = <<c, "password">> /\ authenticated[c]
                /\ UNCHANGED <<conn, authenticated>>
  BY <1>1 DEF ServerReceive, Dispatch, Logon, LogonLate, TakeKey, KeyRefused, NotLoggedOn,
              OnQuit, OnUsers, OnPubmsg, OnPrivmsg, OnPassword, socketVars
<1>2. ASSUME NEW c \in Socket,
             \/ ServerAnswers(c) \/ ServerEnd(c) \/ ServerError(c) \/ ClientStart(c)
             \/ ClientReceive(c) \/ ClientQuits(c) \/ Exit(c)
             \/ \E line \in Commands : ClientTypes(c, line)
      PROVE  pending' = pending \/ pending' = NoSocket
  BY <1>2 DEF ServerAnswers, PasswordEnds, ServerEnd, OnEnd, ServerError, OnError, ClientStart,
              Connection, ClientReceive, Read, ClientQuits, ClientTypes, Exit, serverVars
<1>3. ASSUME Keys \/ UNCHANGED sysVars
      PROVE  pending' = pending
  BY <1>3 DEF Keys, IssueKey, KeyTimeout, sysVars, serverVars
<1> QED
  BY <1>1, <1>2, <1>3 DEF SysNext, ClientExits, ClientDies

\* What a process does leaves the flags of the connections.
LEMMA ClientStepFlags ==
    ASSUME NEW c \in Socket,
           \/ ClientReceive(c) \/ ClientQuits(c) \/ Exit(c)
           \/ \E line \in Commands : ClientTypes(c, line)
    PROVE  UNCHANGED <<conn, authenticated, clients>>
BY DEF ClientReceive, Read, ClientQuits, ClientTypes, Exit, serverVars, socketVars

LEMMA AskerStep ==
    ASSUME SysTypeOK, ClientsAgree, OpenInv, [SysNext]_sysVars
    PROVE  AskerFits' /\ NoGhosts'
<1>1. TypeOK
  BY DEF SysTypeOK
<1>2. \/ OpenStep \/ UNCHANGED serverVars \/ UNCHANGED <<conn, authenticated, clients>>
  BY ServerIsOpen, ClientStepFlags DEF SysNext, ClientExits, ClientDies, sysVars
<1>3. NoGhosts'
  BY <1>1, <1>2, NoGhostsStep DEF OpenInv, NoGhosts
<1>4. \A t \in Socket : /\ conn'[t] = "new" => conn[t] = "new"
                        /\ conn[t] # "new" /\ conn'[t] = "open" =>
                              conn[t] = "open" /\ (authenticated[t] => authenticated'[t])
  BY <1>1, <1>2, FlagsMove
<1>5. CASE pending' = pending
  <2> SUFFICES ASSUME NEW c \in Socket, pending' = <<c, "password">>
               PROVE  conn'[c] # "new" /\ (conn'[c] = "open" => authenticated'[c])
    BY <1>3 DEF AskerFits
  <2>1. conn[c] # "new" /\ (conn[c] = "open" => authenticated[c])
    BY <1>5 DEF OpenInv, AskerFits
  <2> QED
    BY <1>4, <2>1
<1>6. CASE pending' = NoSocket
  <2>1. \A c \in Socket : <<c, "password">> # NoSocket
    BY ConstantsAssumption DEF Requests
  <2> QED
    BY <1>3, <1>6, <2>1 DEF AskerFits
<1>7. ASSUME NEW c \in Socket, pending' = <<c, "password">>, authenticated[c],
             UNCHANGED <<conn, authenticated>>
      PROVE  AskerFits'
  BY <1>7 DEF AskerFits, ClientsAgree
<1> QED
  BY <1>3, <1>5, <1>6, <1>7, PendingMoves

\* What the handler of a line from c, an answer to it, the end of its stream
\* or its reset leaves alone: the state of every other connection.
LEMMA OthersKeep ==
    ASSUME SysTypeOK, NEW c \in Socket, NEW t \in Socket \ {c},
           ServerReceive(c) \/ ServerAnswers(c) \/ ServerEnd(c) \/ ServerError(c)
    PROVE  /\ conn'[t] = conn[t] /\ authenticated'[t] = authenticated[t]
           /\ toServer'[t] = toServer[t] /\ proc'[t] = proc[t]
<1>1. \/ \E k \in AnyKey : Logon(c, k) \/ LogonLate(c, k)
      \/ Kill(c) \/ Destroy(c)
      \/ UNCHANGED <<conn, authenticated>>
  <2>1. CASE ServerReceive(c)
    <3>1. Head(toServer[c]) \in ClientMsg /\ Dispatch(c, Head(toServer[c]))
      BY <2>1 DEF ServerReceive, SysTypeOK
    <3>2. Head(toServer[c]).type = "key" => Head(toServer[c]).key \in AnyKey
      BY <3>1 DEF ClientMsg, Commands, KeyLine, PrivLine, PasswordLine, QuitLine, UsersLine, PubLine
    <3> QED
      BY <3>1, <3>2 DEF Dispatch, KeyRefused, NotLoggedOn, OnQuit, OnUsers, OnPubmsg, OnPrivmsg,
                        OnPassword, Answer, socketVars
  <2> QED
    BY <2>1 DEF ServerAnswers, PasswordEnds, ServerEnd, ServerError, OnEnd, OnError, socketVars
<1>2. conn'[t] = conn[t] /\ authenticated'[t] = authenticated[t]
  BY <1>1 DEF Logon, LogonLate, TakeKey, Kill, Destroy, SysTypeOK, TypeOK
<1>3. toServer'[t] = toServer[t] /\ proc'[t] = proc[t]
  BY DEF ServerReceive, ServerAnswers, ServerEnd, ServerError, procVars, SysTypeOK
<1> QED
  BY <1>2, <1>3

\* After a line of c has been handled, c is logged on or it has been
\* destroyed.
LEMMA HeadHandled ==
    ASSUME SysTypeOK, NEW c \in Socket, ServerReceive(c), conn[c] # "new"
    PROVE  /\ conn'[c] \in {"open", "destroyed"}
           /\ conn'[c] = "open" => conn[c] = "open" /\ authenticated'[c]
<1>1. Head(toServer[c]) \in ClientMsg /\ Dispatch(c, Head(toServer[c]))
  BY DEF ServerReceive, SysTypeOK
<1>2. Head(toServer[c]).type = "key" => Head(toServer[c]).key \in AnyKey
  BY <1>1 DEF ClientMsg, Commands, KeyLine, PrivLine, PasswordLine, QuitLine, UsersLine, PubLine
<1>3. \/ \E k \in AnyKey : Logon(c, k) \/ LogonLate(c, k)
      \/ Kill(c) \/ Destroy(c)
      \/ authenticated[c] /\ UNCHANGED <<conn, authenticated>>
  BY <1>1, <1>2 DEF Dispatch, KeyRefused, NotLoggedOn, OnQuit, OnUsers, OnPubmsg, OnPrivmsg,
                    OnPassword, Answer, socketVars
<1> QED
  BY <1>3 DEF Logon, LogonLate, TakeKey, Kill, Destroy, SysTypeOK, TypeOK

\* Lines that are not keys are written behind what is there.
LEMMA KeyFirstWrite ==
    ASSUME SysTypeOK, KeyFirstInv, NEW c \in Socket, NEW line \in ClientMsg,
           line.type # "key", conn[c] # "new", Write(c, line),
           UNCHANGED <<conn, authenticated>>,
           \A t \in Socket : proc'[t] = "down" <=> proc[t] = "down"
    PROVE  KeyFirstInv'
<1>1. \A t \in Socket \ {c} : toServer'[t] = toServer[t]
  BY DEF Write, SysTypeOK
<1>2. ASSUME NEW t \in Socket \ {c}
      PROVE  KeyFirst(t)'
  BY <1>1, <1>2 DEF KeyFirstInv, KeyComesFirst, KeyFirst
<1>3. KeyFirst(c)'
  <2>1. CASE conn[c] = "destroyed"
    BY <2>1 DEF Write, KeyFirstInv, KeyComesFirst, KeyFirst
  <2>2. CASE conn[c] # "destroyed"
    <3>1. /\ toServer[c] \in Seq(ClientMsg)
          /\ toServer'[c] = Append(toServer[c], line)
      BY <2>2 DEF Write, SysTypeOK
    <3>2. /\ toServer'[c] # <<>>
          /\ toServer[c] # <<>> => toServer'[c][1] = toServer[c][1]
          /\ \A i \in DOMAIN toServer'[c] :
                \/ i \in DOMAIN toServer[c] /\ toServer'[c][i] = toServer[c][i]
                \/ toServer'[c][i] = line
      BY <3>1
    <3> QED
      BY <3>2 DEF KeyFirstInv, KeyComesFirst, KeyFirst
  <2> QED
    BY <2>1, <2>2
<1> QED
  BY <1>1, <1>2, <1>3 DEF KeyFirstInv, KeyComesFirst

LEMMA KeyFirstStep ==
    ASSUME SysTypeOK, OpenInv, [SysNext]_sysVars
    PROVE  KeyFirstInv'
<1>0. KeyFirstInv
  BY DEF OpenInv
<1>1. ASSUME NEW c \in Socket,
             ServerReceive(c) \/ ServerAnswers(c) \/ ServerEnd(c) \/ ServerError(c)
      PROVE  KeyFirstInv'
  <2>1. \A t \in Socket \ {c} :
            /\ conn'[t] = conn[t] /\ authenticated'[t] = authenticated[t]
            /\ toServer'[t] = toServer[t] /\ proc'[t] = proc[t]
    BY <1>1, OthersKeep
  <2>2. proc'[c] = proc[c] /\ conn[c] # "new" /\ conn'[c] # "new"
    <3>1. proc' = proc
      BY <1>1 DEF ServerReceive, ServerAnswers, ServerEnd, ServerError, procVars
    <3>2. CASE ServerReceive(c)
      <4>1. conn[c] # "new"
        BY <1>0, <3>2 DEF ServerReceive, KeyFirstInv
      <4> QED
        BY <3>1, <3>2, <4>1, HeadHandled
    <3>3. CASE ServerEnd(c) \/ ServerError(c)
      BY <3>1, <3>3 DEF ServerEnd, ServerError, OnEnd, OnError, Kill, SysTypeOK, TypeOK
    <3>4. CASE ServerAnswers(c)
      BY <3>1, <3>4 DEF ServerAnswers, PasswordEnds, OpenInv, AskerFits, Kill, socketVars,
                        SysTypeOK, TypeOK
    <3> QED
      BY <1>1, <3>1, <3>2, <3>3, <3>4
  <2>3. KeyFirst(c)'
    <3>1. CASE ServerReceive(c)
      <4>1. /\ toServer[c] \in Seq(ClientMsg) /\ toServer[c] # <<>>
            /\ toServer'[c] \in {Tail(toServer[c]), <<>>}
        BY <3>1 DEF ServerReceive, SysTypeOK
      <4>2. \A i \in DOMAIN toServer'[c] :
                /\ i + 1 \in DOMAIN toServer[c] /\ i + 1 # 1
                /\ toServer'[c][i] = toServer[c][i + 1]
        BY <4>1
      <4>3. conn'[c] = "open" => authenticated'[c]
        BY <2>2, <3>1, HeadHandled
      <4> QED
        BY <1>0, <4>2, <4>3 DEF KeyFirstInv, KeyComesFirst, KeyFirst
    <3>2. CASE ServerEnd(c) \/ ServerError(c)
      BY <3>2 DEF ServerEnd, ServerError, OnEnd, OnError, Kill, SysTypeOK, TypeOK, KeyFirst
    <3>3. CASE ServerAnswers(c)
      <4>1. toServer' = toServer
        BY <3>3 DEF ServerAnswers
      <4>2. \/ UNCHANGED <<conn, authenticated>>
            \/ conn[c] = "destroyed" /\ conn'[c] = "destroyed"
        BY <3>3 DEF ServerAnswers, PasswordEnds, Kill, socketVars, SysTypeOK, TypeOK
      <4> QED
        BY <1>0, <4>1, <4>2 DEF KeyFirstInv, KeyComesFirst, KeyFirst
    <3> QED
      BY <1>1, <3>1, <3>2, <3>3
  <2>4. ASSUME NEW t \in Socket \ {c}
        PROVE  KeyFirst(t)'
    BY <1>0, <2>1, <2>4 DEF KeyFirstInv, KeyComesFirst, KeyFirst
  <2> QED
    BY <1>0, <2>1, <2>2, <2>3, <2>4 DEF KeyFirstInv, KeyComesFirst
<1>2. ASSUME NEW c \in Socket, ClientStart(c)
      PROVE  KeyFirstInv'
  <2>1. /\ conn'[c] = "open" /\ ~authenticated'[c] /\ proc'[c] = "running"
        /\ toServer'[c] = <<KeyLine(AppKey[c])>>
    BY <1>2 DEF ClientStart, Hello, Connection, SysTypeOK, TypeOK
  <2>2. ASSUME NEW t \in Socket \ {c}
        PROVE  /\ conn'[t] = conn[t] /\ authenticated'[t] = authenticated[t]
               /\ toServer'[t] = toServer[t] /\ proc'[t] = proc[t]
    BY <1>2, <2>2 DEF ClientStart, Connection, SysTypeOK, TypeOK
  <2>3. KeyFirst(c)'
    BY <2>1 DEF KeyFirst, KeyLine
  <2>4. ASSUME NEW t \in Socket \ {c}
        PROVE  KeyFirst(t)'
    BY <1>0, <2>2, <2>4 DEF KeyFirstInv, KeyComesFirst, KeyFirst
  <2> QED
    BY <1>0, <2>1, <2>2, <2>3, <2>4 DEF KeyFirstInv, KeyComesFirst
<1>3. ASSUME UNCHANGED <<conn, authenticated, toServer>>,
             \A t \in Socket : proc'[t] = "down" <=> proc[t] = "down"
      PROVE  KeyFirstInv'
  BY <1>0, <1>3 DEF KeyFirstInv, KeyComesFirst, KeyFirst
<1>4. ASSUME NEW c \in Socket, ClientReceive(c)
      PROVE  KeyFirstInv'
  <2>1. UNCHANGED <<conn, authenticated, proc>>
    BY <1>4 DEF ClientReceive, Read, socketVars
  <2>2. CASE UNCHANGED toServer
    BY <1>3, <2>1, <2>2
  <2>3. CASE Write(c, UsersLine)
    <3>1. conn[c] # "new"
      BY <1>0, <1>4 DEF ClientReceive, Alive, KeyFirstInv
    <3> QED
      BY <1>0, <2>1, <2>3, <3>1, KeyFirstWrite, LineType DEF UsersLine
  <2> QED
    BY <1>4, <2>2, <2>3 DEF ClientReceive
<1>5. ASSUME NEW c \in Socket, NEW line \in ClientMsg, line.type # "key", Write(c, line),
             proc[c] = "running", UNCHANGED serverVars,
             \A t \in Socket : proc'[t] = "down" <=> proc[t] = "down"
      PROVE  KeyFirstInv'
  BY <1>0, <1>5, KeyFirstWrite DEF serverVars, socketVars, KeyFirstInv
<1>6. ASSUME NEW c \in Socket, NEW line \in Commands, ClientTypes(c, line)
      PROVE  KeyFirstInv'
  <2>1. line \in ClientMsg /\ line.type # "key"
    BY LineType DEF Commands, UsersLine, PubLine, PrivLine, PasswordLine
  <2> QED
    BY <1>5, <1>6, <2>1 DEF ClientTypes
<1>7. ASSUME NEW c \in Socket, ClientQuits(c)
      PROVE  KeyFirstInv'
  <2>1. QuitLine \in ClientMsg /\ QuitLine.type # "key"
    BY LineType DEF QuitLine
  <2> QED
    BY <1>5, <1>7, <2>1 DEF ClientQuits, SysTypeOK
<1>8. ASSUME NEW c \in Socket, ClientExits(c) \/ ClientDies(c)
      PROVE  KeyFirstInv'
  BY <1>3, <1>8 DEF ClientExits, ClientDies, Exit, socketVars, SysTypeOK
<1>9. ASSUME Keys \/ UNCHANGED sysVars
      PROVE  KeyFirstInv'
  <2>1. UNCHANGED <<conn, authenticated, toServer, proc>>
    BY <1>9 DEF Keys, IssueKey, KeyTimeout, socketVars, procVars, sysVars, serverVars
  <2> QED
    BY <1>3, <2>1
<1> QED
  BY <1>1, <1>2, <1>4, <1>6, <1>7, <1>8, <1>9 DEF SysNext

\* All of this in one invariant, which the other proofs start from.
SysInv == SysTypeOK /\ ClientsAgree /\ OpenInv

LEMMA SysInvInit == SysInit => SysInv
<1>1. SysInit => OpenInv
  BY ConstantsAssumption
     DEF SysInit, Init, OpenInv, KeyFirstInv, KeyComesFirst, KeyFirst, NoGhosts, AskerFits,
         Members, Requests
<1> QED
  BY <1>1, SysTypeInit DEF SysInv

LEMMA SysInvStep ==
    ASSUME SysInv, [SysNext]_sysVars
    PROVE  SysInv'
BY SysAgree, SysTypeStep, KeyFirstStep, AskerStep DEF SysInv, OpenInv

LEMMA SysInvHolds == SysSpec => []SysInv
BY SysInvInit, SysInvStep, PTL DEF SysSpec

\* No line reaches a handler in a state that does not expect it: what an
\* open connection that is not logged on has to be read begins with its key,
\* and nothing else in any stream is a key.
THEOREM KeyComesFirstHolds == SysSpec => []KeyComesFirst
<1>1. SysInv => KeyComesFirst
  BY DEF SysInv, OpenInv, KeyFirstInv
<1> QED
  BY <1>1, SysInvHolds, PTL

\* Whatever bbs.js processes do, they leave no ghosts: every member's
\* connection is open, although the server would log a destroyed one on.
THEOREM NoGhostsHolds == SysSpec => []NoGhosts
<1>1. SysInv => NoGhosts
  BY DEF SysInv, OpenInv
<1> QED
  BY <1>1, SysInvHolds, PTL

-----------------------------------------------------------------------------
(* What the handlers write to a client.                                     *)

\* What each kind of handler does to the stream of t: a logon ...
LEMMA LogonStream ==
    ASSUME TypeOK, NoGhosts, NEW s \in Socket, NEW k \in AnyKey, conn[s] = "open",
           Logon(s, k), NEW t \in Socket
    PROVE  LET u == KeyTable(k)[k]
           IN  /\ u \in Name
               /\ t = s => toClient'[t] = toClient[t] \o Welcome(u, Len(clients) + 1)
               /\ t # s => toClient'[t] = IF t \in Members(clients)
                                          THEN Append(toClient[t], JoinMsg(u))
                                          ELSE toClient[t]
<1> DEFINE u        == KeyTable(k)[k]
           list     == Append(clients, s)
           welcomed == [toClient EXCEPT ![s] = @ \o Welcome(u, Len(list))]
<1>1. u \in Name
  BY ConstantsAssumption DEF Logon, TakeKey, KeyTable, TypeOK, Name, AnyKey
<1>2. toClient' = Broadcast(welcomed, list, s, JoinMsg(u))
  BY DEF Logon, Reaches
<1>3. Len(list) = Len(clients) + 1
  BY DEF TypeOK
<1>4. /\ welcomed[s] = toClient[s] \o Welcome(u, Len(clients) + 1)
      /\ t # s => welcomed[t] = toClient[t]
  <2> HIDE DEF list, u
  <2> QED
    BY <1>3 DEF TypeOK
<1>5. t # s => (t \in Members(list) \ {s} /\ Reaches(t) <=> t \in Members(clients))
  BY AppendMembers DEF TypeOK, NoGhosts, Reaches
<1> HIDE DEF welcomed, u, list
<1>6. /\ toClient'[s] = welcomed[s]
      /\ toClient'[t] = IF t \in Members(list) \ {s} /\ Reaches(t)
                        THEN Append(welcomed[t], JoinMsg(u)) ELSE welcomed[t]
  BY <1>2 DEF Broadcast
<1>7. t # s => toClient'[t] = IF t \in Members(clients)
                              THEN Append(toClient[t], JoinMsg(u)) ELSE toClient[t]
  BY <1>4, <1>5, <1>6
<1> QED
  BY <1>1, <1>4, <1>6, <1>7 DEF u

\* ... a kill ...
LEMMA KillStream ==
    ASSUME TypeOK, ClientsAgree, NoGhosts, NEW s \in Socket, Kill(s), NEW t \in Socket
    PROVE  /\ authenticated[s] => username[s] \in Name
           /\ toClient'[t] = IF authenticated[s] /\ t \in Members(clients) \ {s}
                             THEN Append(toClient[t], QuitMsg(username[s]))
                             ELSE toClient[t]
<1>1. authenticated[s] => username[s] \in Name
  BY DEF ClientsAgree, TypeOK
<1>2. Members(RemoveSocket(clients, s)) = Members(clients) \ {s}
  BY RemoveSocketRemoves DEF TypeOK, ClientsAgree, NoDuplicates
<1>3. t \in Members(clients) => Reaches(t)
  BY DEF NoGhosts, Reaches
<1> QED
  BY <1>1, <1>2, <1>3 DEF Kill, Broadcast, Farewell

\* ... and a command that only writes, the list of users among its answers.
LEMMA AnswerStream ==
    ASSUME TypeOK, ClientsAgree, NoGhosts, NEW s \in Socket, Answering(s),
           conn[s] = "open" => authenticated[s], NEW t \in Socket
    PROVE  \/ toClient'[t] = toClient[t]
           \/ /\ t \in Members(clients)
              /\ \E m \in ServerMsg : /\ toClient'[t] = Append(toClient[t], m)
                                      /\ m.type = "users" => m = UsersMsg(UserCounts)
                                      /\ m.type \notin {"join", "quit"}
<1> DEFINE Goal == \/ toClient'[t] = toClient[t]
                   \/ /\ t \in Members(clients)
                      /\ \E m \in ServerMsg :
                            /\ toClient'[t] = Append(toClient[t], m)
                            /\ m.type = "users" => m = UsersMsg(UserCounts)
                            /\ m.type \notin {"join", "quit"}
<1>1. /\ Reaches(s) => s \in Members(clients)
      /\ authenticated[s] => username[s] \in Name
  BY DEF Reaches, ClientsAgree, TypeOK
<1>2. ASSUME NEW r \in Socket, Reaches(r) => r \in Members(clients),
             NEW m \in ServerMsg, Send(r, m),
             m.type = "users" => m = UsersMsg(UserCounts),
             m.type \notin {"join", "quit"}
      PROVE  Goal
  <2>1. toClient'[t] = IF t = r /\ Reaches(r) THEN Append(toClient[t], m) ELSE toClient[t]
    BY <1>2 DEF Send, TypeOK
  <2> QED
    BY <1>2, <2>1
<1> HIDE DEF Goal
<1>3. CASE OnUsers(s)
  <2>1. UsersMsg(UserCounts) \in ServerMsg /\ UsersMsg(UserCounts).type = "users"
    BY UserCountsType, MessageTypes DEF UsersMsg
  <2>2. Send(s, UsersMsg(UserCounts))
    BY <1>3 DEF OnUsers, Answer
  <2> DEFINE m == UsersMsg(UserCounts)
  <2>3. /\ m \in ServerMsg /\ Send(s, m) /\ m.type \notin {"join", "quit"}
        /\ m.type = "users" => m = UsersMsg(UserCounts)
    BY <2>1, <2>2
  <2> HIDE DEF m
  <2> QED
    BY <1>1, <1>2, <2>3 DEF Goal
<1>4. CASE OnStatus(s)
  <2>1. Len(clients) \in Nat
    BY DEF TypeOK
  <2> DEFINE m == StatusMsg(Len(clients))
  <2>2. m \in ServerMsg /\ m.type = "status" /\ Send(s, m)
    BY <1>4, <2>1, MessageTypes DEF StatusMsg, OnStatus, Answer
  <2> HIDE DEF m
  <2> QED
    BY <1>1, <1>2, <2>2 DEF Goal
<1>5. CASE OnPubmsg(s)
  <2>1. PubMsg(username[s]) \in ServerMsg /\ PubMsg(username[s]).type = "pubmsg"
    BY <1>1, <1>5, MessageTypes DEF PubMsg, OnPubmsg
  <2>2. \/ toClient'[t] = toClient[t]
        \/ /\ t \in Members(clients)
           /\ toClient'[t] = Append(toClient[t], PubMsg(username[s]))
    BY <1>5 DEF OnPubmsg, Broadcast
  <2> QED
    BY <2>1, <2>2 DEF Goal
<1>6. ASSUME NEW target \in Name, OnPrivmsg(s, target)
      PROVE  Goal
  <2>1. /\ PrivMsg(username[s]) \in ServerMsg /\ PrivMsg(username[s]).type = "privmsg"
        /\ ErrorMsg \in ServerMsg /\ ErrorMsg.type = "error"
    BY <1>1, <1>6, MessageTypes DEF PrivMsg, ErrorMsg, OnPrivmsg
  <2>2. CASE LoggedOn(target)
    <3>1. SocketByUsername(target) \in Members(clients) \cap Socket
      BY <2>2, SocketByUsernameFinds
    <3>2. Send(SocketByUsername(target), PrivMsg(username[s]))
      BY <1>6, <2>2 DEF OnPrivmsg
    <3> QED
      BY <1>2, <2>1, <3>1, <3>2
  <2>3. CASE ~LoggedOn(target)
    BY <1>1, <1>2, <1>6, <2>1, <2>3 DEF OnPrivmsg
  <2> QED
    BY <2>2, <2>3
<1>7. CASE Noticed(s)
  <2>1. NoticeMsg \in ServerMsg /\ NoticeMsg.type = "notice"
    BY MessageTypes DEF NoticeMsg
  <2> QED
    BY <1>1, <1>2, <1>7, <2>1 DEF Noticed, Goal
<1>8. CASE Asking(s)
  BY <1>8 DEF Asking, Goal
<1> QED
  BY <1>3, <1>4, <1>5, <1>6, <1>7, <1>8 DEF Answering, Goal

\* In short: nothing, a welcome, or a message at its end if t is logged on.
LEMMA StreamGrows ==
    ASSUME TypeOK, ClientsAgree, NoGhosts, OpenStep \/ UNCHANGED serverVars,
           NEW t \in Socket
    PROVE  \/ toClient'[t] = toClient[t]
           \/ /\ t \in Members(clients)
              /\ \E m \in ServerMsg : toClient'[t] = Append(toClient[t], m)
           \/ \E k \in AnyKey : conn[t] = "open" /\ Logon(t, k)
<1> DEFINE Goal == \/ toClient'[t] = toClient[t]
                   \/ /\ t \in Members(clients)
                      /\ \E m \in ServerMsg : toClient'[t] = Append(toClient[t], m)
                   \/ \E k \in AnyKey : conn[t] = "open" /\ Logon(t, k)
<1>1. ASSUME NEW s \in Socket, NEW k \in AnyKey, conn[s] = "open", Logon(s, k)
      PROVE  Goal
  <2>1. CASE s = t
    <3>1. conn[t] = "open" /\ Logon(t, k)
      BY <1>1, <2>1
    <3> QED
      BY <3>1
  <2>2. CASE s # t
    <3> DEFINE m == JoinMsg(KeyTable(k)[k])
    <3>1. /\ KeyTable(k)[k] \in Name
          /\ toClient'[t] = IF t \in Members(clients) THEN Append(toClient[t], m) ELSE toClient[t]
      BY <1>1, <2>2, LogonStream
    <3>2. m \in ServerMsg
      BY <3>1, MessageTypes
    <3> HIDE DEF m
    <3> QED
      BY <3>1, <3>2
  <2> QED
    BY <2>1, <2>2
<1>2. ASSUME NEW s \in Socket, Kill(s)
      PROVE  Goal
  BY <1>2, KillStream, MessageTypes
<1>3. ASSUME NEW s \in Socket, conn[s] = "open" => authenticated[s], Answering(s)
      PROVE  Goal
  BY <1>3, AnswerStream
<1>4. ASSUME \/ \E s \in Socket : Connection(s) \/ Destroy(s)
             \/ \E u \in User, k \in Key : IssueKey(u, k)
             \/ \E k \in Key : KeyTimeout(k)
             \/ UNCHANGED serverVars
      PROVE  Goal
  BY <1>4 DEF Connection, Destroy, IssueKey, StoreKey, KeyTimeout, serverVars
<1> HIDE DEF Goal
<1>5. Goal
  BY <1>1, <1>2, <1>3, <1>4 DEF OpenStep
<1> QED
  BY <1>5 DEF Goal

-----------------------------------------------------------------------------
(* The first message.                                                      *)

\* The inductive invariant: a process that has not read its 'user' message
\* finds it first, and a logged-on one finds it.
FirstInv ==
    /\ \A c \in Socket : conn[c] = "new" => toClient[c] = <<>>
    /\ \A c \in Socket : Alive(c) /\ appName[c] = Disconnected =>
         /\ toClient[c] # <<>> => Head(toClient[c]).type = "user"
         /\ toClient[c] = <<>> => ~authenticated[c]

LEMMA FirstInit == SysInit => FirstInv
BY DEF SysInit, Init, FirstInv, Alive

\* Appending does not change the head of a stream that has one.
LEMMA HeadStays ==
    ASSUME NEW out \in Seq(ServerMsg), out # <<>>, NEW m \in ServerMsg
    PROVE  /\ Append(out, m) # <<>>
           /\ Head(Append(out, m)) = Head(out)
OBVIOUS

LEMMA FirstHandler ==
    ASSUME SysInv, FirstInv, OpenStep \/ UNCHANGED serverVars,
           UNCHANGED appName, \A c \in Socket : Alive(c)' => Alive(c)
    PROVE  FirstInv'
<1>1. TypeOK /\ ClientsAgree /\ NoGhosts
  BY DEF SysInv, OpenInv, SysTypeOK
<1>2. ASSUME NEW t \in Socket, conn'[t] = "new"
      PROVE  toClient'[t] = <<>>
  <2>1. conn[t] = "new" /\ toClient[t] = <<>>
    BY <1>1, <1>2, FlagsMove DEF FirstInv
  <2>2. t \notin Members(clients)
    BY <1>1, <2>1 DEF ClientsAgree
  <2> QED
    BY <1>1, <2>1, <2>2, StreamGrows
<1>3. ASSUME NEW t \in Socket, Alive(t)', appName'[t] = Disconnected
      PROVE  /\ toClient'[t] # <<>> => Head(toClient'[t]).type = "user"
             /\ toClient'[t] = <<>> => ~authenticated'[t]
  <2>1. /\ toClient[t] # <<>> => Head(toClient[t]).type = "user"
        /\ toClient[t] = <<>> => ~authenticated[t]
    BY <1>3 DEF FirstInv
  <2>2. toClient[t] \in Seq(ServerMsg)
    BY <1>1 DEF TypeOK
  <2>3. ASSUME NEW k \in AnyKey, conn[t] = "open", Logon(t, k)
        PROVE  toClient'[t] # <<>> /\ Head(toClient'[t]).type = "user"
    <3> DEFINE u == KeyTable(k)[k]
               w == Welcome(u, Len(clients) + 1)
    <3>1. u \in Name /\ toClient'[t] = toClient[t] \o w
      BY <1>1, <2>3, LogonStream
    <3>2. Len(clients) + 1 \in Nat
      BY <1>1 DEF TypeOK
    <3>3. w \in Seq(ServerMsg) /\ w # <<>> /\ Head(w).type = "user"
      BY <3>1, <3>2, MessageTypes DEF Welcome, UserMsg
    <3> HIDE DEF w, u
    <3>4. CASE toClient[t] = <<>>
      BY <3>1, <3>3, <3>4
    <3>5. CASE toClient[t] # <<>>
      <4>1. toClient'[t] # <<>> /\ Head(toClient'[t]) = Head(toClient[t])
        BY <2>2, <3>1, <3>3, <3>5
      <4> QED
        BY <2>1, <3>5, <4>1
    <3> QED
      BY <3>4, <3>5
  <2>4. CASE t \in Members(clients) /\ \E m \in ServerMsg : toClient'[t] = Append(toClient[t], m)
    <3>1. toClient[t] # <<>>
      BY <1>1, <2>1, <2>4 DEF ClientsAgree
    <3> QED
      BY <2>1, <2>2, <2>4, <3>1, HeadStays
  <2>5. CASE /\ toClient'[t] = toClient[t]
             /\ \A k \in AnyKey : ~(conn[t] = "open" /\ Logon(t, k))
    BY <1>1, <2>1, <2>5, FlagsMove
  <2> QED
    BY <1>1, <2>3, <2>4, <2>5, StreamGrows
<1> QED
  BY <1>2, <1>3 DEF FirstInv

LEMMA FirstStep ==
    ASSUME SysInv, FirstInv, [SysNext]_sysVars
    PROVE  FirstInv'
<1>0. SysTypeOK /\ ClientsAgree /\ OpenInv
  BY DEF SysInv
<1>1. ASSUME NEW c \in Socket,
             ServerReceive(c) \/ ServerAnswers(c) \/ ServerEnd(c) \/ ServerError(c)
      PROVE  FirstInv'
  <2>1. OpenStep
    BY <1>0, <1>1, ServerIsOpen
  <2>2. UNCHANGED <<proc, appName>>
    BY <1>1 DEF ServerReceive, ServerAnswers, ServerEnd, ServerError, procVars
  <2> QED
    BY <2>1, <2>2, FirstHandler DEF Alive
<1>2. ASSUME Keys
      PROVE  FirstInv'
  <2>1. OpenStep /\ UNCHANGED <<proc, appName>>
    BY <1>2 DEF Keys, OpenStep, procVars
  <2> QED
    BY <2>1, FirstHandler DEF Alive
<1>3. ASSUME \/ \E c \in Socket : ClientQuits(c) \/ \E line \in Commands : ClientTypes(c, line)
             \/ UNCHANGED sysVars
      PROVE  FirstInv'
  <2>1. UNCHANGED serverVars /\ UNCHANGED appName
    BY <1>3 DEF ClientQuits, ClientTypes, sysVars, procVars
  <2>2. \A c \in Socket : Alive(c)' => Alive(c)
    BY <1>0, <1>3 DEF ClientQuits, ClientTypes, sysVars, procVars, Alive, SysTypeOK
  <2> QED
    BY <2>1, <2>2, FirstHandler
<1>4. ASSUME NEW c \in Socket, ClientStart(c)
      PROVE  FirstInv'
  <2>1. /\ conn[c] = "new" /\ conn'[c] = "open" /\ ~authenticated'[c]
        /\ UNCHANGED <<toClient, appName>>
        /\ \A t \in Socket \ {c} : /\ conn'[t] = conn[t] /\ proc'[t] = proc[t]
                                   /\ authenticated'[t] = authenticated[t]
    BY <1>0, <1>4 DEF ClientStart, Connection, SysTypeOK, TypeOK
  <2> QED
    BY <2>1 DEF FirstInv, Alive
<1>5. ASSUME NEW c \in Socket, ClientReceive(c)
      PROVE  FirstInv'
  <2>1. /\ UNCHANGED <<conn, authenticated, proc>> /\ toClient[c] # <<>>
        /\ \A t \in Socket \ {c} : toClient'[t] = toClient[t] /\ appName'[t] = appName[t]
    BY <1>0, <1>5 DEF ClientReceive, Read, socketVars, SysTypeOK, TypeOK
  <2>2. conn[c] # "new"
    BY <2>1 DEF FirstInv
  <2>3. appName'[c] # Disconnected
    <3>1. Head(toClient[c]) \in ServerMsg
      BY <1>0, <2>1 DEF SysTypeOK, TypeOK
    <3>2. Head(toClient[c]).type = "user" => Head(toClient[c]).nick \in Name
      BY <3>1 DEF ServerMsg, JoinMsg
    <3>3. appName[c] = Disconnected => Head(toClient[c]).type = "user"
      BY <1>5, <2>1 DEF FirstInv, ClientReceive
    <3>4. appName' = IF Head(toClient[c]).type = "user"
                     THEN [appName EXCEPT ![c] = Head(toClient[c]).nick] ELSE appName
      BY <1>0, <1>5 DEF ClientReceive
    <3> QED
      BY <1>0, <3>2, <3>3, <3>4, SystemAssumption DEF SysTypeOK
  <2> QED
    BY <2>1, <2>2, <2>3 DEF FirstInv, Alive
<1>6. ASSUME NEW c \in Socket, Exit(c)
      PROVE  FirstInv'
  <2>1. /\ UNCHANGED <<conn, authenticated>>
        /\ toClient'[c] = <<>> /\ proc'[c] = "exited"
        /\ \A t \in Socket \ {c} : /\ toClient'[t] = toClient[t] /\ proc'[t] = proc[t]
                                   /\ appName'[t] = appName[t]
    BY <1>0, <1>6 DEF Exit, socketVars, SysTypeOK, TypeOK
  <2> QED
    BY <2>1 DEF FirstInv, Alive
<1> QED
  BY <1>1, <1>2, <1>3, <1>4, <1>5, <1>6 DEF SysNext, ClientExits, ClientDies

LEMMA FirstInvariant == SysSpec => []FirstInv
<1>1. SysInv /\ FirstInv /\ [SysNext]_sysVars => FirstInv'
  BY FirstStep
<1> QED
  BY <1>1, SysInvHolds, FirstInit, PTL DEF SysSpec

\* 'user' is the first thing a client reads, whatever the others do while it
\* logs on.
THEOREM FirstMessageIsUserHolds == SysSpec => []FirstMessageIsUser
<1>1. FirstInv => FirstMessageIsUser
  BY DEF FirstInv, FirstMessageIsUser
<1> QED
  BY <1>1, FirstInvariant, PTL

-----------------------------------------------------------------------------
(* The user lists.                                                         *)

\* sendUsers() answers the same as long as the same sockets are logged on
\* under the same names.
LEMMA CountsSame ==
    ASSUME TypeOK, UNCHANGED clients,
           \A t \in Members(clients) : username'[t] = username[t]
    PROVE  UserCounts' = UserCounts
<1>1. \A u \in Name : Connections(u)' = Connections(u)
  BY DEF Connections, Members, TypeOK
<1> QED
  BY <1>1 DEF UserCounts

\* A handler that writes nothing to t and changes no count.
LEMMA CurrentFrame ==
    ASSUME SysTypeOK, NEW t \in Socket, Current(t),
           view'[t] = view[t], toClient'[t] = toClient[t],
           UserCounts' = UserCounts, RequestSent(t) => RequestSent(t)'
    PROVE  Current(t)'
<1>1. ChangeUnread(t) => ChangeUnread(t)'
  BY DEF ChangeUnread
<1>2. ReplyUnread(t) => ReplyUnread(t)'
  BY DEF ReplyUnread, UsersMsg
<1>3. ViewRight(t) => ViewRight(t)'
  BY DEF ViewRight
<1> QED
  BY <1>1, <1>2, <1>3 DEF Current

\* One that writes a message to t, the current counts if it is 'users'.
LEMMA CurrentAppend ==
    ASSUME SysTypeOK, NEW t \in Socket, Current(t), NEW m \in ServerMsg,
           view'[t] = view[t], toClient'[t] = Append(toClient[t], m),
           m.type = "users" => m = UsersMsg(UserCounts),
           UserCounts' = UserCounts, RequestSent(t) => RequestSent(t)'
    PROVE  Current(t)'
<1> DEFINE n == Len(toClient[t])
<1>1. /\ toClient[t] \in Seq(ServerMsg) /\ n \in Nat
      /\ DOMAIN toClient[t] = 1..n /\ DOMAIN toClient'[t] = 1..(n + 1)
      /\ \A i \in 1..n : toClient'[t][i] = toClient[t][i]
      /\ toClient'[t][n + 1] = m
  BY DEF SysTypeOK, TypeOK
<1>2. CASE m.type = "users"
  <2>1. toClient'[t][n + 1] = UsersMsg(UserCounts)'
    BY <1>1, <1>2 DEF UsersMsg
  <2>2. ReplyUnread(t)'
    BY <1>1, <2>1 DEF ReplyUnread
  <2> QED
    BY <2>2 DEF Current
<1>3. CASE m.type # "users"
  <2>1. ChangeUnread(t) => ChangeUnread(t)'
    BY <1>1 DEF ChangeUnread
  <2>2. ReplyUnread(t) => ReplyUnread(t)'
    BY <1>1, <1>3 DEF ReplyUnread, UsersMsg
  <2>3. ViewRight(t) => ViewRight(t)'
    BY <1>1, <1>3 DEF ViewRight
  <2> QED
    BY <2>1, <2>2, <2>3 DEF Current
<1> QED
  BY <1>2, <1>3

\* One that tells t of a change.
LEMMA CurrentTold ==
    ASSUME TypeOK, NEW t \in Socket, NEW w \in Seq(ServerMsg), NEW i \in DOMAIN w,
           w[i].type \in {"join", "quit"}, toClient'[t] = toClient[t] \o w
    PROVE  Current(t)'
<1>1. toClient[t] \in Seq(ServerMsg)
  BY DEF TypeOK
<1>2. /\ Len(toClient[t]) + i \in DOMAIN toClient'[t]
      /\ toClient'[t][Len(toClient[t]) + i] = w[i]
  BY <1>1
<1> QED
  BY <1>2 DEF ChangeUnread, Current

\* Telling t of a change by one message.
LEMMA CurrentToldOne ==
    ASSUME TypeOK, NEW t \in Socket, NEW m \in ServerMsg,
           m.type \in {"join", "quit"}, toClient'[t] = Append(toClient[t], m)
    PROVE  Current(t)'
<1>1. toClient[t] \in Seq(ServerMsg)
  BY DEF TypeOK
<1>2. /\ Len(toClient[t]) + 1 \in DOMAIN toClient'[t]
      /\ toClient'[t][Len(toClient[t]) + 1] = m
  BY <1>1
<1> QED
  BY <1>2 DEF ChangeUnread, Current

\* Every handler, to every client that is still logged on after it.
LEMMA CurrentHandler ==
    ASSUME SysTypeOK, ClientsAgree, NoGhosts, OpenStep \/ UNCHANGED serverVars,
           NEW t \in Socket, Talking(t)', Talking(t) => Current(t),
           view'[t] = view[t], RequestSent(t) => RequestSent(t)'
    PROVE  Current(t)'
<1>1. TypeOK
  BY DEF SysTypeOK
<1>2. ASSUME NEW s \in Socket, NEW k \in AnyKey, conn[s] = "open", Logon(s, k)
      PROVE  Current(t)'
  <2> DEFINE u == KeyTable(k)[k]
             w == Welcome(u, Len(clients) + 1)
  <2>1. u \in Name /\ JoinMsg(u) \in ServerMsg /\ JoinMsg(u).type = "join"
    BY <1>1, <1>2, LogonStream, MessageTypes DEF JoinMsg
  <2>2. CASE t = s
    <3>1. toClient'[t] = toClient[t] \o w
      BY <1>1, <1>2, <2>2, LogonStream
    <3>2. Len(clients) + 1 \in Nat
      BY <1>1 DEF TypeOK
    <3>3. w \in Seq(ServerMsg) /\ 2 \in DOMAIN w /\ w[2].type = "join"
      BY <2>1, <3>2, MessageTypes DEF Welcome
    <3> HIDE DEF w
    <3> QED
      BY <1>1, <3>1, <3>3, CurrentTold
  <2>3. CASE t # s
    <3>1. t \in Members(clients)
      BY <1>1, <1>2, <2>3 DEF Talking, Logon, TypeOK, ClientsAgree
    <3>2. toClient'[t] = Append(toClient[t], JoinMsg(u))
      BY <1>1, <1>2, <2>3, <3>1, LogonStream
    <3> QED
      BY <1>1, <2>1, <3>2, CurrentToldOne
  <2> QED
    BY <2>2, <2>3
<1>3. ASSUME NEW s \in Socket, Kill(s)
      PROVE  Current(t)'
  <2>1. t # s /\ Talking(t) /\ t \in Members(clients) \ {s}
    BY <1>1, <1>3 DEF Talking, Kill, TypeOK, ClientsAgree
  <2>2. CASE authenticated[s]
    <3>1. username[s] \in Name /\ toClient'[t] = Append(toClient[t], QuitMsg(username[s]))
      BY <1>1, <1>3, <2>1, <2>2, KillStream
    <3>2. QuitMsg(username[s]) \in ServerMsg /\ QuitMsg(username[s]).type = "quit"
      BY <3>1, MessageTypes DEF QuitMsg
    <3> QED
      BY <1>1, <3>1, <3>2, CurrentToldOne
  <2>3. CASE ~authenticated[s]
    <3>1. s \notin Members(clients)
      BY <2>3 DEF ClientsAgree
    <3>2. toClient'[t] = toClient[t] /\ UNCHANGED clients
      BY <1>1, <1>3, <2>3, <3>1, KillStream DEF Kill, RemoveSocket
    <3>3. \A r \in Members(clients) : username'[r] = username[r]
      BY <1>1, <1>3, <3>1 DEF Kill, TypeOK, ClientsAgree
    <3>4. UserCounts' = UserCounts
      BY <1>1, <3>2, <3>3, CountsSame
    <3> QED
      BY <2>1, <3>2, <3>4, CurrentFrame
  <2> QED
    BY <2>2, <2>3
<1>4. ASSUME NEW s \in Socket, conn[s] = "open" => authenticated[s], Answering(s)
      PROVE  Current(t)'
  <2>1. UNCHANGED <<conn, authenticated, username, clients>>
    BY <1>4, AnsweringSame
  <2>2. Talking(t) /\ UserCounts' = UserCounts
    BY <1>1, <2>1, CountsSame DEF Talking
  <2>3. \/ toClient'[t] = toClient[t]
        \/ \E m \in ServerMsg : /\ toClient'[t] = Append(toClient[t], m)
                                /\ m.type = "users" => m = UsersMsg(UserCounts)
    BY <1>1, <1>4, AnswerStream
  <2> QED
    BY <2>2, <2>3, CurrentFrame, CurrentAppend
<1>5. ASSUME NEW s \in Socket, (~authenticated[s] /\ Destroy(s)) \/ Connection(s)
      PROVE  Current(t)'
  <2>1. Talking(t) /\ UNCHANGED <<clients, toClient>>
    BY <1>1, <1>5 DEF Talking, Destroy, Connection, TypeOK
  <2>2. s \notin Members(clients)
    BY <1>5 DEF Connection, ClientsAgree
  <2>3. \A r \in Members(clients) : username'[r] = username[r]
    BY <1>1, <1>5, <2>2 DEF Destroy, Connection, TypeOK, ClientsAgree
  <2>4. UserCounts' = UserCounts
    BY <1>1, <2>1, <2>3, CountsSame
  <2> QED
    BY <2>1, <2>4, CurrentFrame
<1>6. ASSUME \/ \E u \in User, k \in Key : IssueKey(u, k)
             \/ \E k \in Key : KeyTimeout(k)
             \/ UNCHANGED serverVars
      PROVE  Current(t)'
  <2>1. UNCHANGED <<conn, authenticated, username, clients, toClient>>
    BY <1>6 DEF IssueKey, StoreKey, KeyTimeout, serverVars, socketVars
  <2>2. Talking(t) /\ UserCounts' = UserCounts
    BY <1>1, <2>1, CountsSame DEF Talking
  <2> QED
    BY <2>1, <2>2, CurrentFrame
<1> QED
  BY <1>2, <1>3, <1>4, <1>5, <1>6 DEF OpenStep

\* The server takes a line from a client's stream: a request is answered,
\* any other line leaves the requests behind it in the stream.
LEMMA CurrentTaken ==
    ASSUME SysInv, NEW c \in Socket, ServerReceive(c),
           Talking(c)', Talking(c) => Current(c)
    PROVE  Current(c)'
<1> DEFINE m == Head(toServer[c])
<1>0. SysTypeOK /\ ClientsAgree /\ OpenInv /\ NoGhosts
  BY DEF SysInv, OpenInv
<1>1. /\ TypeOK /\ toServer[c] \in Seq(ClientMsg) /\ toServer[c] # <<>>
      /\ m \in ClientMsg /\ m = toServer[c][1]
      /\ toServer'[c] = Tail(toServer[c]) /\ view' = view
  <2>1. toServer[c] \in Seq(ClientMsg) /\ toServer[c] # <<>> /\ TypeOK
    BY <1>0 DEF ServerReceive, SysTypeOK
  <2>2. m \in ClientMsg /\ m = toServer[c][1]
    BY <2>1
  <2>3. toServer'[c] = Tail(toServer[c])
    BY <1>0 DEF ServerReceive, SysTypeOK, Talking
  <2>4. view' = view
    BY DEF ServerReceive, procVars
  <2> QED
    BY <2>1, <2>2, <2>3, <2>4
<1>2. Dispatch(c, m)
  BY DEF ServerReceive
<1> HIDE DEF m
<1>3. CASE m.type = "users"
  <2>1. OnUsers(c)
    <3>1. ~NotLoggedOn(c)
      BY <1>1 DEF NotLoggedOn, Destroy, TypeOK, Talking
    <3> QED
      BY <1>2, <1>3, <3>1 DEF Dispatch
  <2>2. toClient'[c] = Append(toClient[c], UsersMsg(UserCounts)) /\ UNCHANGED <<clients, username>>
    <3>1. conn' = conn /\ Reaches(c)
      BY <2>1 DEF OnUsers, Answer, socketVars, Talking, Reaches
    <3> QED
      BY <1>1, <2>1, <3>1 DEF OnUsers, Answer, Send, TypeOK, socketVars
  <2>3. UserCounts' = UserCounts
    BY <1>1, <2>2, CountsSame
  <2>4. toClient[c] \in Seq(ServerMsg) /\ UsersMsg(UserCounts) \in ServerMsg
    BY <1>1, MessageTypes, UserCountsType DEF TypeOK
  <2> DEFINE n == Len(toClient[c])
  <2>5. /\ n \in Nat /\ DOMAIN toClient'[c] = 1..(n + 1)
        /\ toClient'[c][n + 1] = UsersMsg(UserCounts)
    BY <2>2, <2>4
  <2>6. toClient'[c][n + 1] = UsersMsg(UserCounts)'
    BY <2>3, <2>5 DEF UsersMsg
  <2>7. ReplyUnread(c)'
    BY <2>5, <2>6 DEF ReplyUnread
  <2> QED
    BY <2>7 DEF Current
<1>4. CASE m.type # "users"
  <2>1. ASSUME RequestSent(c)
        PROVE  RequestSent(c)'
    <3>1. PICK i \in DOMAIN toServer[c] : toServer[c][i].type = "users"
      BY <2>1 DEF RequestSent
    <3>2. /\ i \in 1..Len(toServer[c]) /\ i # 1
      BY <1>1, <1>4, <3>1
    <3>3. /\ i - 1 \in DOMAIN Tail(toServer[c])
          /\ Tail(toServer[c])[i - 1] = toServer[c][i]
      BY <1>1, <3>2
    <3> QED
      BY <1>1, <3>1, <3>3 DEF RequestSent
  <2>2. OpenStep
    BY <1>0, ServerIsOpen
  <2> QED
    BY <1>0, <1>1, <2>1, <2>2, CurrentHandler
<1> QED
  BY <1>3, <1>4

\* A client reads a message: a change makes it ask, a reply that is right
\* and the last becomes its list, any other message changes nothing.
LEMMA CurrentRead ==
    ASSUME SysTypeOK, ClientsAgree, NEW c \in Socket, ClientReceive(c),
           Talking(c), Current(c)
    PROVE  Current(c)'
<1> DEFINE m == Head(toClient[c])
<1>1. /\ TypeOK /\ toClient[c] \in Seq(ServerMsg) /\ toClient[c] # <<>>
      /\ m = toClient[c][1] /\ toClient'[c] = Tail(toClient[c])
      /\ UNCHANGED <<conn, clients, username>>
  <2>1. TypeOK /\ toClient[c] \in Seq(ServerMsg) /\ toClient[c] # <<>>
    BY DEF ClientReceive, Read, SysTypeOK, TypeOK
  <2>2. toClient'[c] = Tail(toClient[c]) /\ UNCHANGED <<conn, clients, username>>
    BY <2>1 DEF ClientReceive, Read, TypeOK, socketVars
  <2> QED
    BY <2>1, <2>2
<1>2. UserCounts' = UserCounts
  BY <1>1, CountsSame
<1>3. /\ view' = IF m.type = "users" THEN [view EXCEPT ![c] = m.users] ELSE view
      /\ IF m.type \in {"join", "quit"} THEN Write(c, UsersLine) ELSE UNCHANGED toServer
  BY DEF ClientReceive, RefreshedBy, Talking
<1> HIDE DEF m
\* What the message leaves behind it.
<1>4. \A i \in DOMAIN toClient[c] : i # 1 =>
          /\ i - 1 \in DOMAIN toClient'[c]
          /\ toClient'[c][i - 1] = toClient[c][i]
  BY <1>1
<1>5. \A j \in DOMAIN toClient'[c] :
          /\ j + 1 \in DOMAIN toClient[c]
          /\ toClient'[c][j] = toClient[c][j + 1]
  BY <1>1
<1>6. \A i \in DOMAIN toClient[c] : i \in Nat
  BY <1>1
<1>7. \A j \in DOMAIN toClient'[c] : j \in Nat \ {0}
  BY <1>1
<1>8. CASE m.type \in {"join", "quit"}
  <2>1. /\ toServer[c] \in Seq(ClientMsg)
        /\ toServer'[c] = Append(toServer[c], UsersLine)
    BY <1>3, <1>8 DEF Write, SysTypeOK, Talking
  <2>2. /\ Len(toServer[c]) + 1 \in DOMAIN toServer'[c]
        /\ toServer'[c][Len(toServer[c]) + 1].type = "users"
    BY <2>1 DEF UsersLine
  <2>3. RequestSent(c)'
    BY <2>2 DEF RequestSent
  <2> QED
    BY <2>3 DEF Current
<1>9. CASE m.type \notin {"join", "quit"}
  <2>1. RequestSent(c) => RequestSent(c)'
    BY <1>3, <1>9 DEF RequestSent
  <2>2. ASSUME ChangeUnread(c)
        PROVE  ChangeUnread(c)'
    <3>1. PICK i \in DOMAIN toClient[c] : toClient[c][i].type \in {"join", "quit"}
      BY <2>2 DEF ChangeUnread
    <3>2. i # 1
      BY <1>1, <1>9, <3>1
    <3> QED
      BY <1>4, <3>1, <3>2 DEF ChangeUnread
  <2>3. ASSUME ReplyUnread(c)
        PROVE  Current(c)'
    <3>1. PICK i \in DOMAIN toClient[c] :
              /\ toClient[c][i] = UsersMsg(UserCounts)
              /\ \A j \in DOMAIN toClient[c] : j > i => toClient[c][j].type # "users"
      BY <2>3 DEF ReplyUnread
    <3>2. CASE i = 1
      <4>1. m = UsersMsg(UserCounts)
        BY <1>1, <3>1, <3>2
      <4>2. view'[c] = UserCounts'
        BY <1>2, <1>3, <4>1 DEF UsersMsg, SysTypeOK
      <4>3. \A j \in DOMAIN toClient'[c] : toClient'[c][j].type # "users"
        BY <1>5, <1>7, <3>1, <3>2
      <4>4. ViewRight(c)'
        BY <4>2, <4>3 DEF ViewRight
      <4> QED
        BY <4>4 DEF Current
    <3>3. CASE i # 1
      <4>1. i - 1 \in DOMAIN toClient'[c] /\ toClient'[c][i - 1] = toClient[c][i]
        BY <1>4, <3>3
      <4>2. toClient'[c][i - 1] = UsersMsg(UserCounts)'
        BY <1>2, <3>1, <4>1 DEF UsersMsg
      <4>3. \A j \in DOMAIN toClient'[c] : j > i - 1 => toClient'[c][j].type # "users"
        BY <1>5, <1>6, <1>7, <3>1
      <4>4. ReplyUnread(c)'
        BY <4>1, <4>2, <4>3 DEF ReplyUnread
      <4> QED
        BY <4>4 DEF Current
    <3> QED
      BY <3>2, <3>3
  <2>4. ASSUME ViewRight(c)
        PROVE  ViewRight(c)'
    <3>1. 1 \in DOMAIN toClient[c]
      BY <1>1
    <3>2. m.type # "users"
      BY <1>1, <2>4, <3>1 DEF ViewRight
    <3>3. \A j \in DOMAIN toClient'[c] : toClient'[c][j].type # "users"
      BY <1>5, <2>4 DEF ViewRight
    <3> QED
      BY <1>2, <1>3, <2>4, <3>2, <3>3 DEF ViewRight
  <2> QED
    BY <2>1, <2>2, <2>3, <2>4 DEF Current
<1> QED
  BY <1>8, <1>9

LEMMA ViewsStep ==
    ASSUME SysInv, ViewsCurrent, [SysNext]_sysVars
    PROVE  ViewsCurrent'
<1> SUFFICES ASSUME NEW t \in Socket, proc'[t] = "running", Talking(t)'
             PROVE  Current(t)'
  BY DEF ViewsCurrent
<1>1. TypeOK /\ SysTypeOK /\ ClientsAgree /\ OpenInv /\ NoGhosts
  BY DEF SysInv, OpenInv, SysTypeOK
<1>2. ASSUME NEW c \in Socket, ServerReceive(c)
      PROVE  Current(t)'
  <2>1. UNCHANGED <<proc, view>>
    BY <1>2 DEF ServerReceive, procVars
  <2>2. Talking(t) => Current(t)
    BY <2>1 DEF ViewsCurrent
  <2>3. CASE t = c
    BY <1>2, <2>2, <2>3, CurrentTaken
  <2>4. CASE t # c
    <3>1. toServer'[t] = toServer[t]
      BY <1>1, <1>2, <2>4 DEF ServerReceive, SysTypeOK
    <3>2. OpenStep
      BY <1>1, <1>2, ServerIsOpen
    <3>3. RequestSent(t) => RequestSent(t)'
      BY <3>1 DEF RequestSent
    <3> QED
      BY <2>1, <2>2, <3>2, <3>3, <1>1, CurrentHandler
  <2> QED
    BY <2>3, <2>4
<1>3. ASSUME NEW c \in Socket, ServerAnswers(c) \/ ServerEnd(c) \/ ServerError(c)
      PROVE  Current(t)'
  <2>1. UNCHANGED <<proc, view>> /\ OpenStep
    BY <1>1, <1>3, ServerIsOpen DEF ServerAnswers, ServerEnd, ServerError, procVars
  <2>2. Talking(t) => Current(t)
    BY <2>1 DEF ViewsCurrent
  <2>3. toServer'[t] = toServer[t]
    <3>1. ServerAnswers(c) \/ ServerEnd(c) => toServer' = toServer
      BY DEF ServerAnswers, ServerEnd
    <3>2. ServerError(c) => t # c
      BY <2>1 DEF ServerError
    <3> QED
      BY <1>1, <1>3, <3>1, <3>2 DEF ServerError, SysTypeOK
  <2>4. RequestSent(t) => RequestSent(t)'
    BY <2>3 DEF RequestSent
  <2> QED
    BY <1>1, <2>1, <2>2, <2>4, CurrentHandler
<1>4. ASSUME Keys \/ UNCHANGED sysVars
      PROVE  Current(t)'
  <2>1. UNCHANGED <<proc, view, toServer>> /\ (OpenStep \/ UNCHANGED serverVars)
    BY <1>4 DEF Keys, procVars, sysVars, OpenStep
  <2>2. Talking(t) => Current(t)
    BY <2>1 DEF ViewsCurrent
  <2>3. RequestSent(t) => RequestSent(t)'
    BY <2>1 DEF RequestSent
  <2> QED
    BY <2>1, <2>2, <2>3, <1>1, CurrentHandler
<1>5. ASSUME NEW c \in Socket, NEW line \in ClientMsg, Write(c, line),
             UNCHANGED <<serverVars, view>>, proc[t] = "running"
      PROVE  Current(t)'
  <2>1. RequestSent(t) => RequestSent(t)'
    <3>1. toServer[t] \in Seq(ClientMsg)
      BY <1>1 DEF SysTypeOK
    <3>2. toServer'[t] \in {toServer[t], Append(toServer[t], line)}
      BY <1>1, <1>5 DEF Write, SysTypeOK
    <3>3. \A i \in DOMAIN toServer[t] :
              i \in DOMAIN toServer'[t] /\ toServer'[t][i] = toServer[t][i]
      BY <3>1, <3>2
    <3> QED
      BY <3>3 DEF RequestSent
  <2>2. Talking(t) => Current(t)
    BY <1>1, <1>5 DEF ViewsCurrent
  <2> QED
    BY <1>1, <1>5, <2>1, <2>2, CurrentHandler
<1>6. ASSUME NEW c \in Socket, ClientQuits(c) \/ \E line \in Commands : ClientTypes(c, line)
      PROVE  Current(t)'
  <2>1. \E line \in ClientMsg : Write(c, line)
    BY <1>6, LineType DEF ClientQuits, ClientTypes
  <2>2. UNCHANGED <<serverVars, view>> /\ proc[t] = "running"
    BY <1>1, <1>6 DEF ClientQuits, ClientTypes, SysTypeOK
  <2> QED
    BY <1>1, <1>5, <2>1, <2>2
<1>7. ASSUME NEW c \in Socket, ClientStart(c)
      PROVE  Current(t)'
  <2>1. OpenStep /\ ~authenticated'[c] /\ UNCHANGED view
    BY <1>1, <1>7 DEF ClientStart, Connection, OpenStep, TypeOK
  <2>2. t # c
    BY <2>1 DEF Talking
  <2>3. proc[t] = "running" /\ toServer'[t] = toServer[t]
    BY <1>1, <1>7, <2>2 DEF ClientStart, Write, SysTypeOK
  <2>4. RequestSent(t) => RequestSent(t)'
    BY <2>3 DEF RequestSent
  <2>5. Talking(t) => Current(t)
    BY <2>3 DEF ViewsCurrent
  <2> QED
    BY <2>1, <2>4, <2>5, <1>1, CurrentHandler
<1>8. ASSUME NEW c \in Socket, ClientReceive(c)
      PROVE  Current(t)'
  <2>1. UNCHANGED <<proc, conn, authenticated, username, clients>>
    BY <1>1, <1>8 DEF ClientReceive, Read, socketVars
  <2>2. Talking(t) /\ Current(t)
    BY <2>1 DEF Talking, ViewsCurrent
  <2>3. CASE t = c
    BY <1>1, <1>8, <2>2, <2>3, CurrentRead
  <2>4. CASE t # c
    <3>1. toClient'[t] = toClient[t]
      BY <1>1, <1>8, <2>4 DEF ClientReceive, Read, TypeOK
    <3>2. view'[t] = view[t]
      BY <1>1, <1>8, <2>4 DEF ClientReceive, SysTypeOK
    <3>3. toServer'[t] = toServer[t]
      BY <1>1, <1>8, <2>4 DEF ClientReceive, Write, SysTypeOK
    <3>4. UserCounts' = UserCounts
      BY <1>1, <2>1, CountsSame
    <3>5. RequestSent(t) => RequestSent(t)'
      BY <3>3 DEF RequestSent
    <3> QED
      BY <1>1, <2>2, <3>1, <3>2, <3>4, <3>5, CurrentFrame
  <2> QED
    BY <2>3, <2>4
<1>9. ASSUME NEW c \in Socket, Exit(c)
      PROVE  Current(t)'
  <2>1. /\ UNCHANGED <<conn, authenticated, username, clients, toServer>> /\ t # c
    BY <1>1, <1>9 DEF Exit, socketVars, SysTypeOK
  <2>2. /\ toClient'[t] = toClient[t] /\ view'[t] = view[t] /\ proc[t] = "running"
    BY <1>1, <1>9, <2>1 DEF Exit, TypeOK, SysTypeOK
  <2>3. Talking(t) /\ Current(t)
    BY <2>1, <2>2 DEF Talking, ViewsCurrent
  <2>4. UserCounts' = UserCounts
    BY <1>1, <2>1, CountsSame
  <2>5. RequestSent(t) => RequestSent(t)'
    BY <2>1 DEF RequestSent
  <2> QED
    BY <1>1, <2>2, <2>3, <2>4, <2>5, CurrentFrame
<1> QED
  BY <1>2, <1>3, <1>4, <1>6, <1>7, <1>8, <1>9 DEF SysNext, ClientExits, ClientDies

\* No lost trigger: whatever happens, the user list of every running, logged
\* on client is the server's or something in flight will correct it.
THEOREM ViewsCurrentHolds == SysSpec => []ViewsCurrent
<1>1. SysInit => ViewsCurrent
  BY DEF SysInit, Init, ViewsCurrent
<1>2. SysInv /\ ViewsCurrent /\ [SysNext]_sysVars => ViewsCurrent'
  BY ViewsStep
<1> QED
  BY <1>1, <1>2, SysInvHolds, PTL DEF SysSpec

-----------------------------------------------------------------------------
(* The server keeps its promise to these clients.                          *)

\* What the server knows of keys and names, whatever the clients do.
LEMMA KeysAndNames == SysSpec => [](SysTypeOK /\ ClientsAgree /\ KeyInv /\ NamesFit)
<1>1. SysInit => KeyInv /\ NamesFit
  BY KeyInit DEF SysInit, Init, NamesFit
<1>2. ASSUME SysTypeOK, ClientsAgree, KeyInv, NamesFit, [SysNext]_sysVars
      PROVE  KeyInv' /\ NamesFit'
  <2>1. ASSUME NEW c \in Socket, Exit(c)
        PROVE  KeyInv' /\ NamesFit'
    BY <1>2, <2>1 DEF Exit, socketVars, keyVars, KeyInv, TableFits, UsesFit, SocketsFit,
      KeyWindowHonoured, NamesFit
  <2>2. CASE ServerPart
    BY <1>2, <2>2, KeyStep, KeyStutter, NamesStep DEF ServerPart, SysTypeOK
  <2> QED
    BY <1>2, <2>1, <2>2, ServerPartOfStep
<1> QED
  BY <1>1, <1>2, SysInvariant, PTL DEF SysSpec

\* A process that ends or is killed changes nothing outside: its member
\* leaves when the server sees the end of the stream.
LEMMA ExitIsNothing ==
    ASSUME NEW c \in Socket, Exit(c)
    PROVE  UNCHANGED Outside!vars
BY DEF Exit, socketVars, keyVars, Outside!vars, Life

\* Together with the clients, which send what they like, quit, die and leave
\* streams unread, the server still is a Membership.
THEOREM SystemIsMembership == SysSpec => IsMembership
<1>1. SysInit => Outside!Init
  BY ConstantsAssumption DEF SysInit, Init, Outside!Init, Life, AnyKey
<1>2. ASSUME SysTypeOK, ClientsAgree, KeyInv, NamesFit, [SysNext]_sysVars
      PROVE  [Outside!Next]_(Outside!vars)
  <2>1. ASSUME NEW c \in Socket, Exit(c)
        PROVE  [Outside!Next]_(Outside!vars)
    BY <2>1, ExitIsNothing
  <2>2. CASE ServerPart
    BY <1>2, <2>2, LogonIsJoin, LogonLateIsJoin, KillIsLeave, DestroyIsSever, StoredIsIssue,
       IssueKeyIsIssue, TimeoutIsExpire, OtherIsNothing, StepKinds DEF ServerPart, SysTypeOK
  <2> QED
    BY <1>2, <2>1, <2>2, ServerPartOfStep
<1> QED
  BY <1>1, <1>2, KeysAndNames, PTL DEF IsMembership, Outside!Spec, SysSpec

\* In the whole system, too, whoever is logged on with a generated key is the
\* user it was issued for, and the key is on one socket only.
THEOREM SystemLogonIdentity == SysSpec => []LogonIdentity
<1>1. TypeOK /\ KeyInv => LogonIdentity
  BY ConstantsAssumption DEF TypeOK, KeyInv, SocketsFit, LogonIdentity, AnyKey
<1> QED
  BY <1>1, KeysAndNames, PTL DEF SysTypeOK


=============================================================================
