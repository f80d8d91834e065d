-------------------------- MODULE ChatServerProofs --------------------------
(***************************************************************************)
(* Proofs about ChatServer, for any sockets, keys, users and backlog:      *)
(* its variables keep their types, the clients array and the sockets'      *)
(* flags agree, keys are honoured, used once and only by their user, and   *)
(* from outside the session layer is a Membership.                         *)
(***************************************************************************)
EXTENDS ChatServer, Integers, FiniteSetTheorems, WellFoundedInduction, TLAPS

\* A handler of the server, the bound on the backlog left out; and any step.
HandlerStep ==
    \/ \E s \in Socket :
          Connection(s) \/ Line(s) \/ OnEnd(s) \/ OnError(s) \/ AuthEnds(s) \/ PasswordEnds(s)
    \/ \E u \in User, k \in Key : IssueKey(u, k)
    \/ \E k \in Key : KeyTimeout(k)
ServerStep == HandlerStep \/ \E s \in Socket : Read(s)

-----------------------------------------------------------------------------
(* Lists.                                                                  *)

\* A set of numbers that is not empty has a least one.
LEMMA LeastElement ==
    ASSUME NEW T, T \subseteq Nat, T # {}
    PROVE  \E x \in T : \A y \in T : x <= y
<1> DEFINE I == {1..n : n \in T}
<1>1. I # {} /\ I \subseteq FiniteSubsetsOf(Nat)
  <2>1. \A n \in Nat : IsFiniteSet(1..n)
    BY FS_Interval
  <2>2. \A n \in Nat : 1..n \subseteq Nat
    OBVIOUS
  <2> QED
    BY <2>1, <2>2 DEF FiniteSubsetsOf
<1>2. PICK a \in I : \A b \in I : <<b, a>> \notin StrictSubsetOrdering(Nat)
  <2> HIDE DEF I
  <2> QED
    BY <1>1, FS_StrictSubsetOrderingWellFounded, WFMin
<1>3. PICK x \in T : a = 1..x
  OBVIOUS
<1>4. ASSUME NEW y \in T, y < x
      PROVE  FALSE
  <2>1. 1..y \in I
    OBVIOUS
  <2>2. 1..y \subseteq 1..x /\ x \in 1..x /\ x \notin 1..y
    BY <1>4
  <2>3. 1..y \in SUBSET Nat /\ 1..x \in SUBSET Nat
    OBVIOUS
  <2>4. <<1..y, 1..x>> \in StrictSubsetOrdering(Nat)
    BY <2>2, <2>3 DEF StrictSubsetOrdering
  <2> QED
    BY <1>2, <1>3, <2>1, <2>4
<1> QED
  BY <1>4

\* indexOf finds an element that is there.
LEMMA IndexOfFinds ==
    ASSUME NEW list \in Seq(Socket), NEW s \in Members(list)
    PROVE  IndexOf(list, s) \in DOMAIN list /\ list[IndexOf(list, s)] = s
<1> DEFINE At == {i \in DOMAIN list : list[i] = s}
<1>1. At \subseteq Nat /\ At # {}
  BY DEF Members
<1>2. PICK i \in At : \A j \in At : i <= j
  <2> HIDE DEF At
  <2> QED
    BY <1>1, LeastElement
<1>3. \E n \in DOMAIN list : list[n] = s /\ \A j \in DOMAIN list : list[j] = s => n <= j
  BY <1>2
<1> QED
  BY <1>3 DEF IndexOf

\* Adding a socket at the end.
LEMMA AppendMembers ==
    ASSUME NEW list \in Seq(Socket), NEW s \in Socket
    PROVE  /\ Append(list, s) \in Seq(Socket)
           /\ Members(Append(list, s)) = Members(list) \cup {s}
<1>1. Append(list, s) \in Seq(Socket) /\ Len(Append(list, s)) = Len(list) + 1
  OBVIOUS
<1>2. \A i \in 1..(Len(list) + 1) :
        Append(list, s)[i] = IF i <= Len(list) THEN list[i] ELSE s
  OBVIOUS
<1>3. s \in Members(Append(list, s))
  BY <1>1, <1>2 DEF Members
<1>4. Members(list) \subseteq Members(Append(list, s))
  BY <1>1, <1>2 DEF Members
<1>5. Members(Append(list, s)) \subseteq Members(list) \cup {s}
  BY <1>1, <1>2 DEF Members
<1> QED
  BY <1>1, <1>3, <1>4, <1>5

NoDuplicates(list) == \A i, j \in DOMAIN list : list[i] = list[j] => i = j

\* Adding a socket that is not there.
LEMMA AppendNoDuplicates ==
    ASSUME NEW list \in Seq(Socket), NEW s \in Socket \ Members(list), NoDuplicates(list)
    PROVE  NoDuplicates(Append(list, s))
<1>1. Len(Append(list, s)) = Len(list) + 1 /\ Append(list, s) \in Seq(Socket)
  OBVIOUS
<1>2. \A i \in 1..(Len(list) + 1) :
        Append(list, s)[i] = IF i <= Len(list) THEN list[i] ELSE s
  OBVIOUS
<1>3. \A i \in 1..Len(list) : list[i] # s
  BY DEF Members
<1> QED
  BY <1>1, <1>2, <1>3 DEF NoDuplicates

\* removeSocket takes out one place, and keeps the others in order.
LEMMA RemoveSocketType ==
    ASSUME NEW list \in Seq(Socket), NEW s
    PROVE  RemoveSocket(list, s) \in Seq(Socket)
<1>1. CASE s \notin Members(list)
  BY <1>1 DEF RemoveSocket
<1>2. CASE s \in Members(list)
  <2> DEFINE n == IndexOf(list, s)
             e(i) == IF i < n THEN list[i] ELSE list[i + 1]
  <2>1. n \in 1..Len(list)
    BY <1>2, IndexOfFinds
  <2>2. Len(list) - 1 \in Nat
    BY <2>1
  <2>3. \A i \in 1..(Len(list) - 1) : e(i) \in Socket
    BY <2>1
  <2>4. RemoveSocket(list, s) = [i \in 1..(Len(list) - 1) |-> e(i)]
    BY <1>2 DEF RemoveSocket
  <2>5. RemoveSocket(list, s) \in [1..(Len(list) - 1) -> Socket]
    BY <2>3, <2>4
  <2> QED
    BY <2>2, <2>5
<1> QED
  BY <1>1, <1>2

\* removeSocket on a list without duplicates removes the socket.
LEMMA RemoveSocketRemoves ==
    ASSUME NEW list \in Seq(Socket), NEW s, NoDuplicates(list)
    PROVE  /\ Members(RemoveSocket(list, s)) = Members(list) \ {s}
           /\ NoDuplicates(RemoveSocket(list, s))
<1>1. CASE s \notin Members(list)
  BY <1>1 DEF RemoveSocket
<1>2. CASE s \in Members(list)
  <2> DEFINE n == IndexOf(list, s)
             rest == RemoveSocket(list, s)
  <2>1. n \in 1..Len(list) /\ list[n] = s
    BY <1>2, IndexOfFinds
  <2>2. DOMAIN rest = 1..(Len(list) - 1)
    BY <1>2 DEF RemoveSocket
  <2>3. \A i \in 1..(Len(list) - 1) : rest[i] = IF i < n THEN list[i] ELSE list[i + 1]
    BY <1>2 DEF RemoveSocket
  <2> HIDE DEF n, rest
  <2>4. NoDuplicates(rest)
    BY <2>1, <2>2, <2>3 DEF NoDuplicates
  <2>5. Members(rest) \subseteq Members(list)
    BY <2>1, <2>2, <2>3 DEF Members
  <2>6. s \notin Members(rest)
    <3>1. \A i \in 1..(Len(list) - 1) : rest[i] # s
      BY <2>1, <2>3 DEF NoDuplicates
    <3> QED
      BY <2>2, <3>1 DEF Members
  <2>7. ASSUME NEW t \in Members(list), t # s
        PROVE  t \in Members(rest)
    <3>1. PICK i \in 1..Len(list) : list[i] = t
      BY DEF Members
    <3>2. CASE i < n
      BY <2>1, <2>2, <2>3, <3>1, <3>2 DEF Members
    <3>3. CASE i > n
      <4>1. i - 1 \in 1..(Len(list) - 1) /\ rest[i - 1] = t
        BY <2>1, <2>3, <3>1, <3>3
      <4> QED
        BY <2>2, <4>1 DEF Members
    <3>4. i # n
      BY <2>1, <2>7, <3>1
    <3> QED
      BY <2>1, <3>1, <3>2, <3>3, <3>4
  <2> QED
    BY <2>4, <2>5, <2>6, <2>7 DEF rest
<1> QED
  BY <1>1, <1>2

-----------------------------------------------------------------------------
(* Types.                                                                  *)

\* What the messages, the counts and the writes of the server are made of.
LEMMA MessageTypes ==
    /\ \A u \in Name : /\ UserMsg(u) \in ServerMsg /\ JoinMsg(u) \in ServerMsg
                       /\ QuitMsg(u) \in ServerMsg /\ PubMsg(u) \in ServerMsg
                       /\ PrivMsg(u) \in ServerMsg
    /\ ErrorMsg \in ServerMsg /\ NoticeMsg \in ServerMsg /\ JoinMsg(NoUser) \in ServerMsg
    /\ \A n \in Nat : StatusMsg(n) \in ServerMsg
    /\ \A f \in [Name -> Nat] : UsersMsg(f) \in ServerMsg
BY DEF ServerMsg, UserMsg, JoinMsg, QuitMsg, PubMsg, PrivMsg, ErrorMsg, NoticeMsg,
       StatusMsg, UsersMsg

LEMMA UserCountsType ==
    ASSUME TypeOK
    PROVE  UserCounts \in [Name -> Nat]
<1>1. ASSUME NEW u \in Name
      PROVE  Cardinality(Connections(u)) \in Nat
  <2>1. Connections(u) \in SUBSET (1..Len(clients)) /\ Len(clients) \in Nat
    BY DEF TypeOK, Connections
  <2>2. IsFiniteSet(1..Len(clients))
    BY <2>1, FS_Interval
  <2> QED
    BY <2>1, <2>2, FS_Subset, FS_CardinalityType
<1> QED
  BY <1>1 DEF UserCounts

LEMMA BroadcastType ==
    ASSUME NEW out \in [Socket -> Seq(ServerMsg)], NEW list, NEW from, NEW m \in ServerMsg
    PROVE  Broadcast(out, list, from, m) \in [Socket -> Seq(ServerMsg)]
<1>1. \A t \in Socket : Append(out[t], m) \in Seq(ServerMsg)
  OBVIOUS
<1> QED
  BY <1>1 DEF Broadcast

\* getSocketByUsername returns a client that is logged on under the name.
LEMMA SocketByUsernameFinds ==
    ASSUME TypeOK, NEW u, LoggedOn(u)
    PROVE  /\ SocketByUsername(u) \in Members(clients)
           /\ SocketByUsername(u) \in Socket
           /\ username[SocketByUsername(u)] = u
<1>1. Connections(u) \subseteq DOMAIN clients /\ DOMAIN clients \subseteq Nat /\ Connections(u) # {}
  BY DEF TypeOK, Connections, LoggedOn
<1>2. \E i \in Connections(u) : \A j \in Connections(u) : i <= j
  BY <1>1, LeastElement
<1>3. PICK i \in Connections(u) : SocketByUsername(u) = clients[i]
  BY <1>2 DEF SocketByUsername
<1>4. i \in DOMAIN clients /\ username[clients[i]] = u
  BY <1>3 DEF Connections
<1> QED
  BY <1>3, <1>4 DEF TypeOK, Members

\* Types hold at the start.
LEMMA TypeInit == Init => TypeOK
<1> SUFFICES ASSUME Init PROVE TypeOK
  OBVIOUS
<1> QED
  BY ConstantsAssumption DEF Init, TypeOK, Name, AnyKey

\* Every handler leaves the pending request, takes one, or ends it.
PendingOK == pending \in Requests \cup {NoSocket}

LEMMA PendingStep ==
    ASSUME PendingOK, ServerStep \/ UNCHANGED serverVars
    PROVE  PendingOK'
<1>1. ASSUME NEW s \in Socket, Line(s)
      PROVE  PendingOK'
  <2>1. CASE OnAuth(s) \/ OnPassword(s)
    BY <2>1 DEF OnAuth, OnPassword, PendingOK, Requests
  <2>2. CASE ~(OnAuth(s) \/ OnPassword(s))
    <3>1. pending' = pending
      BY <1>1, <2>2 DEF Line, Logon, LogonLate, TakeKey, KeyRefused, NotLoggedOn, OnQuit,
                        OnUsers, OnStatus, OnPubmsg, OnPrivmsg, OnMalformed
    <3> QED
      BY <3>1 DEF PendingOK
  <2> QED
    BY <2>1, <2>2
<1>2. ASSUME NEW s \in Socket, AuthEnds(s) \/ PasswordEnds(s)
      PROVE  PendingOK'
  BY <1>2 DEF AuthEnds, PasswordEnds, PendingOK
<1>3. ASSUME \/ \E s \in Socket : Connection(s) \/ OnEnd(s) \/ OnError(s) \/ Read(s)
             \/ \E u \in User, k \in Key : IssueKey(u, k)
             \/ \E k \in Key : KeyTimeout(k)
             \/ UNCHANGED serverVars
      PROVE  PendingOK'
  BY <1>3 DEF Connection, OnEnd, OnError, Read, IssueKey, KeyTimeout, PendingOK, serverVars
<1> QED
  BY <1>1, <1>2, <1>3 DEF ServerStep, HandlerStep

\* What looking a key up, and using it, leave.
LEMMA TakeKeyType ==
    ASSUME TypeOK, NEW s \in Socket, NEW k \in AnyKey, TakeKey(s, k)
    PROVE  /\ KeyTable(k)[k] \in Name
           /\ keys' \in [AnyKey -> Name \cup {NoUser}]
           /\ usedBy' \in [AnyKey -> Socket \cup {NoSocket}]
<1>1. KeyTable(k)[k] \in Name /\ KeyTable(k) \in [AnyKey -> Name \cup {NoUser}]
  BY DEF TakeKey, KeyTable, TypeOK, Name, AnyKey
<1>2. keys' \in [AnyKey -> Name \cup {NoUser}]
  BY <1>1 DEF TakeKey, Consume
<1> QED
  BY <1>1, <1>2 DEF TakeKey, TypeOK

LEMMA LogonType ==
    ASSUME TypeOK, PendingOK', NEW s \in Socket, NEW k \in AnyKey, Logon(s, k)
    PROVE  TypeOK'
<1> DEFINE u        == KeyTable(k)[k]
           list     == Append(clients, s)
           welcomed == IF Reaches(s)
                       THEN [toClient EXCEPT ![s] = @ \o Welcome(u, Len(list))]
                       ELSE toClient
<1>1. /\ u \in Name /\ keys' \in [AnyKey -> Name \cup {NoUser}]
      /\ usedBy' \in [AnyKey -> Socket \cup {NoSocket}]
  BY TakeKeyType DEF Logon
<1>2. list \in Seq(Socket) /\ Len(list) \in Nat
  BY DEF TypeOK
<1>3. Welcome(u, Len(list)) \in Seq(ServerMsg)
  BY <1>1, <1>2, MessageTypes DEF Welcome
<1>4. welcomed \in [Socket -> Seq(ServerMsg)]
  <2> HIDE DEF u, list
  <2> QED
    BY <1>3 DEF TypeOK
<1>5. Broadcast(welcomed, list, s, JoinMsg(u)) \in [Socket -> Seq(ServerMsg)]
  BY <1>1, <1>4, BroadcastType, MessageTypes
<1>6. toClient' \in [Socket -> Seq(ServerMsg)]
  BY <1>5 DEF Logon
<1> QED
  BY <1>1, <1>2, <1>6 DEF Logon, TakeKey, TypeOK, PendingOK

LEMMA LogonLateType ==
    ASSUME TypeOK, PendingOK', NEW s \in Socket, NEW k \in AnyKey, LogonLate(s, k)
    PROVE  TypeOK'
<1> DEFINE told == Broadcast(toClient, clients, s, QuitMsg(KeyTable(k)[k]))
<1>1. /\ KeyTable(k)[k] \in Name /\ keys' \in [AnyKey -> Name \cup {NoUser}]
      /\ usedBy' \in [AnyKey -> Socket \cup {NoSocket}]
  BY TakeKeyType DEF LogonLate
<1>2. told \in [Socket -> Seq(ServerMsg)]
  BY <1>1, BroadcastType, MessageTypes DEF TypeOK
<1>3. toClient' \in [Socket -> Seq(ServerMsg)]
  <2> HIDE DEF told
  <2>1. Broadcast(told, clients, s, JoinMsg(NoUser)) \in [Socket -> Seq(ServerMsg)]
    BY <1>2, BroadcastType, MessageTypes
  <2> QED
    BY <2>1 DEF LogonLate, told
<1> QED
  BY <1>1, <1>3 DEF LogonLate, TakeKey, TypeOK, PendingOK

LEMMA KillType ==
    ASSUME TypeOK, PendingOK', NEW s \in Socket, Kill(s),
           authenticated[s] => username[s] \in Name
    PROVE  TypeOK'
<1>1. clients' \in Seq(Socket)
  BY RemoveSocketType DEF Kill, TypeOK
<1>2. toClient' \in [Socket -> Seq(ServerMsg)]
  <2>1. CASE authenticated[s]
    <3>1. Farewell(s) \in ServerMsg
      BY <2>1, MessageTypes DEF Farewell
    <3> QED
      BY <2>1, <3>1, BroadcastType DEF Kill, TypeOK
  <2>2. CASE ~authenticated[s]
    BY <2>2 DEF Kill, TypeOK
  <2> QED
    BY <2>1, <2>2
<1>3. keys' \in [AnyKey -> Name \cup {NoUser}]
  BY DEF Kill, ForgetKey, TypeOK
<1> QED
  BY <1>1, <1>2, <1>3 DEF Kill, TypeOK, PendingOK

\* A message written to one socket.
LEMMA SendType ==
    ASSUME TypeOK, NEW s \in Socket, NEW m \in ServerMsg, Send(s, m)
    PROVE  toClient' \in [Socket -> Seq(ServerMsg)]
BY DEF Send, TypeOK

\* The commands and answers that only write or wait for LevelDB, and the
\* reads: of the other variables they change nothing but toClient.
Noticed(s) == Send(s, NoticeMsg) /\ UNCHANGED <<socketVars, clients, keyVars>>
Asking(s)  == UNCHANGED <<socketVars, clients, keyVars, toClient>>
Answering(s) ==
    \/ OnUsers(s) \/ OnStatus(s) \/ OnPubmsg(s) \/ Noticed(s) \/ Asking(s)
    \/ \E target \in Name : OnPrivmsg(s, target)
Writing(s) == Answering(s) \/ Read(s)

LEMMA WritingSame ==
    ASSUME NEW s \in Socket, Writing(s)
    PROVE  UNCHANGED <<socketVars, clients, keyVars>>
BY DEF Writing, Answering, Noticed, Asking, OnUsers, OnStatus, Answer, OnPubmsg, OnPrivmsg, Read

LEMMA WritingType ==
    ASSUME TypeOK, ClientsAgree, PendingOK', NEW s \in Socket, Writing(s)
    PROVE  TypeOK'
<1>1. UNCHANGED <<socketVars, clients, keyVars>>
  BY WritingSame
<1>2. authenticated[s] => username[s] \in Name
  BY DEF ClientsAgree, TypeOK
<1>3. toClient' \in [Socket -> Seq(ServerMsg)]
  <2>1. CASE OnUsers(s)
    BY <2>1, SendType, UserCountsType, MessageTypes DEF OnUsers, Answer
  <2>2. CASE OnStatus(s)
    <3>1. Len(clients) \in Nat
      BY DEF TypeOK
    <3> QED
      BY <2>2, <3>1, SendType, MessageTypes DEF OnStatus, Answer
  <2>3. CASE OnPubmsg(s)
    <3>1. PubMsg(username[s]) \in ServerMsg
      BY <1>2, <2>3, MessageTypes DEF OnPubmsg
    <3> QED
      BY <2>3, <3>1, BroadcastType DEF OnPubmsg, TypeOK
  <2>4. ASSUME NEW target \in Name, OnPrivmsg(s, target)
        PROVE  toClient' \in [Socket -> Seq(ServerMsg)]
    <3>1. PrivMsg(username[s]) \in ServerMsg
      BY <1>2, <2>4, MessageTypes DEF OnPrivmsg
    <3>2. CASE LoggedOn(target)
      BY <2>4, <3>1, <3>2, SendType, SocketByUsernameFinds DEF OnPrivmsg
    <3>3. CASE ~LoggedOn(target)
      BY <2>4, <3>3, SendType, MessageTypes DEF OnPrivmsg
    <3> QED
      BY <3>2, <3>3
  <2>5. CASE Read(s)
    BY <2>5 DEF Read, TypeOK
  <2>6. CASE Noticed(s)
    BY <2>6, SendType, MessageTypes DEF Noticed
  <2>7. CASE Asking(s)
    BY <2>7 DEF Asking, TypeOK
  <2> QED
    BY <2>1, <2>2, <2>3, <2>4, <2>5, <2>6, <2>7 DEF Writing, Answering
<1> QED
  BY <1>1, <1>3 DEF TypeOK, PendingOK, socketVars, keyVars

\* auth() accepts on a connection, which is then destroyed.
Stored(s) ==
    /\ \E u \in User, k \in Key : StoreKey(u, k)
    /\ conn' = [conn EXCEPT ![s] = "destroyed"]
    /\ UNCHANGED <<authenticated, username, sockKey>>

\* The handlers that neither log on nor kill anybody.
Quiet ==
    \/ \E s \in Socket : Connection(s) \/ Destroy(s) \/ Stored(s)
    \/ \E u \in User, k \in Key : IssueKey(u, k)
    \/ \E k \in Key : KeyTimeout(k)

LEMMA StoreType ==
    ASSUME TypeOK, NEW u \in User, NEW k \in Key, StoreKey(u, k)
    PROVE  /\ keys' \in [AnyKey -> Name \cup {NoUser}] /\ keyTimers' \subseteq Key
           /\ issuedTo' \in [AnyKey -> User \cup {NoUser}]
BY DEF StoreKey, TypeOK, Name, AnyKey

LEMMA QuietType ==
    ASSUME TypeOK, PendingOK', Quiet
    PROVE  TypeOK'
<1>1. ASSUME NEW s \in Socket, Connection(s)
      PROVE  TypeOK'
  BY <1>1 DEF Connection, TypeOK, PendingOK, keyVars
<1>2. ASSUME NEW s \in Socket, Destroy(s)
      PROVE  TypeOK'
  BY <1>2 DEF Destroy, TypeOK, PendingOK, keyVars
<1>3. ASSUME NEW u \in User, NEW k \in Key, IssueKey(u, k)
      PROVE  TypeOK'
  BY <1>3, StoreType DEF IssueKey, StoreKey, TypeOK, PendingOK, socketVars
<1>4. ASSUME NEW k \in Key, KeyTimeout(k)
      PROVE  TypeOK'
  BY <1>4 DEF KeyTimeout, TypeOK, PendingOK, socketVars
<1>5. ASSUME NEW s \in Socket, Stored(s)
      PROVE  TypeOK'
  <2>1. PICK u \in User, k \in Key : StoreKey(u, k)
    BY <1>5 DEF Stored
  <2> QED
    BY <1>5, <2>1, StoreType DEF Stored, StoreKey, TypeOK, PendingOK
<1> QED
  BY <1>1, <1>2, <1>3, <1>4, <1>5 DEF Quiet

\* Every handler is of one of these kinds, every other step a read.
LEMMA HandlerKinds ==
    ASSUME HandlerStep
    PROVE  \/ \E s \in Socket, k \in AnyKey : Logon(s, k) \/ LogonLate(s, k)
           \/ \E s \in Socket : Kill(s)
           \/ \E s \in Socket : Destroy(s) \/ Stored(s)
           \/ \E s \in Socket : Connection(s)
           \/ \E u \in User, k \in Key : IssueKey(u, k)
           \/ \E k \in Key : KeyTimeout(k)
           \/ \E s \in Socket : Answering(s)
<1>1. ASSUME NEW s \in Socket, Line(s)
      PROVE  \/ \E k \in AnyKey : Logon(s, k) \/ LogonLate(s, k)
             \/ Kill(s) \/ Destroy(s) \/ Answering(s)
  BY <1>1 DEF Line, KeyRefused, NotLoggedOn, OnAuth, OnQuit, OnMalformed, OnPassword, Answer,
              Answering, Noticed, Asking
<1>2. ASSUME NEW s \in Socket, OnEnd(s) \/ OnError(s) \/ AuthEnds(s) \/ PasswordEnds(s)
      PROVE  \/ Kill(s) \/ Destroy(s) \/ Stored(s) \/ Answering(s)
  BY <1>2 DEF OnEnd, OnError, AuthEnds, PasswordEnds, Stored, Answering, Noticed
<1> QED
  BY <1>1, <1>2 DEF HandlerStep

LEMMA StepKinds ==
    ASSUME ServerStep
    PROVE  \/ \E s \in Socket, k \in AnyKey : Logon(s, k) \/ LogonLate(s, k)
           \/ \E s \in Socket : Kill(s)
           \/ \E s \in Socket : Destroy(s) \/ Stored(s)
           \/ \E s \in Socket : Connection(s)
           \/ \E u \in User, k \in Key : IssueKey(u, k)
           \/ \E k \in Key : KeyTimeout(k)
           \/ \E s \in Socket : Writing(s)
BY HandlerKinds DEF ServerStep, Writing

-----------------------------------------------------------------------------
(* The array of clients and the flags of the sockets.                      *)

LEMMA LogonAgrees ==
    ASSUME TypeOK, ClientsAgree, NEW s \in Socket, NEW k \in AnyKey, Logon(s, k)
    PROVE  ClientsAgree'
<1>1. clients \in Seq(Socket) /\ clients' = Append(clients, s) /\ s \notin Members(clients)
  BY DEF Logon, TakeKey, TypeOK, ClientsAgree
<1>2. Members(clients') = Members(clients) \cup {s} /\ NoDuplicates(clients')
  BY <1>1, AppendMembers, AppendNoDuplicates DEF ClientsAgree, NoDuplicates
<1>3. authenticated' = [authenticated EXCEPT ![s] = TRUE] /\ conn' = conn
      /\ conn[s] # "new" /\ username'[s] # NoUser
      /\ \A t \in Socket \ {s} : username'[t] = username[t]
  BY DEF Logon, TakeKey, TypeOK
<1>4. Members(clients') = {t \in Socket : authenticated'[t]}
  BY <1>2, <1>3 DEF ClientsAgree, TypeOK
<1>5. \A t \in Members(clients') : conn'[t] # "new" /\ username'[t] # NoUser
  BY <1>2, <1>3 DEF ClientsAgree
<1> QED
  BY <1>2, <1>4, <1>5 DEF ClientsAgree, NoDuplicates, Members

LEMMA KillAgrees ==
    ASSUME TypeOK, ClientsAgree, NEW s \in Socket, Kill(s)
    PROVE  ClientsAgree'
<1>1. clients \in Seq(Socket) /\ clients' = RemoveSocket(clients, s) /\ NoDuplicates(clients)
  BY DEF Kill, TypeOK, ClientsAgree, NoDuplicates
<1>2. Members(clients') = Members(clients) \ {s} /\ NoDuplicates(clients')
  BY <1>1, RemoveSocketRemoves
<1>3. /\ authenticated' = [authenticated EXCEPT ![s] = FALSE]
      /\ \A t \in Socket \ {s} : conn'[t] = conn[t] /\ username'[t] = username[t]
  BY DEF Kill, TypeOK
<1>4. Members(clients') = {t \in Socket : authenticated'[t]}
  BY <1>2, <1>3 DEF ClientsAgree, TypeOK
<1>5. \A t \in Members(clients') : conn'[t] # "new" /\ username'[t] # NoUser
  BY <1>2, <1>3 DEF ClientsAgree
<1> QED
  BY <1>2, <1>4, <1>5 DEF ClientsAgree, NoDuplicates, Members

LEMMA ClientsInit == Init => ClientsAgree
BY DEF Init, ClientsAgree, Members

\* The two together are inductive.
LEMMA AgreeStep ==
    ASSUME TypeOK, ClientsAgree, ServerStep
    PROVE  TypeOK' /\ ClientsAgree'
<1>0. PendingOK'
  BY PendingStep DEF TypeOK, PendingOK
<1>1. ASSUME NEW s \in Socket, NEW k \in AnyKey, Logon(s, k)
      PROVE  TypeOK' /\ ClientsAgree'
  BY <1>0, <1>1, LogonType, LogonAgrees
<1>2. ASSUME NEW s \in Socket, Kill(s)
      PROVE  TypeOK' /\ ClientsAgree'
  <2>1. authenticated[s] => username[s] \in Name
    BY DEF ClientsAgree, TypeOK
  <2> QED
    BY <1>0, <1>2, <2>1, KillType, KillAgrees
<1>3. ASSUME NEW s \in Socket, Destroy(s) \/ Stored(s)
      PROVE  TypeOK' /\ ClientsAgree'
  <2>1. TypeOK'
    BY <1>0, <1>3, QuietType DEF Quiet
  <2>2. /\ conn' = [conn EXCEPT ![s] = "destroyed"]
        /\ UNCHANGED <<authenticated, username, clients>>
    BY <1>3 DEF Destroy, Stored, StoreKey
  <2>3. ClientsAgree'
    BY <2>2 DEF ClientsAgree, Members, TypeOK
  <2> QED
    BY <2>1, <2>3
<1>4. ASSUME NEW s \in Socket, Connection(s)
      PROVE  TypeOK' /\ ClientsAgree'
  <2>1. TypeOK'
    BY <1>0, <1>4, QuietType DEF Quiet
  <2>2. s \notin Members(clients)
    BY <1>4 DEF Connection, ClientsAgree
  <2>3. ClientsAgree'
    BY <1>4, <2>2 DEF Connection, ClientsAgree, Members, TypeOK
  <2> QED
    BY <2>1, <2>3
<1>5. ASSUME \/ \E u \in User, k \in Key : IssueKey(u, k)
             \/ \E k \in Key : KeyTimeout(k)
      PROVE  TypeOK' /\ ClientsAgree'
  <2>1. TypeOK'
    BY <1>0, <1>5, QuietType DEF Quiet
  <2>2. UNCHANGED <<socketVars, clients>>
    BY <1>5 DEF IssueKey, StoreKey, KeyTimeout
  <2> QED
    BY <2>1, <2>2 DEF ClientsAgree, Members, socketVars
<1>6. ASSUME NEW s \in Socket, Writing(s)
      PROVE  TypeOK' /\ ClientsAgree'
  BY <1>0, <1>6, WritingType, WritingSame DEF ClientsAgree, Members, socketVars
<1>7. ASSUME NEW s \in Socket, NEW k \in AnyKey, LogonLate(s, k)
      PROVE  TypeOK' /\ ClientsAgree'
  <2>1. UNCHANGED <<conn, authenticated, username, clients>>
    BY <1>7 DEF LogonLate, TakeKey
  <2> QED
    BY <1>0, <1>7, <2>1, LogonLateType DEF ClientsAgree, Members
<1> QED
  BY <1>1, <1>2, <1>3, <1>4, <1>5, <1>6, <1>7, StepKinds

\* Stuttering.
LEMMA AgreeStutter ==
    ASSUME TypeOK, ClientsAgree, UNCHANGED serverVars
    PROVE  TypeOK' /\ ClientsAgree'
BY DEF TypeOK, ClientsAgree, Members, serverVars, socketVars, keyVars

LEMMA NextIsStep == Next => ServerStep
BY DEF Next, ServerStep, HandlerStep

\* Type correctness of the variables of server.js.
THEOREM TypeCorrect == Spec => []TypeOK
<1>1. Init => TypeOK /\ ClientsAgree
  BY TypeInit, ClientsInit
<1>2. TypeOK /\ ClientsAgree /\ [Next]_serverVars => (TypeOK /\ ClientsAgree)'
  BY AgreeStep, AgreeStutter, NextIsStep
<1> QED
  BY <1>1, <1>2, PTL DEF Spec

\* The clients array and the flags agree: each logged-on socket is in it
\* once and has a name, whatever logons and kills come in which order, kill()
\* and logon of a dead socket included.
THEOREM ClientsAgreeHolds == Spec => []ClientsAgree
<1>1. Init => TypeOK /\ ClientsAgree
  BY TypeInit, ClientsInit
<1>2. TypeOK /\ ClientsAgree /\ [Next]_serverVars => (TypeOK /\ ClientsAgree)'
  BY AgreeStep, AgreeStutter, NextIsStep
<1> QED
  BY <1>1, <1>2, PTL DEF Spec

-----------------------------------------------------------------------------
(* Keys.                                                                   *)

\* The inductive invariant: what the table, the timers, the sockets and the
\* two history variables say of a generated key fits together.
TableFits ==
    \A k \in Key : keys[k] # NoUser => keys[k] = issuedTo[k] /\ usedBy[k] = NoSocket
UsesFit ==
    /\ \A k \in Key : usedBy[k] # NoSocket => issuedTo[k] # NoUser
    /\ \A k \in keyTimers : issuedTo[k] # NoUser
SocketsFit ==
    \A s \in Socket :
        /\ sockKey[s] \in Key => usedBy[sockKey[s]] = s
        /\ authenticated[s] => sockKey[s] # NoKey
        /\ authenticated[s] /\ sockKey[s] \in Key => username[s] = issuedTo[sockKey[s]]
KeyInv == TableFits /\ UsesFit /\ SocketsFit /\ KeyWindowHonoured

LEMMA KeyInit == Init => KeyInv
BY ConstantsAssumption
   DEF Init, KeyInv, TableFits, UsesFit, SocketsFit, KeyWindowHonoured, AnyKey, Name

\* A key that is in the table is used, and leaves it.
LEMMA TakeKeyKeys ==
    ASSUME TypeOK, KeyInv, NEW s \in Socket, NEW k \in AnyKey, TakeKey(s, k)
    PROVE  /\ \A j \in Key : keys'[j] = IF j = k THEN NoUser ELSE keys[j]
           /\ \A j \in Key : usedBy'[j] = IF j = k THEN s ELSE usedBy[j]
           /\ k \in Key => /\ keys[k] # NoUser /\ keys[k] = KeyTable(k)[k]
                           /\ keys[k] = issuedTo[k] /\ usedBy[k] = NoSocket
           /\ UNCHANGED <<issuedTo, keyTimers>> /\ keyTimers \subseteq Key /\ k # NoKey
           /\ TableFits' /\ UsesFit' /\ KeyWindowHonoured'
<1>1. \A j \in Key : keys'[j] = IF j = k THEN NoUser ELSE keys[j]
  BY ConstantsAssumption DEF TakeKey, Consume, KeyTable, TypeOK, AnyKey
<1>2. \A j \in Key : usedBy'[j] = IF j = k THEN s ELSE usedBy[j]
  BY ConstantsAssumption DEF TakeKey, TypeOK, AnyKey
<1>3. k \in Key => keys[k] # NoUser /\ keys[k] = KeyTable(k)[k]
  BY ConstantsAssumption DEF TakeKey, KeyTable, TypeOK
<1>4. k \in Key => keys[k] = issuedTo[k] /\ usedBy[k] = NoSocket
  BY <1>3 DEF KeyInv, TableFits
<1>5. UNCHANGED <<issuedTo, keyTimers>> /\ keyTimers \subseteq Key /\ k # NoKey
  BY ConstantsAssumption DEF TakeKey, TypeOK
<1>6. TableFits'
  BY <1>1, <1>2, <1>5 DEF KeyInv, TableFits
<1>7. UsesFit'
  BY <1>2, <1>3, <1>4, <1>5 DEF KeyInv, UsesFit
<1>8. KeyWindowHonoured'
  BY <1>1, <1>2, <1>5, ConstantsAssumption DEF KeyInv, KeyWindowHonoured
<1> QED
  BY <1>1, <1>2, <1>3, <1>4, <1>5, <1>6, <1>7, <1>8

LEMMA LogonKeys ==
    ASSUME TypeOK, KeyInv, NEW s \in Socket, NEW k \in AnyKey, Logon(s, k)
    PROVE  KeyInv'
<1>1. TakeKey(s, k)
  BY DEF Logon
<1>2. /\ sockKey'[s] = k /\ username'[s] = KeyTable(k)[k]
      /\ \A t \in Socket \ {s} : /\ sockKey'[t] = sockKey[t]
                                 /\ authenticated'[t] = authenticated[t]
                                 /\ username'[t] = username[t]
  BY DEF Logon, TypeOK
<1>3. \A t \in Socket \ {s} : sockKey[t] \in Key => sockKey[t] # k
  BY <1>1, TakeKeyKeys, ConstantsAssumption DEF KeyInv, SocketsFit
<1>4. SocketsFit'
  BY <1>1, <1>2, <1>3, TakeKeyKeys DEF KeyInv, SocketsFit
<1> QED
  BY <1>1, <1>4, TakeKeyKeys DEF KeyInv

LEMMA LogonLateKeys ==
    ASSUME TypeOK, KeyInv, NEW s \in Socket, NEW k \in AnyKey, LogonLate(s, k)
    PROVE  KeyInv'
<1>1. TakeKey(s, k) /\ UNCHANGED <<authenticated, username, sockKey>>
  BY DEF LogonLate
<1>2. \A t \in Socket : sockKey[t] \in Key => sockKey[t] # k
  BY <1>1, TakeKeyKeys, ConstantsAssumption DEF KeyInv, SocketsFit
<1>3. SocketsFit'
  BY <1>1, <1>2, TakeKeyKeys DEF KeyInv, SocketsFit
<1> QED
  BY <1>1, <1>3, TakeKeyKeys DEF KeyInv

LEMMA KillKeys ==
    ASSUME TypeOK, KeyInv, NEW s \in Socket, Kill(s)
    PROVE  KeyInv'
<1>1. \A j \in Key : keys'[j] = IF j = sockKey[s] THEN NoUser ELSE keys[j]
  BY ConstantsAssumption DEF Kill, ForgetKey, TypeOK, AnyKey
<1>2. sockKey[s] \in Key => usedBy[sockKey[s]] # NoSocket
  BY ConstantsAssumption DEF KeyInv, SocketsFit
<1>3. UNCHANGED <<usedBy, issuedTo, keyTimers>> /\ keyTimers \subseteq Key
  BY DEF Kill, TypeOK
<1>4. /\ sockKey'[s] = NoKey /\ ~authenticated'[s]
      /\ \A t \in Socket \ {s} : /\ sockKey'[t] = sockKey[t]
                                 /\ authenticated'[t] = authenticated[t]
                                 /\ username'[t] = username[t]
  BY DEF Kill, TypeOK
<1>5. TableFits' /\ UsesFit'
  BY <1>1, <1>3 DEF KeyInv, TableFits, UsesFit
<1>6. SocketsFit'
  BY <1>3, <1>4, ConstantsAssumption DEF KeyInv, SocketsFit, AnyKey
<1>7. KeyWindowHonoured'
  BY <1>1, <1>2, <1>3 DEF KeyInv, KeyWindowHonoured
<1> QED
  BY <1>5, <1>6, <1>7 DEF KeyInv

LEMMA StoreKeys ==
    ASSUME TypeOK, KeyInv, NEW u \in User, NEW k \in Key, StoreKey(u, k),
           UNCHANGED <<authenticated, username, sockKey>>
    PROVE  KeyInv'
<1>1. usedBy[k] = NoSocket /\ \A t \in Socket : sockKey[t] # k
  BY ConstantsAssumption DEF StoreKey, KeyInv, UsesFit, SocketsFit
<1>2. u # NoUser
  BY ConstantsAssumption DEF Name
<1>3. \A j \in Key : /\ keys'[j] = IF j = k THEN u ELSE keys[j]
                     /\ issuedTo'[j] = IF j = k THEN u ELSE issuedTo[j]
  BY DEF StoreKey, TypeOK, AnyKey
<1>4. usedBy' = usedBy /\ keyTimers' = keyTimers \cup {k} /\ keyTimers \subseteq Key
  BY DEF StoreKey, TypeOK
<1>5. TableFits' /\ UsesFit'
  BY <1>1, <1>2, <1>3, <1>4 DEF KeyInv, TableFits, UsesFit
<1>6. SocketsFit'
  BY <1>1, <1>3, <1>4 DEF KeyInv, SocketsFit
<1>7. KeyWindowHonoured'
  BY <1>3, <1>4 DEF KeyInv, KeyWindowHonoured
<1> QED
  BY <1>5, <1>6, <1>7 DEF KeyInv

LEMMA TimeoutKeys ==
    ASSUME TypeOK, KeyInv, NEW k \in Key, KeyTimeout(k)
    PROVE  KeyInv'
<1>1. \A j \in Key : keys'[j] = keys[j] \/ (j = k /\ keys'[j] = NoUser)
  BY DEF KeyTimeout, TypeOK, AnyKey
<1>2. UNCHANGED <<usedBy, issuedTo, socketVars>> /\ keyTimers' = keyTimers \ {k}
      /\ keyTimers \subseteq Key
  BY DEF KeyTimeout, TypeOK
<1>3. TableFits' /\ UsesFit' /\ SocketsFit'
  BY <1>1, <1>2 DEF KeyInv, TableFits, UsesFit, SocketsFit, socketVars
<1>4. KeyWindowHonoured'
  BY <1>1, <1>2 DEF KeyInv, KeyWindowHonoured
<1> QED
  BY <1>3, <1>4 DEF KeyInv

LEMMA KeyStep ==
    ASSUME TypeOK, ClientsAgree, KeyInv, ServerStep
    PROVE  KeyInv'
<1>1. ASSUME NEW s \in Socket, NEW k \in AnyKey, Logon(s, k)
      PROVE  KeyInv'
  BY <1>1, LogonKeys
<1>2. ASSUME NEW s \in Socket, Kill(s)
      PROVE  KeyInv'
  BY <1>2, KillKeys
<1>3. ASSUME NEW s \in Socket, Destroy(s)
      PROVE  KeyInv'
  BY <1>3 DEF Destroy, keyVars, KeyInv, TableFits, UsesFit, SocketsFit, KeyWindowHonoured
<1>8. ASSUME NEW s \in Socket, Stored(s)
      PROVE  KeyInv'
  BY <1>8, StoreKeys DEF Stored
<1>9. ASSUME NEW s \in Socket, NEW k \in AnyKey, LogonLate(s, k)
      PROVE  KeyInv'
  BY <1>9, LogonLateKeys
<1>4. ASSUME NEW s \in Socket, Connection(s)
      PROVE  KeyInv'
  <2>1. UNCHANGED keyVars
    BY <1>4 DEF Connection
  <2>2. /\ sockKey'[s] = NoKey /\ ~authenticated'[s]
        /\ \A t \in Socket \ {s} : /\ sockKey'[t] = sockKey[t]
                                   /\ authenticated'[t] = authenticated[t]
                                   /\ username'[t] = username[t]
    BY <1>4 DEF Connection, TypeOK
  <2>3. SocketsFit'
    BY <2>1, <2>2, ConstantsAssumption DEF KeyInv, SocketsFit, keyVars, AnyKey
  <2> QED
    BY <2>1, <2>3 DEF KeyInv, keyVars, TableFits, UsesFit, KeyWindowHonoured
<1>5. ASSUME NEW u \in User, NEW k \in Key, IssueKey(u, k)
      PROVE  KeyInv'
  BY <1>5, StoreKeys DEF IssueKey, socketVars
<1>6. ASSUME NEW k \in Key, KeyTimeout(k)
      PROVE  KeyInv'
  BY <1>6, TimeoutKeys
<1>7. ASSUME NEW s \in Socket, Writing(s)
      PROVE  KeyInv'
  <2>1. UNCHANGED <<socketVars, clients, keyVars>>
    BY <1>7, WritingSame
  <2> QED
    BY <2>1 DEF socketVars, keyVars, KeyInv, TableFits, UsesFit, SocketsFit, KeyWindowHonoured
<1> QED
  BY <1>1, <1>2, <1>3, <1>4, <1>5, <1>6, <1>7, <1>8, <1>9, StepKinds

LEMMA KeyStutter ==
    ASSUME KeyInv, UNCHANGED serverVars
    PROVE  KeyInv'
BY DEF serverVars, socketVars, keyVars, KeyInv, TableFits, UsesFit, SocketsFit, KeyWindowHonoured

LEMMA KeyInvariant == Spec => [](TypeOK /\ ClientsAgree /\ KeyInv)
<1>1. Init => TypeOK /\ ClientsAgree /\ KeyInv
  BY TypeInit, ClientsInit, KeyInit
<1>2. TypeOK /\ ClientsAgree /\ KeyInv /\ [Next]_serverVars
        => (TypeOK /\ ClientsAgree /\ KeyInv)'
  BY AgreeStep, AgreeStutter, KeyStep, KeyStutter, NextIsStep
<1> QED
  BY <1>1, <1>2, PTL DEF Spec

\* Whoever is logged on with a generated key is the user whose password
\* bought it, and the key is on one socket only.
THEOREM LogonIdentityHolds == Spec => []LogonIdentity
<1>1. TypeOK /\ KeyInv => LogonIdentity
  BY ConstantsAssumption DEF TypeOK, KeyInv, SocketsFit, LogonIdentity, AnyKey
<1> QED
  BY <1>1, KeyInvariant, PTL

\* Until its timer fires an unused key is good.
THEOREM KeyWindowHonouredHolds == Spec => []KeyWindowHonoured
<1>1. KeyInv => KeyWindowHonoured
  BY DEF KeyInv
<1> QED
  BY <1>1, KeyInvariant, PTL

\* A used key stays out of the table and stays its socket's.
LEMMA UsedKeyStays ==
    ASSUME TypeOK, ClientsAgree, KeyInv, [Next]_serverVars,
           NEW k \in Key, usedBy[k] # NoSocket
    PROVE  keys'[k] = NoUser /\ usedBy'[k] = usedBy[k]
<1>1. keys[k] = NoUser
  BY DEF KeyInv, TableFits
<1>2. ASSUME NEW s \in Socket, NEW j \in AnyKey, TakeKey(s, j)
      PROVE  keys'[k] = NoUser /\ usedBy'[k] = usedBy[k]
  BY <1>1, <1>2, TakeKeyKeys
<1>3. ASSUME NEW s \in Socket, Kill(s)
      PROVE  keys'[k] = NoUser /\ usedBy'[k] = usedBy[k]
  BY <1>1, <1>3 DEF Kill, ForgetKey, TypeOK, AnyKey
<1>4. ASSUME NEW u \in User, NEW j \in Key, StoreKey(u, j)
      PROVE  keys'[k] = NoUser /\ usedBy'[k] = usedBy[k]
  <2>1. j # k
    BY <1>4 DEF StoreKey, KeyInv, UsesFit
  <2> QED
    BY <1>1, <1>4, <2>1 DEF StoreKey, TypeOK, AnyKey
<1>5. ASSUME NEW j \in Key, KeyTimeout(j)
      PROVE  keys'[k] = NoUser /\ usedBy'[k] = usedBy[k]
  BY <1>1, <1>5 DEF KeyTimeout, TypeOK, AnyKey
<1>6. ASSUME \/ \E s \in Socket : Connection(s) \/ Destroy(s) \/ Writing(s)
             \/ UNCHANGED serverVars
      PROVE  keys'[k] = NoUser /\ usedBy'[k] = usedBy[k]
  <2>1. UNCHANGED keyVars
    BY <1>6, WritingSame DEF Connection, Destroy, serverVars
  <2> QED
    BY <1>1, <2>1 DEF keyVars
<1> QED
  BY <1>2, <1>3, <1>4, <1>5, <1>6, StepKinds, NextIsStep
     DEF Logon, LogonLate, Stored, IssueKey

\* A generated key logs on one socket, once.
THEOREM KeySingleUseHolds == Spec => KeySingleUse
<1>1. TypeOK /\ ClientsAgree /\ KeyInv /\ [Next]_serverVars
        => [\A k \in Key : usedBy[k] # NoSocket =>
                keys'[k] = NoUser /\ usedBy'[k] = usedBy[k]]_serverVars
  BY UsedKeyStays
<1> QED
  BY <1>1, KeyInvariant, PTL DEF Spec, KeySingleUse

-----------------------------------------------------------------------------
(* The session layer is a Membership.                                      *)

\* A socket that is not logged on has no name.
NamesFit == \A s \in Socket : ~authenticated[s] => username[s] = NoUser

LEMMA NamesStep ==
    ASSUME TypeOK, ClientsAgree, NamesFit, ServerStep \/ UNCHANGED serverVars
    PROVE  NamesFit'
<1>1. ASSUME NEW s \in Socket,
             Connection(s) \/ Kill(s) \/ \E k \in AnyKey : Logon(s, k)
      PROVE  NamesFit'
  <2>1. /\ ~authenticated'[s] => username'[s] = NoUser
        /\ \A t \in Socket \ {s} : /\ authenticated'[t] = authenticated[t]
                                   /\ username'[t] = username[t]
    BY <1>1 DEF Connection, Kill, Logon, TypeOK
  <2> QED
    BY <2>1 DEF NamesFit
<1>2. ASSUME \/ \E s \in Socket : Destroy(s) \/ Stored(s) \/ Writing(s)
             \/ \E s \in Socket, k \in AnyKey : LogonLate(s, k)
             \/ \E u \in User, k \in Key : IssueKey(u, k)
             \/ \E k \in Key : KeyTimeout(k)
             \/ UNCHANGED serverVars
      PROVE  NamesFit'
  <2>1. UNCHANGED <<authenticated, username>>
    BY <1>2, WritingSame
       DEF Destroy, Stored, LogonLate, IssueKey, KeyTimeout, socketVars, serverVars
  <2> QED
    BY <2>1 DEF NamesFit
<1> QED
  BY <1>1, <1>2, StepKinds

LEMMA NamesInvariant == Spec => [](TypeOK /\ ClientsAgree /\ KeyInv /\ NamesFit)
<1>1. Init => NamesFit
  BY DEF Init, NamesFit
<1>2. TypeOK /\ ClientsAgree /\ NamesFit /\ [Next]_serverVars => NamesFit'
  BY NamesStep, NextIsStep
<1> QED
  BY <1>1, <1>2, KeyInvariant, PTL DEF Spec

\* What the abstract variables stand for.
Lives   == [s \in Socket |-> Life(s)]
Tickets == [k \in Key |-> keys[k]]
Fresh   == {k \in Key : issuedTo[k] = NoUser}

\* A key that is looked up and deleted is a ticket shown, unless it is fixed.
LEMMA TakeKeyIsJoin ==
    ASSUME TypeOK, KeyInv, NEW s \in Socket, NEW k \in AnyKey, TakeKey(s, k),
           Outside!Admit(s, KeyTable(k)[k])
    PROVE  Outside!Next
<1> DEFINE u == KeyTable(k)[k]
<1>1. Fresh' = Fresh
  BY DEF TakeKey, Fresh
<1>2. CASE k \in FixedKey
  <2>1. u = FixedName[k]
    BY <1>2 DEF KeyTable, TypeOK
  <2>2. \A j \in Key : keys'[j] = keys[j]
    BY <1>2, TakeKeyKeys, ConstantsAssumption
  <2>3. Outside!JoinFixed(s)
    BY <1>1, <1>2, <2>1, <2>2 DEF Outside!JoinFixed
  <2> QED
    BY <2>3 DEF Outside!Next
<1>3. CASE k \in Key
  <2>1. u = keys[k] /\ keys[k] # NoUser
    BY <1>3, TakeKeyKeys
  <2>2. \A j \in Key : keys'[j] = IF j = k THEN NoUser ELSE keys[j]
    BY TakeKeyKeys
  <2>3. Tickets' = [Tickets EXCEPT ![k] = NoUser] /\ Tickets[k] = keys[k]
    BY <1>3, <2>2 DEF Tickets
  <2>4. Outside!Join(s, k)
    BY <1>1, <2>1, <2>3 DEF Outside!Join, Tickets
  <2> QED
    BY <1>3, <2>4 DEF Outside!Next
<1> QED
  BY <1>2, <1>3 DEF AnyKey

LEMMA LogonIsJoin ==
    ASSUME TypeOK, ClientsAgree, KeyInv, NEW s \in Socket, NEW k \in AnyKey, Logon(s, k)
    PROVE  Outside!Next
<1>1. TakeKey(s, k) /\ username' = [username EXCEPT ![s] = KeyTable(k)[k]]
  BY DEF Logon
<1>2. CASE conn[s] = "destroyed"
  <2>1. Lives[s] = "gone" /\ Lives' = [Lives EXCEPT ![s] = "ghost"]
    BY <1>2 DEF Lives, Life, Logon, TakeKey, TypeOK
  <2>2. Outside!Admit(s, KeyTable(k)[k])
    BY <1>1, <2>1 DEF Outside!Admit, Lives, Fresh, TakeKey
  <2> QED
    BY <1>1, <2>2, TakeKeyIsJoin
<1>3. CASE conn[s] # "destroyed"
  <2>1. Lives[s] = "out" /\ Lives' = [Lives EXCEPT ![s] = "in"]
    BY <1>3 DEF Lives, Life, Logon, TakeKey, TypeOK
  <2>2. Outside!Admit(s, KeyTable(k)[k])
    BY <1>1, <2>1 DEF Outside!Admit, Lives, Fresh, TakeKey
  <2> QED
    BY <1>1, <2>2, TakeKeyIsJoin
<1> QED
  BY <1>2, <1>3

\* A connection that is gone and fails to become a ghost wastes its ticket.
LEMMA LogonLateIsJoin ==
    ASSUME TypeOK, ClientsAgree, KeyInv, NEW s \in Socket, NEW k \in AnyKey, LogonLate(s, k)
    PROVE  Outside!Next
<1>1. TakeKey(s, k) /\ Lives[s] = "gone" /\ Lives' = Lives /\ username' = username
  BY DEF LogonLate, TakeKey, Lives, Life
<1>2. Outside!Admit(s, KeyTable(k)[k])
  BY <1>1 DEF Outside!Admit, Lives, Fresh, TakeKey
<1> QED
  BY <1>1, <1>2, TakeKeyIsJoin

\* Whoever goes takes no ticket along: the key that kill() deletes was used.
LEMMA KillIsLeave ==
    ASSUME TypeOK, ClientsAgree, KeyInv, NamesFit, NEW s \in Socket, Kill(s)
    PROVE  Outside!Next
<1>1. Lives' = [Lives EXCEPT ![s] = "gone"]
  BY DEF Lives, Life, Kill, TypeOK
<1>2. username' = [username EXCEPT ![s] = NoUser]
  BY DEF Kill
<1>3. \A k \in Key : keys'[k] = keys[k]
  <2>1. \A k \in Key : keys'[k] = IF k = sockKey[s] THEN NoUser ELSE keys[k]
    BY ConstantsAssumption DEF Kill, ForgetKey, TypeOK, AnyKey
  <2>2. sockKey[s] \in Key => keys[sockKey[s]] = NoUser
    BY ConstantsAssumption DEF KeyInv, SocketsFit, TableFits
  <2> QED
    BY <2>1, <2>2
<1>4. Tickets' = Tickets /\ Fresh' = Fresh
  BY <1>3 DEF Tickets, Fresh, Kill
<1>5. Outside!Leave(s)
  BY <1>1, <1>2, <1>4 DEF Outside!Leave, Lives, Tickets, Fresh
<1> QED
  BY <1>5 DEF Outside!Next

\* A connection that is destroyed without kill() leaves a ghost if it was on.
LEMMA LifeSevered ==
    ASSUME TypeOK, NEW s \in Socket, conn' = [conn EXCEPT ![s] = "destroyed"],
           authenticated' = authenticated
    PROVE  Outside!Severed(s)
<1>1. \A t \in Socket \ {s} : Life(t)' = Life(t)
  BY DEF Life, TypeOK
<1>2. Life(s)' = IF Life(s) \in {"in", "ghost"} THEN "ghost" ELSE "gone"
  BY DEF Life, TypeOK
<1>3. Lives' = [Lives EXCEPT ![s] = IF @ \in {"in", "ghost"} THEN "ghost" ELSE "gone"]
  BY <1>1, <1>2 DEF Lives
<1> QED
  BY <1>3 DEF Outside!Severed, Lives

LEMMA DestroyIsSever ==
    ASSUME TypeOK, NEW s \in Socket, Destroy(s)
    PROVE  Outside!Next
<1>1. Outside!Severed(s)
  BY LifeSevered DEF Destroy
<1>2. Tickets' = Tickets /\ Fresh' = Fresh /\ username' = username
  BY DEF Destroy, keyVars, Tickets, Fresh
<1>3. Outside!Sever(s)
  BY <1>1, <1>2 DEF Outside!Sever, Tickets, Fresh
<1> QED
  BY <1>3 DEF Outside!Next

LEMMA StoreKeyIsIssue ==
    ASSUME TypeOK, NEW u \in User, NEW k \in Key, StoreKey(u, k), username' = username
    PROVE  Outside!Issue(u, k)
<1>1. u # NoUser
  BY ConstantsAssumption DEF Name
<1>2. /\ \A j \in Key : keys'[j] = IF j = k THEN u ELSE keys[j]
      /\ \A j \in Key : issuedTo'[j] = IF j = k THEN u ELSE issuedTo[j]
  BY DEF StoreKey, TypeOK, AnyKey
<1>3. k \in Fresh /\ Fresh' = Fresh \ {k}
  BY <1>1, <1>2 DEF Fresh, StoreKey
<1>4. Tickets' = [Tickets EXCEPT ![k] = u]
  BY <1>2 DEF Tickets
<1> QED
  BY <1>3, <1>4 DEF Outside!Issue, Tickets, Fresh

LEMMA StoredIsIssue ==
    ASSUME TypeOK, NEW s \in Socket, Stored(s)
    PROVE  Outside!Next
<1>1. PICK u \in User, k \in Key : StoreKey(u, k)
  BY DEF Stored
<1>2. Outside!Severed(s) /\ Outside!Issue(u, k)
  BY <1>1, LifeSevered, StoreKeyIsIssue DEF Stored
<1> QED
  BY <1>2 DEF Outside!Next

LEMMA IssueKeyIsIssue ==
    ASSUME TypeOK, NEW u \in User, NEW k \in Key, IssueKey(u, k)
    PROVE  Outside!Next
<1>1. Lives' = Lives /\ username' = username
  BY DEF IssueKey, socketVars, Lives, Life
<1>2. Outside!Issue(u, k)
  BY <1>1, StoreKeyIsIssue DEF IssueKey
<1> QED
  BY <1>1, <1>2 DEF Outside!Next, Lives

\* The timer looks its user up in the array, which holds all who are online.
LEMMA TimeoutIsExpire ==
    ASSUME TypeOK, ClientsAgree, KeyInv, NamesFit, NEW k \in Key, KeyTimeout(k)
    PROVE  Outside!Next \/ UNCHANGED Outside!vars
<1>1. Lives' = Lives /\ username' = username /\ Fresh' = Fresh
  BY DEF KeyTimeout, socketVars, Lives, Life, Fresh
<1>2. CASE keys[k] # NoUser /\ ~LoggedOn(issuedTo[k])
  <2>1. keys[k] = issuedTo[k] /\ Tickets[k] = keys[k]
    BY <1>2 DEF KeyInv, TableFits, Tickets
  <2>2. ~Outside!Online(keys[k])
    <3> SUFFICES ASSUME NEW s \in Socket, username[s] = keys[k] PROVE FALSE
      BY DEF Outside!Online
    <3>1. s \in Members(clients)
      BY <1>2 DEF NamesFit, ClientsAgree
    <3>2. PICK i \in DOMAIN clients : clients[i] = s
      BY <3>1 DEF Members
    <3>3. i \in Connections(issuedTo[k])
      BY <2>1, <3>2 DEF Connections
    <3> QED
      BY <1>2, <3>3 DEF LoggedOn
  <2>3. \A j \in Key : keys'[j] = IF j = k THEN NoUser ELSE keys[j]
    BY <1>2 DEF KeyTimeout, TypeOK, AnyKey
  <2>4. Tickets' = [Tickets EXCEPT ![k] = NoUser]
    BY <2>3 DEF Tickets
  <2>5. Outside!Expire(k)
    BY <1>1, <1>2, <2>1, <2>2, <2>4 DEF Outside!Expire, Lives, Tickets, Fresh
  <2> QED
    BY <2>5 DEF Outside!Next
<1>3. CASE keys[k] = NoUser \/ LoggedOn(issuedTo[k])
  <2>1. \A j \in Key : keys'[j] = keys[j]
    BY <1>3 DEF KeyTimeout, TypeOK, AnyKey
  <2>2. Tickets' = Tickets
    BY <2>1 DEF Tickets
  <2> QED
    BY <1>1, <2>2 DEF Outside!vars, Lives, Tickets, Fresh
<1> QED
  BY <1>2, <1>3

\* A connection comes, a command is answered: outside nothing has changed.
LEMMA OtherIsNothing ==
    ASSUME TypeOK, ClientsAgree, NamesFit,
           \/ \E s \in Socket : Connection(s) \/ Writing(s)
           \/ UNCHANGED serverVars
    PROVE  UNCHANGED Outside!vars
<1>1. UNCHANGED keyVars
  BY WritingSame DEF Connection, serverVars
<1>2. Lives' = Lives /\ username' = username
  <2>1. ASSUME NEW s \in Socket, Connection(s)
        PROVE  Lives' = Lives /\ username' = username
    <3>1. ~authenticated[s] /\ conn[s] = "new"
      BY <2>1 DEF Connection, ClientsAgree
    <3>2. Lives' = Lives
      BY <2>1, <3>1 DEF Connection, Lives, Life, TypeOK
    <3>3. username' = username
      BY <2>1, <3>1 DEF Connection, NamesFit, TypeOK
    <3> QED
      BY <3>2, <3>3
  <2>2. ASSUME UNCHANGED socketVars
        PROVE  Lives' = Lives /\ username' = username
    BY <2>2 DEF socketVars, Lives, Life
  <2> QED
    BY <2>1, <2>2, WritingSame DEF serverVars
<1>3. Tickets' = Tickets /\ Fresh' = Fresh
  BY <1>1 DEF keyVars, Tickets, Fresh
<1> QED
  BY <1>2, <1>3 DEF Outside!vars, Lives, Tickets, Fresh

\* Seen from outside the session layer is a Membership: a key is a ticket for
\* one logon under its user's name, and neither another session of that user
\* nor anybody's leaving takes an unused one away, ghosts included.
THEOREM ImplementsMembership == Spec => IsMembership
<1>1. Init => Outside!Init
  BY ConstantsAssumption DEF Init, Outside!Init, Life, AnyKey
<1>2. TypeOK /\ ClientsAgree /\ KeyInv /\ NamesFit /\ [Next]_serverVars
        => [Outside!Next]_(Outside!vars)
  BY LogonIsJoin, LogonLateIsJoin, KillIsLeave, DestroyIsSever, StoredIsIssue, IssueKeyIsIssue,
     TimeoutIsExpire, OtherIsNothing, StepKinds, NextIsStep
<1> QED
  BY <1>1, <1>2, NamesInvariant, PTL DEF Spec, IsMembership, Outside!Spec

=============================================================================
