------------------------- MODULE AnnouncementProofs -------------------------
(***************************************************************************)
(* Proof that the joins and quits a client is told of account for every    *)
(* change of the membership since it logged on, for any number of          *)
(* processes, keys, users and unread messages.                             *)
(***************************************************************************)
EXTENDS ChatSystem, ChatSystemProofs

-----------------------------------------------------------------------------
(* How often a message stands in a stream.                                 *)

Places(q, m) == {i \in DOMAIN q : q[i] = m}
Count(q, m)  == Cardinality(Places(q, m))

LEMMA PlacesFinite ==
    ASSUME NEW S, NEW q \in Seq(S), NEW m
    PROVE  /\ IsFiniteSet(Places(q, m)) /\ Count(q, m) \in Nat
           /\ Places(q, m) \subseteq 1..Len(q) /\ Len(q) \in Nat
<1>1. Len(q) \in Nat /\ Places(q, m) \in SUBSET (1..Len(q))
  BY DEF Places
<1>2. IsFiniteSet(1..Len(q))
  BY <1>1, FS_Interval
<1>3. IsFiniteSet(Places(q, m))
  BY <1>1, <1>2, FS_Subset
<1> QED
  BY <1>1, <1>3, FS_CardinalityType DEF Count

LEMMA CountAppend ==
    ASSUME NEW S, NEW q \in Seq(S), NEW x \in S, NEW m
    PROVE  Count(Append(q, x), m) = Count(q, m) + (IF x = m THEN 1 ELSE 0)
<1> DEFINE n == Len(q)
<1>1. n \in Nat /\ DOMAIN Append(q, x) = 1..(n + 1) /\ DOMAIN q = 1..n
      /\ Append(q, x)[n + 1] = x /\ \A i \in 1..n : Append(q, x)[i] = q[i]
  <2>1. Append(q, x) \in Seq(S) /\ Len(Append(q, x)) = n + 1
    OBVIOUS
  <2>2. \A i \in 1..(n + 1) : Append(q, x)[i] = IF i <= n THEN q[i] ELSE x
    OBVIOUS
  <2>3. n \in Nat /\ DOMAIN q = 1..n
    OBVIOUS
  <2> HIDE DEF n
  <2> QED
    BY <2>1, <2>2, <2>3
<1>2. IsFiniteSet(Places(q, m)) /\ Count(q, m) \in Nat /\ n + 1 \notin Places(q, m)
  <2>1. IsFiniteSet(Places(q, m)) /\ Count(q, m) \in Nat
    BY PlacesFinite
  <2>2. n + 1 \notin Places(q, m)
    <3> HIDE DEF n
    <3> QED
      BY <1>1 DEF Places
  <2> QED
    BY <2>1, <2>2
<1>3. CASE x = m
  <2>1. Places(Append(q, x), m) = Places(q, m) \cup {n + 1}
    BY <1>1, <1>3 DEF Places
  <2> QED
    BY <1>2, <1>3, <2>1, FS_AddElement DEF Count
<1>4. CASE x # m
  <2>1. Places(Append(q, x), m) = Places(q, m)
    BY <1>1, <1>4 DEF Places
  <2> QED
    BY <1>2, <1>4, <2>1 DEF Count
<1> QED
  BY <1>3, <1>4

\* Taking the head away moves every other place down by one.
LEMMA CountTail ==
    ASSUME NEW S, NEW q \in Seq(S), q # <<>>, NEW m
    PROVE  Count(q, m) = Count(Tail(q), m) + (IF Head(q) = m THEN 1 ELSE 0)
<1> DEFINE n    == Len(q)
           Rest == Places(q, m) \ {1}
           f    == [i \in Places(Tail(q), m) |-> i + 1]
<1>1. /\ n \in Nat /\ n > 0 /\ DOMAIN q = 1..n /\ Head(q) = q[1]
      /\ Tail(q) \in Seq(S) /\ DOMAIN Tail(q) = 1..(n - 1)
      /\ \A i \in 1..(n - 1) : Tail(q)[i] = q[i + 1]
  OBVIOUS
<1>2. /\ IsFiniteSet(Places(q, m)) /\ Count(q, m) \in Nat
      /\ IsFiniteSet(Places(Tail(q), m)) /\ Count(Tail(q), m) \in Nat
  BY <1>1, PlacesFinite
<1>3. f \in Bijection(Places(Tail(q), m), Rest)
  <2>1. \A i \in Places(Tail(q), m) : i \in Int /\ i + 1 \in Rest
    BY <1>1 DEF Places
  <2>2. ASSUME NEW j \in Rest
        PROVE  \E i \in Places(Tail(q), m) : f[i] = j
    <3>1. j \in 2..n /\ q[j] = m
      BY <1>1 DEF Places
    <3>2. j - 1 \in 1..(n - 1) /\ (j - 1) + 1 = j
      BY <1>1, <3>1
    <3>3. j - 1 \in Places(Tail(q), m)
      BY <1>1, <3>1, <3>2 DEF Places
    <3> QED
      BY <3>2, <3>3
  <2>3. f \in [Places(Tail(q), m) -> Rest]
    BY <2>1
  <2>4. IsInjective(f)
    BY <2>1 DEF IsInjective
  <2> QED
    BY <2>2, <2>3, <2>4 DEF Bijection, Injection, Surjection
<1>4. Cardinality(Rest) = Count(Tail(q), m)
  <2>1. ExistsBijection(Places(Tail(q), m), Rest)
    BY <1>3 DEF ExistsBijection
  <2> HIDE DEF Rest
  <2> QED
    BY <1>2, <2>1, FS_Bijection DEF Count
<1>5. Cardinality(Rest) = IF 1 \in Places(q, m) THEN Count(q, m) - 1 ELSE Count(q, m)
  BY <1>2, FS_RemoveElement DEF Count
<1>6. 1 \in Places(q, m) <=> Head(q) = m
  BY <1>1 DEF Places
<1> QED
  BY <1>2, <1>4, <1>5, <1>6

\* A stream of which only the welcome is unread.
LEMMA CountWelcome ==
    ASSUME NEW u \in Name, NEW n \in Nat, NEW v \in Name
    PROVE  /\ Count(Welcome(u, n), JoinMsg(v)) = IF u = v THEN 1 ELSE 0
           /\ Count(Welcome(u, n), QuitMsg(v)) = 0
<1> DEFINE w == Welcome(u, n)
<1>1. DOMAIN w = 1..3 /\ w[1] = UserMsg(u) /\ w[2] = JoinMsg(u) /\ w[3] = StatusMsg(n)
  BY DEF Welcome
<1>2. /\ UserMsg(u) # JoinMsg(v) /\ StatusMsg(n) # JoinMsg(v)
      /\ JoinMsg(u) = JoinMsg(v) <=> u = v
      /\ UserMsg(u) # QuitMsg(v) /\ JoinMsg(u) # QuitMsg(v) /\ StatusMsg(n) # QuitMsg(v)
  BY DEF UserMsg, JoinMsg, QuitMsg, StatusMsg
<1> HIDE DEF w
<1>3. Places(w, JoinMsg(v)) = IF u = v THEN {2} ELSE {}
  BY <1>1, <1>2 DEF Places
<1>4. Places(w, QuitMsg(v)) = {}
  BY <1>1, <1>2 DEF Places
<1> QED
  BY <1>3, <1>4, FS_EmptySet, FS_Singleton DEF Count, w

-----------------------------------------------------------------------------
(* How often a user is logged on.                                          *)

On(list, names, u) == {s \in Members(list) : names[s] = u}
At(list, names, u) == {i \in DOMAIN list : names[list[i]] = u}

LEMMA PlacesAreSockets ==
    ASSUME NEW list \in Seq(Socket), NoDuplicates(list), NEW names, NEW u
    PROVE  /\ IsFiniteSet(On(list, names, u))
           /\ Cardinality(On(list, names, u)) = Cardinality(At(list, names, u))
           /\ Cardinality(At(list, names, u)) \in Nat
<1> DEFINE C == {i \in DOMAIN list : names[list[i]] = u}
           f == [i \in C |-> list[i]]
<1>1. IsFiniteSet(C)
  <2>1. Len(list) \in Nat /\ C \in SUBSET (1..Len(list))
    OBVIOUS
  <2>2. IsFiniteSet(1..Len(list))
    <3>1. 1 \in Int /\ Len(list) \in Int
      OBVIOUS
    <3> HIDE DEF C, f
    <3> QED
      BY <3>1, FS_Interval
  <2> QED
    BY <2>1, <2>2, FS_Subset
<1>2. f \in Bijection(C, On(list, names, u))
  <2>1. f \in [C -> On(list, names, u)]
    BY DEF On, Members
  <2>2. IsInjective(f)
    BY DEF IsInjective, NoDuplicates
  <2>3. \A s \in On(list, names, u) : \E i \in C : f[i] = s
    BY DEF On, Members
  <2> QED
    BY <2>1, <2>2, <2>3 DEF Bijection, Injection, Surjection
<1>3. ExistsBijection(C, On(list, names, u))
  BY <1>2 DEF ExistsBijection
<1> HIDE DEF C
<1>4. IsFiniteSet(On(list, names, u)) /\ Cardinality(On(list, names, u)) = Cardinality(C)
  BY <1>1, <1>3, FS_Bijection
<1> QED
  BY <1>1, <1>4, FS_CardinalityType DEF C, At

\* Who is online, in the terms of UserCounts, before and after a step.
LEMMA CountsAreOn ==
    ASSUME TypeOK, ClientsAgree, TypeOK', ClientsAgree', NEW v \in Name
    PROVE  /\ IsFiniteSet(On(clients, username, v))
           /\ UserCounts[v] = Cardinality(On(clients, username, v))
           /\ UserCounts'[v] = Cardinality(On(clients', username', v))
           /\ UserCounts[v] \in Nat /\ UserCounts'[v] \in Nat
<1>1. clients \in Seq(Socket) /\ clients' \in Seq(Socket)
  BY DEF TypeOK
<1>2. NoDuplicates(clients) /\ NoDuplicates(clients')
  BY DEF ClientsAgree, NoDuplicates
<1>3. /\ UserCounts[v] = Cardinality(At(clients, username, v))
      /\ UserCounts'[v] = Cardinality(At(clients', username', v))
  BY DEF UserCounts, Connections, At
<1> QED
  BY <1>1, <1>2, <1>3, PlacesAreSockets

\* One user more ...
LEMMA CountsLogon ==
    ASSUME TypeOK, ClientsAgree, TypeOK', ClientsAgree', NEW s \in Socket, NEW k \in AnyKey,
           Logon(s, k), NEW v \in Name
    PROVE  UserCounts'[v] = UserCounts[v] + (IF KeyTable(k)[k] = v THEN 1 ELSE 0)
<1> DEFINE u == KeyTable(k)[k]
<1>1. clients \in Seq(Socket) /\ clients' = Append(clients, s) /\ s \notin Members(clients)
  BY DEF Logon, TakeKey, TypeOK, ClientsAgree
<1>2. Members(clients') = Members(clients) \cup {s}
  BY <1>1, AppendMembers
<1>3. username'[s] = u /\ \A r \in Members(clients) : username'[r] = username[r]
  BY <1>1 DEF Logon, TypeOK, ClientsAgree
<1> HIDE DEF u
<1>4. On(clients', username', v) =
        IF u = v THEN On(clients, username, v) \cup {s} ELSE On(clients, username, v)
  BY <1>1, <1>2, <1>3 DEF On
<1>5. s \notin On(clients, username, v)
  BY <1>1 DEF On
<1> QED
  BY <1>4, <1>5, CountsAreOn, FS_AddElement DEF u

\* ... and one less.
LEMMA CountsKill ==
    ASSUME TypeOK, ClientsAgree, TypeOK', ClientsAgree', NEW s \in Socket,
           Kill(s), NEW v \in Name
    PROVE  UserCounts'[v] = UserCounts[v]
                - (IF authenticated[s] /\ username[s] = v THEN 1 ELSE 0)
<1>1. Members(clients') = Members(clients) \ {s}
  BY RemoveSocketRemoves DEF Kill, TypeOK, ClientsAgree, NoDuplicates
<1>2. \A r \in Members(clients') : username'[r] = username[r]
  BY <1>1 DEF Kill, TypeOK, ClientsAgree
<1>3. s \in Members(clients) <=> authenticated[s]
  BY DEF ClientsAgree
<1>4. On(clients', username', v) = On(clients, username, v) \ {s}
  BY <1>1, <1>2 DEF On
<1>5. s \in On(clients, username, v) <=> authenticated[s] /\ username[s] = v
  BY <1>3 DEF On
<1>6. Cardinality(On(clients', username', v)) =
        IF s \in On(clients, username, v) THEN Cardinality(On(clients, username, v)) - 1
                                          ELSE Cardinality(On(clients, username, v))
  <2>1. IsFiniteSet(On(clients, username, v))
    BY CountsAreOn
  <2> QED
    BY <1>4, <2>1, FS_RemoveElement
<1> QED
  BY <1>5, <1>6, CountsAreOn

-----------------------------------------------------------------------------
(* The balance.                                                            *)

\* Nothing is written to a connection that has not been logged on.
Unheard ==
    \A t \in Socket : conn[t] # "destroyed" /\ ~authenticated[t] => toClient[t] = <<>>

BalanceOf(counts, out, news) ==
    \A u \in Name : news[u] + Count(out, JoinMsg(u)) - Count(out, QuitMsg(u)) = counts[u]
Balanced ==
    \A t \in Socket : Talking(t) /\ Alive(t) => BalanceOf(UserCounts, toClient[t], heard[t])

LEMMA UnheardHandler ==
    ASSUME TypeOK, ClientsAgree, NoGhosts, Unheard, OpenStep \/ UNCHANGED serverVars
    PROVE  Unheard'
<1> SUFFICES ASSUME NEW t \in Socket, conn'[t] # "destroyed", ~authenticated'[t]
             PROVE  toClient'[t] = <<>>
  BY DEF Unheard
<1>1. /\ conn[t] # "destroyed" /\ ~authenticated[t]
      /\ \A k \in AnyKey : ~Logon(t, k)
  <2>1. ASSUME NEW s \in Socket, (\E k \in AnyKey : Logon(s, k)) \/ Kill(s)
                                 \/ (~authenticated[s] /\ Destroy(s)) \/ Connection(s)
        PROVE  conn[t] # "destroyed" /\ ~authenticated[t]
    BY <2>1 DEF Logon, TakeKey, Kill, Destroy, Connection, ClientsAgree, TypeOK
  <2>2. ASSUME \/ \E s \in Socket : Answering(s)
               \/ \E u \in User, k \in Key : IssueKey(u, k)
               \/ \E k \in Key : KeyTimeout(k)
               \/ UNCHANGED serverVars
        PROVE  conn[t] # "destroyed" /\ ~authenticated[t]
    <3>1. UNCHANGED <<conn, authenticated>>
      BY <2>2, AnsweringSame DEF IssueKey, KeyTimeout, serverVars, socketVars
    <3> QED
      BY <3>1
  <2>3. \A k \in AnyKey : ~Logon(t, k)
    BY DEF Logon, TypeOK
  <2> QED
    BY <2>1, <2>2, <2>3 DEF OpenStep
<1>2. t \notin Members(clients)
  BY <1>1 DEF ClientsAgree
<1> QED
  BY <1>1, <1>2, StreamGrows DEF Unheard

\* What is written to t, and the change it tells of.
LEMMA BalanceAppend ==
    ASSUME NEW out \in Seq(ServerMsg), NEW m \in ServerMsg, NEW news \in [Name -> Int],
           NEW counts \in [Name -> Nat], NEW after \in [Name -> Nat],
           BalanceOf(counts, out, news),
           \A u \in Name : after[u] = counts[u] + (IF m = JoinMsg(u) THEN 1 ELSE 0)
                                                - (IF m = QuitMsg(u) THEN 1 ELSE 0)
    PROVE  BalanceOf(after, Append(out, m), news)
<1> SUFFICES ASSUME NEW u \in Name
             PROVE  news[u] + Count(Append(out, m), JoinMsg(u))
                        - Count(Append(out, m), QuitMsg(u)) = after[u]
  BY DEF BalanceOf
<1>1. /\ Count(Append(out, m), JoinMsg(u)) = Count(out, JoinMsg(u))
                                                + (IF m = JoinMsg(u) THEN 1 ELSE 0)
      /\ Count(Append(out, m), QuitMsg(u)) = Count(out, QuitMsg(u))
                                                + (IF m = QuitMsg(u) THEN 1 ELSE 0)
  BY CountAppend
<1>2. Count(out, JoinMsg(u)) \in Nat /\ Count(out, QuitMsg(u)) \in Nat
  BY PlacesFinite
<1>3. news[u] + Count(out, JoinMsg(u)) - Count(out, QuitMsg(u)) = counts[u]
  BY DEF BalanceOf
<1>4. after[u] = counts[u] + (IF m = JoinMsg(u) THEN 1 ELSE 0)
                           - (IF m = QuitMsg(u) THEN 1 ELSE 0)
  OBVIOUS
<1>5. news[u] \in Int /\ counts[u] \in Int
  OBVIOUS
<1> QED
  BY <1>1, <1>2, <1>3, <1>4, <1>5

\* What an announcement's absence leaves alone.
LEMMA OtherMessage ==
    ASSUME NEW m \in ServerMsg, m.type \notin {"join", "quit"}, NEW u \in Name
    PROVE  m # JoinMsg(u) /\ m # QuitMsg(u)
BY DEF JoinMsg, QuitMsg

LEMMA Announcements ==
    ASSUME NEW u \in Name, NEW v \in Name
    PROVE  /\ (JoinMsg(u) = JoinMsg(v)) <=> (u = v)
           /\ (QuitMsg(u) = QuitMsg(v)) <=> (u = v)
           /\ JoinMsg(u) # QuitMsg(v) /\ QuitMsg(u) # JoinMsg(v)
<1>1. JoinMsg(u).nick = u /\ JoinMsg(v).nick = v /\ QuitMsg(u).nick = u /\ QuitMsg(v).nick = v
      /\ JoinMsg(u).type = "join" /\ JoinMsg(v).type = "join"
      /\ QuitMsg(u).type = "quit" /\ QuitMsg(v).type = "quit"
  BY DEF JoinMsg, QuitMsg
<1> QED
  BY <1>1

LEMMA CountsTyped ==
    ASSUME TypeOK, ClientsAgree, TypeOK', ClientsAgree'
    PROVE  UserCounts \in [Name -> Nat] /\ UserCounts' \in [Name -> Nat]
<1>1. \A v \in Name : UserCounts[v] \in Nat /\ UserCounts'[v] \in Nat
  BY CountsAreOn
<1> QED
  BY <1>1 DEF UserCounts

\* A logon: the newcomer starts from the members before it and has its own
\* join to read, the others have one more.
LEMMA BalanceLogon ==
    ASSUME SysTypeOK, ClientsAgree, NoGhosts, TypeOK', ClientsAgree', Unheard,
           NEW s \in Socket, NEW k \in AnyKey, conn[s] = "open", Logon(s, k),
           NEW t \in Socket, authenticated'[t],
           authenticated[t] => /\ BalanceOf(UserCounts, toClient[t], heard[t])
                               /\ heard'[t] = heard[t],
           ~authenticated[t] => heard'[t] = UserCounts
    PROVE  BalanceOf(UserCounts', toClient'[t], heard'[t])
<1> DEFINE u == KeyTable(k)[k]
<1>1. /\ TypeOK /\ UserCounts \in [Name -> Nat] /\ UserCounts' \in [Name -> Nat]
      /\ toClient[t] \in Seq(ServerMsg) /\ heard[t] \in [Name -> Int]
  BY CountsTyped DEF SysTypeOK, TypeOK
<1>2. /\ u \in Name
      /\ t = s => toClient'[t] = toClient[t] \o Welcome(u, Len(clients) + 1)
      /\ t # s => toClient'[t] = IF t \in Members(clients)
                                 THEN Append(toClient[t], JoinMsg(u)) ELSE toClient[t]
  BY <1>1, LogonStream
<1>3. \A v \in Name : UserCounts'[v] = UserCounts[v] + (IF u = v THEN 1 ELSE 0)
  BY <1>1, CountsLogon
<1>4. /\ t = s => ~authenticated[t] /\ conn[t] # "destroyed"
      /\ t # s => authenticated[t] /\ t \in Members(clients)
  BY <1>1 DEF Logon, TakeKey, TypeOK, ClientsAgree
<1>5. Len(clients) + 1 \in Nat
  BY <1>1 DEF TypeOK
<1> HIDE DEF u
<1>6. CASE t = s
  <2>1. toClient'[t] = Welcome(u, Len(clients) + 1) /\ heard'[t] = UserCounts
    <3>1. toClient[t] = <<>>
      BY <1>4, <1>6 DEF Unheard
    <3>2. <<>> \o Welcome(u, Len(clients) + 1) = Welcome(u, Len(clients) + 1)
      BY DEF Welcome
    <3> QED
      BY <1>2, <1>4, <1>6, <3>1, <3>2
  <2>2. ASSUME NEW v \in Name
        PROVE  UserCounts[v] + Count(toClient'[t], JoinMsg(v))
                   - Count(toClient'[t], QuitMsg(v)) = UserCounts'[v]
    <3>1. /\ Count(toClient'[t], JoinMsg(v)) = IF u = v THEN 1 ELSE 0
          /\ Count(toClient'[t], QuitMsg(v)) = 0
      BY <1>2, <1>5, <2>1, CountWelcome
    <3>2. UserCounts[v] \in Int
      BY <1>1
    <3> QED
      BY <1>3, <3>1, <3>2
  <2> QED
    BY <2>1, <2>2 DEF BalanceOf
<1>7. CASE t # s
  <2>1. toClient'[t] = Append(toClient[t], JoinMsg(u)) /\ heard'[t] = heard[t]
        /\ BalanceOf(UserCounts, toClient[t], heard[t])
    BY <1>2, <1>4, <1>7
  <2>2. \A v \in Name : UserCounts'[v] = UserCounts[v]
              + (IF JoinMsg(u) = JoinMsg(v) THEN 1 ELSE 0)
              - (IF JoinMsg(u) = QuitMsg(v) THEN 1 ELSE 0)
    <3> SUFFICES ASSUME NEW v \in Name
                 PROVE  UserCounts'[v] = UserCounts[v]
                          + (IF JoinMsg(u) = JoinMsg(v) THEN 1 ELSE 0)
                          - (IF JoinMsg(u) = QuitMsg(v) THEN 1 ELSE 0)
      OBVIOUS
    <3>1. JoinMsg(u) # QuitMsg(v) /\ ((JoinMsg(u) = JoinMsg(v)) <=> (u = v))
      BY <1>2, Announcements
    <3>2. UserCounts'[v] = UserCounts[v] + (IF u = v THEN 1 ELSE 0)
      BY <1>3
    <3>3. UserCounts[v] \in Int
      BY <1>1
    <3> QED
      BY <3>1, <3>2, <3>3
  <2>3. JoinMsg(u) \in ServerMsg
    BY <1>2, MessageTypes
  <2> QED
    BY <1>1, <2>1, <2>2, <2>3, BalanceAppend
<1> QED
  BY <1>6, <1>7

\* A departure: the others have one quit more to read.
LEMMA BalanceKill ==
    ASSUME SysTypeOK, ClientsAgree, NoGhosts, TypeOK', ClientsAgree',
           NEW s \in Socket, Kill(s), NEW t \in Socket, authenticated'[t],
           BalanceOf(UserCounts, toClient[t], heard[t]), heard'[t] = heard[t]
    PROVE  BalanceOf(UserCounts', toClient'[t], heard'[t])
<1>1. /\ TypeOK /\ UserCounts \in [Name -> Nat] /\ UserCounts' \in [Name -> Nat]
      /\ toClient[t] \in Seq(ServerMsg) /\ heard[t] \in [Name -> Int]
  BY CountsTyped DEF SysTypeOK, TypeOK
<1>2. t # s /\ t \in Members(clients)
  BY <1>1 DEF Kill, TypeOK, ClientsAgree
<1>3. /\ authenticated[s] => username[s] \in Name
      /\ toClient'[t] = IF authenticated[s] THEN Append(toClient[t], QuitMsg(username[s]))
                                            ELSE toClient[t]
  BY <1>1, <1>2, KillStream
<1>4. \A v \in Name : UserCounts'[v] = UserCounts[v]
            - (IF authenticated[s] /\ username[s] = v THEN 1 ELSE 0)
  BY <1>1, CountsKill
<1>5. CASE authenticated[s]
  <2>1. \A v \in Name : UserCounts'[v] = UserCounts[v]
              + (IF QuitMsg(username[s]) = JoinMsg(v) THEN 1 ELSE 0)
              - (IF QuitMsg(username[s]) = QuitMsg(v) THEN 1 ELSE 0)
    <3> SUFFICES ASSUME NEW v \in Name
                 PROVE  UserCounts'[v] = UserCounts[v]
                          + (IF QuitMsg(username[s]) = JoinMsg(v) THEN 1 ELSE 0)
                          - (IF QuitMsg(username[s]) = QuitMsg(v) THEN 1 ELSE 0)
      OBVIOUS
    <3>1. /\ QuitMsg(username[s]) # JoinMsg(v)
          /\ (QuitMsg(username[s]) = QuitMsg(v)) <=> (username[s] = v)
      BY <1>3, <1>5, Announcements
    <3>2. UserCounts'[v] = UserCounts[v] - (IF username[s] = v THEN 1 ELSE 0)
      BY <1>4, <1>5
    <3>3. UserCounts[v] \in Int
      BY <1>1
    <3> QED
      BY <3>1, <3>2, <3>3
  <2>2. QuitMsg(username[s]) \in ServerMsg
    BY <1>3, <1>5, MessageTypes
  <2> QED
    BY <1>1, <1>3, <1>5, <2>1, <2>2, BalanceAppend
<1>6. CASE ~authenticated[s]
  <2>1. \A v \in Name : UserCounts'[v] = UserCounts[v]
    BY <1>1, <1>4, <1>6
  <2> QED
    BY <1>3, <1>6, <2>1 DEF BalanceOf
<1> QED
  BY <1>5, <1>6

LEMMA BalanceHandler ==
    ASSUME SysTypeOK, ClientsAgree, NoGhosts, Unheard, OpenStep \/ UNCHANGED serverVars,
           TypeOK', ClientsAgree', NEW t \in Socket, Talking(t)',
           Talking(t) => /\ BalanceOf(UserCounts, toClient[t], heard[t])
                         /\ heard'[t] = heard[t],
           ~authenticated[t] => heard'[t] = UserCounts
    PROVE  BalanceOf(UserCounts', toClient'[t], heard'[t])
<1>1. TypeOK
  BY DEF SysTypeOK
<1>2. authenticated'[t] /\ (authenticated[t] <=> Talking(t))
  BY DEF Talking, ClientsAgree, NoGhosts
<1>3. ASSUME NEW s \in Socket, NEW k \in AnyKey, conn[s] = "open", Logon(s, k)
      PROVE  BalanceOf(UserCounts', toClient'[t], heard'[t])
  BY <1>1, <1>2, <1>3, BalanceLogon
<1>4. ASSUME NEW s \in Socket, Kill(s)
      PROVE  BalanceOf(UserCounts', toClient'[t], heard'[t])
  <2>1. Talking(t)
    BY <1>1, <1>2, <1>4 DEF Kill, TypeOK
  <2> QED
    BY <1>1, <1>2, <1>4, <2>1, BalanceKill
<1>5. ASSUME Talking(t), UserCounts' = UserCounts, toClient'[t] = toClient[t]
      PROVE  BalanceOf(UserCounts', toClient'[t], heard'[t])
  BY <1>5
<1>6. ASSUME NEW s \in Socket, conn[s] = "open" => authenticated[s], Answering(s)
      PROVE  BalanceOf(UserCounts', toClient'[t], heard'[t])
  <2>1. UNCHANGED <<socketVars, clients>>
    BY <1>6, AnsweringSame DEF socketVars
  <2>2. Talking(t) /\ UserCounts' = UserCounts
    BY <1>1, <1>2, <2>1, CountsSame DEF socketVars
  <2>3. ASSUME NEW m \in ServerMsg, toClient'[t] = Append(toClient[t], m),
               m.type \notin {"join", "quit"}
        PROVE  BalanceOf(UserCounts', toClient'[t], heard'[t])
    <3>1. /\ UserCounts \in [Name -> Nat] /\ heard[t] \in [Name -> Int]
          /\ toClient[t] \in Seq(ServerMsg)
      BY <1>1, UserCountsType DEF SysTypeOK, TypeOK
    <3>2. \A v \in Name : UserCounts[v] = UserCounts[v]
                + (IF m = JoinMsg(v) THEN 1 ELSE 0) - (IF m = QuitMsg(v) THEN 1 ELSE 0)
      BY <2>3, <3>1, OtherMessage
    <3> QED
      BY <2>2, <2>3, <3>1, <3>2, BalanceAppend
  <2> QED
    BY <1>1, <1>5, <1>6, <2>2, <2>3, AnswerStream
<1>7. ASSUME \/ \E s \in Socket : (~authenticated[s] /\ Destroy(s)) \/ Connection(s)
             \/ \E u \in User, k \in Key : IssueKey(u, k)
             \/ \E k \in Key : KeyTimeout(k)
             \/ UNCHANGED serverVars
      PROVE  BalanceOf(UserCounts', toClient'[t], heard'[t])
  <2>1. UNCHANGED <<clients, toClient>> /\ \A r \in Members(clients) : username'[r] = username[r]
    BY <1>1, <1>7 DEF Destroy, Connection, IssueKey, StoreKey, KeyTimeout, serverVars,
                      socketVars, TypeOK, ClientsAgree
  <2>2. UserCounts' = UserCounts
    BY <1>1, <2>1, CountsSame
  <2>3. Talking(t)
    BY <1>1, <1>2, <1>7 DEF Destroy, Connection, IssueKey, KeyTimeout, serverVars, socketVars,
                            TypeOK
  <2> QED
    BY <1>5, <2>1, <2>2, <2>3
<1> QED
  BY <1>3, <1>4, <1>6, <1>7 DEF OpenStep

\* Reading a message moves it from the unread ones to the heard ones.
LEMMA BalanceRead ==
    ASSUME SysTypeOK, ClientsAgree, NEW c \in Socket, ClientReceive(c), Talking(c),
           BalanceOf(UserCounts, toClient[c], heard[c])
    PROVE  BalanceOf(UserCounts, toClient'[c], heard'[c])
<1> DEFINE m == Head(toClient[c])
<1>1. /\ toClient[c] \in Seq(ServerMsg) /\ toClient[c] # <<>>
      /\ toClient'[c] = Tail(toClient[c])
  BY DEF ClientReceive, Read, SysTypeOK, TypeOK
<1>2. heard'[c] = [u \in Name |-> heard[c][u] + Change(u, m)]
  BY DEF ClientReceive, Talking, SysTypeOK
<1> SUFFICES ASSUME NEW u \in Name
             PROVE  heard'[c][u] + Count(toClient'[c], JoinMsg(u))
                        - Count(toClient'[c], QuitMsg(u)) = UserCounts[u]
  BY DEF BalanceOf
<1>3. Tail(toClient[c]) \in Seq(ServerMsg)
  BY <1>1
<1>4. /\ Count(toClient[c], JoinMsg(u))
            = Count(toClient'[c], JoinMsg(u)) + (IF m = JoinMsg(u) THEN 1 ELSE 0)
      /\ Count(toClient[c], QuitMsg(u))
            = Count(toClient'[c], QuitMsg(u)) + (IF m = QuitMsg(u) THEN 1 ELSE 0)
  BY <1>1, CountTail
<1>5. Count(toClient'[c], JoinMsg(u)) \in Nat /\ Count(toClient'[c], QuitMsg(u)) \in Nat
  BY <1>1, <1>3, PlacesFinite
<1>6. heard'[c][u] = heard[c][u] + ((IF m = JoinMsg(u) THEN 1 ELSE 0)
                                    - (IF m = QuitMsg(u) THEN 1 ELSE 0))
  BY <1>2 DEF Change
<1>7. heard[c][u] + Count(toClient[c], JoinMsg(u)) - Count(toClient[c], QuitMsg(u))
        = UserCounts[u]
  BY DEF BalanceOf
<1>8. heard[c][u] \in Int
  BY DEF SysTypeOK
<1> HIDE DEF m
<1> QED
  BY <1>4, <1>5, <1>6, <1>7, <1>8

LEMMA BalanceStep ==
    ASSUME SysInv, Unheard, Balanced, [SysNext]_sysVars
    PROVE  Balanced'
<1> SUFFICES ASSUME NEW t \in Socket, Talking(t)', Alive(t)'
             PROVE  BalanceOf(UserCounts', toClient'[t], heard'[t])
  BY DEF Balanced
<1>1. /\ TypeOK /\ SysTypeOK /\ ClientsAgree /\ OpenInv /\ NoGhosts
      /\ TypeOK' /\ ClientsAgree'
  BY SysAgree DEF SysInv, OpenInv, SysTypeOK
<1>2. authenticated'[t] /\ (authenticated[t] <=> Talking(t))
  BY <1>1 DEF Talking, ClientsAgree, NoGhosts
<1>3. ASSUME NEW c \in Socket,
             ServerReceive(c) \/ ServerAnswers(c) \/ ServerEnd(c) \/ ServerError(c)
      PROVE  BalanceOf(UserCounts', toClient'[t], heard'[t])
  <2>1. OpenStep
    BY <1>1, <1>3, ServerIsOpen
  <2>2. Recount /\ Alive(t)
    BY <1>3 DEF ServerReceive, ServerAnswers, ServerEnd, ServerError, procVars, Alive
  <2>3. /\ authenticated[t] => heard'[t] = heard[t]
        /\ ~authenticated[t] => heard'[t] = UserCounts
    BY <1>2, <2>2 DEF Recount
  <2>4. Talking(t) => BalanceOf(UserCounts, toClient[t], heard[t])
    BY <2>2 DEF Balanced
  <2> QED
    BY <1>2, <2>1, <2>3, <2>4, <1>1, BalanceHandler
<1>4. ASSUME Keys \/ UNCHANGED sysVars
             \/ \E c \in Socket : ClientQuits(c) \/ \E line \in Commands : ClientTypes(c, line)
      PROVE  BalanceOf(UserCounts', toClient'[t], heard'[t])
  <2>1. OpenStep \/ UNCHANGED serverVars
    BY <1>1, <1>4 DEF Keys, OpenStep, sysVars, ClientQuits, ClientTypes
  <2>2. UNCHANGED <<authenticated, heard>>
    BY <1>1, <1>4 DEF Keys, IssueKey, KeyTimeout, sysVars, serverVars, socketVars, ClientQuits,
                ClientTypes
  <2>3. Alive(t)
    BY <1>1, <1>4 DEF Keys, sysVars, procVars, ClientQuits, ClientTypes, Alive, SysTypeOK
  <2>4. Talking(t) /\ BalanceOf(UserCounts, toClient[t], heard[t])
    BY <1>2, <2>2, <2>3 DEF Balanced
  <2> QED
    BY <1>2, <2>1, <2>2, <2>4, <1>1, BalanceHandler
<1>5. ASSUME NEW c \in Socket, ClientStart(c)
      PROVE  BalanceOf(UserCounts', toClient'[t], heard'[t])
  <2>1. /\ OpenStep /\ ~authenticated'[c] /\ UNCHANGED heard
        /\ \A r \in Socket \ {c} : authenticated'[r] = authenticated[r] /\ proc'[r] = proc[r]
    BY <1>1, <1>5 DEF ClientStart, Connection, OpenStep, TypeOK, SysTypeOK
  <2>2. t # c
    BY <1>2, <2>1
  <2>3. Talking(t) /\ BalanceOf(UserCounts, toClient[t], heard[t])
    BY <1>2, <2>1, <2>2 DEF Balanced, Alive
  <2> QED
    BY <1>2, <2>1, <2>3, <1>1, BalanceHandler
<1>6. ASSUME NEW c \in Socket, ClientReceive(c)
      PROVE  BalanceOf(UserCounts', toClient'[t], heard'[t])
  <2>1. UNCHANGED <<socketVars, clients, proc>>
    BY <1>1, <1>6 DEF ClientReceive, Read
  <2>2. UserCounts' = UserCounts
    BY <1>1, <2>1, CountsSame DEF socketVars
  <2>3. Talking(t) /\ BalanceOf(UserCounts, toClient[t], heard[t])
    BY <1>2, <2>1 DEF Balanced, Alive, socketVars
  <2>4. CASE t = c
    BY <1>1, <1>6, <2>2, <2>3, <2>4, BalanceRead
  <2>5. CASE t # c
    <3>1. toClient'[t] = toClient[t] /\ heard'[t] = heard[t]
      BY <1>1, <1>6, <2>5 DEF ClientReceive, Read, SysTypeOK, TypeOK
    <3> QED
      BY <2>2, <2>3, <3>1
  <2> QED
    BY <2>4, <2>5
<1>7. ASSUME NEW c \in Socket, Exit(c), UNCHANGED heard
      PROVE  BalanceOf(UserCounts', toClient'[t], heard'[t])
  <2>1. UNCHANGED <<socketVars, clients>> /\ t # c
    BY <1>1, <1>7 DEF Exit, Alive, SysTypeOK
  <2>2. UserCounts' = UserCounts
    BY <1>1, <2>1, CountsSame DEF socketVars
  <2>3. toClient'[t] = toClient[t] /\ Alive(t)
    BY <1>1, <1>7, <2>1 DEF Exit, Alive, SysTypeOK, TypeOK
  <2>4. BalanceOf(UserCounts, toClient[t], heard[t])
    BY <1>2, <2>1, <2>3 DEF Balanced, socketVars
  <2> QED
    BY <1>1, <1>7, <2>2, <2>3, <2>4
<1>8. ASSUME NEW c \in Socket, ClientExits(c) \/ ClientDies(c)
      PROVE  Exit(c) /\ UNCHANGED heard
  BY <1>1, <1>8 DEF ClientExits, ClientDies, Exit
<1> QED
  BY <1>3, <1>4, <1>5, <1>6, <1>7, <1>8 DEF SysNext

LEMMA UnheardStep ==
    ASSUME SysInv, Unheard, [SysNext]_sysVars
    PROVE  Unheard'
<1>1. TypeOK /\ SysTypeOK /\ ClientsAgree /\ OpenInv /\ NoGhosts
  BY DEF SysInv, OpenInv, SysTypeOK
<1>2. ASSUME \/ \E c \in Socket : \/ ServerReceive(c) \/ ServerAnswers(c)
                                   \/ ServerEnd(c) \/ ServerError(c) \/ ClientStart(c)
             \/ Keys
      PROVE  Unheard'
  BY <1>1, <1>2, ServerIsOpen, UnheardHandler
<1>3. ASSUME \/ \E c \in Socket : ClientQuits(c) \/ \E line \in Commands : ClientTypes(c, line)
             \/ UNCHANGED sysVars
      PROVE  Unheard'
  <2>1. UNCHANGED serverVars
    BY <1>3 DEF ClientQuits, ClientTypes, sysVars
  <2> QED
    BY <1>1, <2>1, UnheardHandler
<1>4. ASSUME NEW c \in Socket, ClientReceive(c)
      PROVE  Unheard'
  BY <1>1, <1>4 DEF ClientReceive, Read, socketVars, Unheard, TypeOK
<1>5. ASSUME NEW c \in Socket, Exit(c)
      PROVE  Unheard'
  BY <1>1, <1>5 DEF Exit, socketVars, Unheard, TypeOK
<1> QED
  BY <1>2, <1>3, <1>4, <1>5 DEF SysNext, ClientExits, ClientDies

LEMMA BalancedIsBalance == Balanced <=> AnnouncementsBalance
<1>1. \A c \in Socket : \A m : Unread(c, m) = Count(toClient[c], m)
  BY DEF Unread, Count, Places
<1> QED
  BY <1>1 DEF Balanced, BalanceOf, AnnouncementsBalance

\* Every change of the membership is announced exactly once to everybody who
\* is on: logons by broadcast and welcome, departures by kill(), however they
\* come about.
THEOREM AnnouncementsBalanceHolds == SysSpec => []AnnouncementsBalance
<1>1. SysInit => Unheard /\ Balanced
  BY DEF SysInit, Init, Unheard, Balanced, Talking
<1>2. SysInv /\ Unheard /\ Balanced /\ [SysNext]_sysVars => (Unheard /\ Balanced)'
  BY UnheardStep, BalanceStep
<1> QED
  BY <1>1, <1>2, SysInvHolds, BalancedIsBalance, PTL DEF SysSpec

=============================================================================
