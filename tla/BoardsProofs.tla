---------------------------- MODULE BoardsProofs ----------------------------
(***************************************************************************)
(* Proofs about Boards, for any sessions, times to live, clock and bounds. *)
(* A reply is made by one handler and read much later; what the client     *)
(* does with it is right because the invariant below speaks of every copy  *)
(* on its way: the thread it was taken from is unchanged but for new posts *)
(* at its end, or gone for good, and a list was sorted by a sum that does  *)
(* not depend on the time at which it is looked at.                        *)
(***************************************************************************)
EXTENDS Boards, FiniteSetTheorems, TLAPS

Post      == [username : Users, message : Text]
Lives     == {ttl \in Ttl : ttl >= 1} \cup {NaN}
HeaderSet == [id : Ids, username : Users, ttl : Lives, created : Nat]
ThreadSet == [id : Ids, username : Users, ttl : Lives, created : Nat, messages : Seq(Post)]
Colours   == {"expired", "red", "cyan", "blue", "green"}
Replies   == [type : {"error", "delete"}] \cup [type : {"thread"}, thread : ThreadSet]
                \cup [type : {"threads"}, list : Seq(HeaderSet)]

-----------------------------------------------------------------------------
(* The labels.                                                             *)

\* Less time left is no less urgent.
LEMMA ColourMonotone ==
    ASSUME NEW a \in Int, NEW b \in Int, a <= b
    PROVE  /\ Colour(a) \in Colours /\ Colour(b) \in Colours
           /\ Urgency[Colour(a)] <= Urgency[Colour(b)]
<1> DEFINE d(x) == Hours(x) \div 24
           h(x) == Hours(x) % 24
           U(x) == IF x <= 0 THEN 0
                   ELSE IF d(x) > 0 THEN (IF d(x) = 1 THEN 2 ELSE IF d(x) < 5 THEN 3 ELSE 4)
                   ELSE IF h(x) > 0 THEN 2 ELSE 1
<1>1. ASSUME NEW x \in Int
      PROVE  Colour(x) \in Colours /\ Urgency[Colour(x)] = U(x)
  BY DEF Colour, Colours, Urgency
<1>2. Hours(a) \in Int /\ Hours(b) \in Int /\ Hours(a) <= Hours(b) /\ (a > 0 => Hours(a) >= 0)
  BY DEF Hours
<1>3. \A x \in Int : /\ x \div 24 \in Int /\ x % 24 \in 0..23
                      /\ x = (24 * (x \div 24)) + (x % 24)
                      /\ x >= 0 => x \div 24 >= 0
  OBVIOUS
<1>4. \A x, y \in Int : x <= y => x \div 24 <= y \div 24
  OBVIOUS
<1>5. U(a) <= U(b)
  BY <1>2, <1>3, <1>4
<1> QED
  BY <1>1, <1>5

\* The number of whole hours, and of whole days, in a time.
LEMMA WholeHours ==
    ASSUME NEW ms \in Int
    PROVE  /\ Hours(ms) \in Int /\ Hours(ms) = ms \div Hour
           /\ Hours(ms) \div 24 = ms \div (24 * Hour)
BY DEF Hours, Hour

\* The label of a topic that has not expired has the colour of the comment but
\* on two days, the second and the fifth: there the code cuts off the hours and
\* is one colour more urgent.  (The comment says <=1d and <=4d.)
THEOREM LabelsCutDays ==
    \A ms \in Int : ms > 0 =>
        /\ ~CutDay(ms) => Colour(ms) = Commented(ms)
        /\ CutDay(ms) => Urgency[Commented(ms)] = Urgency[Colour(ms)] + 1
<1> SUFFICES ASSUME NEW ms \in Int, ms > 0
             PROVE  /\ ~CutDay(ms) => Colour(ms) = Commented(ms)
                    /\ CutDay(ms) => Urgency[Commented(ms)] = Urgency[Colour(ms)] + 1
  OBVIOUS
<1> DEFINE days == Hours(ms) \div 24
           hours == Hours(ms) % 24
<1>1. /\ Hours(ms) \in Int /\ Hours(ms) = ms \div Hour /\ days = ms \div (24 * Hour)
  BY WholeHours
<1>2. /\ days \in Int /\ hours \in 0..23 /\ Hours(ms) = (24 * days) + hours
  <2>1. \A x \in Int : /\ x \div 24 \in Int /\ x % 24 \in 0..23
                       /\ x = (24 * (x \div 24)) + (x % 24)
    OBVIOUS
  <2> QED
    BY <1>1, <2>1
<1>3. ms < Hour <=> Hours(ms) <= 0
  BY <1>1 DEF Hour
<1>4. ms >= 0 => Hours(ms) >= 0
  BY <1>1 DEF Hour
<1>5. ms < Hour <=> days <= 0 /\ hours <= 0
  BY <1>2, <1>3, <1>4
<1>6. days >= 0
  BY <1>2, <1>4
<1> HIDE DEF days, hours
<1>7. Colour(ms) = IF days > 0
                   THEN (IF days = 1 THEN "cyan" ELSE IF days < 5 THEN "blue" ELSE "green")
                   ELSE IF hours > 0 THEN "cyan" ELSE "red"
  BY DEF Colour, days, hours
<1>8. /\ days <= 0 <=> ms < 24 * Hour
      /\ days = 1 <=> 24 * Hour <= ms /\ ms < 2 * 24 * Hour
      /\ days < 4 <=> ms < 4 * 24 * Hour
      /\ days < 5 <=> ms < 5 * 24 * Hour
  BY <1>1 DEF Hour
<1>9. CASE ms < Hour
  BY <1>5, <1>6, <1>7, <1>9, <1>2 DEF Commented, CutDay, Hour
<1>10. CASE Hour <= ms /\ ms <= 24 * Hour
  <2>1. Colour(ms) = "cyan"
    BY <1>2, <1>5, <1>6, <1>7, <1>8, <1>10 DEF Hour
  <2> QED
    BY <1>10, <2>1 DEF Commented, CutDay, Hour
<1>11. CASE 24 * Hour < ms /\ ms < 2 * 24 * Hour
  <2>1. Colour(ms) = "cyan" /\ Commented(ms) = "blue" /\ CutDay(ms)
    BY <1>7, <1>8, <1>11 DEF Commented, CutDay, Hour
  <2> QED
    BY <2>1 DEF Urgency
<1>12. CASE 2 * 24 * Hour <= ms /\ ms <= 4 * 24 * Hour
  <2>1. days > 1 /\ days < 5
    BY <1>2, <1>8, <1>12 DEF Hour
  <2> QED
    BY <1>2, <1>7, <1>12, <2>1 DEF Commented, CutDay, Hour
<1>13. CASE 4 * 24 * Hour < ms /\ ms < 5 * 24 * Hour
  <2>1. days > 1 /\ days < 5
    BY <1>2, <1>8, <1>13 DEF Hour
  <2>2. Colour(ms) = "blue" /\ Commented(ms) = "green" /\ CutDay(ms)
    BY <1>2, <1>7, <1>13, <2>1 DEF Commented, CutDay, Hour
  <2> QED
    BY <2>2 DEF Urgency
<1>14. CASE 5 * 24 * Hour <= ms
  <2>1. days >= 5
    BY <1>2, <1>8, <1>14 DEF Hour
  <2> QED
    BY <1>2, <1>7, <1>14, <2>1 DEF Commented, CutDay, Hour
<1> QED
  BY <1>9, <1>10, <1>11, <1>12, <1>13, <1>14 DEF Hour

-----------------------------------------------------------------------------
(* The inductive invariant.                                                *)

\* The copy of a header, when the threads are ts, the next number is n and
\* the time is at: its thread is as it was, or is gone for good.
Follows(t, ts, n, at) ==
    /\ t.id < n /\ t.created <= at
    /\ t.id \in DOMAIN ts => t = Header(ts[t.id])

\* The copy of a thread: its thread has perhaps grown, or is gone for good.
Grows(t, ts, n) ==
    /\ t.id < n
    /\ t.id \in DOMAIN ts => Beginning(t.messages, ts[t.id].messages)

\* Sorted by the time at which each is due, whenever that is looked at.
Due(t) == t.ttl + t.created
ByDue(list) ==
    (\A i \in DOMAIN list : list[i].ttl # NaN) =>
        \A i, j \in DOMAIN list : i < j => Due(list[i]) <= Due(list[j])

Honest(m, ts, n, at) ==
    /\ m.type = "thread" => Grows(m.thread, ts, n)
    /\ m.type = "threads" =>
          ByDue(m.list) /\ \A i \in DOMAIN m.list : Follows(m.list[i], ts, n, at)

ThreadsFit ==
    /\ DOMAIN threads \subseteq Ids
    /\ nextThreadID \in 1..(MaxThreads + 1)
    /\ now \in 0..MaxNow
    /\ \A id \in DOMAIN threads :
          /\ threads[id] \in ThreadSet /\ threads[id].id = id
          /\ id < nextThreadID /\ threads[id].created <= now
StreamsFit ==
    /\ toClient \in [Session -> Seq(Replies)]
    /\ \A c \in Session : \A i \in DOMAIN toClient[c] : Honest(toClient[c][i], threads, nextThreadID, now)
ScreensFit ==
    /\ shown \in [Session -> Seq([thread : HeaderSet, colour : Colours])]
    /\ \A c \in Session : \A i \in DOMAIN shown[c] :
          Follows(shown[c][i].thread, threads, nextThreadID, now)
IInv == ThreadsFit /\ StreamsFit /\ ScreensFit /\ MostUrgentFirst

LEMMA InvInit == Init => IInv
<1> SUFFICES ASSUME Init PROVE IInv
  OBVIOUS
<1>1. DOMAIN threads = {}
  BY DEF Init
<1>2. ThreadsFit
  BY <1>1, BoardsAssumption DEF Init, ThreadsFit
<1>3. StreamsFit
  BY DEF Init, StreamsFit
<1>4. ScreensFit /\ MostUrgentFirst
  BY DEF Init, ScreensFit, MostUrgentFirst
<1> QED
  BY <1>2, <1>3, <1>4 DEF IInv

-----------------------------------------------------------------------------
(* The threads change, the copies do not.                                  *)

\* What any step may do to the threads: old ones grow, new ones have numbers
\* never used before.
Onward ==
    /\ ThreadsFit'
    /\ now <= now' /\ nextThreadID <= nextThreadID'
    /\ \A id \in DOMAIN threads' :
          \/ id >= nextThreadID
          \/ /\ id \in DOMAIN threads
             /\ Header(threads'[id]) = Header(threads[id])
             /\ Beginning(threads[id].messages, threads'[id].messages)

\* Nothing happens to the threads, but time may pass.
LEMMA StillOnward ==
    ASSUME ThreadsFit, UNCHANGED <<threads, nextThreadID>>, now' \in now..MaxNow
    PROVE  Onward
<1>1. ThreadsFit'
  BY BoardsAssumption DEF ThreadsFit, ThreadSet
<1>2. now <= now' /\ nextThreadID <= nextThreadID'
  BY DEF ThreadsFit
<1>3. \A id \in DOMAIN threads : Beginning(threads[id].messages, threads[id].messages)
  BY DEF ThreadsFit, ThreadSet, Beginning
<1> QED
  BY <1>1, <1>2, <1>3 DEF Onward

LEMMA HeaderCopyKept ==
    ASSUME ThreadsFit, Onward, NEW t \in HeaderSet, Follows(t, threads, nextThreadID, now)
    PROVE  Follows(t, threads', nextThreadID', now')
<1>1. t.id \in Nat /\ t.created \in Nat /\ nextThreadID \in Nat /\ nextThreadID' \in Nat
      /\ now \in Nat /\ now' \in Nat
  BY BoardsAssumption DEF HeaderSet, Ids, ThreadsFit, Onward
<1>2. t.id < nextThreadID' /\ t.created <= now'
  BY <1>1 DEF Follows, Onward
<1>3. t.id \in DOMAIN threads' => t = Header(threads'[t.id])
  BY <1>1 DEF Follows, Onward
<1> QED
  BY <1>2, <1>3 DEF Follows

LEMMA ThreadCopyKept ==
    ASSUME ThreadsFit, Onward, NEW t \in ThreadSet, Grows(t, threads, nextThreadID)
    PROVE  Grows(t, threads', nextThreadID')
<1>1. t.id \in Nat /\ nextThreadID \in Nat /\ nextThreadID' \in Nat
      /\ t.messages \in Seq(Post)
  BY BoardsAssumption DEF ThreadSet, Ids, ThreadsFit, Onward
<1>2. t.id < nextThreadID'
  BY <1>1 DEF Grows, Onward
<1>3. ASSUME t.id \in DOMAIN threads'
      PROVE  Beginning(t.messages, threads'[t.id].messages)
  <2>1. /\ t.id \in DOMAIN threads
        /\ Beginning(t.messages, threads[t.id].messages)
        /\ Beginning(threads[t.id].messages, threads'[t.id].messages)
    BY <1>1, <1>3 DEF Grows, Onward
  <2>2. threads[t.id].messages \in Seq(Post) /\ threads'[t.id].messages \in Seq(Post)
    BY <1>3, <2>1 DEF ThreadsFit, Onward, ThreadSet
  <2> QED
    BY <1>1, <2>1, <2>2 DEF Beginning
<1> QED
  BY <1>2, <1>3 DEF Grows

LEMMA HonestKept ==
    ASSUME ThreadsFit, Onward, NEW m \in Replies, Honest(m, threads, nextThreadID, now)
    PROVE  Honest(m, threads', nextThreadID', now')
<1>1. m.type = "thread" => Grows(m.thread, threads', nextThreadID')
  BY ThreadCopyKept DEF Honest, Replies
<1>2. ASSUME m.type = "threads"
      PROVE  \A i \in DOMAIN m.list : Follows(m.list[i], threads', nextThreadID', now')
  <2>1. m.list \in Seq(HeaderSet)
    BY <1>2 DEF Replies
  <2>2. \A i \in DOMAIN m.list :
          m.list[i] \in HeaderSet /\ Follows(m.list[i], threads, nextThreadID, now)
    BY <1>2, <2>1 DEF Honest
  <2> QED
    BY <2>2, HeaderCopyKept
<1> QED
  BY <1>1, <1>2 DEF Honest

LEMMA ElementOf ==
    ASSUME NEW S, NEW s \in Seq(S), NEW i \in DOMAIN s
    PROVE  s[i] \in S
OBVIOUS

LEMMA ScreensKept ==
    ASSUME ThreadsFit, Onward, ScreensFit, shown' = shown
    PROVE  ScreensFit'
<1>1. ASSUME NEW c \in Session, NEW i \in DOMAIN shown[c]
      PROVE  Follows(shown[c][i].thread, threads', nextThreadID', now')
  <2>1. shown[c] \in Seq([thread : HeaderSet, colour : Colours])
    BY DEF ScreensFit
  <2>2. shown[c][i].thread \in HeaderSet
    <3>1. shown[c][i] \in [thread : HeaderSet, colour : Colours]
      BY <2>1, ElementOf
    <3> QED
      BY <3>1
  <2>3. Follows(shown[c][i].thread, threads, nextThreadID, now)
    BY DEF ScreensFit
  <2> QED
    BY <2>2, <2>3, HeaderCopyKept
<1> QED
  BY <1>1 DEF ScreensFit

LEMMA StreamsKept ==
    ASSUME ThreadsFit, Onward, StreamsFit
    PROVE  \A c \in Session : \A i \in DOMAIN toClient[c] :
              /\ toClient[c][i] \in Replies
              /\ Honest(toClient[c][i], threads', nextThreadID', now')
BY HonestKept DEF StreamsFit

LEMMA AppendAdds ==
    ASSUME NEW S, NEW s \in Seq(S), NEW m \in S
    PROVE  \A i \in DOMAIN Append(s, m) :
              (i \in DOMAIN s /\ Append(s, m)[i] = s[i]) \/ Append(s, m)[i] = m
OBVIOUS

\* A handler that changes the threads in such a way, and makes an honest
\* answer of what they are then.
LEMMA Answered ==
    ASSUME IInv, Onward, NEW c \in Session, NEW m \in Replies, Reply(c, m),
           Honest(m, threads', nextThreadID', now'), shown' = shown
    PROVE  IInv'
<1>1. \A d \in Session :
        toClient'[d] = IF d = c THEN Append(toClient[d], m) ELSE toClient[d]
  BY DEF Reply, IInv, StreamsFit
<1>2. toClient' \in [Session -> Seq(Replies)]
  BY DEF Reply, IInv, StreamsFit
<1>3. \A d \in Session : toClient[d] \in Seq(Replies)
  BY DEF IInv, StreamsFit
<1>4. ASSUME NEW d \in Session, NEW i \in DOMAIN toClient'[d]
      PROVE  Honest(toClient'[d][i], threads', nextThreadID', now')
  <2>1. toClient'[d] = toClient[d] \/ toClient'[d] = Append(toClient[d], m)
    BY <1>1
  <2>2. \/ i \in DOMAIN toClient[d] /\ toClient'[d][i] = toClient[d][i]
        \/ toClient'[d][i] = m
    BY <1>3, <2>1, AppendAdds
  <2> QED
    BY <2>2, StreamsKept DEF IInv
<1>5. StreamsFit'
  BY <1>2, <1>4 DEF StreamsFit
<1>6. ScreensFit'
  BY ScreensKept DEF IInv
<1> QED
  BY <1>5, <1>6 DEF IInv, Onward, MostUrgentFirst

-----------------------------------------------------------------------------
(* The commands.                                                           *)

\* What topics.sort() answers with holds every thread, once.
LEMMA SortedHasAll ==
    ASSUME ThreadsFit, NEW p \in Sorted
    PROVE  /\ \E n \in Nat : p \in [1..n -> DOMAIN threads]
           /\ \A id \in DOMAIN threads : \E i \in DOMAIN p : p[i] = id
<1> DEFINE D == DOMAIN threads
           n == Cardinality(D)
<1>1. IsFiniteSet(D)
  <2>1. D \in SUBSET (1..MaxThreads)
    BY DEF ThreadsFit, Ids
  <2>2. 1 \in Int /\ MaxThreads \in Int
    BY BoardsAssumption
  <2>3. IsFiniteSet(1..MaxThreads)
    BY <2>2, FS_Interval
  <2> HIDE DEF D
  <2> QED
    BY <2>1, <2>3, FS_Subset
<1>2. n \in Nat
  BY <1>1, FS_CardinalityType
<1>3. p \in [1..n -> D] /\ \A i, j \in DOMAIN p : p[i] = p[j] => i = j
  BY DEF Sorted, Arrangements
<1>4. IsFiniteSet(1..n) /\ Cardinality(1..n) = n
  BY <1>2, FS_Interval
<1>5. p \in Injection(1..n, D)
  BY <1>3 DEF Injection, IsInjective
<1> HIDE DEF n, D
<1>6. p \in Surjection(1..n, D)
  BY <1>1, <1>4, <1>5, FS_Injection DEF n
<1> QED
  BY <1>2, <1>3, <1>6 DEF Surjection, D

\* A list of topics is made of headers that follow their threads, in order.
LEMMA ListHonest ==
    ASSUME ThreadsFit, NEW p \in Sorted
    PROVE  LET list == [i \in DOMAIN p |-> Header(threads[p[i]])]
           IN  /\ list \in Seq(HeaderSet)
               /\ ByDue(list)
               /\ \A i \in DOMAIN list : Follows(list[i], threads, nextThreadID, now)
<1> DEFINE list == [i \in DOMAIN p |-> Header(threads[p[i]])]
<1>1. PICK n \in Nat : p \in [1..n -> DOMAIN threads]
  BY SortedHasAll
<1>2. \A i \in 1..n : /\ p[i] \in DOMAIN threads /\ list[i] = Header(threads[p[i]])
                      /\ threads[p[i]] \in ThreadSet /\ threads[p[i]].id = p[i]
                      /\ p[i] < nextThreadID /\ threads[p[i]].created <= now
  BY <1>1 DEF ThreadsFit
<1>3. DOMAIN list = 1..n
  BY <1>1
<1>4. \A t \in ThreadSet : Header(t) \in HeaderSet
  BY DEF Header, HeaderSet, ThreadSet
<1>5. list \in Seq(HeaderSet)
  <2>1. list \in [1..n -> HeaderSet]
    BY <1>1, <1>2, <1>4
  <2> QED
    BY <2>1
<1>6. \A i \in DOMAIN list : Follows(list[i], threads, nextThreadID, now)
  BY <1>2, <1>3 DEF Follows, Header
<1>7. ByDue(list)
  <2> SUFFICES ASSUME \A i \in 1..n : list[i].ttl # NaN, NEW i \in 1..n, NEW j \in 1..n, i < j
               PROVE  Due(list[i]) <= Due(list[j])
    BY <1>3 DEF ByDue
  <2> HIDE DEF list
  <2>1. ASSUME NEW k \in 1..n
        PROVE  /\ list[k].ttl = threads[p[k]].ttl
               /\ list[k].created = threads[p[k]].created
    <3>1. list[k] = Header(threads[p[k]])
      BY <1>2
    <3> QED
      BY <3>1 DEF Header
  <2>2. ASSUME NEW id \in DOMAIN threads
        PROVE  threads[id].ttl # NaN
    <3>1. PICK k \in 1..n : p[k] = id
      BY <1>1, SortedHasAll
    <3> QED
      BY <2>1, <3>1
  <2>3. Ordered(p)
    BY <2>2 DEF Sorted
  <2>4. Remaining(threads[p[i]]) <= Remaining(threads[p[j]])
    <3>1. i \in DOMAIN p /\ j \in DOMAIN p
      BY <1>1
    <3> QED
      BY <2>3, <3>1 DEF Ordered
  <2>5. ASSUME NEW k \in 1..n
        PROVE  threads[p[k]].ttl \in Int /\ threads[p[k]].created \in Int
    <3>1. threads[p[k]] \in ThreadSet /\ threads[p[k]].ttl # NaN
      BY <1>2, <2>2
    <3>2. threads[p[k]].ttl \in Lives /\ threads[p[k]].created \in Nat
      BY <3>1 DEF ThreadSet
    <3>3. \A ttl \in Lives \ {NaN} : ttl \in Int
      BY BoardsAssumption DEF Lives
    <3> QED
      BY <3>1, <3>2, <3>3
  <2>6. now \in Int
    BY BoardsAssumption DEF ThreadsFit
  <2> QED
    BY <2>1, <2>4, <2>5, <2>6 DEF Remaining, Due
<1> QED
  BY <1>5, <1>6, <1>7

LEMMA OnThreadsStep ==
    ASSUME IInv, NEW c \in Session, OnThreads(c)
    PROVE  IInv'
<1>1. UNCHANGED <<threads, nextThreadID, now, shown>>
  BY DEF OnThreads
<1>2. PICK p \in Sorted :
        Reply(c, ThreadsReply([i \in DOMAIN p |-> Header(threads[p[i]])]))
  BY DEF OnThreads
<1> DEFINE list == [i \in DOMAIN p |-> Header(threads[p[i]])]
           m    == ThreadsReply(list)
<1>3. /\ list \in Seq(HeaderSet) /\ ByDue(list)
      /\ \A i \in DOMAIN list : Follows(list[i], threads, nextThreadID, now)
  BY ListHonest DEF IInv
<1>4. Onward
  BY <1>1, StillOnward, BoardsAssumption DEF IInv, ThreadsFit
<1> HIDE DEF list
<1>5. m \in Replies /\ Honest(m, threads, nextThreadID, now)
  BY <1>3 DEF Replies, ThreadsReply, Honest
<1>6. Reply(c, m)
  BY <1>2 DEF list
<1> HIDE DEF m
<1> QED
  BY <1>1, <1>4, <1>5, <1>6, Answered

\* A refusal, or a confirmation.
LEMMA PlainAnswer ==
    ASSUME NEW m \in {ErrorReply, DeleteReply}, NEW ts, NEW n, NEW at
    PROVE  m \in Replies /\ Honest(m, ts, n, at)
BY DEF ErrorReply, DeleteReply, Replies, Honest

\* A copy of a thread as it is.
LEMMA ThreadAnswer ==
    ASSUME NEW ts, NEW n, NEW at, NEW t \in ThreadSet, t.id < n,
           t.id \in DOMAIN ts => ts[t.id] = t
    PROVE  ThreadReply(t) \in Replies /\ Honest(ThreadReply(t), ts, n, at)
<1>1. t.messages \in Seq(Post)
  BY DEF ThreadSet
<1>2. Beginning(t.messages, t.messages)
  BY <1>1 DEF Beginning
<1> QED
  BY <1>2 DEF ThreadReply, Replies, Honest, Grows

LEMMA StillAnswered ==
    ASSUME IInv, UNCHANGED <<threads, nextThreadID, now, shown>>,
           NEW c \in Session, NEW m \in Replies, Reply(c, m),
           Honest(m, threads, nextThreadID, now)
    PROVE  IInv'
<1>1. Onward
  BY StillOnward, BoardsAssumption DEF IInv, ThreadsFit
<1> QED
  BY <1>1, Answered

LEMMA OnThreadStep ==
    ASSUME IInv, NEW c \in Session, NEW id \in Ids, OnThread(c, id)
    PROVE  IInv'
<1>1. CASE id \in DOMAIN threads
  <2>1. threads[id] \in ThreadSet /\ threads[id].id = id /\ id < nextThreadID
    BY <1>1 DEF IInv, ThreadsFit
  <2>2. ThreadReply(threads[id]) \in Replies
        /\ Honest(ThreadReply(threads[id]), threads, nextThreadID, now)
    BY <2>1, ThreadAnswer
  <2> QED
    BY <1>1, <2>2, StillAnswered DEF OnThread
<1>2. CASE id \notin DOMAIN threads
  BY <1>2, StillAnswered, PlainAnswer DEF OnThread
<1> QED
  BY <1>1, <1>2

LEMMA OnNewStep ==
    ASSUME IInv, NEW c \in Session, NEW ttl \in Ttl \cup {NaN}, OnNew(c, ttl)
    PROVE  IInv'
<1> DEFINE id == nextThreadID
           thread == CreateNewThread(id, UserOf[c], ttl)
<1>1. CASE ~TtlAccepted(ttl)
  BY <1>1, StillAnswered, PlainAnswer DEF OnNew
<1>2. CASE TtlAccepted(ttl)
  <2>1. /\ DOMAIN threads' = DOMAIN threads \cup {id}
        /\ threads'[id] = thread
        /\ \A j \in DOMAIN threads \ {id} : threads'[j] = threads[j]
        /\ nextThreadID' = nextThreadID + 1 /\ now' = now /\ shown' = shown
        /\ Reply(c, ThreadReply(thread)) /\ nextThreadID <= MaxThreads
    BY <1>2 DEF OnNew, GenerateThreadID
  <2>2. id \in Ids /\ now \in Nat /\ UserOf[c] \in Users /\ ttl \in Lives
        /\ nextThreadID' \in 1..(MaxThreads + 1) /\ nextThreadID' > nextThreadID
    BY <1>2, <2>1, BoardsAssumption
       DEF IInv, ThreadsFit, Ids, Users, TtlAccepted, Lives
  <2>3. thread \in ThreadSet /\ thread.id = id /\ thread.created = now
    BY <2>2 DEF CreateNewThread, ThreadSet
  <2> HIDE DEF thread
  <2>4. id \notin DOMAIN threads
    <3>1. id \in DOMAIN threads => id < id
      BY DEF IInv, ThreadsFit
    <3> QED
      BY <2>2, <3>1 DEF Ids
  <2>5. ThreadsFit'
    <3>1. ASSUME NEW j \in DOMAIN threads'
          PROVE  /\ threads'[j] \in ThreadSet /\ threads'[j].id = j
                 /\ j < nextThreadID' /\ threads'[j].created <= now'
      <4>1. CASE j = id
        BY <2>1, <2>2, <2>3, <4>1 DEF Ids
      <4>2. CASE j # id
        <5>1. j \in DOMAIN threads /\ threads'[j] = threads[j] /\ j \in Ids
          BY <2>1, <4>2 DEF IInv, ThreadsFit
        <5>2. j < nextThreadID'
          BY <2>2, <5>1, BoardsAssumption DEF IInv, ThreadsFit, Ids
        <5> QED
          BY <2>1, <5>1, <5>2 DEF IInv, ThreadsFit
      <4> QED
        BY <4>1, <4>2
    <3>2. DOMAIN threads' \subseteq Ids
      BY <2>1, <2>2 DEF IInv, ThreadsFit
    <3> QED
      BY <2>1, <2>2, <3>1, <3>2 DEF IInv, ThreadsFit
  <2>6. Onward
    <3>1. \A j \in DOMAIN threads : Beginning(threads[j].messages, threads[j].messages)
      BY DEF IInv, ThreadsFit, ThreadSet, Beginning
    <3>2. id >= nextThreadID
      BY <2>2 DEF Ids
    <3>3. now <= now' /\ nextThreadID <= nextThreadID'
      BY <2>1, <2>2 DEF Ids
    <3> QED
      BY <2>1, <2>5, <3>1, <3>2, <3>3 DEF Onward
  <2>7. ThreadReply(thread) \in Replies
        /\ Honest(ThreadReply(thread), threads', nextThreadID', now')
    BY <2>1, <2>2, <2>3, ThreadAnswer
  <2> QED
    BY <2>1, <2>6, <2>7, Answered
<1> QED
  BY <1>1, <1>2

LEMMA OnDeleteStep ==
    ASSUME IInv, NEW c \in Session, NEW id \in Ids, OnDelete(c, id)
    PROVE  IInv'
<1> DEFINE own == id \in DOMAIN threads /\ threads[id].username = UserOf[c]
<1>1. CASE ~own
  BY <1>1, StillAnswered, PlainAnswer DEF OnDelete
<1>2. CASE own
  <2>1. /\ DOMAIN threads' = DOMAIN threads \ {id}
        /\ \A j \in DOMAIN threads' : threads'[j] = threads[j]
        /\ UNCHANGED <<nextThreadID, now, shown>> /\ Reply(c, DeleteReply)
    BY <1>2 DEF OnDelete
  <2>2. ThreadsFit'
    BY <2>1 DEF IInv, ThreadsFit
  <2>3. \A j \in DOMAIN threads : Beginning(threads[j].messages, threads[j].messages)
    BY DEF IInv, ThreadsFit, ThreadSet, Beginning
  <2>4. now <= now' /\ nextThreadID <= nextThreadID'
    BY <2>1, BoardsAssumption DEF IInv, ThreadsFit
  <2>5. Onward
    BY <2>1, <2>2, <2>3, <2>4 DEF Onward
  <2> QED
    BY <2>1, <2>5, Answered, PlainAnswer
<1> QED
  BY <1>1, <1>2

LEMMA PostAdds ==
    ASSUME NEW S, NEW s \in Seq(S), NEW q \in S
    PROVE  Append(s, q) \in Seq(S) /\ Beginning(s, Append(s, q))
BY DEF Beginning

LEMMA OnPostStep ==
    ASSUME IInv, NEW c \in Session, NEW id \in Ids, NEW text \in Text \cup {NoText},
           OnPost(c, id, text)
    PROVE  IInv'
<1>1. CASE ~(id \in DOMAIN threads /\ text # NoText)
  BY <1>1, StillAnswered, PlainAnswer DEF OnPost
<1>2. CASE id \in DOMAIN threads /\ text # NoText
  <2> DEFINE old    == threads[id]
             thread == PostMessage(old, [username |-> UserOf[c], message |-> text])
  <2>1. /\ threads' = [threads EXCEPT ![id] = thread]
        /\ UNCHANGED <<nextThreadID, now, shown>> /\ Reply(c, ThreadReply(thread))
    BY <1>2 DEF OnPost
  <2>2. old \in ThreadSet /\ old.id = id /\ id < nextThreadID /\ old.created <= now
    BY <1>2 DEF IInv, ThreadsFit
  <2>3. [username |-> UserOf[c], message |-> text] \in Post
    BY <1>2 DEF Post, Users
  <2> HIDE DEF old
  <2>4. /\ thread \in ThreadSet /\ thread.id = id /\ thread.created = old.created
        /\ Header(thread) = Header(old)
        /\ Beginning(old.messages, thread.messages)
    <3>1. old.messages \in Seq(Post)
      BY <2>2 DEF ThreadSet
    <3>2. thread = [old EXCEPT !.messages =
                        Append(old.messages, [username |-> UserOf[c], message |-> text])]
      BY DEF PostMessage
    <3>3. \A q \in Post : Append(old.messages, q) \in Seq(Post)
                          /\ Beginning(old.messages, Append(old.messages, q))
      BY <3>1, PostAdds
    <3>4. thread.messages = Append(old.messages, [username |-> UserOf[c], message |-> text])
      BY <2>2, <3>2 DEF ThreadSet
    <3>5. thread \in ThreadSet
      BY <2>2, <2>3, <3>2, <3>3 DEF ThreadSet
    <3>6. /\ thread.id = old.id /\ thread.username = old.username
          /\ thread.ttl = old.ttl /\ thread.created = old.created
      BY <2>2, <3>2 DEF ThreadSet
    <3> QED
      BY <2>2, <2>3, <3>3, <3>4, <3>5, <3>6 DEF Header
  <2> HIDE DEF thread
  <2>5. /\ DOMAIN threads' = DOMAIN threads /\ threads'[id] = thread
        /\ \A j \in DOMAIN threads \ {id} : threads'[j] = threads[j]
    BY <1>2, <2>1
  <2>6. ThreadsFit'
    BY <2>1, <2>2, <2>4, <2>5 DEF IInv, ThreadsFit
  <2>7. \A j \in DOMAIN threads : Beginning(threads[j].messages, threads[j].messages)
    BY DEF IInv, ThreadsFit, ThreadSet, Beginning
  <2>8. now <= now' /\ nextThreadID <= nextThreadID'
    BY <2>1, BoardsAssumption DEF IInv, ThreadsFit
  <2>9. Onward
    BY <2>4, <2>5, <2>6, <2>7, <2>8 DEF Onward, old
  <2>10. ThreadReply(thread) \in Replies
         /\ Honest(ThreadReply(thread), threads', nextThreadID', now')
    BY <2>1, <2>2, <2>4, <2>5, ThreadAnswer
  <2> QED
    BY <2>1, <2>9, <2>10, Answered
<1> QED
  BY <1>1, <1>2

\* The client puts a list on its screen: what is sorted by the time a thread
\* is due is sorted by the label too, at whatever time it is labelled.
LEMMA LabelsInOrder ==
    ASSUME now \in Nat, NEW list \in Seq(HeaderSet), ByDue(list),
           \A i \in DOMAIN list : list[i].ttl # NaN
    PROVE  \A i, j \in DOMAIN list : i < j =>
              Urgency[Topic(list[i]).colour] <= Urgency[Topic(list[j]).colour]
<1> SUFFICES ASSUME NEW i \in DOMAIN list, NEW j \in DOMAIN list, i < j
             PROVE  Urgency[Colour(TimeRemaining(list[i]))]
                        <= Urgency[Colour(TimeRemaining(list[j]))]
  BY DEF Topic
<1>1. list[i] \in HeaderSet /\ list[j] \in HeaderSet
  BY ElementOf
<1>2. \A ttl \in Lives \ {NaN} : ttl \in Int
  BY BoardsAssumption DEF Lives
<1>3. /\ list[i].ttl \in Int /\ list[j].ttl \in Int
      /\ list[i].created \in Int /\ list[j].created \in Int
  BY <1>1, <1>2 DEF HeaderSet
<1>4. Due(list[i]) <= Due(list[j])
  BY DEF ByDue
<1>5. /\ TimeRemaining(list[i]) = list[i].ttl - (now - list[i].created)
      /\ TimeRemaining(list[j]) = list[j].ttl - (now - list[j].created)
  BY DEF TimeRemaining
<1>6. /\ TimeRemaining(list[i]) \in Int /\ TimeRemaining(list[j]) \in Int
      /\ TimeRemaining(list[i]) <= TimeRemaining(list[j])
  <2>1. \A t, c, u, d, n \in Int :
           t + c <= u + d => t - (n - c) <= u - (n - d)
    OBVIOUS
  <2>2. list[i].ttl + list[i].created <= list[j].ttl + list[j].created
    BY <1>4 DEF Due
  <2>3. now \in Int
    OBVIOUS
  <2>4. list[i].ttl - (now - list[i].created) <= list[j].ttl - (now - list[j].created)
    BY <1>3, <2>1, <2>2, <2>3
  <2>5. \A t, c, n \in Int : t - (n - c) \in Int
    OBVIOUS
  <2>6. /\ list[i].ttl - (now - list[i].created) \in Int
        /\ list[j].ttl - (now - list[j].created) \in Int
    BY <1>3, <2>3, <2>5
  <2> QED
    BY <1>5, <2>4, <2>6
<1> QED
  BY <1>6, ColourMonotone

LEMMA TopicType ==
    ASSUME now \in Nat, NEW t \in HeaderSet
    PROVE  Topic(t) \in [thread : HeaderSet, colour : Colours] /\ Topic(t).thread = t
<1>1. t.created \in Nat /\ t.ttl \in Lives
  BY DEF HeaderSet
<1>2. t.ttl = NaN \/ t.ttl \in Int
  BY <1>1, BoardsAssumption DEF Lives
<1>3. TimeRemaining(t) \in Int
  BY <1>1, <1>2 DEF TimeRemaining
<1>4. Colour(TimeRemaining(t)) \in Colours
  BY <1>3, ColourMonotone
<1> QED
  BY <1>4 DEF Topic

LEMMA TailKeeps ==
    ASSUME NEW S, NEW s \in Seq(S), s # <<>>
    PROVE  /\ Tail(s) \in Seq(S) /\ 1 \in DOMAIN s /\ Head(s) = s[1]
           /\ \A i \in DOMAIN Tail(s) : i + 1 \in DOMAIN s /\ Tail(s)[i] = s[i + 1]
OBVIOUS

LEMMA FunctionIsSeq ==
    ASSUME NEW S, NEW n \in Nat, NEW f \in [1..n -> S]
    PROVE  f \in Seq(S)
OBVIOUS

LEMMA ClientReadsStep ==
    ASSUME IInv, NEW c \in Session, ClientReads(c)
    PROVE  IInv'
<1> DEFINE m == Head(toClient[c])
           topics == [i \in DOMAIN m.list |-> Topic(m.list[i])]
<1>1. /\ UNCHANGED <<threads, nextThreadID, now>> /\ toClient[c] # <<>>
      /\ toClient' = [toClient EXCEPT ![c] = Tail(@)]
      /\ shown' = IF m.type = "threads" THEN [shown EXCEPT ![c] = topics] ELSE shown
  BY DEF ClientReads
<1>2. toClient[c] \in Seq(Replies) /\ now \in Nat
  BY BoardsAssumption DEF IInv, StreamsFit, ThreadsFit
<1>3. /\ Tail(toClient[c]) \in Seq(Replies)
      /\ 1 \in DOMAIN toClient[c] /\ m = toClient[c][1]
      /\ \A i \in DOMAIN Tail(toClient[c]) :
            i + 1 \in DOMAIN toClient[c] /\ Tail(toClient[c])[i] = toClient[c][i + 1]
  BY <1>1, <1>2, TailKeeps
<1>4. m \in Replies /\ Honest(m, threads, nextThreadID, now)
  BY <1>2, <1>3, ElementOf DEF IInv, StreamsFit
<1>5. ThreadsFit'
  BY <1>1 DEF IInv, ThreadsFit
<1>6. StreamsFit'
  <2>1. toClient' \in [Session -> Seq(Replies)]
    BY <1>1, <1>3 DEF IInv, StreamsFit
  <2>2. toClient'[c] = Tail(toClient[c])
        /\ \A d \in Session \ {c} : toClient'[d] = toClient[d]
    BY <1>1 DEF IInv, StreamsFit
  <2>3. ASSUME NEW d \in Session, NEW i \in DOMAIN toClient'[d]
        PROVE  Honest(toClient'[d][i], threads, nextThreadID, now)
    <3>1. \A k \in DOMAIN toClient[d] : Honest(toClient[d][k], threads, nextThreadID, now)
      BY DEF IInv, StreamsFit
    <3>2. CASE d = c
      BY <1>3, <2>2, <3>1, <3>2
    <3>3. CASE d # c
      BY <2>2, <3>1, <3>3
    <3> QED
      BY <3>2, <3>3
  <2> QED
    BY <1>1, <2>1, <2>3 DEF StreamsFit
<1> HIDE DEF m
<1>7. CASE m.type # "threads"
  <2>1. shown' = shown
    BY <1>1, <1>7
  <2> QED
    BY <1>1, <1>5, <1>6, <2>1 DEF IInv, ScreensFit, MostUrgentFirst
<1>8. CASE m.type = "threads"
  <2>1. /\ m.list \in Seq(HeaderSet) /\ ByDue(m.list)
        /\ \A i \in DOMAIN m.list : Follows(m.list[i], threads, nextThreadID, now)
    BY <1>4, <1>8 DEF Replies, Honest
  <2>2. \A i \in DOMAIN m.list : /\ topics[i] \in [thread : HeaderSet, colour : Colours]
                                 /\ topics[i] = Topic(m.list[i])
                                 /\ topics[i].thread = m.list[i]
    BY <1>2, <2>1, ElementOf, TopicType
  <2>3. DOMAIN topics = DOMAIN m.list
    OBVIOUS
  <2>4. topics \in Seq([thread : HeaderSet, colour : Colours])
    <3>1. PICK n \in Nat : DOMAIN m.list = 1..n
      BY <2>1
    <3>2. \A i \in 1..n : topics[i] \in [thread : HeaderSet, colour : Colours]
      BY <2>2, <3>1
    <3>3. topics = [i \in 1..n |-> topics[i]]
      BY <3>1
    <3> HIDE DEF topics
    <3>4. topics \in [1..n -> [thread : HeaderSet, colour : Colours]]
      BY <3>2, <3>3
    <3> QED
      BY <3>4, FunctionIsSeq
  <2>5. /\ shown' = [shown EXCEPT ![c] = topics]
        /\ shown'[c] = topics /\ \A d \in Session \ {c} : shown'[d] = shown[d]
    BY <1>1, <1>8 DEF IInv, ScreensFit
  <2>6. (\A i \in DOMAIN m.list : m.list[i].ttl # NaN) =>
            \A i, j \in DOMAIN m.list : i < j =>
                Urgency[Topic(m.list[i]).colour] <= Urgency[Topic(m.list[j]).colour]
    BY <1>2, <2>1, LabelsInOrder
  <2>7. (\A i \in DOMAIN topics : topics[i].thread.ttl # NaN) =>
            \A i, j \in DOMAIN topics : i < j =>
                Urgency[topics[i].colour] <= Urgency[topics[j].colour]
    BY <2>2, <2>3, <2>6
  <2>8. \A i \in DOMAIN topics : Follows(topics[i].thread, threads, nextThreadID, now)
    BY <2>1, <2>2, <2>3
  <2> HIDE DEF topics
  <2>9. ScreensFit'
    <3>1. shown' \in [Session -> Seq([thread : HeaderSet, colour : Colours])]
      BY <2>4, <2>5 DEF IInv, ScreensFit
    <3>2. ASSUME NEW d \in Session, NEW i \in DOMAIN shown'[d]
          PROVE  Follows(shown'[d][i].thread, threads, nextThreadID, now)
      BY <2>5, <2>8 DEF IInv, ScreensFit
    <3> QED
      BY <1>1, <3>1, <3>2 DEF ScreensFit
  <2>10. MostUrgentFirst'
    BY <2>5, <2>7 DEF IInv, MostUrgentFirst
  <2> QED
    BY <1>5, <1>6, <2>9, <2>10 DEF IInv
<1> QED
  BY <1>7, <1>8

LEMMA TickStep ==
    ASSUME IInv, Tick \/ UNCHANGED vars
    PROVE  IInv'
<1>1. UNCHANGED <<threads, nextThreadID, toClient, shown>> /\ now' \in now..MaxNow
  BY BoardsAssumption DEF Tick, vars, IInv, ThreadsFit
<1>2. Onward
  BY <1>1, StillOnward DEF IInv
<1>3. ScreensFit'
  BY <1>1, <1>2, ScreensKept DEF IInv
<1>4. StreamsFit'
  BY <1>1, <1>2, StreamsKept DEF IInv, StreamsFit
<1>5. MostUrgentFirst'
  BY <1>1 DEF IInv, MostUrgentFirst
<1> QED
  BY <1>2, <1>3, <1>4, <1>5 DEF IInv, Onward

LEMMA Invariance == Spec => []IInv
<1>1. IInv /\ [Next]_vars => IInv'
  BY OnThreadsStep, OnThreadStep, OnNewStep, OnDeleteStep, OnPostStep, ClientReadsStep,
     TickStep DEF Next, Command
<1> QED
  BY <1>1, InvInit, PTL DEF Spec

-----------------------------------------------------------------------------
(* The properties.                                                         *)

\* Type correctness; no time to live below 1 is ever stored.
THEOREM TypeCorrect == Spec => []TypeOK
<1>1. ASSUME NEW t \in HeaderSet, t.created <= now, now \in Nat
      PROVE  IsHeader(t)
  BY <1>1 DEF HeaderSet, Lives, IsHeader
<1>2. ASSUME NEW t \in ThreadSet, t.created <= now, now \in Nat
      PROVE  IsThread(t)
  BY <1>2 DEF ThreadSet, Lives, Post, IsHeader, IsThread
<1>3. IInv => TypeOK
  <2> SUFFICES ASSUME IInv PROVE TypeOK
    OBVIOUS
  <2>1. now \in 0..MaxNow /\ now \in Nat /\ nextThreadID \in 1..(MaxThreads + 1)
    BY BoardsAssumption DEF IInv, ThreadsFit
  <2>2. /\ DOMAIN threads \subseteq Ids
        /\ \A id \in DOMAIN threads : IsThread(threads[id]) /\ threads[id].id = id
    BY <1>2, <2>1 DEF IInv, ThreadsFit
  <2>3. ASSUME NEW c \in Session, NEW i \in DOMAIN toClient[c]
        PROVE  toClient[c][i].type \in {"error", "delete", "thread", "threads"}
    <3>1. toClient[c][i] \in Replies
      BY ElementOf DEF IInv, StreamsFit
    <3> QED
      BY <3>1 DEF Replies
  <2>4. ASSUME NEW c \in Session, NEW i \in DOMAIN shown[c]
        PROVE  IsHeader(shown[c][i].thread)
    <3>1. shown[c][i] \in [thread : HeaderSet, colour : Colours]
      BY ElementOf DEF IInv, ScreensFit
    <3>2. Follows(shown[c][i].thread, threads, nextThreadID, now)
      BY DEF IInv, ScreensFit
    <3> QED
      BY <1>1, <2>1, <3>1, <3>2 DEF Follows
  <2> QED
    BY <2>1, <2>2, <2>3, <2>4 DEF TypeOK
<1> QED
  BY <1>3, Invariance, PTL

\* The number of a topic on a screen never comes to mean another thread,
\* whoever deletes and creates threads while the list is on its way.
THEOREM PickedIsShownHolds == Spec => []PickedIsShown
<1>1. IInv => PickedIsShown
  BY DEF IInv, ScreensFit, Follows, PickedIsShown
<1> QED
  BY <1>1, Invariance, PTL

\* A copy on its way to a client is the beginning of its thread.
THEOREM CopiesAreBeginningsHolds == Spec => []CopiesAreBeginnings
<1>1. IInv => CopiesAreBeginnings
  BY DEF IInv, StreamsFit, Honest, Grows, CopiesAreBeginnings
<1> QED
  BY <1>1, Invariance, PTL

\* On a screen no topic stands below one that has more time left by its label,
\* though the server sorts and the client labels at different times.
THEOREM MostUrgentFirstHolds == Spec => []MostUrgentFirst
<1>1. IInv => MostUrgentFirst
  BY DEF IInv
<1> QED
  BY <1>1, Invariance, PTL

=============================================================================
