------------------------------- MODULE Boards -------------------------------
(***************************************************************************)
(* The bulletin board: the threads server.js keeps, the commands 'threads',*)
(* 'thread', 'new', 'delete' and 'post' of handleMessage, and the list of  *)
(* topics a client shows (client/boards.js).  The handlers run one at a    *)
(* time; what they answer reaches the client later, when other sessions    *)
(* have gone on.  A reply is a copy: JSON is written by the handler.       *)
(*                                                                         *)
(* Threads are kept in memory, under ids that count up, and are removed by *)
(* their owner only: a time to live orders and labels them.                *)
(***************************************************************************)
EXTENDS Integers, Sequences, FiniteSets

CONSTANTS
    Session,      \* logged-on connections
    UserOf,       \* socket.username of each
    Ttl,          \* times to live, in ms, that 'new' may be given as a number
    NaN,          \* what parseInt makes of any other text
    Text,         \* bodies of posts
    NoText,       \* an empty or missing body
    Step,         \* ms by which the clock moves
    MaxNow, MaxThreads, MaxPosts, MaxBacklog   \* bounds

ASSUME BoardsAssumption ==
    /\ Ttl \subseteq Int /\ NaN \notin Int
    /\ NoText \notin Text
    /\ Step \in Nat /\ MaxNow \in Nat
    /\ MaxThreads \in Nat /\ MaxPosts \in Nat /\ MaxBacklog \in Nat

VARIABLES
    threads,       \* id -> thread, the object of that name
    nextThreadID,
    now,           \* Date.now(), of the server and of the clients
    toClient,      \* per session, replies not yet read
    shown          \* per session, the topics on the screen, first to last

vars == <<threads, nextThreadID, now, toClient, shown>>

Ids == 1..MaxThreads

-----------------------------------------------------------------------------
(* Threads and replies; a title and the text of a body are left out.       *)

\* createNewThread refuses a time to live below 1; NaN < 1 is false.
TtlAcceptedUnseen(ttl) == TRUE   \* a mutant: the test forgotten
TtlAccepted(ttl)       == ttl = NaN \/ ttl >= 1

CreateNewThread(id, owner, ttl) ==
    [id |-> id, username |-> owner, ttl |-> ttl, created |-> now, messages |-> <<>>]

\* generateThreadID: nextThreadID++.
FirstFreeID ==   \* a mutant: numbers of deleted threads used again
    CHOOSE id \in Ids : id \notin DOMAIN threads /\ 1..(id - 1) \subseteq DOMAIN threads
GenerateThreadID == nextThreadID

\* postMessage pushes the post at the end.
PostFirst(thread, post) ==   \* a mutant: unshift
    [thread EXCEPT !.messages = <<post>> \o @]
PostMessage(thread, post) == [thread EXCEPT !.messages = Append(@, post)]

ErrorReply      == [type |-> "error"]
DeleteReply     == [type |-> "delete"]
ThreadReply(t)  == [type |-> "thread", thread |-> t]
ThreadsReply(l) == [type |-> "threads", list |-> l]

\* A thread without its posts: what the list of topics is made from.
Header(t) == [id |-> t.id, username |-> t.username, ttl |-> t.ttl, created |-> t.created]

Reply(c, m) == toClient' = [toClient EXCEPT ![c] = Append(@, m)]

-----------------------------------------------------------------------------
(* The order of the topics.                                                *)

RemainingAtFirst(t) == t.ttl   \* a mutant: the age of the thread forgotten
Remaining(t)        == t.ttl - (now - t.created)

\* The lists that topics.sort() may answer with: by remaining time, threads
\* with the same time in any order.  The comparison with NaN is no order,
\* and then the result is the engine's.
Arrangements ==
    {p \in [1..Cardinality(DOMAIN threads) -> DOMAIN threads] :
        \A i, j \in DOMAIN p : p[i] = p[j] => i = j}
Ordered(p) ==
    \A i, j \in DOMAIN p :
        i < j => Remaining(threads[p[i]]) <= Remaining(threads[p[j]])
Sorted ==
    {p \in Arrangements : (\E id \in DOMAIN threads : threads[id].ttl = NaN) \/ Ordered(p)}

-----------------------------------------------------------------------------
(* What a client shows.                                                    *)

\* JSON writes NaN as null, which counts as 0.
TimeRemaining(t) == (IF t.ttl = NaN THEN 0 ELSE t.ttl) - (now - t.created)

\* formatRemainingTime, reduced to the label's colour.
Hours(ms) == ((ms \div 1000) \div 60) \div 60
Colour(ms) ==
    LET days  == Hours(ms) \div 24
        hours == Hours(ms) % 24
    IN  IF ms <= 0 THEN "expired"
        ELSE IF days > 0 THEN (IF days = 1 THEN "cyan"
                               ELSE IF days < 5 THEN "blue" ELSE "green")
        ELSE IF hours > 0 THEN "cyan" ELSE "red"

Topic(t) == [thread |-> t, colour |-> Colour(TimeRemaining(t))]

-----------------------------------------------------------------------------
Init ==
    /\ threads = <<>>
    /\ nextThreadID = 1
    /\ now = 0
    /\ toClient = [c \in Session |-> <<>>]
    /\ shown = [c \in Session |-> <<>>]

OnThreads(c) ==
    /\ \E p \in Sorted :
          Reply(c, ThreadsReply([i \in DOMAIN p |-> Header(threads[p[i]])]))
    /\ UNCHANGED <<threads, nextThreadID, now, shown>>

OnThread(c, id) ==
    /\ Reply(c, IF id \in DOMAIN threads THEN ThreadReply(threads[id]) ELSE ErrorReply)
    /\ UNCHANGED <<threads, nextThreadID, now, shown>>

\* A missing or zero time to live stops at the first test, one below zero at
\* the second: both are answered by an error.
OnNew(c, ttl) ==
    LET id == GenerateThreadID
        thread == CreateNewThread(id, UserOf[c], ttl)
    IN  /\ nextThreadID <= MaxThreads
        /\ IF TtlAccepted(ttl)
           THEN /\ threads' = [i \in DOMAIN threads \cup {id} |->
                                  IF i = id THEN thread ELSE threads[i]]
                /\ nextThreadID' = nextThreadID + 1
                /\ Reply(c, ThreadReply(thread))
           ELSE /\ Reply(c, ErrorReply)
                /\ UNCHANGED <<threads, nextThreadID>>
        /\ UNCHANGED <<now, shown>>

OnDelete(c, id) ==
    /\ IF id \in DOMAIN threads /\ threads[id].username = UserOf[c]
       THEN /\ threads' = [i \in DOMAIN threads \ {id} |-> threads[i]]
            /\ Reply(c, DeleteReply)
       ELSE Reply(c, ErrorReply) /\ UNCHANGED threads
    /\ UNCHANGED <<nextThreadID, now, shown>>

OnPost(c, id, text) ==
    /\ id \in DOMAIN threads => Len(threads[id].messages) < MaxPosts
    /\ IF id \in DOMAIN threads /\ text # NoText
       THEN LET thread == PostMessage(threads[id], [username |-> UserOf[c], message |-> text])
            IN  /\ threads' = [threads EXCEPT ![id] = thread]
                /\ Reply(c, ThreadReply(thread))
       ELSE Reply(c, ErrorReply) /\ UNCHANGED threads
    /\ UNCHANGED <<nextThreadID, now, shown>>

\* A client reads a reply; setThreads replaces the topics on the screen.
ClientReads(c) ==
    /\ toClient[c] # <<>>
    /\ LET m == Head(toClient[c]) IN
       shown' = IF m.type = "threads"
                THEN [shown EXCEPT ![c] = [i \in DOMAIN m.list |-> Topic(m.list[i])]]
                ELSE shown
    /\ toClient' = [toClient EXCEPT ![c] = Tail(@)]
    /\ UNCHANGED <<threads, nextThreadID, now>>

Tick ==
    /\ now + Step <= MaxNow
    /\ now' = now + Step
    /\ UNCHANGED <<threads, nextThreadID, toClient, shown>>

Command(c) ==
    /\ Len(toClient[c]) < MaxBacklog
    /\ \/ OnThreads(c)
       \/ \E ttl \in Ttl \cup {NaN} : OnNew(c, ttl)
       \/ \E id \in Ids : OnThread(c, id) \/ OnDelete(c, id)
                          \/ \E text \in Text \cup {NoText} : OnPost(c, id, text)

Next == Tick \/ \E c \in Session : Command(c) \/ ClientReads(c)

Spec == Init /\ [][Next]_vars

-----------------------------------------------------------------------------
(* Properties.                                                             *)

Users == {UserOf[c] : c \in Session}
IsHeader(t) ==
    /\ t.id \in Ids /\ t.username \in Users
    /\ t.ttl = NaN \/ (t.ttl \in Ttl /\ t.ttl >= 1)
    /\ t.created \in 0..now
IsThread(t) == IsHeader(t) /\ t.messages \in Seq([username : Users, message : Text])

\* The types of the variables; no time to live below 1 is ever stored.
TypeOK ==
    /\ DOMAIN threads \subseteq Ids
    /\ \A id \in DOMAIN threads : IsThread(threads[id]) /\ threads[id].id = id
    /\ nextThreadID \in 1..(MaxThreads + 1)
    /\ now \in 0..MaxNow
    /\ \A c \in Session : \A i \in DOMAIN toClient[c] :
          toClient[c][i].type \in {"error", "delete", "thread", "threads"}
    /\ \A c \in Session : \A i \in DOMAIN shown[c] : IsHeader(shown[c][i].thread)

\* The client opens a topic by the number in the line that was picked, from a
\* list the server may have left behind long ago.  The thread of that number
\* is the one shown, or there is none: a number never comes to mean another
\* thread, whoever deletes and creates threads meanwhile.
PickedIsShown ==
    \A c \in Session : \A i \in DOMAIN shown[c] :
        LET t == shown[c][i].thread
        IN  t.id \in DOMAIN threads => t = Header(threads[t.id])

\* A discussion only grows: a copy on its way to a client is the beginning of
\* the thread it was taken from, whichever sessions have posted since.
Beginning(s, t) == Len(s) <= Len(t) /\ \A i \in DOMAIN s : s[i] = t[i]
CopiesAreBeginnings ==
    \A c \in Session : \A i \in DOMAIN toClient[c] :
        toClient[c][i].type = "thread" =>
            LET t == toClient[c][i].thread
            IN  t.id \in DOMAIN threads =>
                    Beginning(t.messages, threads[t.id].messages)

\* The server sorts, the client labels, and time passes in between: on the
\* screen no topic stands below one that has more time left by its label.
\* (A time to live that is no number spoils the order.)
Urgency == [expired |-> 0, red |-> 1, cyan |-> 2, blue |-> 3, green |-> 4]
MostUrgentFirst ==
    \A c \in Session :
        (\A i \in DOMAIN shown[c] : shown[c][i].thread.ttl # NaN) =>
            \A i, j \in DOMAIN shown[c] :
                i < j => Urgency[shown[c][i].colour] <= Urgency[shown[c][j].colour]

\* The colours of the comment on formatRemainingTime (boards.js:12-15), word
\* for word, and the times at which the code has another: it cuts the hours
\* off before it counts days.
Hour == 60 * 60 * 1000
Commented(ms) ==
    IF ms < Hour THEN "red"
    ELSE IF ms <= 24 * Hour THEN "cyan"
    ELSE IF ms <= 4 * 24 * Hour THEN "blue" ELSE "green"
CutDay(ms) ==
    \/ 24 * Hour < ms /\ ms < 2 * 24 * Hour
    \/ 4 * 24 * Hour < ms /\ ms < 5 * 24 * Hour

=============================================================================
