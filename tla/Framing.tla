------------------------------ MODULE Framing -------------------------------
(***************************************************************************)
(* One connection between bbs.js and server.js below the level of          *)
(* messages.  A message is JSON and a newline; TCP cuts the stream into    *)
(* chunks anywhere, and each side splits every chunk by itself             *)
(* (buffer.split('\n')), without keeping what is left at its end.  The     *)
(* server kills a client it cannot read, the client logs the exception and *)
(* goes on.                                                                *)
(*                                                                         *)
(* A stream is its messages; a place in it counts three units for each:    *)
(* the JSON in two halves, for a cut inside it, and the newline.  A half   *)
(* is never JSON: a beginning has an open brace, an end one too many.      *)
(* Of what the server does it keeps what the list of users depends on: the *)
(* member behind this connection and the others, by number.                *)
(***************************************************************************)
EXTENDS Integers, Sequences, FiniteSets

CONSTANTS
    MaxOthers,   \* bound: other members at a time
    MaxChanges,  \* bound: others that join or leave
    MaxTyped     \* bound: lines the user types

ASSUME FramingAssumption ==
    MaxOthers \in Nat /\ MaxChanges \in Nat /\ MaxTyped \in Nat

VARIABLES
    up, down,          \* the messages written to the server, to the client
    upAt, upEnd,       \* the server has split up to upAt; its chunk ends at upEnd
    downAt, downEnd,   \* the same of the client
    open,              \* the server has not destroyed the socket
    member,            \* socket.authenticated
    others, changes,   \* other members now; joins and leaves so far
    running,           \* the bbs.js process
    view,              \* members on the client's list, 0 before the first
    typed,             \* lines typed so far
    lostUp, lostDown,  \* history: messages an exception was thrown for
    missed             \* history: since the last change the client lost a
                       \* message its list depends on

upVars     == <<up, upAt, upEnd, lostUp>>
downVars   == <<down, downAt, downEnd, lostDown>>
serverVars == <<open, member, others, changes>>
clientVars == <<running, view, typed>>
vars == <<upVars, downVars, serverVars, clientVars, missed>>

Plain(type) == [type |-> type, count |-> 0]
Users(n)    == [type |-> "users", count |-> n]

UpMsg   == {"key", "users", "typed", "quit"}
DownMsg == {Plain(type) : type \in {"user", "join", "quit", "status"}}
               \cup {Users(n) : n \in 1..(MaxOthers + 1)}

Members == others + (IF member THEN 1 ELSE 0)

-----------------------------------------------------------------------------
(* A line of a chunk: from at to the next newline or the end of the chunk. *)

MessageAt(at) == (at \div 3) + 1
NewlineOf(at) == 3 * MessageAt(at)
LineEndUnsplit(at, end) == end             \* a mutant: a chunk is one message
LineEndBeyond(at, end)  == NewlineOf(at)   \* a mutant: a newline is taken for granted
LineEnd(at, end) == IF NewlineOf(at) < end THEN NewlineOf(at) ELSE end
Blank(at)        == at % 3 = 2             \* lines[i].length == 0
Whole(at, end)   == at % 3 = 0 /\ end >= at + 2
Torn(at, end)    == ~Blank(at) /\ ~Whole(at, end)

-----------------------------------------------------------------------------
\* The client has connected and sent its key.
Init ==
    /\ up = <<"key">> /\ down = <<>>
    /\ upAt = 0 /\ upEnd = 0 /\ downAt = 0 /\ downEnd = 0
    /\ open = TRUE /\ member = FALSE
    /\ others \in 0..MaxOthers /\ changes = 0
    /\ running = TRUE /\ view = 0 /\ typed = 0
    /\ lostUp = {} /\ lostDown = {} /\ missed = FALSE

ServerIdle == upAt = upEnd
ClientIdle == downAt = downEnd

-----------------------------------------------------------------------------
(* The server.                                                             *)

\* socket.on('data'): any part of what was sent.
ServerData ==
    /\ ServerIdle /\ open
    /\ upEnd' \in (upAt + 1)..(3 * Len(up))
    /\ UNCHANGED <<up, upAt, lostUp, downVars, serverVars, clientVars, missed>>

ServerTakes == upAt < upEnd /\ upAt' = LineEnd(upAt, upEnd) /\ UNCHANGED <<up, upEnd>>

ServerBlank ==
    /\ ServerTakes /\ Blank(upAt)
    /\ UNCHANGED <<lostUp, downVars, serverVars, clientVars, missed>>

Tell(ms) == down' = down \o ms /\ UNCHANGED <<downAt, downEnd, lostDown>>

\* kill() and socket.destroy().
KilledNot == UNCHANGED <<open, member>>   \* a mutant: the exception is only logged
Killed    == open' = FALSE /\ member' = FALSE

\* handleMessage.
ServerHandles ==
    /\ ServerTakes /\ Whole(upAt, upEnd)
    /\ LET m == up[MessageAt(upAt)] IN
       \/ /\ ~member /\ m = "key"
          /\ member' = TRUE
          /\ Tell(<<Plain("user"), Plain("join"), Plain("status")>>)
          /\ UNCHANGED open
       \/ /\ member /\ m = "users"
          /\ Tell(<<Users(Members)>>)
          /\ UNCHANGED <<open, member>>
       \/ member /\ m = "typed" /\ UNCHANGED <<open, member, downVars>>
       \/ (m = "quit" \/ (~member /\ m # "key")) /\ Killed /\ UNCHANGED downVars
    /\ UNCHANGED <<others, changes, lostUp, clientVars, missed>>

\* JSON.parse throws: kill(socket, 'Killed: indecent hacking').
ServerThrows ==
    /\ ServerTakes /\ Torn(upAt, upEnd)
    /\ lostUp' = lostUp \cup {MessageAt(upAt)}
    /\ Killed
    /\ UNCHANGED <<downVars, others, changes, clientVars, missed>>

\* The end of the stream, or an error, reported between chunks.
ServerEnd ==
    /\ ServerIdle /\ open /\ ~running
    /\ Killed
    /\ UNCHANGED <<upVars, downVars, others, changes, clientVars, missed>>

\* Another connection logs on or is killed: broadcast.
AnnouncedSometimes(type) ==   \* a mutant: quits are not announced
    IF member /\ type = "join" THEN Tell(<<Plain(type)>>) ELSE UNCHANGED downVars
Announced(type) ==
    IF member THEN Tell(<<Plain(type)>>) ELSE UNCHANGED downVars
OthersChange ==
    /\ ServerIdle /\ changes < MaxChanges
    /\ changes' = changes + 1
    /\ \/ others < MaxOthers /\ others' = others + 1 /\ Announced("join")
       \/ others > 0 /\ others' = others - 1 /\ Announced("quit")
    /\ missed' = FALSE
    /\ UNCHANGED <<upVars, open, member, clientVars>>

-----------------------------------------------------------------------------
(* The client.                                                             *)

ClientData ==
    /\ ClientIdle /\ running
    /\ downEnd' \in (downAt + 1)..(3 * Len(down))
    /\ UNCHANGED <<upVars, down, downAt, lostDown, serverVars, clientVars, missed>>

ClientTakes ==
    /\ running
    /\ downAt < downEnd /\ downAt' = LineEnd(downAt, downEnd) /\ UNCHANGED <<down, downEnd>>

ClientBlank ==
    /\ ClientTakes /\ Blank(downAt)
    /\ UNCHANGED <<upVars, lostDown, serverVars, clientVars, missed>>

Say(m) == up' = Append(up, m) /\ UNCHANGED <<upAt, upEnd, lostUp>>

ClientHandles ==
    /\ ClientTakes /\ Whole(downAt, downEnd)
    /\ LET m == down[MessageAt(downAt)] IN
       /\ IF m.type \in {"join", "quit"} THEN Say("users") ELSE UNCHANGED upVars
       /\ view' = IF m.type = "users" THEN m.count ELSE view
    /\ UNCHANGED <<lostDown, serverVars, running, typed, missed>>

\* JSON.parse throws: logger.error, and the loop goes on.
ClientThrows ==
    /\ ClientTakes /\ Torn(downAt, downEnd)
    /\ lostDown' = lostDown \cup {MessageAt(downAt)}
    /\ missed' = (missed \/ down[MessageAt(downAt)].type \in {"join", "quit", "users"})
    /\ UNCHANGED <<upVars, serverVars, clientVars>>

ClientTypes(m) ==
    /\ running /\ ClientIdle /\ typed < MaxTyped
    /\ typed' = typed + 1
    /\ Say(m)
    /\ UNCHANGED <<downVars, serverVars, running, view, missed>>

\* 'close', the flushed 'quit', or a signal: the process exits.
ClientExits ==
    /\ running
    /\ running' = FALSE
    /\ UNCHANGED <<upVars, downVars, serverVars, view, typed, missed>>

-----------------------------------------------------------------------------
Server == ServerData \/ ServerBlank \/ ServerHandles \/ ServerThrows
Client == ClientData \/ ClientBlank \/ ClientHandles \/ ClientThrows

Next ==
    \/ Server \/ ServerEnd \/ OthersChange
    \/ Client \/ ClientExits
    \/ \E m \in {"users", "typed", "quit"} : ClientTypes(m)

Spec == Init /\ [][Next]_vars

\* Both loops run and are given what was sent; nobody has to type or join.
FairSpec == Spec /\ WF_vars(Server) /\ WF_vars(Client)

-----------------------------------------------------------------------------
(* Properties.                                                             *)

\* The types of the variables.
TypeOK ==
    /\ up \in Seq(UpMsg) /\ down \in Seq(DownMsg)
    /\ upAt \in 0..upEnd /\ upEnd \in 0..(3 * Len(up))
    /\ downAt \in 0..downEnd /\ downEnd \in 0..(3 * Len(down))
    /\ open \in BOOLEAN /\ member \in BOOLEAN
    /\ others \in 0..MaxOthers /\ changes \in 0..MaxChanges
    /\ running \in BOOLEAN /\ view \in 0..(MaxOthers + 1) /\ typed \in 0..MaxTyped
    /\ lostUp \subseteq 1..Len(up) /\ lostDown \subseteq 1..Len(down)
    /\ missed \in BOOLEAN

\* Each direction is a Stream, wherever TCP cuts.  The server's ends with its
\* first torn message: what it has handled is a beginning of what was sent,
\* and nothing is handled after a loss, the rest of a torn line included.  The
\* client goes on with its own: torn messages are missing, the others are
\* handled once and in order.
Met(at) == (at + 2) \div 3
Upwards == INSTANCE Stream WITH Tolerant <- FALSE, sent <- up, reached <- Met(upAt),
                                lost <- lostUp, open <- open
Downwards == INSTANCE Stream WITH Tolerant <- TRUE, sent <- down, reached <- Met(downAt),
                                  lost <- lostDown, open <- running
AreStreams == Upwards!Spec /\ Downwards!Spec

\* The client's list is right or will be refreshed, unless a message it
\* depends on was torn since the last join or quit: the damage of a torn
\* message lasts until somebody joins or leaves, and no longer.
Unmet(s, at) == (Met(at) + 1)..Len(s)
Requested == \E i \in Unmet(up, upAt) : up[i] = "users"
Announcing == \E i \in Unmet(down, downAt) : down[i].type \in {"join", "quit"}
Answers == {i \in Unmet(down, downAt) : down[i].type = "users"}
Replied ==
    \E i \in Answers : down[i].count = Members /\ \A j \in Answers : j <= i
Right == view = Members /\ Answers = {}
StaleOnlyByTear ==
    open /\ member /\ running => missed \/ Requested \/ Announcing \/ Replied \/ Right

\* Once people stop joining, leaving and typing the list is the server's and
\* stays so, if nothing it depends on was torn: nothing waits in a buffer for
\* the next message to come.
SettlesUnlessTorn ==
    <>[](open /\ member /\ running => missed \/ view = Members)

=============================================================================
