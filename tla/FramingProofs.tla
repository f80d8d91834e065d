---------------------------- MODULE FramingProofs ---------------------------
(***************************************************************************)
(* Proofs about Framing, for any number of members, changes and lines      *)
(* typed: the types, that both directions are Streams wherever TCP cuts    *)
(* them, and that only a torn message leaves the client's list stale.      *)
(***************************************************************************)
EXTENDS Framing, SequenceTheorems, TLAPS

-----------------------------------------------------------------------------
(* Lines of a chunk: where the next one ends and which message it is.      *)

LEMMA LineEndBounds ==
    ASSUME NEW at \in Nat, NEW end \in Nat, at < end
    PROVE  LineEnd(at, end) \in (at + 1)..end
BY DEF LineEnd, NewlineOf, MessageAt

LEMMA MetBounds ==
    ASSUME NEW n \in Nat, NEW at \in 0..(3 * n)
    PROVE  Met(at) \in 0..n /\ (at < 3 * n => MessageAt(at) \in 1..n)
BY DEF Met, MessageAt

LEMMA BlankMet ==
    ASSUME NEW at \in Nat, NEW end \in Nat, at < end, Blank(at)
    PROVE  Met(LineEnd(at, end)) = Met(at) /\ LineEnd(at, end) % 3 # 1
BY DEF Blank, Met, LineEnd, NewlineOf, MessageAt

\* A whole line is the next message.
LEMMA WholeMet ==
    ASSUME NEW at \in Nat, NEW end \in Nat, Whole(at, end)
    PROVE  /\ at < end
           /\ MessageAt(at) = Met(at) + 1
           /\ Met(LineEnd(at, end)) = Met(at) + 1
           /\ LineEnd(at, end) % 3 # 1
BY DEF Whole, Met, LineEnd, NewlineOf, MessageAt

\* A torn line is its beginning, and then the chunk ends, or the rest of it.
LEMMA TornMet ==
    ASSUME NEW at \in Nat, NEW end \in Nat, at < end, Torn(at, end)
    PROVE  /\ Met(LineEnd(at, end)) = MessageAt(at)
           /\ at % 3 = 1 => MessageAt(at) = Met(at)
           /\ at % 3 # 1 => MessageAt(at) = Met(at) + 1 /\ LineEnd(at, end) = end
           /\ LineEnd(at, end) % 3 = 1 => at % 3 # 1
BY DEF Torn, Blank, Whole, Met, LineEnd, NewlineOf, MessageAt

\* What is written is appended.
LEMMA Appended ==
    ASSUME NEW S, NEW s \in Seq(S), NEW t \in Seq(S)
    PROVE  /\ s \o t \in Seq(S)
           /\ Len(s \o t) = Len(s) + Len(t)
           /\ \A i \in 1..Len(s) : (s \o t)[i] = s[i]
           /\ \A i \in 1..Len(t) : (s \o t)[Len(s) + i] = t[i]
           /\ SubSeq(s \o t, 1, Len(s)) = s
<1>1. /\ s \o t \in Seq(S) /\ Len(s \o t) = Len(s) + Len(t)
      /\ Len(s) \in Nat /\ Len(t) \in Nat
    BY ConcatProperties, LenProperties
<1>2. \A i \in 1..Len(s) + Len(t) :
          (s \o t)[i] = IF i <= Len(s) THEN s[i] ELSE t[i - Len(s)]
    BY ConcatProperties
<1>3. (\A i \in 1..Len(s) : (s \o t)[i] = s[i])
          /\ \A i \in 1..Len(t) : (s \o t)[Len(s) + i] = t[i]
    BY <1>1, <1>2
<1>4. SubSeq(s \o t, 1, Len(s)) = s
    <2> DEFINE u == SubSeq(s \o t, 1, Len(s))
    <2>1. \A i \in 1..Len(s) : (s \o t)[i] \in S
        BY <1>3, ElementOfSeq
    <2>2. u \in Seq(S) /\ Len(u) = Len(s) /\ \A i \in 1..Len(s) : u[i] = (s \o t)[i]
        BY <2>1, <1>1, SubSeqProperties
    <2>3. \A i \in 1..Len(s) : s[i] = u[i]
        BY <2>2, <1>3
    <2> QED
        BY <2>2, <2>3, SeqEqual
<1> QED
    BY <1>1, <1>3, <1>4

LEMMA OneMoreChunk ==
    ASSUME NEW S, NEW s \in Seq(S), NEW e \in S
    PROVE  Append(s, e) = s \o <<e>> /\ <<e>> \in Seq(S) /\ Len(<<e>>) = 1 /\ <<e>>[1] = e
OBVIOUS

-----------------------------------------------------------------------------
(* Types, and what the places in the streams say of the losses.            *)

UpTypes ==
    /\ up \in Seq(UpMsg)
    /\ upAt \in 0..upEnd /\ upEnd \in 0..(3 * Len(up))
    /\ lostUp \subseteq 1..Len(up)
DownTypes ==
    /\ down \in Seq(DownMsg)
    /\ downAt \in 0..downEnd /\ downEnd \in 0..(3 * Len(down))
    /\ lostDown \subseteq 1..Len(down)
ServerTypes ==
    open \in BOOLEAN /\ member \in BOOLEAN /\ others \in 0..MaxOthers /\ changes \in 0..MaxChanges
ClientTypesOK ==
    /\ running \in BOOLEAN /\ missed \in BOOLEAN
    /\ view \in 0..(MaxOthers + 1) /\ typed \in 0..MaxTyped

\* The server stops inside a message only when it gives the client up.
UpFits ==
    /\ upAt % 3 = 1 => lostUp # {}
    /\ lostUp # {} => upAt = upEnd /\ ~open

\* The client stops inside a message only when it has lost it.
DownFits == downAt % 3 = 1 => Met(downAt) \in lostDown

IInv == UpTypes /\ DownTypes /\ ServerTypes /\ ClientTypesOK /\ UpFits /\ DownFits

USE DEF upVars, downVars, serverVars, clientVars, vars

LEMMA TypesAgree == IInv => TypeOK
BY DEF IInv, UpTypes, DownTypes, ServerTypes, ClientTypesOK, TypeOK

LEMMA InitIInv == Init => IInv
<1> SUFFICES ASSUME Init PROVE IInv
    OBVIOUS
<1>1. up \in Seq(UpMsg) /\ Len(up) = 1
    BY DEF Init, UpMsg
<1>2. down \in Seq(DownMsg) /\ Len(down) = 0
    BY DEF Init
<1>3. UpTypes /\ UpFits
    BY <1>1 DEF Init, UpTypes, UpFits
<1>4. DownTypes /\ DownFits
    BY <1>2 DEF Init, DownTypes, DownFits
<1>5. others \in 0..MaxOthers /\ changes = 0 /\ view = 0 /\ typed = 0
    BY DEF Init
<1>6. changes \in 0..MaxChanges /\ view \in 0..(MaxOthers + 1) /\ typed \in 0..MaxTyped
    BY <1>5, FramingAssumption
<1>7. ServerTypes /\ ClientTypesOK
    BY <1>5, <1>6 DEF Init, ServerTypes, ClientTypesOK
<1> QED
    BY <1>3, <1>4, <1>7 DEF IInv

\* Places in the streams are numbers.
LEMMA Places ==
    ASSUME IInv
    PROVE  /\ Len(up) \in Nat /\ upAt \in Nat /\ upEnd \in Nat
           /\ Len(down) \in Nat /\ downAt \in Nat /\ downEnd \in Nat
BY LenProperties DEF IInv, UpTypes, DownTypes

\* A step of the client's loop: the server's side keeps what it says.
LEMMA SayKeeps ==
    ASSUME IInv, NEW m \in UpMsg, Say(m), UNCHANGED open
    PROVE  /\ UpTypes' /\ UpFits'
           /\ up' = up \o <<m>> /\ <<m>> \in Seq(UpMsg) /\ Len(<<m>>) = 1
<1>1. up' = up \o <<m>> /\ <<m>> \in Seq(UpMsg) /\ Len(<<m>>) = 1
    BY OneMoreChunk DEF Say, IInv, UpTypes
<1>2. up' \in Seq(UpMsg) /\ Len(up') = Len(up) + 1
    BY <1>1, Appended DEF IInv, UpTypes
<1>3. UpTypes'
    BY <1>2, Places DEF Say, IInv, UpTypes
<1>4. UpFits'
    BY DEF Say, IInv, UpFits
<1> QED
    BY <1>1, <1>3, <1>4

LEMMA TellKeeps ==
    ASSUME IInv, NEW ms \in Seq(DownMsg), Tell(ms)
    PROVE  DownTypes' /\ DownFits'
<1>1. down' \in Seq(DownMsg) /\ Len(down') = Len(down) + Len(ms) /\ Len(ms) \in Nat
    BY Appended, LenProperties DEF Tell, IInv, DownTypes
<1>2. DownTypes'
    BY <1>1, Places DEF Tell, IInv, DownTypes
<1>3. DownFits'
    BY DEF Tell, IInv, DownFits, Met
<1> QED
    BY <1>2, <1>3

LEMMA UpSame ==
    ASSUME IInv, UNCHANGED upVars, open' \in {open, FALSE}
    PROVE  UpTypes' /\ UpFits'
<1>1. UpTypes'
    BY DEF IInv, UpTypes
<1>2. open' => open
    BY DEF IInv, ServerTypes
<1>3. UpFits'
    BY <1>2 DEF IInv, UpFits
<1> QED
    BY <1>1, <1>3

LEMMA DownSame ==
    ASSUME IInv, UNCHANGED downVars
    PROVE  DownTypes' /\ DownFits'
BY DEF IInv, DownTypes, DownFits, Met

\* The messages the server sends.
LEMMA ToldTypes ==
    ASSUME IInv
    PROVE  /\ <<Plain("user"), Plain("join"), Plain("status")>> \in Seq(DownMsg)
           /\ member => <<Users(Members)>> \in Seq(DownMsg)
           /\ \A type \in {"join", "quit"} : <<Plain(type)>> \in Seq(DownMsg)
<1>1. \A type \in {"user", "join", "quit", "status"} : Plain(type) \in DownMsg
    BY DEF DownMsg
<1>2. member => Members \in 1..(MaxOthers + 1)
    BY FramingAssumption DEF Members, IInv, ServerTypes
<1>3. member => Users(Members) \in DownMsg
    BY <1>2 DEF DownMsg
<1> QED
    BY <1>1, <1>3

-----------------------------------------------------------------------------
(* One line is read.                                                       *)

LEMMA UpBlank ==
    ASSUME IInv, ServerBlank
    PROVE  Met(upAt') = Met(upAt) /\ UpTypes' /\ UpFits'
<1>1. upAt < upEnd /\ upAt' = LineEnd(upAt, upEnd) /\ UNCHANGED <<up, upEnd, lostUp, open>>
    BY DEF ServerBlank, ServerTakes
<1>2. Met(upAt') = Met(upAt) /\ upAt' % 3 # 1 /\ upAt' \in (upAt + 1)..upEnd
    BY <1>1, Places, BlankMet, LineEndBounds DEF ServerBlank
<1>3. UpTypes'
    BY <1>1, <1>2, Places DEF IInv, UpTypes
<1>4. UpFits'
    BY <1>1, <1>2, Places DEF IInv, UpFits
<1> QED
    BY <1>2, <1>3, <1>4

LEMMA UpWhole ==
    ASSUME IInv, ServerTakes, Whole(upAt, upEnd), UNCHANGED lostUp
    PROVE  /\ lostUp = {} /\ MessageAt(upAt) = Met(upAt) + 1
           /\ Met(upAt') = Met(upAt) + 1 /\ Met(upAt) \in 0..(Len(up) - 1)
           /\ UpTypes' /\ UpFits'
<1>1. upAt < upEnd /\ upAt' = LineEnd(upAt, upEnd) /\ UNCHANGED <<up, upEnd, lostUp>>
    BY DEF ServerTakes
<1>2. /\ Met(upAt') = Met(upAt) + 1 /\ MessageAt(upAt) = Met(upAt) + 1
      /\ upAt' % 3 # 1 /\ upAt' \in (upAt + 1)..upEnd
    BY <1>1, Places, WholeMet, LineEndBounds
<1>3. lostUp = {}
    BY <1>1, Places DEF IInv, UpFits
<1>4. UpTypes'
    BY <1>1, <1>2, Places DEF IInv, UpTypes
<1>5. UpFits'
    BY <1>1, <1>2, <1>3 DEF UpFits
<1>6. upAt \in 0..(3 * Len(up)) /\ upAt < 3 * Len(up)
    BY <1>1, Places DEF IInv, UpTypes
<1>7. Met(upAt) \in 0..(Len(up) - 1)
    BY <1>2, <1>6, Places, MetBounds
<1> QED
    BY <1>2, <1>3, <1>4, <1>5, <1>7

LEMMA UpTorn ==
    ASSUME IInv, ServerThrows
    PROVE  /\ lostUp = {} /\ lostUp' = lostUp \cup {Met(upAt) + 1}
           /\ Met(upAt') = Met(upAt) + 1 /\ Met(upAt) \in 0..(Len(up) - 1)
           /\ UpTypes' /\ UpFits'
<1>1. /\ upAt < upEnd /\ upAt' = LineEnd(upAt, upEnd) /\ UNCHANGED <<up, upEnd>>
      /\ lostUp' = lostUp \cup {MessageAt(upAt)} /\ open' = FALSE
    BY DEF ServerThrows, ServerTakes, Killed
<1>2. lostUp = {} /\ upAt % 3 # 1
    BY <1>1, Places DEF IInv, UpFits
<1>3. /\ Met(upAt') = Met(upAt) + 1 /\ MessageAt(upAt) = Met(upAt) + 1
      /\ upAt' = upEnd
    BY <1>1, <1>2, Places, TornMet DEF ServerThrows
<1>4. upAt \in 0..(3 * Len(up)) /\ upAt < 3 * Len(up)
    BY <1>1, Places DEF IInv, UpTypes
<1>5. MessageAt(upAt) \in 1..Len(up) /\ Met(upAt) \in 0..(Len(up) - 1)
    BY <1>3, <1>4, Places, MetBounds
<1>6. UpTypes'
    <2>1. lostUp' \subseteq 1..Len(up)
        BY <1>1, <1>5 DEF IInv, UpTypes
    <2> QED
        BY <1>1, <1>3, <2>1, Places DEF IInv, UpTypes
<1>7. UpFits'
    BY <1>1, <1>3 DEF UpFits
<1> QED
    BY <1>1, <1>2, <1>3, <1>5, <1>6, <1>7

LEMMA DownBlank ==
    ASSUME IInv, ClientBlank
    PROVE  Met(downAt') = Met(downAt) /\ DownTypes' /\ DownFits'
<1>1. /\ downAt < downEnd /\ downAt' = LineEnd(downAt, downEnd)
      /\ UNCHANGED <<down, downEnd, lostDown>>
    BY DEF ClientBlank, ClientTakes
<1>2. Met(downAt') = Met(downAt) /\ downAt' % 3 # 1 /\ downAt' \in (downAt + 1)..downEnd
    BY <1>1, Places, BlankMet, LineEndBounds DEF ClientBlank
<1>3. DownTypes'
    BY <1>1, <1>2, Places DEF IInv, DownTypes
<1>4. DownFits'
    BY <1>2 DEF DownFits
<1> QED
    BY <1>2, <1>3, <1>4

LEMMA DownWhole ==
    ASSUME IInv, ClientTakes, Whole(downAt, downEnd), UNCHANGED lostDown
    PROVE  /\ MessageAt(downAt) = Met(downAt) + 1
           /\ Met(downAt') = Met(downAt) + 1 /\ Met(downAt) \in 0..(Len(down) - 1)
           /\ DownTypes' /\ DownFits'
<1>1. /\ downAt < downEnd /\ downAt' = LineEnd(downAt, downEnd)
      /\ UNCHANGED <<down, downEnd, lostDown>>
    BY DEF ClientTakes
<1>2. /\ Met(downAt') = Met(downAt) + 1 /\ MessageAt(downAt) = Met(downAt) + 1
      /\ downAt' % 3 # 1 /\ downAt' \in (downAt + 1)..downEnd
    BY <1>1, Places, WholeMet, LineEndBounds
<1>3. DownTypes'
    BY <1>1, <1>2, Places DEF IInv, DownTypes
<1>4. DownFits'
    BY <1>2 DEF DownFits
<1>5. downAt \in 0..(3 * Len(down)) /\ downAt < 3 * Len(down)
    BY <1>1, Places DEF IInv, DownTypes
<1>6. Met(downAt) \in 0..(Len(down) - 1)
    BY <1>2, <1>5, Places, MetBounds
<1> QED
    BY <1>2, <1>3, <1>4, <1>6

\* The second piece of a torn message belongs to the message lost already.
LEMMA DownTorn ==
    ASSUME IInv, ClientThrows
    PROVE  /\ \/ /\ MessageAt(downAt) = Met(downAt) + 1 /\ Met(downAt') = Met(downAt) + 1
                 /\ lostDown' = lostDown \cup {Met(downAt) + 1}
                 /\ Met(downAt) \in 0..(Len(down) - 1)
              \/ Met(downAt') = Met(downAt) /\ lostDown' = lostDown
           /\ DownTypes' /\ DownFits'
<1>1. /\ downAt < downEnd /\ downAt' = LineEnd(downAt, downEnd) /\ UNCHANGED <<down, downEnd>>
      /\ lostDown' = lostDown \cup {MessageAt(downAt)} /\ Torn(downAt, downEnd)
    BY DEF ClientThrows, ClientTakes
<1>2. /\ Met(downAt') = MessageAt(downAt) /\ downAt' \in (downAt + 1)..downEnd
      /\ downAt % 3 = 1 => MessageAt(downAt) = Met(downAt)
      /\ downAt % 3 # 1 => MessageAt(downAt) = Met(downAt) + 1
    BY <1>1, Places, TornMet, LineEndBounds
<1>3. downAt \in 0..(3 * Len(down)) /\ downAt < 3 * Len(down)
    BY <1>1, Places DEF IInv, DownTypes
<1>4. MessageAt(downAt) \in 1..Len(down) /\ Met(downAt) \in 0..Len(down)
    BY <1>3, Places, MetBounds
<1>5. DownTypes'
    <2>1. lostDown' \subseteq 1..Len(down)
        BY <1>1, <1>4 DEF IInv, DownTypes
    <2> QED
        BY <1>1, <1>2, <2>1, Places DEF IInv, DownTypes
<1>6. DownFits'
    BY <1>1, <1>2 DEF DownFits
<1>7. CASE downAt % 3 = 1
    <2>1. Met(downAt) \in lostDown
        BY <1>7 DEF IInv, DownFits
    <2>2. MessageAt(downAt) \in lostDown
        BY <1>2, <1>7, <2>1
    <2>3. lostDown \cup {MessageAt(downAt)} = lostDown
        BY <2>2
    <2>4. Met(downAt') = Met(downAt) /\ lostDown' = lostDown
        BY <1>1, <1>2, <1>7, <2>3
    <2> QED
        BY <1>5, <1>6, <2>4
<1>8. CASE downAt % 3 # 1
    BY <1>1, <1>2, <1>4, <1>5, <1>6, <1>8, Places
<1> QED
    BY <1>7, <1>8

-----------------------------------------------------------------------------
(* The invariant, one action after the other.                              *)

LEMMA ServerKeeps == ASSUME IInv, Server PROVE IInv'
<1> USE DEF IInv
<1>1. CASE ServerData
    <2>1. upEnd' \in (upAt + 1)..(3 * Len(up)) /\ upAt = upEnd /\ open
          /\ UNCHANGED <<up, upAt, lostUp, downVars, serverVars, clientVars, missed>>
        BY <1>1 DEF ServerData, ServerIdle
    <2>2. UpTypes' /\ DownTypes' /\ DownFits'
        BY <2>1, Places, DownSame DEF UpTypes
    <2>3. UpFits'
        BY <2>1 DEF UpFits
    <2>4. ServerTypes' /\ ClientTypesOK'
        BY <2>1 DEF ServerTypes, ClientTypesOK
    <2> QED
        BY <2>2, <2>3, <2>4
<1>2. CASE ServerBlank
    <2>1. UpTypes' /\ UpFits' /\ DownTypes' /\ DownFits'
        BY <1>2, UpBlank, DownSame DEF ServerBlank
    <2>2. ServerTypes' /\ ClientTypesOK'
        BY <1>2 DEF ServerBlank, ServerTypes, ClientTypesOK
    <2> QED
        BY <2>1, <2>2
<1>3. CASE ServerHandles
    <2>1. ServerTakes /\ Whole(upAt, upEnd)
          /\ UNCHANGED <<others, changes, lostUp, clientVars, missed>>
        BY <1>3 DEF ServerHandles
    <2>2. UpTypes' /\ UpFits'
        BY <2>1, UpWhole
    <2>3. UNCHANGED downVars \/ \E ms \in Seq(DownMsg) : Tell(ms)
        BY <1>3, ToldTypes DEF ServerHandles
    <2>4. DownTypes' /\ DownFits'
        BY <2>3, TellKeeps, DownSame
    <2>5. open' \in BOOLEAN /\ member' \in BOOLEAN
        BY <1>3 DEF ServerHandles, Killed, ServerTypes
    <2>6. ServerTypes' /\ ClientTypesOK'
        BY <2>1, <2>5 DEF ServerTypes, ClientTypesOK
    <2> QED
        BY <2>2, <2>4, <2>6
<1>4. CASE ServerThrows
    <2>1. UpTypes' /\ UpFits' /\ DownTypes' /\ DownFits'
        BY <1>4, UpTorn, DownSame DEF ServerThrows
    <2>2. ServerTypes' /\ ClientTypesOK'
        BY <1>4 DEF ServerThrows, Killed, ServerTypes, ClientTypesOK
    <2> QED
        BY <2>1, <2>2
<1> QED
    BY <1>1, <1>2, <1>3, <1>4 DEF Server

LEMMA ClientKeeps == ASSUME IInv, Client PROVE IInv'
<1> USE DEF IInv
<1>1. CASE ClientData
    <2>1. downEnd' \in (downAt + 1)..(3 * Len(down))
          /\ UNCHANGED <<upVars, down, downAt, lostDown, serverVars, clientVars, missed>>
        BY <1>1 DEF ClientData
    <2>2. UpTypes' /\ UpFits' /\ DownTypes'
        BY <2>1, Places, UpSame DEF DownTypes
    <2>3. DownFits'
        BY <2>1 DEF DownFits, Met
    <2>4. ServerTypes' /\ ClientTypesOK'
        BY <2>1 DEF ServerTypes, ClientTypesOK
    <2> QED
        BY <2>2, <2>3, <2>4
<1>2. CASE ClientBlank
    <2>1. UpTypes' /\ UpFits' /\ DownTypes' /\ DownFits'
        BY <1>2, DownBlank, UpSame DEF ClientBlank
    <2>2. ServerTypes' /\ ClientTypesOK'
        BY <1>2 DEF ClientBlank, ServerTypes, ClientTypesOK
    <2> QED
        BY <2>1, <2>2
<1>3. CASE ClientHandles
    <2>1. ClientTakes /\ Whole(downAt, downEnd)
          /\ UNCHANGED <<lostDown, serverVars, running, typed, missed>>
        BY <1>3 DEF ClientHandles
    <2>2. DownTypes' /\ DownFits' /\ MessageAt(downAt) \in 1..Len(down)
        BY <2>1, DownWhole, Places
    <2>3. UNCHANGED upVars \/ Say("users")
        BY <1>3 DEF ClientHandles
    <2>4. UpTypes' /\ UpFits'
        BY <2>1, <2>3, SayKeeps, UpSame DEF UpMsg
    <2>5. down[MessageAt(downAt)] \in DownMsg
        BY <2>2, ElementOfSeq DEF DownTypes
    <2>6. view' \in 0..(MaxOthers + 1)
        <3>1. \A m \in DownMsg : m.count \in 0..(MaxOthers + 1)
            BY FramingAssumption DEF DownMsg, Plain, Users
        <3> QED
            BY <1>3, <2>5, <3>1 DEF ClientHandles, ClientTypesOK
    <2>7. ServerTypes' /\ ClientTypesOK'
        BY <2>1, <2>6 DEF ServerTypes, ClientTypesOK
    <2> QED
        BY <2>2, <2>4, <2>7
<1>4. CASE ClientThrows
    <2>1. UpTypes' /\ UpFits' /\ DownTypes' /\ DownFits'
        BY <1>4, DownTorn, UpSame DEF ClientThrows
    <2>2. missed' \in BOOLEAN
        BY <1>4 DEF ClientThrows
    <2>3. ServerTypes' /\ ClientTypesOK'
        BY <1>4, <2>2 DEF ClientThrows, ServerTypes, ClientTypesOK
    <2> QED
        BY <2>1, <2>3
<1> QED
    BY <1>1, <1>2, <1>3, <1>4 DEF Client

LEMMA NextIInv == IInv /\ [Next]_vars => IInv'
<1> SUFFICES ASSUME IInv, [Next]_vars PROVE IInv'
    OBVIOUS
<1> USE DEF IInv
<1>1. CASE ServerEnd
    <2>1. open' = FALSE /\ member' = FALSE
          /\ UNCHANGED <<upVars, downVars, others, changes, clientVars, missed>>
        BY <1>1 DEF ServerEnd, Killed
    <2>2. UpTypes' /\ UpFits' /\ DownTypes' /\ DownFits'
        BY <2>1, UpSame, DownSame
    <2>3. ServerTypes' /\ ClientTypesOK'
        BY <2>1 DEF ServerTypes, ClientTypesOK
    <2> QED
        BY <2>2, <2>3
<1>2. CASE OthersChange
    <2>1. UNCHANGED <<upVars, open, member, clientVars>> /\ missed' = FALSE
          /\ changes < MaxChanges /\ changes' = changes + 1
        BY <1>2 DEF OthersChange
    <2>2. UNCHANGED downVars \/ \E ms \in Seq(DownMsg) : Tell(ms)
        BY <1>2, ToldTypes DEF OthersChange, Announced
    <2>3. UpTypes' /\ UpFits' /\ DownTypes' /\ DownFits'
        BY <2>1, <2>2, UpSame, DownSame, TellKeeps
    <2>4. others' \in 0..MaxOthers
        BY <1>2, FramingAssumption DEF OthersChange, ServerTypes
    <2>5. changes' \in 0..MaxChanges
        BY <2>1, FramingAssumption DEF ServerTypes
    <2>6. ServerTypes' /\ ClientTypesOK'
        BY <2>1, <2>4, <2>5 DEF ServerTypes, ClientTypesOK
    <2> QED
        BY <2>3, <2>6
<1>3. CASE ClientExits
    <2>1. UpTypes' /\ UpFits' /\ DownTypes' /\ DownFits'
        BY <1>3, UpSame, DownSame DEF ClientExits
    <2>2. ServerTypes' /\ ClientTypesOK'
        BY <1>3 DEF ClientExits, ServerTypes, ClientTypesOK
    <2> QED
        BY <2>1, <2>2
<1>4. ASSUME NEW m \in {"users", "typed", "quit"}, ClientTypes(m) PROVE IInv'
    <2>1. UpTypes' /\ UpFits' /\ DownTypes' /\ DownFits'
        BY <1>4, SayKeeps, DownSame DEF ClientTypes, UpMsg
    <2>2. typed' \in 0..MaxTyped
        BY <1>4, FramingAssumption DEF ClientTypes, ClientTypesOK
    <2>3. ServerTypes' /\ ClientTypesOK'
        BY <1>4, <2>2 DEF ClientTypes, ServerTypes, ClientTypesOK
    <2> QED
        BY <2>1, <2>3
<1>5. CASE UNCHANGED vars
    <2>1. UpTypes' /\ UpFits' /\ DownTypes' /\ DownFits'
        BY <1>5, UpSame, DownSame
    <2>2. ServerTypes' /\ ClientTypesOK'
        BY <1>5 DEF ServerTypes, ClientTypesOK
    <2> QED
        BY <2>1, <2>2
<1> QED
    BY <1>1, <1>2, <1>3, <1>4, <1>5, ServerKeeps, ClientKeeps DEF Next

\* What the places and the losses say of each other, always.
THEOREM Invariance == Spec => []IInv
BY InitIInv, NextIInv, PTL DEF Spec

\* Every variable keeps its type: no chunk is read past its end, no message
\* is met that was not written.
THEOREM TypeCorrect == Spec => []TypeOK
BY TypesAgree, Invariance, PTL

-----------------------------------------------------------------------------
(* Both directions are Streams.                                            *)

USE DEF Upwards!vars, Downwards!vars

\* What is written to the server is a Write of its Stream.
LEMMA SayIsWrite ==
    ASSUME IInv, NEW m \in UpMsg, Say(m), UNCHANGED open
    PROVE  Upwards!Write
<1>1. up' = up \o <<m>> /\ <<m>> \in Seq(UpMsg) /\ Len(<<m>>) = 1
    BY SayKeeps
<1>2. Len(up') = Len(up) + 1 /\ up = SubSeq(up', 1, Len(up))
    BY <1>1, Appended DEF IInv, UpTypes
<1> QED
    BY <1>2, Places DEF Upwards!Write, Say, Met

LEMMA TellIsWrite ==
    ASSUME IInv, NEW ms \in Seq(DownMsg), ms # <<>>, Tell(ms), UNCHANGED running
    PROVE  Downwards!Write
<1>1. Len(ms) > 0
    BY EmptySeq
<1>2. Len(down') = Len(down) + Len(ms) /\ down = SubSeq(down', 1, Len(down))
    BY Appended DEF Tell, IInv, DownTypes
<1> QED
    BY <1>1, <1>2, Places, LenProperties DEF Downwards!Write, Tell, Met

LEMMA UpStep == IInv /\ [Next]_vars => [Upwards!Next]_(Upwards!vars)
<1> SUFFICES ASSUME IInv, [Next]_vars PROVE [Upwards!Next]_(Upwards!vars)
    OBVIOUS
<1>1. CASE ServerData \/ OthersChange \/ UNCHANGED vars
    BY <1>1 DEF ServerData, OthersChange, Met
<1>2. CASE ServerBlank
    BY <1>2, UpBlank DEF ServerBlank, ServerTakes
<1>3. CASE ServerHandles
    <2>1. ServerTakes /\ Whole(upAt, upEnd) /\ UNCHANGED <<lostUp, up>>
        BY <1>3 DEF ServerHandles, ServerTakes
    <2>2. open' => open
        BY <1>3 DEF ServerHandles, Killed
    <2>3. Upwards!Meet /\ lostUp = {}
        BY <2>1, UpWhole, Places DEF Upwards!Meet
    <2>4. Upwards!Handle
        BY <2>1, <2>2, <2>3 DEF Upwards!Handle
    <2> QED
        BY <2>4 DEF Upwards!Next
<1>4. CASE ServerThrows
    <2>1. up' = up /\ open' = FALSE
        BY <1>4 DEF ServerThrows, ServerTakes, Killed
    <2>2. Upwards!Meet
        BY <1>4, <2>1, UpTorn, Places DEF Upwards!Meet
    <2>3. Upwards!Lose
        BY <1>4, <2>1, <2>2, UpTorn DEF Upwards!Lose
    <2> QED
        BY <2>3 DEF Upwards!Next
<1>5. CASE ServerEnd
    BY <1>5 DEF ServerEnd, Killed, Met, Upwards!Close, Upwards!Next
<1>6. CASE ClientData \/ ClientBlank \/ ClientThrows \/ ClientExits
    BY <1>6 DEF ClientData, ClientBlank, ClientThrows, ClientExits, Met
<1>7. CASE ClientHandles
    BY <1>7, SayIsWrite DEF ClientHandles, UpMsg, Met, Upwards!Next
<1>8. ASSUME NEW m \in {"users", "typed", "quit"}, ClientTypes(m)
      PROVE  [Upwards!Next]_(Upwards!vars)
    BY <1>8, SayIsWrite DEF ClientTypes, UpMsg, Upwards!Next
<1> QED
    BY <1>1, <1>2, <1>3, <1>4, <1>5, <1>6, <1>7, <1>8 DEF Next, Server, Client

LEMMA DownStep == IInv /\ [Next]_vars => [Downwards!Next]_(Downwards!vars)
<1> SUFFICES ASSUME IInv, [Next]_vars PROVE [Downwards!Next]_(Downwards!vars)
    OBVIOUS
<1>1. CASE ServerData \/ ServerBlank \/ ServerThrows \/ ServerEnd \/ UNCHANGED vars
    BY <1>1 DEF ServerData, ServerBlank, ServerThrows, ServerEnd, Met
<1>2. CASE ServerHandles
    <2>1. running' = running
        BY <1>2 DEF ServerHandles
    <2>2. UNCHANGED downVars \/ \E ms \in Seq(DownMsg) : ms # <<>> /\ Tell(ms)
        BY <1>2, ToldTypes DEF ServerHandles
    <2> QED
        BY <2>1, <2>2, TellIsWrite DEF Met, Downwards!Next
<1>3. CASE OthersChange
    <2>1. running' = running
        BY <1>3 DEF OthersChange
    <2>2. UNCHANGED downVars \/ \E ms \in Seq(DownMsg) : ms # <<>> /\ Tell(ms)
        BY <1>3, ToldTypes DEF OthersChange, Announced
    <2> QED
        BY <2>1, <2>2, TellIsWrite DEF Met, Downwards!Next
<1>4. CASE ClientData
    BY <1>4 DEF ClientData, Met
<1>5. CASE ClientBlank
    BY <1>5, DownBlank DEF ClientBlank, ClientTakes
<1>6. CASE ClientHandles
    <2>1. ClientTakes /\ Whole(downAt, downEnd) /\ UNCHANGED <<lostDown, down, running>>
        BY <1>6 DEF ClientHandles, ClientTakes
    <2>2. Downwards!Meet
        BY <2>1, DownWhole, Places DEF Downwards!Meet
    <2>3. Downwards!Handle
        BY <2>1, <2>2 DEF Downwards!Handle
    <2> QED
        BY <2>3 DEF Downwards!Next
<1>7. CASE ClientThrows
    <2>1. down' = down /\ running' = running
        BY <1>7 DEF ClientThrows, ClientTakes
    <2>2. CASE Met(downAt') = Met(downAt) /\ lostDown' = lostDown
        BY <2>1, <2>2
    <2>3. CASE /\ Met(downAt') = Met(downAt) + 1 /\ Met(downAt) \in 0..(Len(down) - 1)
               /\ lostDown' = lostDown \cup {Met(downAt) + 1}
        <3>1. Downwards!Meet
            BY <2>1, <2>3, Places DEF Downwards!Meet
        <3>2. Downwards!Lose
            BY <2>1, <2>3, <3>1 DEF Downwards!Lose, IInv, ClientTypesOK
        <3> QED
            BY <3>2 DEF Downwards!Next
    <2> QED
        BY <1>7, <2>2, <2>3, DownTorn
<1>8. CASE ClientExits
    BY <1>8 DEF ClientExits, Met, Downwards!Close, Downwards!Next
<1>9. ASSUME NEW m \in {"users", "typed", "quit"}, ClientTypes(m)
      PROVE  [Downwards!Next]_(Downwards!vars)
    BY <1>9 DEF ClientTypes, Met
<1> QED
    BY <1>1, <1>2, <1>3, <1>4, <1>5, <1>6, <1>7, <1>8, <1>9 DEF Next, Server, Client

\* Wherever TCP cuts, the server reads a Stream that ends with its first torn
\* message and the client one that it goes on with.
THEOREM ImplementStreams == Spec => AreStreams
<1>1. Init => Upwards!Init /\ Downwards!Init
    <2>1. Met(0) = 0
        BY DEF Met
    <2> QED
        BY <2>1 DEF Init, Upwards!Init, Downwards!Init
<1>2. Spec => Upwards!Spec
    BY <1>1, UpStep, Invariance, PTL DEF Spec, Upwards!Spec
<1>3. Spec => Downwards!Spec
    BY <1>1, DownStep, Invariance, PTL DEF Spec, Downwards!Spec
<1> QED
    BY <1>2, <1>3 DEF AreStreams

-----------------------------------------------------------------------------
(* Only a torn message leaves the client's list stale.                     *)

Owed   == open /\ member /\ running
Mended == missed \/ Requested \/ Announcing \/ Replied \/ Right

\* Requests stay on their way until they are handled.
LEMMA RequestedKept ==
    ASSUME IInv, Requested, NEW ms \in Seq(UpMsg), up' = up \o ms, Met(upAt') = Met(upAt)
    PROVE  Requested'
<1>1. PICK i \in (Met(upAt) + 1)..Len(up) : up[i] = "users"
    BY DEF Requested, Unmet
<1>2. Len(up') = Len(up) + Len(ms) /\ Len(ms) \in Nat /\ Met(upAt) \in Nat
    BY Appended, LenProperties, Places DEF IInv, UpTypes, Met
<1>3. i \in (Met(upAt) + 1)..Len(up') /\ i \in 1..Len(up)
    BY <1>1, <1>2, Places
<1>4. up'[i] = "users"
    BY <1>1, <1>3, Appended DEF IInv, UpTypes
<1> QED
    BY <1>3, <1>4 DEF Requested, Unmet

\* What the client has still to meet is not changed by what is appended.
LEMMA AppendedUnmet ==
    ASSUME IInv, NEW ms \in Seq(DownMsg), down' = down \o ms, downAt' = downAt
    PROVE  /\ Unmet(down, downAt)' = Unmet(down, downAt)
                  \cup (Len(down) + 1)..(Len(down) + Len(ms))
           /\ \A i \in Unmet(down, downAt) : down'[i] = down[i]
           /\ \A i \in 1..Len(ms) : down'[Len(down) + i] = ms[i]
<1>1. Len(down') = Len(down) + Len(ms) /\ Len(ms) \in Nat
    BY Appended, LenProperties DEF IInv, DownTypes
<1>2. Met(downAt) \in 0..Len(down)
    <2>1. downAt \in 0..(3 * Len(down))
        BY Places DEF IInv, DownTypes
    <2> QED
        BY <2>1, MetBounds, Places
<1>3. Unmet(down, downAt) \subseteq 1..Len(down)
    BY <1>2, Places DEF Unmet
<1>4. Unmet(down, downAt)' = (Met(downAt) + 1)..(Len(down) + Len(ms))
    BY <1>1 DEF Unmet, Met
<1>5. (Met(downAt) + 1)..(Len(down) + Len(ms))
          = (Met(downAt) + 1)..Len(down) \cup (Len(down) + 1)..(Len(down) + Len(ms))
    <2>1. \A a, b, c \in Nat : a <= b => (a + 1)..(b + c) = (a + 1)..b \cup (b + 1)..(b + c)
        OBVIOUS
    <2> QED
        BY <1>1, <1>2, <2>1, Places
<1>6. (\A i \in 1..Len(down) : down'[i] = down[i])
          /\ \A i \in 1..Len(ms) : down'[Len(down) + i] = ms[i]
    BY Appended DEF IInv, DownTypes
<1> QED
    BY <1>3, <1>4, <1>5, <1>6 DEF Unmet

\* Nothing happens to what the client has to meet or to its list.
LEMMA MendedSame ==
    ASSUME IInv, Mended, UNCHANGED <<down, others, member, view>>, Met(downAt') = Met(downAt),
           missed => missed', Requested => Requested'
    PROVE  Mended'
<1>1. Unmet(down, downAt)' = Unmet(down, downAt) /\ Members' = Members
    BY DEF Unmet, Members
<1>2. Answers' = Answers
    BY <1>1 DEF Answers
<1>3. Announcing' = Announcing /\ Replied' = Replied /\ Right' = Right
    BY <1>1, <1>2 DEF Announcing, Replied, Right
<1> QED
    BY <1>3 DEF Mended

\* A join or a quit on its way, or the newest answer, mends everything.
LEMMA NewAnnouncement ==
    ASSUME IInv, NEW ms \in Seq(DownMsg), NEW i \in 1..Len(ms), ms[i].type \in {"join", "quit"},
           Tell(ms)
    PROVE  Announcing'
<1>1. /\ Unmet(down, downAt)' = Unmet(down, downAt) \cup (Len(down) + 1)..(Len(down) + Len(ms))
      /\ down'[Len(down) + i] = ms[i]
    BY AppendedUnmet DEF Tell
<1>2. Len(down) + i \in (Len(down) + 1)..(Len(down) + Len(ms))
    BY Places, LenProperties
<1> QED
    BY <1>1, <1>2 DEF Announcing

LEMMA NewAnswer ==
    ASSUME IInv, Tell(<<Users(Members)>>), member, UNCHANGED <<others, member>>
    PROVE  Replied'
<1> DEFINE n == Len(down) + 1
<1>1. <<Users(Members)>> \in Seq(DownMsg) /\ Len(<<Users(Members)>>) = 1
      /\ <<Users(Members)>>[1] = Users(Members)
    BY ToldTypes
<1>2. Unmet(down, downAt)' = Unmet(down, downAt) \cup n..n /\ down'[n] = Users(Members)
    <2> DEFINE ms == <<Users(Members)>>
    <2>1. ms \in Seq(DownMsg) /\ down' = down \o ms /\ downAt' = downAt
        BY <1>1 DEF Tell
    <2>2. Unmet(down, downAt)' = Unmet(down, downAt) \cup (Len(down) + 1)..(Len(down) + Len(ms))
        BY <2>1, AppendedUnmet
    <2>3. \A i \in 1..Len(ms) : down'[Len(down) + i] = ms[i]
        BY <2>1, AppendedUnmet
    <2>4. 1 \in 1..Len(ms)
        BY <1>1
    <2>5. down'[n] = ms[1]
        BY <2>3, <2>4
    <2> QED
        BY <1>1, <2>2, <2>5
<1>3. \A j \in Unmet(down, downAt) : j <= n
    BY Places DEF Unmet
<1>4. n \in Unmet(down, downAt)' /\ \A j \in Unmet(down, downAt)' : j <= n
    BY <1>2, <1>3, Places
<1>5. Members' = Members /\ Users(Members).type = "users" /\ Users(Members).count = Members
    BY DEF Members, Users
<1>6. n \in Answers' /\ (\A j \in Answers' : j <= n) /\ down'[n].count = Members'
    BY <1>2, <1>4, <1>5 DEF Answers
<1> QED
    BY <1>6 DEF Replied

\* The client meets its next message.
LEMMA OneMet ==
    ASSUME IInv, UNCHANGED down, Met(downAt) \in 0..(Len(down) - 1),
           Met(downAt') = Met(downAt) + 1
    PROVE  /\ Met(downAt) + 1 \in Unmet(down, downAt)
           /\ Unmet(down, downAt)' = Unmet(down, downAt) \ {Met(downAt) + 1}
           /\ \A j \in Unmet(down, downAt) : Met(downAt) + 1 <= j
<1>1. Met(downAt)' = Met(downAt) + 1
    BY DEF Met
<1> QED
    BY <1>1, Places DEF Unmet

\* One on which its list does not depend.
LEMMA OtherMet ==
    ASSUME IInv, Mended, UNCHANGED <<down, others, member, view>>,
           Met(downAt) \in 0..(Len(down) - 1), Met(downAt') = Met(downAt) + 1,
           down[Met(downAt) + 1].type \notin {"join", "quit", "users"},
           missed => missed', Requested => Requested'
    PROVE  Mended'
<1> DEFINE k == Met(downAt) + 1
<1>1. Unmet(down, downAt)' = Unmet(down, downAt) \ {k} /\ Members' = Members
    BY OneMet DEF Members
<1>2. Answers' = Answers
    BY <1>1 DEF Answers
<1>3. Announcing => Announcing'
    BY <1>1 DEF Announcing
<1>4. Replied' = Replied /\ Right' = Right
    BY <1>1, <1>2 DEF Replied, Right
<1> QED
    BY <1>3, <1>4 DEF Mended

\* An answer.
LEMMA AnswerMet ==
    ASSUME IInv, Mended, UNCHANGED <<down, others, member, missed>>,
           Met(downAt) \in 0..(Len(down) - 1), Met(downAt') = Met(downAt) + 1,
           down[Met(downAt) + 1].type = "users", view' = down[Met(downAt) + 1].count,
           Requested => Requested'
    PROVE  Mended'
<1> DEFINE k == Met(downAt) + 1
<1>1. /\ Unmet(down, downAt)' = Unmet(down, downAt) \ {k} /\ Members' = Members
      /\ k \in Unmet(down, downAt) /\ \A j \in Unmet(down, downAt) : k <= j
    BY OneMet DEF Members
<1>2. Answers' = Answers \ {k} /\ k \in Answers /\ \A j \in Answers : k <= j
    BY <1>1 DEF Answers
<1>3. Announcing => Announcing'
    BY <1>1 DEF Announcing
<1>4. ~Right
    BY <1>2 DEF Right
<1>5. ASSUME Replied PROVE Replied' \/ Right'
    <2>1. PICK i \in Answers : down[i].count = Members /\ \A j \in Answers : j <= i
        BY <1>5 DEF Replied
    <2>2. CASE i = k
        <3>1. k \in Nat /\ Len(down) \in Nat
            BY Places
        <3>2. Answers \subseteq Nat
            BY <3>1 DEF Answers, Unmet
        <3>3. \A j \in Answers : j = k
            BY <1>2, <2>1, <2>2, <3>2, <3>1
        <3>4. Answers' = {}
            BY <1>2, <3>3
        <3> QED
            BY <1>1, <2>1, <2>2, <3>4 DEF Right
    <2>3. CASE i # k
        BY <1>1, <1>2, <2>1, <2>3 DEF Replied
    <2> QED
        BY <2>2, <2>3
<1> QED
    BY <1>3, <1>4, <1>5 DEF Mended

\* The server's side.
LEMMA ServerMends ==
    ASSUME IInv, Owed => Mended, Server \/ ServerEnd \/ OthersChange, Owed'
    PROVE  Mended'
<1>1. CASE ServerData \/ ServerBlank
    <2>1. /\ UNCHANGED <<up, downVars, serverVars, clientVars, missed>>
          /\ Met(upAt') = Met(upAt)
        BY <1>1, UpBlank DEF ServerData, ServerBlank, ServerTakes
    <2>2. Owed /\ Requested' = Requested
        BY <2>1 DEF Owed, Requested, Unmet
    <2> QED
        BY <2>1, <2>2, MendedSame
<1>2. CASE ServerHandles
    <2> DEFINE m == up[MessageAt(upAt)]
    <2>1. /\ ServerTakes /\ Whole(upAt, upEnd) /\ open' /\ member'
          /\ UNCHANGED <<others, changes, lostUp, up, clientVars, missed>>
        BY <1>2 DEF ServerHandles, ServerTakes, Owed
    <2>2. /\ MessageAt(upAt) = Met(upAt) + 1 /\ Met(upAt') = Met(upAt) + 1
          /\ Met(upAt) \in 0..(Len(up) - 1)
        BY <2>1, UpWhole
    <2>3. CASE Tell(<<Plain("user"), Plain("join"), Plain("status")>>)
        <3> DEFINE ms == <<Plain("user"), Plain("join"), Plain("status")>>
        <3>1. ms \in Seq(DownMsg)
            BY ToldTypes
        <3>2. 2 \in 1..Len(ms) /\ ms[2] = Plain("join")
            OBVIOUS
        <3>3. Plain("join").type = "join"
            BY DEF Plain
        <3>4. Announcing'
            BY <2>3, <3>1, <3>2, <3>3, NewAnnouncement
        <3> QED
            BY <3>4 DEF Mended
    <2>4. CASE member /\ Tell(<<Users(Members)>>) /\ UNCHANGED member
        BY <2>1, <2>4, NewAnswer DEF Mended
    <2>5. CASE member /\ m = "typed" /\ UNCHANGED <<open, member, downVars>>
        <3>1. Owed
            BY <2>1, <2>5 DEF Owed
        <3>2. Unmet(up, upAt)' = Unmet(up, upAt) \ {MessageAt(upAt)}
            <4>1. Met(upAt)' = Met(upAt) + 1
                BY <2>2 DEF Met
            <4> QED
                BY <2>1, <2>2, <4>1, Places DEF Unmet
        <3>3. Requested => Requested'
            BY <2>1, <2>5, <3>2 DEF Requested
        <3> QED
            BY <2>1, <2>5, <3>1, <3>3, MendedSame
    <2> QED
        BY <1>2, <2>1, <2>3, <2>4, <2>5 DEF ServerHandles, Killed
<1>3. CASE ServerThrows \/ ServerEnd
    BY <1>3 DEF ServerThrows, ServerEnd, Killed, Owed
<1>4. CASE OthersChange
    <2>1. member' = member /\ member'
        BY <1>4 DEF OthersChange, Owed
    <2>2. \E type \in {"join", "quit"} : Tell(<<Plain(type)>>)
        BY <1>4, <2>1 DEF OthersChange, Announced
    <2>3. PICK type \in {"join", "quit"} : Tell(<<Plain(type)>>)
        BY <2>2
    <2>4. <<Plain(type)>> \in Seq(DownMsg) /\ 1 \in 1..Len(<<Plain(type)>>)
          /\ <<Plain(type)>>[1].type \in {"join", "quit"}
        BY ToldTypes DEF Plain
    <2>5. Announcing'
        BY <2>3, <2>4, NewAnnouncement
    <2> QED
        BY <2>5 DEF Mended
<1> QED
    BY <1>1, <1>2, <1>3, <1>4 DEF Server

\* The client's side.
LEMMA ClientMends ==
    ASSUME IInv, Owed => Mended, Owed',
           Client \/ ClientExits \/ \E m \in {"users", "typed", "quit"} : ClientTypes(m)
    PROVE  Mended'
<1>1. CASE ClientData \/ ClientBlank
    <2>1. /\ UNCHANGED <<upVars, down, serverVars, clientVars, missed>>
          /\ Met(downAt') = Met(downAt)
        BY <1>1, DownBlank DEF ClientData, ClientBlank, ClientTakes
    <2>2. Owed /\ Requested' = Requested
        BY <2>1 DEF Owed, Requested, Unmet, Met
    <2> QED
        BY <2>1, <2>2, MendedSame
<1>2. CASE ClientHandles
    <2> DEFINE k == Met(downAt) + 1
    <2> DEFINE m == down[k]
    <2>1. /\ ClientTakes /\ Whole(downAt, downEnd)
          /\ UNCHANGED <<down, lostDown, serverVars, running, typed, missed>>
        BY <1>2 DEF ClientHandles, ClientTakes
    <2>2. /\ MessageAt(downAt) = k /\ Met(downAt') = k
          /\ Met(downAt) \in 0..(Len(down) - 1)
        BY <2>1, DownWhole
    <2>3. /\ IF m.type \in {"join", "quit"} THEN Say("users") ELSE UNCHANGED upVars
          /\ view' = IF m.type = "users" THEN m.count ELSE view
        BY <1>2, <2>2 DEF ClientHandles
    <2>4. Owed
        BY <2>1 DEF Owed
    <2>5. CASE m.type \in {"join", "quit"}
        <3>1. Say("users") /\ "users" \in UpMsg
            BY <2>3, <2>5 DEF UpMsg
        <3>2. up' = up \o <<"users">> /\ <<"users">> \in Seq(UpMsg) /\ Len(<<"users">>) = 1
            BY <2>1, <3>1, SayKeeps
        <3>3. Len(up') = Len(up) + 1 /\ up'[Len(up) + 1] = "users"
            BY <3>2, Appended DEF IInv, UpTypes
        <3>4. Met(upAt)' \in 0..Len(up)
            <4>1. upAt \in 0..(3 * Len(up)) /\ upAt' = upAt
                BY <3>1, Places DEF Say, IInv, UpTypes
            <4> QED
                BY <4>1, MetBounds, Places DEF Met
        <3>5. Len(up) + 1 \in (Met(upAt)' + 1)..Len(up')
            BY <3>3, <3>4, Places
        <3>6. Requested'
            BY <3>3, <3>5 DEF Requested, Unmet
        <3> QED
            BY <3>6 DEF Mended
    <2>6. CASE m.type \notin {"join", "quit"}
        <3>1. Requested' = Requested
            BY <2>3, <2>6 DEF Requested, Unmet, Met
        <3> QED
            BY <2>1, <2>2, <2>3, <2>4, <2>6, <3>1, OtherMet, AnswerMet
    <2> QED
        BY <2>5, <2>6
<1>3. CASE ClientThrows
    <2>1. UNCHANGED <<upVars, serverVars, clientVars, down>>
        BY <1>3 DEF ClientThrows, ClientTakes
    <2>2. missed' = (missed \/ down[MessageAt(downAt)].type \in {"join", "quit", "users"})
        BY <1>3 DEF ClientThrows
    <2>3. Owed /\ Requested' = Requested
        BY <2>1 DEF Owed, Requested, Unmet, Met
    <2>4. CASE Met(downAt') = Met(downAt)
        BY <2>1, <2>2, <2>3, <2>4, MendedSame
    <2>5. CASE /\ MessageAt(downAt) = Met(downAt) + 1 /\ Met(downAt') = Met(downAt) + 1
               /\ Met(downAt) \in 0..(Len(down) - 1)
        <3>1. CASE down[MessageAt(downAt)].type \in {"join", "quit", "users"}
            BY <2>2, <3>1 DEF Mended
        <3>2. CASE down[MessageAt(downAt)].type \notin {"join", "quit", "users"}
            BY <2>1, <2>2, <2>3, <2>5, <3>2, OtherMet
        <3> QED
            BY <3>1, <3>2
    <2> QED
        BY <1>3, <2>4, <2>5, DownTorn
<1>4. CASE ClientExits
    BY <1>4 DEF ClientExits, Owed
<1>5. ASSUME NEW m \in {"users", "typed", "quit"}, ClientTypes(m) PROVE Mended'
    <2>1. Say(m) /\ m \in UpMsg /\ UNCHANGED <<downVars, serverVars, running, view, missed>>
        BY <1>5 DEF ClientTypes, UpMsg
    <2>2. up' = up \o <<m>> /\ <<m>> \in Seq(UpMsg)
        BY <2>1, SayKeeps
    <2>3. Met(upAt') = Met(upAt) /\ Met(downAt') = Met(downAt)
        BY <2>1 DEF Say, Met
    <2>4. Owed
        BY <2>1 DEF Owed
    <2>5. Requested => Requested'
        BY <2>2, <2>3, RequestedKept
    <2> QED
        BY <2>1, <2>3, <2>4, <2>5, MendedSame
<1> QED
    BY <1>1, <1>2, <1>3, <1>4, <1>5 DEF Client

\* The client's list is right or will be refreshed unless a message it depends
\* on was torn since the last join or quit.
THEOREM StaleOnlyByTearHolds == Spec => []StaleOnlyByTear
<1> DEFINE J == IInv /\ (Owed => Mended)
<1>1. Init => J
    BY InitIInv DEF Init, Owed
<1>2. J /\ [Next]_vars => J'
    <2> SUFFICES ASSUME J, [Next]_vars, Owed' PROVE Mended'
        BY NextIInv
    <2>1. CASE UNCHANGED vars
        <3>1. Requested' = Requested /\ Owed /\ Met(downAt') = Met(downAt)
            BY <2>1 DEF Requested, Unmet, Met, Owed
        <3> QED
            BY <2>1, <3>1, MendedSame
    <2>2. CASE Next
        BY <2>2, ServerMends, ClientMends DEF Next
    <2> QED
        BY <2>1, <2>2
<1>3. J => StaleOnlyByTear
    BY DEF StaleOnlyByTear, Owed, Mended
<1> QED
    BY <1>1, <1>2, <1>3, PTL DEF Spec

=============================================================================
