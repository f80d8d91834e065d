--------------------------- MODULE AccountsProofs ---------------------------
(***************************************************************************)
(* Proofs about Accounts, for any requests, users and passwords: types,    *)
(* that no path of the code forgets the lock, that a requester is told the *)
(* truth, that LevelDB's own lock, not auth.lock, is what keeps the        *)
(* passwords safe between db.get and db.put, what auth.lock is worth all   *)
(* the same, and that both programs are one atomic store from outside.     *)
(***************************************************************************)
EXTENDS Accounts, TLAPS

USE DEF InCallback, InProgress, ServerOp, Op, requestVars, historyVars

Replies == {"none", "granted", "denied", "locked", "exists", "added", "ioError",
            "changed", "notChanged"}

-----------------------------------------------------------------------------
(* What the end of a process and the end of a request do.                  *)

\* A process that dies takes its requests and its handles along, no others.
LEMMA DiesEffect ==
    ASSUME TypeOK, NEW op \in Op, pc[op] \in InProgress, Dies(op)
    PROVE  /\ pc' \in [Op -> {"idle", "answered", "lost"} \cup InProgress]
           /\ handle' \in [Op -> {"none", "held", "closing"}]
           /\ up' \in BOOLEAN
           /\ pc'[op] = "lost"
           /\ \A o \in Op : \/ pc'[o] = pc[o] /\ handle'[o] = handle[o]
                            \/ pc'[o] = "lost" /\ handle'[o] = "none"
                            \/ pc'[o] = pc[o] /\ pc[o] \notin InProgress /\ handle'[o] = "none"
<1> DEFINE dead == IF op \in ServerOp THEN ServerOp ELSE {op}
<1>1. /\ pc' = [o \in Op |-> IF o \in dead /\ pc[o] \in InProgress THEN "lost" ELSE pc[o]]
      /\ handle' = [o \in Op |-> IF o \in dead THEN "none" ELSE handle[o]]
      /\ up' = (up /\ op \notin ServerOp)
  BY DEF Dies
<1>2. op \in dead
  OBVIOUS
<1> HIDE DEF dead
<1>3. pc' \in [Op -> {"idle", "answered", "lost"} \cup InProgress]
  BY <1>1 DEF TypeOK
<1>4. handle' \in [Op -> {"none", "held", "closing"}]
  BY <1>1 DEF TypeOK
<1>5. up' \in BOOLEAN
  BY <1>1
<1>6. \A o \in Op : \/ pc'[o] = pc[o] /\ handle'[o] = handle[o]
                    \/ pc'[o] = "lost" /\ handle'[o] = "none"
                    \/ pc'[o] = pc[o] /\ pc[o] \notin InProgress /\ handle'[o] = "none"
  BY <1>1
<1> QED
  BY <1>1, <1>2, <1>3, <1>4, <1>5, <1>6

\* Release() either unlocks and answers, or finds the lock gone and dies.
LEMMA ReleaseEffect ==
    ASSUME TypeOK, NEW op \in Op, pc[op] \in InProgress, Release(op)
    PROVE  /\ pc' \in [Op -> {"idle", "answered", "lost"} \cup InProgress]
           /\ handle' \in [Op -> {"none", "held", "closing"}]
           /\ up' \in BOOLEAN
           /\ lockFile' = FALSE
           /\ pc'[op] = IF lockFile THEN "answered" ELSE "lost"
           /\ \A o \in Op : \/ pc'[o] = pc[o] /\ handle'[o] = handle[o]
                            \/ pc'[o] = "lost" /\ handle'[o] = "none"
                            \/ pc'[o] = pc[o] /\ pc[o] \notin InProgress /\ handle'[o] = "none"
                            \/ o = op /\ pc'[o] = "answered" /\ handle'[o] = "closing"
<1>1. CASE lockFile
  <2>1. /\ handle' = [handle EXCEPT ![op] = "closing"]
        /\ pc' = [pc EXCEPT ![op] = "answered"]
        /\ up' = up /\ lockFile' = FALSE
    BY <1>1 DEF Release, CloseAndAnswer, Goto
  <2>2. pc' \in [Op -> {"idle", "answered", "lost"} \cup InProgress]
        /\ handle' \in [Op -> {"none", "held", "closing"}] /\ up' \in BOOLEAN
    BY <2>1 DEF TypeOK
  <2> QED
    BY <1>1, <2>1, <2>2 DEF TypeOK
<1>2. CASE ~lockFile
  <2>1. Dies(op) /\ lockFile' = FALSE
    BY <1>2 DEF Release, TypeOK
  <2> QED
    BY <1>2, <2>1, DiesEffect
<1> QED
  BY <1>1, <1>2

\* The steps that end with Release() touch no password and no request.
Ending(op) == \E what \in {"granted", "denied", "exists", "notChanged"} : GetRefused(op, what)

\* The steps that call db.put; only an add-user may do so after an error.
Accepting(op) ==
    /\ GetAccepted(op)
    /\ UNCHANGED misread \/ (op \in AddOp /\ misread' = misread \cup {op})

LEMMA GetKinds ==
    ASSUME NEW op \in Op, Get(op)
    PROVE  Ending(op) \/ Accepting(op)
BY DEF Get, AuthGet, ChangeGet, AddGet, Ending, Accepting

-----------------------------------------------------------------------------
(* Types.                                                                  *)

LEMMA TypeInit == Init => TypeOK
BY DEF Init, TypeOK, Record

LEMMA EndingType ==
    ASSUME TypeOK, NEW op \in Op, Ending(op) \/ Put(op)
    PROVE  TypeOK'
<1>1. /\ pc[op] \in InProgress /\ Release(op)
      /\ UNCHANGED <<requestVars, record, named, db, historyVars>>
  BY DEF Ending, GetRefused, Put
<1>2. reply' \in [Op -> Replies]
  <2>1. ASSUME NEW what \in {"granted", "denied", "exists", "notChanged"},
               GetRefused(op, what)
        PROVE  reply' \in [Op -> Replies]
    BY <2>1 DEF GetRefused, Tell, TypeOK, Replies
  <2>2. CASE Put(op)
    BY <2>2 DEF Put, Tell, Outcome, TypeOK, Replies
  <2> QED
    BY <2>1, <2>2 DEF Ending
<1> QED
  BY <1>1, <1>2, ReleaseEffect DEF TypeOK, Replies

LEMMA TypeStep ==
    ASSUME TypeOK, [Next]_vars
    PROVE  TypeOK'
<1>1. ASSUME NEW op \in Op, SeesLock(op) \/ ChangeRefused(op)
      PROVE  TypeOK'
  BY <1>1 DEF SeesLock, ChangeRefused, Goto, Tell, TypeOK
<1>2. ASSUME NEW op \in Op, SeesNoLock(op) \/ TakeLock(op) \/ OpenDb(op) \/ Closed(op)
      PROVE  TypeOK'
  BY <1>2 DEF SeesNoLock, TakeLock, OpenDb, Closed, Goto, TypeOK
<1>3. ASSUME NEW op \in Op, OpenFails(op) \/ Killed(op)
      PROVE  TypeOK'
  <2>1. /\ pc[op] \in InProgress /\ Dies(op)
        /\ UNCHANGED <<requestVars, record, named, reply, lockFile, db, historyVars>>
    BY <1>3 DEF OpenFails, Killed
  <2> QED
    BY <2>1, DiesEffect DEF TypeOK
<1>4. ASSUME NEW op \in Op, Ending(op) \/ Put(op)
      PROVE  TypeOK'
  BY <1>4, EndingType
<1>5. ASSUME NEW op \in Op, Accepting(op)
      PROVE  TypeOK'
  <2>1. record' \in [Op -> Record]
    BY <1>5 DEF Accepting, GetAccepted, KeyOf, Record, TypeOK
  <2> QED
    BY <1>5, <2>1 DEF Accepting, GetAccepted, KeepOpen, Goto, TypeOK
<1>6. ASSUME NEW op \in Op, Store(op)
      PROVE  TypeOK'
  <2>1. db' \in [Record -> Password \cup {NoPassword}] /\ storedOps' \subseteq Op
    BY <1>6 DEF Store, TypeOK
  <2> QED
    BY <1>6, <2>1 DEF Store, Goto, TypeOK
<1>7. ASSUME NEW op \in Op, SocketKilled(op)
      PROVE  TypeOK'
  BY <1>7 DEF SocketKilled, TypeOK
<1>8. CASE Restart \/ RemoveLock \/ UNCHANGED vars
  BY <1>8 DEF Restart, RemoveLock, vars, TypeOK
<1> QED
  BY <1>1, <1>2, <1>3, <1>4, <1>5, <1>6, <1>7, <1>8, GetKinds DEF Next, Serve, Accepting

\* Type correctness.
THEOREM TypeCorrect == Spec => []TypeOK
BY TypeInit, TypeStep, PTL DEF Spec

-----------------------------------------------------------------------------
(* The lock.                                                               *)

LEMMA LockStep ==
    ASSUME TypeOK, LockNotLeaked, [Next]_vars
    PROVE  LockNotLeaked'
<1>1. SUFFICES ASSUME lockFile'
               PROVE  \E op \in Op : pc'[op] \in InCallback \cup {"lost"}
  BY DEF LockNotLeaked, Inside
<1>2. lockFile => \E op \in Op : pc[op] \in InCallback \cup {"lost"}
  BY DEF LockNotLeaked, Inside
<1>3. ASSUME NEW op \in Op, TakeLock(op) \/ OpenDb(op) \/ GetAccepted(op) \/ Store(op)
      PROVE  pc'[op] \in InCallback
  BY <1>3 DEF TakeLock, OpenDb, GetAccepted, Store, Goto, TypeOK
<1>4. ASSUME NEW op \in Op, OpenFails(op) \/ Killed(op)
      PROVE  pc'[op] = "lost"
  BY <1>4, DiesEffect DEF OpenFails, Killed
<1>5. ASSUME NEW op \in Op, Ending(op) \/ Put(op)
      PROVE  FALSE
  BY <1>1, <1>5, ReleaseEffect DEF Ending, GetRefused, Put
<1>6. ASSUME NEW op \in Op, SeesLock(op) \/ SeesNoLock(op) \/ ChangeRefused(op),
             lockFile
      PROVE  \E o \in Op : pc'[o] \in InCallback \cup {"lost"}
  BY <1>2, <1>6 DEF SeesLock, SeesNoLock, ChangeRefused, Goto, TypeOK
<1>7. ASSUME \/ \E op \in Op : Closed(op) \/ SocketKilled(op)
             \/ Restart \/ RemoveLock \/ UNCHANGED vars
      PROVE  pc' = pc /\ (lockFile' => lockFile)
  BY <1>7 DEF Closed, SocketKilled, Restart, RemoveLock, vars
<1>8. ASSUME NEW op \in Op, SeesLock(op) \/ SeesNoLock(op) \/ ChangeRefused(op)
      PROVE  lockFile
  BY <1>1, <1>8 DEF SeesLock, SeesNoLock, ChangeRefused
<1> QED
  BY <1>1, <1>2, <1>3, <1>4, <1>5, <1>6, <1>7, <1>8, GetKinds DEF Next, Serve, Accepting

\* No path of the code leaves the lock behind, unless its process died.
THEOREM LockNotLeakedHolds == Spec => []LockNotLeaked
<1>1. Init => LockNotLeaked
  BY DEF Init, LockNotLeaked
<1> QED
  BY <1>1, TypeInit, TypeStep, LockStep, PTL DEF Spec

-----------------------------------------------------------------------------
(* Answers.                                                                *)

\* A password is stored by a request that is about to be answered, and what
\* has been stored stays so.
StoredFits ==
    \A op \in Op : /\ op \in storedOps => pc[op] \in {"written", "answered", "lost"}
                   /\ pc[op] = "written" => op \in storedOps
TruthInv == StoredFits /\ AnsweredTruthfully

LEMMA EndingTruth ==
    ASSUME TypeOK, TruthInv, NEW op \in Op, Ending(op) \/ Put(op)
    PROVE  TruthInv'
<1>1. /\ pc[op] \in InProgress /\ Release(op) /\ storedOps' = storedOps
      /\ \A o \in Op \ {op} : reply'[o] = reply[o]
  BY DEF Ending, GetRefused, Put, Tell, TypeOK
<1>2. /\ pc'[op] = IF lockFile THEN "answered" ELSE "lost"
      /\ \A o \in Op \ {op} : pc'[o] = pc[o] \/ pc'[o] = "lost"
  BY <1>1, ReleaseEffect
<1>3. pc'[op] = "answered" /\ op \in ChangeOp \cup AddOp =>
        (op \in storedOps <=> reply'[op] \in {"changed", "added"})
  <2> SUFFICES ASSUME lockFile, op \in ChangeOp \cup AddOp
               PROVE  op \in storedOps <=> reply'[op] \in {"changed", "added"}
    BY <1>2
  <2>1. ASSUME NEW what \in {"granted", "denied", "exists", "notChanged"},
               GetRefused(op, what)
        PROVE  op \notin storedOps /\ reply'[op] = what
    BY <2>1 DEF GetRefused, Tell, TypeOK, TruthInv, StoredFits
  <2>2. CASE Put(op)
    <3>1. reply'[op] = Outcome(op)
      BY <2>2 DEF Put, Tell, TypeOK
    <3>2. pc[op] = "written" <=> op \in storedOps
      BY <2>2 DEF Put, TruthInv, StoredFits
    <3> QED
      BY <3>1, <3>2 DEF Outcome
  <2> QED
    BY <2>1, <2>2 DEF Ending
<1>4. StoredFits'
  BY <1>1, <1>2 DEF TruthInv, StoredFits
<1>5. AnsweredTruthfully'
  BY <1>1, <1>2, <1>3 DEF TruthInv, AnsweredTruthfully
<1> QED
  BY <1>4, <1>5 DEF TruthInv

LEMMA TruthStep ==
    ASSUME TypeOK, TruthInv, [Next]_vars
    PROVE  TruthInv'
<1>1. ASSUME NEW op \in Op, SeesLock(op) \/ ChangeRefused(op)
      PROVE  TruthInv'
  <2>1. /\ pc[op] = "idle" /\ pc'[op] = "answered" /\ storedOps' = storedOps
        /\ op \notin AuthOp => reply'[op] \notin {"changed", "added"}
        /\ \A o \in Op \ {op} : pc'[o] = pc[o] /\ reply'[o] = reply[o]
    BY <1>1, AccountsAssumption DEF SeesLock, ChangeRefused, Goto, Tell, TypeOK
  <2> QED
    BY <2>1, AccountsAssumption DEF TruthInv, StoredFits, AnsweredTruthfully
<1>2. ASSUME NEW op \in Op, SeesNoLock(op) \/ TakeLock(op) \/ OpenDb(op) \/ GetAccepted(op)
      PROVE  TruthInv'
  <2>1. /\ pc[op] \notin {"written", "answered", "lost"}
        /\ pc'[op] \notin {"written", "answered", "lost"}
        /\ UNCHANGED <<reply, storedOps>>
        /\ \A o \in Op \ {op} : pc'[o] = pc[o]
    BY <1>2 DEF SeesNoLock, TakeLock, OpenDb, GetAccepted, Goto, TypeOK
  <2> QED
    BY <2>1 DEF TruthInv, StoredFits, AnsweredTruthfully
<1>3. ASSUME NEW op \in Op, OpenFails(op) \/ Killed(op)
      PROVE  TruthInv'
  <2>1. UNCHANGED <<reply, storedOps>> /\ \A o \in Op : pc'[o] = pc[o] \/ pc'[o] = "lost"
    BY <1>3, DiesEffect DEF OpenFails, Killed
  <2> QED
    BY <2>1 DEF TruthInv, StoredFits, AnsweredTruthfully
<1>4. ASSUME NEW op \in Op, Store(op)
      PROVE  TruthInv'
  <2>1. /\ pc'[op] = "written" /\ storedOps' = storedOps \cup {op} /\ reply' = reply
        /\ \A o \in Op \ {op} : pc'[o] = pc[o]
    BY <1>4 DEF Store, Goto, TypeOK
  <2> QED
    BY <2>1 DEF TruthInv, StoredFits, AnsweredTruthfully
<1>5. ASSUME \/ \E op \in Op : Closed(op) \/ SocketKilled(op)
             \/ Restart \/ RemoveLock \/ UNCHANGED vars
      PROVE  TruthInv'
  <2>1. UNCHANGED <<pc, reply, storedOps>>
    BY <1>5 DEF Closed, SocketKilled, Restart, RemoveLock, vars
  <2> QED
    BY <2>1 DEF TruthInv, StoredFits, AnsweredTruthfully
<1> QED
  BY <1>1, <1>2, <1>3, <1>4, <1>5, EndingTruth, GetKinds DEF Next, Serve, Accepting

\* Whoever is told that a password is stored has stored it, and nobody who has
\* is told that nothing happened, whatever get and put answer.
THEOREM AnsweredTruthfullyHolds == Spec => []AnsweredTruthfully
<1>1. Init => TruthInv
  BY DEF Init, TruthInv, StoredFits, AnsweredTruthfully
<1>2. TruthInv => AnsweredTruthfully
  BY DEF TruthInv
<1> QED
  BY <1>1, <1>2, TypeInit, TypeStep, TruthStep, PTL DEF Spec

-----------------------------------------------------------------------------
(* The passwords.                                                          *)

\* A request between open and close has the store, and has it alone; one
\* that is about to put has compared what is still stored.
HandlesFit == \A op \in Op : pc[op] \in {"reading", "writing", "written"} => handle[op] = "held"
OneHandle  == \A p, q \in Op : handle[p] # "none" /\ handle[q] # "none" => p = q
Compared(op) ==
    /\ record[op] \in {user[op], FalseName}
    /\ \/ op \in ChangeOp /\ db[user[op]] = given[op]
       \/ op \in AddOp /\ (db[user[op]] = NoPassword \/ op \in misread)
GuardInv == HandlesFit /\ OneHandle /\ \A op \in Op : pc[op] = "writing" => Compared(op)

\* Steps that take handles away and put no request in the store.
LEMMA GuardKept ==
    ASSUME GuardInv, UNCHANGED <<requestVars, record, db, misread>>,
           \A o \in Op : \/ pc'[o] = pc[o] /\ handle'[o] = handle[o]
                         \/ pc'[o] \in {"lost", "answered"}
                            /\ (handle'[o] = "none" \/ handle[o] # "none")
                         \/ /\ pc'[o] \notin {"reading", "writing", "written"}
                            /\ handle'[o] \in {"none", handle[o]}
    PROVE  GuardInv'
<1>1. HandlesFit' /\ OneHandle'
  BY DEF GuardInv, HandlesFit, OneHandle
<1>2. \A o \in Op : pc'[o] = "writing" => Compared(o)'
  BY DEF GuardInv, Compared
<1> QED
  BY <1>1, <1>2 DEF GuardInv

LEMMA GuardStep ==
    ASSUME TypeOK, GuardInv, [Next]_vars
    PROVE  GuardInv'
<1>1. ASSUME NEW op \in Op, SeesLock(op) \/ ChangeRefused(op) \/ SeesNoLock(op) \/ TakeLock(op)
      PROVE  GuardInv'
  <2>1. /\ UNCHANGED <<requestVars, record, db, handle, misread>>
        /\ pc'[op] \notin {"reading", "writing", "written"}
        /\ \A o \in Op \ {op} : pc'[o] = pc[o]
    BY <1>1 DEF SeesLock, ChangeRefused, SeesNoLock, TakeLock, Goto, TypeOK
  <2> QED
    BY <2>1, GuardKept
<1>2. ASSUME NEW op \in Op, OpenDb(op)
      PROVE  GuardInv'
  <2>1. /\ UNCHANGED <<requestVars, record, db, misread>>
        /\ pc'[op] = "reading" /\ handle'[op] = "held"
        /\ \A o \in Op : handle[o] = "none"
        /\ \A o \in Op \ {op} : pc'[o] = pc[o] /\ handle'[o] = handle[o]
    BY <1>2 DEF OpenDb, Goto, TypeOK
  <2> QED
    BY <2>1 DEF GuardInv, HandlesFit, OneHandle, Compared
<1>3. ASSUME NEW op \in Op, OpenFails(op) \/ Killed(op)
      PROVE  GuardInv'
  <2>1. pc[op] \in InProgress /\ Dies(op) /\ UNCHANGED <<requestVars, record, db, misread>>
    BY <1>3 DEF OpenFails, Killed
  <2> QED
    BY <2>1, DiesEffect, GuardKept
<1>4. ASSUME NEW op \in Op, Ending(op) \/ Put(op)
      PROVE  GuardInv'
  <2>1. /\ pc[op] \in {"reading", "writing", "written"} /\ Release(op)
        /\ UNCHANGED <<requestVars, record, db, misread>>
    BY <1>4 DEF Ending, GetRefused, Put
  <2>2. handle[op] = "held"
    BY <2>1 DEF GuardInv, HandlesFit
  <2>3. \A o \in Op : \/ pc'[o] = pc[o] /\ handle'[o] = handle[o]
                      \/ pc'[o] = "lost" /\ handle'[o] = "none"
                      \/ pc'[o] = pc[o] /\ pc[o] \notin InProgress /\ handle'[o] = "none"
                      \/ o = op /\ pc'[o] = "answered" /\ handle'[o] = "closing"
    BY <2>1, ReleaseEffect
  <2> QED
    BY <2>1, <2>2, <2>3, GuardKept
<1>5. ASSUME NEW op \in Op, Get(op), Accepting(op)
      PROVE  GuardInv'
  <2>1. /\ UNCHANGED <<requestVars, db, handle>> /\ misread \subseteq misread'
        /\ pc[op] = "reading" /\ pc'[op] = "writing"
        /\ record'[op] \in {user[op], FalseName}
        /\ \A o \in Op \ {op} : pc'[o] = pc[o] /\ record'[o] = record[o]
    BY <1>5 DEF Accepting, GetAccepted, KeepOpen, KeyOf, Goto, TypeOK
  <2>2. \/ op \in ChangeOp /\ db[user[op]] = given[op]
        \/ op \in AddOp /\ (db[user[op]] = NoPassword \/ op \in misread')
    <3>1. ~Ending(op)
      <4>1. pc'[op] = "writing"
        BY <2>1
      <4> QED
        BY <4>1, ReleaseEffect DEF Ending, GetRefused
    <3> QED
      BY <1>5, <3>1 DEF Get, AuthGet, ChangeGet, AddGet, Ending
  <2>3. HandlesFit' /\ OneHandle'
    BY <2>1 DEF GuardInv, HandlesFit, OneHandle
  <2>4. \A o \in Op : pc'[o] = "writing" => Compared(o)'
    BY <2>1, <2>2 DEF GuardInv, Compared
  <2> QED
    BY <2>3, <2>4 DEF GuardInv
<1>6. ASSUME NEW op \in Op, Store(op)
      PROVE  GuardInv'
  <2>1. /\ pc[op] = "writing" /\ pc'[op] = "written" /\ handle' = handle
        /\ \A o \in Op \ {op} : pc'[o] = pc[o]
    BY <1>6 DEF Store, Goto, TypeOK
  <2>2. \A o \in Op : pc'[o] # "writing"
    BY <2>1 DEF GuardInv, HandlesFit, OneHandle
  <2> QED
    BY <2>1, <2>2 DEF GuardInv, HandlesFit, OneHandle
<1>7. ASSUME NEW op \in Op, Closed(op)
      PROVE  GuardInv'
  <2>1. /\ UNCHANGED <<pc, requestVars, record, db, misread>>
        /\ handle[op] = "closing" /\ handle'[op] = "none"
        /\ \A o \in Op \ {op} : handle'[o] = handle[o]
    BY <1>7 DEF Closed, TypeOK
  <2> QED
    BY <2>1, GuardKept DEF GuardInv, HandlesFit
<1>8. ASSUME \/ \E op \in Op : SocketKilled(op)
             \/ Restart \/ RemoveLock \/ UNCHANGED vars
      PROVE  GuardInv'
  <2>1. UNCHANGED <<pc, requestVars, record, db, handle, misread>>
    BY <1>8 DEF SocketKilled, Restart, RemoveLock, vars
  <2> QED
    BY <2>1 DEF GuardInv, HandlesFit, OneHandle, Compared
<1> QED
  BY <1>1, <1>2, <1>3, <1>4, <1>5, <1>6, <1>7, <1>8, GetKinds DEF Next, Serve, Accepting

LEMMA StoreGuarded ==
    ASSUME TypeOK, GuardInv, [Next]_vars, NEW u \in User, db'[u] # db[u]
    PROVE  \E op \in Op :
              /\ record[op] = u /\ db'[u] = chosen[op]
              /\ \/ op \in AddOp /\ (db[u] = NoPassword \/ op \in misread)
                 \/ op \in ChangeOp /\ user[op] = u /\ given[op] = db[u]
<1>1. PICK op \in Op : Store(op)
  <2>1. ASSUME ~\E op \in Op : Store(op)
        PROVE  db' = db
    BY <2>1 DEF Next, Serve, Get, AuthGet, ChangeGet, AddGet, GetRefused, GetAccepted, Put,
                SeesLock, SeesNoLock, TakeLock, OpenDb, OpenFails, Closed, ChangeRefused,
                SocketKilled, Killed, Restart, RemoveLock, vars
  <2> QED
    BY <2>1
<1>2. pc[op] = "writing" /\ db' = [db EXCEPT ![record[op]] = chosen[op]] /\ u \in Record
  BY <1>1 DEF Store, Record
<1>3. record[op] = u /\ db'[u] = chosen[op]
  BY <1>2 DEF TypeOK
<1>4. Compared(op) /\ u # FalseName
  BY <1>2, AccountsAssumption DEF GuardInv
<1> QED
  BY <1>3, <1>4 DEF Compared

\* An account that exists changes only to the password of a request that
\* showed the old one, and one that does not only by add-user, however the
\* requests interleave, fail and crash; an I/O error may mislead add-user.
THEOREM PasswordsGuardedHolds == Spec => PasswordsGuarded
<1>1. Init => GuardInv
  BY DEF Init, GuardInv, HandlesFit, OneHandle
<1>2. TypeOK /\ GuardInv /\ [Next]_vars => GuardInv'
  BY GuardStep
<1>3. TypeOK /\ GuardInv /\ [Next]_vars
        => [\A u \in User : db'[u] # db[u] =>
              \E op \in Op :
                  /\ record[op] = u /\ db'[u] = chosen[op]
                  /\ \/ op \in AddOp /\ (db[u] = NoPassword \/ op \in misread)
                     \/ op \in ChangeOp /\ user[op] = u /\ given[op] = db[u]]_vars
  BY StoreGuarded
<1> QED
  BY <1>1, <1>2, <1>3, TypeInit, TypeStep, PTL DEF Spec, PasswordsGuarded

-----------------------------------------------------------------------------
(* The lock, while add-user has not been started.                          *)

AddIdle == \A op \in AddOp : pc[op] = "idle"

\* One request of the server at a time is past the test; the lock is there
\* from then on; and a server that is down has nobody past it.
Alone ==
    AddIdle =>
        /\ \A p, q \in Op : pc[p] \in InProgress /\ pc[q] \in InProgress => p = q
        /\ \A p \in Op : pc[p] \in InCallback => lockFile
        /\ ~up => \A p \in Op : pc[p] \notin InProgress

\* Nobody becomes idle again.
LEMMA IdleBefore ==
    ASSUME TypeOK, [Next]_vars, AddIdle'
    PROVE  AddIdle
<1> SUFFICES ASSUME NEW o \in Op, pc'[o] = "idle" PROVE pc[o] = "idle"
  BY DEF AddIdle
<1>1. ASSUME NEW op \in Op,
             SeesLock(op) \/ ChangeRefused(op) \/ SeesNoLock(op) \/ TakeLock(op)
                \/ OpenDb(op) \/ Accepting(op) \/ Store(op)
      PROVE  pc[o] = "idle"
  BY <1>1 DEF SeesLock, ChangeRefused, SeesNoLock, TakeLock, OpenDb, Accepting, GetAccepted,
              Store, Goto, TypeOK
<1>2. ASSUME NEW op \in Op, OpenFails(op) \/ Killed(op)
      PROVE  pc[o] = "idle"
  BY <1>2, DiesEffect DEF OpenFails, Killed
<1>3. ASSUME NEW op \in Op, Ending(op) \/ Put(op)
      PROVE  pc[o] = "idle"
  BY <1>3, ReleaseEffect DEF Ending, GetRefused, Put
<1>4. ASSUME \/ \E op \in Op : Closed(op) \/ SocketKilled(op)
             \/ Restart \/ RemoveLock \/ UNCHANGED vars
      PROVE  pc[o] = "idle"
  BY <1>4 DEF Closed, SocketKilled, Restart, RemoveLock, vars
<1> QED
  BY <1>1, <1>2, <1>3, <1>4, GetKinds DEF Next, Serve

LEMMA AloneStep ==
    ASSUME TypeOK, Alone, [Next]_vars
    PROVE  Alone'
<1> SUFFICES ASSUME AddIdle'
             PROVE  /\ \A p, q \in Op : pc'[p] \in InProgress /\ pc'[q] \in InProgress => p = q
                    /\ \A p \in Op : pc'[p] \in InCallback => lockFile'
                    /\ ~up' => \A p \in Op : pc'[p] \notin InProgress
  BY DEF Alone
<1>0. AddIdle
  BY IdleBefore
<1>1. /\ \A p, q \in Op : pc[p] \in InProgress /\ pc[q] \in InProgress => p = q
      /\ \A p \in Op : pc[p] \in InCallback => lockFile
      /\ ~up => \A p \in Op : pc[p] \notin InProgress
  BY <1>0 DEF Alone
<1>2. ASSUME NEW op \in Op, pc[op] \in InProgress
      PROVE  op \in ServerOp /\ up
  BY <1>0, <1>1, <1>2 DEF AddIdle
<1>3. ASSUME NEW op \in Op, pc[op] \in InProgress, Dies(op)
      PROVE  ~up' /\ \A p \in Op : pc'[p] \notin InProgress
  <2>1. op \in ServerOp
    BY <1>2, <1>3
  <2>2. \A p \in ServerOp : pc'[p] \notin InProgress
    BY <1>3, <2>1 DEF Dies
  <2>3. \A p \in AddOp : pc'[p] = "idle"
    BY DEF AddIdle
  <2> QED
    BY <1>3, <2>1, <2>2, <2>3 DEF Dies
<1>4. ASSUME NEW op \in Op, OpenFails(op) \/ Killed(op)
      PROVE  \A p \in Op : pc'[p] \notin InProgress
  BY <1>3, <1>4 DEF OpenFails, Killed
<1>5. ASSUME NEW op \in Op, Ending(op) \/ Put(op)
      PROVE  \A p \in Op : pc'[p] \notin InProgress
  <2>1. pc[op] \in InCallback /\ Release(op)
    BY <1>5 DEF Ending, GetRefused, Put
  <2>2. lockFile /\ pc' = [pc EXCEPT ![op] = "answered"]
    BY <1>1, <2>1 DEF Release, CloseAndAnswer, Goto
  <2> QED
    BY <1>1, <2>1, <2>2 DEF TypeOK
<1>6. ASSUME NEW op \in Op, SeesNoLock(op)
      PROVE  /\ up' /\ pc'[op] = "checked"
             /\ \A p \in Op \ {op} : pc'[p] \notin InProgress
  <2>1. pc' = [pc EXCEPT ![op] = "checked"] /\ ~lockFile /\ Turn(op) /\ up' = up
    BY <1>6 DEF SeesNoLock, Goto
  <2>2. op \in ServerOp
    BY <2>1 DEF AddIdle, TypeOK
  <2>3. up /\ \A p \in ServerOp \ {op} : pc[p] # "checked"
    BY <2>1, <2>2 DEF Turn
  <2>4. \A p \in Op \ {op} : pc[p] \notin InProgress
    BY <1>0, <1>1, <2>1, <2>3 DEF AddIdle
  <2> QED
    BY <2>1, <2>3, <2>4 DEF TypeOK
<1>7. ASSUME NEW op \in Op, TakeLock(op) \/ OpenDb(op) \/ Accepting(op) \/ Store(op)
      PROVE  /\ up' = up /\ lockFile' /\ pc[op] \in InProgress /\ pc'[op] \in InProgress
             /\ \A p \in Op \ {op} : pc'[p] = pc[p]
  BY <1>1, <1>7 DEF TakeLock, OpenDb, Accepting, GetAccepted, KeepOpen, Store, Goto, TypeOK
<1>8. ASSUME NEW op \in Op, SeesLock(op) \/ ChangeRefused(op)
      PROVE  /\ up' = up /\ lockFile' = lockFile
             /\ pc'[op] = "answered" /\ \A p \in Op \ {op} : pc'[p] = pc[p]
  BY <1>8 DEF SeesLock, ChangeRefused, Goto, TypeOK
<1>9. ASSUME \/ \E op \in Op : Closed(op) \/ SocketKilled(op)
             \/ Restart \/ UNCHANGED vars
      PROVE  pc' = pc /\ lockFile' = lockFile /\ (~up' => ~up)
  BY <1>9 DEF Closed, SocketKilled, Restart, vars
<1>10. ASSUME RemoveLock
       PROVE  pc' = pc /\ ~up /\ ~up'
  BY <1>10 DEF RemoveLock
<1>11. CASE \E op \in Op : OpenFails(op) \/ Killed(op) \/ Ending(op) \/ Put(op)
  BY <1>4, <1>5, <1>11
<1>12. CASE \E op \in Op : SeesNoLock(op)
  BY <1>6, <1>12
<1>13. CASE \E op \in Op : TakeLock(op) \/ OpenDb(op) \/ Accepting(op) \/ Store(op)
  BY <1>1, <1>7, <1>13
<1>14. CASE \E op \in Op : SeesLock(op) \/ ChangeRefused(op)
  BY <1>1, <1>8, <1>14
<1>15. CASE \/ \E op \in Op : Closed(op) \/ SocketKilled(op)
            \/ Restart \/ UNCHANGED vars \/ RemoveLock
  BY <1>1, <1>9, <1>10, <1>15
<1> QED
  BY <1>11, <1>12, <1>13, <1>14, <1>15, GetKinds DEF Next, Serve

\* Without add-user the lock excludes: the server's requests are past it one
\* at a time, and the one that is finds it there when it is done, however
\* often the server has been killed and started again before.
THEOREM LockKeptHolds == Spec => []LockKept
<1>1. Init => Alone
  BY DEF Init, Alone
<1>2. Alone => LockKept
  BY DEF Alone, AddIdle, LockKept, Inside
<1> QED
  BY <1>1, <1>2, TypeInit, TypeStep, AloneStep, PTL DEF Spec

-----------------------------------------------------------------------------
(* The atomic store.                                                       *)

\* A request at work has not been answered; only a change or an add-user
\* stores, and an add-user under the name it was given.
Asked ==
    \A op \in Op :
        /\ pc[op] \in {"idle"} \cup InProgress => reply[op] = "none"
        /\ pc[op] \in {"writing", "written"} => op \in ChangeOp \cup AddOp
        /\ op \in AddOp => named[op] /\ (pc[op] = "writing" => record[op] = user[op])

StoreInv == GuardInv /\ TruthInv /\ Asked

\* Which answers db.get may lead to.
Answering(op) ==
    \/ op \in AuthOp /\ db[user[op]] = given[op] /\ GetRefused(op, "granted")
    \/ \E what \in {"denied", "exists", "notChanged"} : GetRefused(op, what)

LEMMA GetAnswers ==
    ASSUME NEW op \in Op, Get(op)
    PROVE  Answering(op) \/ (Accepting(op) /\ op \in ChangeOp \cup AddOp)
BY DEF Get, AuthGet, ChangeGet, AddGet, Answering, Accepting

LEMMA AnsweringEnds ==
    ASSUME NEW op \in Op, Answering(op)
    PROVE  Ending(op)
BY DEF Answering, Ending

LEMMA AskedStep ==
    ASSUME TypeOK, Asked, [Next]_vars
    PROVE  Asked'
<1>1. ASSUME NEW op \in Op, SeesLock(op) \/ ChangeRefused(op)
      PROVE  Asked'
  <2>1. /\ pc'[op] = "answered" /\ UNCHANGED <<requestVars, record, named>>
        /\ \A o \in Op \ {op} : pc'[o] = pc[o] /\ reply'[o] = reply[o]
    BY <1>1 DEF SeesLock, ChangeRefused, Goto, Tell, TypeOK
  <2> QED
    BY <2>1 DEF Asked
<1>2. ASSUME NEW op \in Op, SeesNoLock(op) \/ TakeLock(op) \/ OpenDb(op) \/ Store(op)
      PROVE  Asked'
  <2>1. /\ pc[op] \in {"idle"} \cup InProgress /\ pc'[op] \in InProgress
        /\ pc'[op] # "writing" /\ (pc'[op] = "written" => pc[op] = "writing")
        /\ UNCHANGED <<requestVars, record, named, reply>>
        /\ \A o \in Op \ {op} : pc'[o] = pc[o]
    BY <1>2 DEF SeesNoLock, TakeLock, OpenDb, Store, Goto, TypeOK
  <2> QED
    BY <2>1 DEF Asked
<1>3. ASSUME NEW op \in Op, OpenFails(op) \/ Killed(op)
      PROVE  Asked'
  <2>1. /\ UNCHANGED <<requestVars, record, named, reply>>
        /\ \A o \in Op : pc'[o] = pc[o] \/ pc'[o] = "lost"
    BY <1>3, DiesEffect DEF OpenFails, Killed
  <2> QED
    BY <2>1 DEF Asked
<1>4. ASSUME NEW op \in Op, Ending(op) \/ Put(op)
      PROVE  Asked'
  <2>1. /\ pc[op] \in InProgress /\ Release(op) /\ UNCHANGED <<requestVars, record, named>>
        /\ \A o \in Op \ {op} : reply'[o] = reply[o]
    BY <1>4 DEF Ending, GetRefused, Put, Tell, TypeOK
  <2>2. /\ pc'[op] \in {"answered", "lost"}
        /\ \A o \in Op \ {op} : pc'[o] = pc[o] \/ pc'[o] = "lost"
    BY <2>1, ReleaseEffect
  <2> QED
    BY <2>1, <2>2 DEF Asked
<1>5. ASSUME NEW op \in Op, Accepting(op), op \in ChangeOp \cup AddOp
      PROVE  Asked'
  <2>1. /\ pc[op] = "reading" /\ pc'[op] = "writing"
        /\ UNCHANGED <<requestVars, named, reply>>
        /\ record' = [record EXCEPT ![op] = KeyOf(op)]
        /\ \A o \in Op \ {op} : pc'[o] = pc[o]
    BY <1>5 DEF Accepting, GetAccepted, Goto, TypeOK
  <2>2. /\ \A o \in Op \ {op} : record'[o] = record[o]
        /\ op \in AddOp => record'[op] = user[op]
    BY <2>1 DEF KeyOf, Asked, TypeOK
  <2> QED
    BY <1>5, <2>1, <2>2 DEF Asked
<1>6. ASSUME NEW op \in Op, SocketKilled(op)
      PROVE  Asked'
  <2>1. /\ UNCHANGED <<pc, requestVars, record, reply>>
        /\ op \notin AddOp /\ \A o \in Op \ {op} : named'[o] = named[o]
    BY <1>6, AccountsAssumption DEF SocketKilled, TypeOK
  <2> QED
    BY <2>1 DEF Asked
<1>7. ASSUME \/ \E op \in Op : Closed(op)
             \/ Restart \/ RemoveLock \/ UNCHANGED vars
      PROVE  Asked'
  BY <1>7 DEF Closed, Restart, RemoveLock, vars, Asked
<1> QED
  BY <1>1, <1>2, <1>3, <1>4, <1>5, <1>6, <1>7, GetAnswers, AnsweringEnds DEF Next, Serve

\* The steps that show on the abstract store, one by one.
LEMMA TellingIsAnswer ==
    ASSUME TypeOK, Asked, NEW op \in Op, pc[op] \in {"idle"} \cup InProgress,
           NEW what \in Replies \ {"none"}, Tell(op, what),
           UNCHANGED <<requestVars, db, historyVars>>
    PROVE  /\ what \in {"granted", "changed", "added"} /\ (op \in AuthOp => db[user[op]] = given[op])
                /\ (op \notin AuthOp => op \in storedOps)
              => Atomic!Grant(op)
           /\ what \notin {"granted", "changed", "added"} /\ op \notin storedOps
              => Atomic!Refuse(op)
<1> DEFINE accounts == [u \in User |-> db[u]]
           said == IF what \in {"granted", "changed", "added"} THEN "yes" ELSE "no"
<1>1. reply' = [reply EXCEPT ![op] = what] /\ reply[op] = "none" /\ reply \in [Op -> Replies]
  BY DEF Tell, Asked, TypeOK, Replies
<1>2. Answer[op] = "none" /\ Answer' = [Answer EXCEPT ![op] = said]
  BY <1>1 DEF Answer
<1>3. accounts' = accounts /\ accounts[user[op]] = db[user[op]]
  BY DEF TypeOK
<1>4. UNCHANGED <<user, given, chosen, misread, storedOps>>
  OBVIOUS
<1>5. ASSUME what \in {"granted", "changed", "added"}, op \in AuthOp => db[user[op]] = given[op],
             op \notin AuthOp => op \in storedOps
      PROVE  Atomic!Grant(op)
  BY <1>2, <1>3, <1>4, <1>5 DEF Atomic!Grant
<1>6. ASSUME what \notin {"granted", "changed", "added"}, op \notin storedOps
      PROVE  Atomic!Refuse(op)
  BY <1>2, <1>3, <1>4, <1>6 DEF Atomic!Refuse
<1> QED
  BY <1>5, <1>6

LEMMA StoreIsReplace ==
    ASSUME TypeOK, StoreInv, NEW op \in Op, Store(op)
    PROVE  Atomic!Replace(op) \/ Atomic!Misplace(op)
<1> DEFINE accounts == [u \in User |-> db[u]]
<1>1. /\ pc[op] = "writing" /\ db' = [db EXCEPT ![record[op]] = chosen[op]]
      /\ storedOps' = storedOps \cup {op}
      /\ UNCHANGED <<requestVars, reply, misread>>
  BY DEF Store
<1>2. Compared(op) /\ Answer[op] = "none" /\ op \notin storedOps
      /\ (op \in AddOp => record[op] = user[op])
  BY <1>1 DEF StoreInv, GuardInv, TruthInv, StoredFits, Asked, Answer
<1>3. Answer' = Answer /\ accounts[user[op]] = db[user[op]] /\ user[op] \in User
  BY <1>1 DEF Answer, TypeOK
<1>4. Atomic!Entitled(op)
  BY <1>2, <1>3 DEF Atomic!Entitled, Compared
<1>5. CASE record[op] = user[op]
  <2>1. accounts' = [accounts EXCEPT ![user[op]] = chosen[op]]
    BY <1>1, <1>5 DEF TypeOK, Record
  <2> QED
    BY <1>1, <1>3, <1>4, <2>1 DEF Atomic!Replace
<1>6. CASE record[op] = FalseName /\ record[op] # user[op]
  <2>1. accounts' = accounts
    BY <1>1, <1>6, AccountsAssumption DEF TypeOK, Record
  <2>2. op \in ChangeOp
    BY <1>2, <1>6 DEF Compared
  <2> QED
    BY <1>1, <1>3, <1>4, <2>1, <2>2 DEF Atomic!Misplace
<1> QED
  BY <1>2, <1>5, <1>6 DEF Compared

LEMMA StoreStep ==
    ASSUME TypeOK, StoreInv, [Next]_vars
    PROVE  [Atomic!Next]_(Atomic!vars)
<1> DEFINE Shows(op) == \/ Atomic!Replace(op) \/ Atomic!Misplace(op) \/ Atomic!Mislead(op)
                        \/ Atomic!Grant(op) \/ Atomic!Refuse(op)
<1>0. ASSUME UNCHANGED <<requestVars, db, historyVars, reply>>
      PROVE  UNCHANGED Atomic!vars
  BY <1>0 DEF Atomic!vars, Answer
<1>1. ASSUME NEW op \in Op, SeesLock(op) \/ ChangeRefused(op)
      PROVE  Atomic!Refuse(op)
  <2>1. PICK what \in {"denied", "notChanged", "locked"} : Tell(op, what)
    BY <1>1 DEF SeesLock, ChangeRefused
  <2>2. /\ pc[op] = "idle" /\ UNCHANGED <<requestVars, db, historyVars>>
        /\ op \notin storedOps
    BY <1>1 DEF SeesLock, ChangeRefused, StoreInv, TruthInv, StoredFits
  <2> QED
    BY <2>1, <2>2, TellingIsAnswer DEF StoreInv, Replies
<1>2. ASSUME NEW op \in Op, Answering(op)
      PROVE  Shows(op) \/ UNCHANGED Atomic!vars
  <2>1. /\ pc[op] = "reading" /\ UNCHANGED <<requestVars, db, historyVars>>
        /\ op \notin storedOps
    BY <1>2 DEF Answering, GetRefused, StoreInv, TruthInv, StoredFits
  <2>2. ASSUME op \in AuthOp, db[user[op]] = given[op], Tell(op, "granted")
        PROVE  Atomic!Grant(op)
    BY <2>1, <2>2, TellingIsAnswer DEF StoreInv, Replies
  <2>3. ASSUME NEW what \in {"denied", "exists", "notChanged"}, Tell(op, what)
        PROVE  Atomic!Refuse(op)
    BY <2>1, <2>3, TellingIsAnswer DEF StoreInv, Replies
  <2> QED
    BY <1>0, <1>2, <2>1, <2>2, <2>3 DEF Answering, GetRefused
<1>3. ASSUME NEW op \in Op, Put(op)
      PROVE  Shows(op) \/ UNCHANGED Atomic!vars
  <2>1. /\ pc[op] \in {"writing", "written"} /\ UNCHANGED <<requestVars, db, historyVars>>
        /\ Tell(op, Outcome(op)) \/ UNCHANGED reply
    BY <1>3 DEF Put
  <2>2. op \in ChangeOp \cup AddOp /\ op \notin AuthOp
        /\ (op \in storedOps <=> pc[op] = "written")
    BY <2>1, AccountsAssumption DEF StoreInv, TruthInv, StoredFits, Asked
  <2>3. Outcome(op) \in Replies \ {"none"}
        /\ (Outcome(op) \in {"granted", "changed", "added"} <=> pc[op] = "written")
    BY <2>1 DEF Outcome, Replies
  <2>4. ASSUME Tell(op, Outcome(op))
        PROVE  Atomic!Grant(op) \/ Atomic!Refuse(op)
    BY <2>1, <2>2, <2>3, <2>4, TellingIsAnswer DEF StoreInv
  <2> QED
    BY <1>0, <2>1, <2>4
<1>4. ASSUME NEW op \in Op, Accepting(op)
      PROVE  Shows(op) \/ UNCHANGED Atomic!vars
  <2>1. /\ pc[op] = "reading" /\ UNCHANGED <<requestVars, db, reply, storedOps>>
        /\ misread' = misread \/ (op \in AddOp /\ misread' = misread \cup {op})
    BY <1>4 DEF Accepting, GetAccepted
  <2>2. Answer[op] = "none" /\ op \notin storedOps /\ Answer' = Answer
    BY <2>1 DEF StoreInv, TruthInv, StoredFits, Asked, Answer
  <2> QED
    BY <1>0, <2>1, <2>2 DEF Atomic!Mislead
<1>5. ASSUME NEW op \in Op, Store(op)
      PROVE  Shows(op)
  BY <1>5, StoreIsReplace
<1>6. ASSUME \/ \E op \in Op : \/ SeesNoLock(op) \/ TakeLock(op) \/ OpenDb(op) \/ OpenFails(op)
                               \/ Killed(op) \/ Closed(op) \/ SocketKilled(op)
             \/ Restart \/ RemoveLock \/ UNCHANGED vars
      PROVE  UNCHANGED Atomic!vars
  BY <1>0, <1>6 DEF SeesNoLock, TakeLock, OpenDb, OpenFails, Killed, Closed, SocketKilled,
                    Restart, RemoveLock, vars
<1>7. (\E op \in Op : Shows(op)) => Atomic!Next
  BY DEF Atomic!Next, Atomic!Request
<1> HIDE DEF Shows
<1> QED
  BY <1>1, <1>2, <1>3, <1>4, <1>5, <1>6, <1>7, GetAnswers DEF Next, Serve, Shows

\* The two programs implement PasswordStore: whoever is answered, or has a
\* password stored, meets a store in which that happened in one step.
THEOREM ImplementsPasswordStore == Spec => IsPasswordStore
<1>1. Init => StoreInv
  BY DEF Init, StoreInv, GuardInv, HandlesFit, OneHandle, TruthInv, StoredFits,
         AnsweredTruthfully, Asked
<1>2. TypeOK /\ StoreInv /\ [Next]_vars => StoreInv'
  BY GuardStep, TruthStep, AskedStep DEF StoreInv
<1>3. Init => Atomic!Init
  <2> SUFFICES ASSUME Init PROVE Atomic!Init
    OBVIOUS
  <2>1. [u \in User |-> db[u]] \in [User -> Password \cup {NoPassword}]
    BY DEF Init, Record
  <2>2. Answer = [r \in Op |-> "none"]
    BY DEF Init, Answer
  <2> QED
    BY <2>1, <2>2 DEF Init, Atomic!Init, Atomic!Request
<1>4. TypeOK /\ StoreInv /\ [Next]_vars => [Atomic!Next]_(Atomic!vars)
  BY StoreStep
<1> QED
  BY <1>1, <1>2, <1>3, <1>4, TypeInit, TypeStep, PTL DEF Spec, IsPasswordStore, Atomic!Spec

=============================================================================
