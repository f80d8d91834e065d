------------------------------ MODULE Accounts ------------------------------
(***************************************************************************)
(* The password database and its lock file, shared by two programs:        *)
(* server.js (auth() and changePassword(), many requests in one process)   *)
(* and add-user.js (one request, a process of its own).                    *)
(*                                                                         *)
(* A request is cut where another actor can come in: between the two       *)
(* system calls that look for the lock file and create it (another         *)
(* process), and at every LevelDB callback (another handler of the server  *)
(* too).  LevelDB is external: a store has one user at a time, a second    *)
(* open fails, close() finishes later; levelup throws when there is no     *)
(* callback to give the error to, and the process dies.                    *)
(***************************************************************************)
EXTENDS Naturals, FiniteSets

CONSTANTS
    AuthOp, ChangeOp, AddOp,   \* requests, by the code that serves them
    User,                      \* user names
    FalseName,                 \* 'false', the key levelup makes of the value false
    Password,                  \* passwords of legal length
    NoPassword,                \* no record under a key
    Faults                     \* may LevelDB answer a get or put with an I/O error

ServerOp == AuthOp \cup ChangeOp
Op       == ServerOp \cup AddOp
Record   == User \cup {FalseName}

ASSUME AccountsAssumption ==
    /\ AuthOp \cap ChangeOp = {} /\ ServerOp \cap AddOp = {}
    /\ FalseName \notin User
    /\ NoPassword \notin Password
    /\ Faults \in BOOLEAN

VARIABLES
    pc,        \* per request, where it is
    user,      \* the user name it is about
    given,     \* the password it shows: msg.password, msg.current
    chosen,    \* the password to be stored
    record,    \* the key db.put was called with
    named,     \* socket.username is still the user's (it is false after kill)
    reply,     \* what the requester has been told
    handle,    \* its LevelDB handle: "none", "held" or "closing"
    lockFile,  \* auth.lock exists
    db,        \* the stored passwords (their hashes)
    up,        \* the server runs
    storedOps, \* history: requests whose put has reached the store
    misread    \* history: add-users whose db.get has failed

requestVars == <<user, given, chosen>>
historyVars == <<storedOps, misread>>
vars == <<pc, requestVars, record, named, reply, handle, lockFile, db, up,
          historyVars>>

InCallback == {"opening", "reading", "writing", "written"}
InProgress == {"checked"} \cup InCallback

-----------------------------------------------------------------------------
Init ==
    /\ pc = [op \in Op |-> "idle"]
    /\ user \in [Op -> User]
    /\ given \in [Op -> Password]
    /\ chosen \in [Op -> Password]
    /\ record = user
    /\ named = [op \in Op |-> TRUE]
    /\ reply = [op \in Op |-> "none"]
    /\ handle = [op \in Op |-> "none"]
    /\ lockFile = FALSE
    /\ db \in [Record -> Password \cup {NoPassword}] /\ db[FalseName] = NoPassword
    /\ up = TRUE
    /\ storedOps = {} /\ misread = {}

\* The server's handlers run one at a time, and only while it is up; the
\* handler of a request at "checked" is still running.
Turn(op) ==
    op \in ServerOp => up /\ \A other \in ServerOp \ {op} : pc[other] # "checked"

Goto(op, label) == pc' = [pc EXCEPT ![op] = label]
Tell(op, what)  == reply' = [reply EXCEPT ![op] = what]

\* changePassword() on a malformed request or a password that is too short.
ChangeRefused(op) ==
    /\ pc[op] = "idle" /\ op \in ChangeOp /\ Turn(op)
    /\ Goto(op, "answered")
    /\ Tell(op, "notChanged")
    /\ UNCHANGED <<requestVars, record, named, handle, lockFile, db, up, historyVars>>

\* fs.existsSync(DB_LOCK_FILE) finds the lock.
SeesLock(op) ==
    /\ pc[op] = "idle" /\ Turn(op) /\ lockFile
    /\ Goto(op, "answered")
    /\ Tell(op, IF op \in AuthOp THEN "denied"
                ELSE IF op \in ChangeOp THEN "notChanged"
                ELSE "locked")
    /\ UNCHANGED <<requestVars, record, named, handle, lockFile, db, up, historyVars>>

\* ... or does not.
SeesNoLock(op) ==
    /\ pc[op] = "idle" /\ Turn(op) /\ ~lockFile
    /\ Goto(op, "checked")
    /\ UNCHANGED <<requestVars, record, named, reply, handle, lockFile, db, up, historyVars>>

\* fs.openSync(DB_LOCK_FILE, 'w'), which succeeds if the file exists, and
\* levelup('./auth.db').
TakeLock(op) ==
    /\ pc[op] = "checked"
    /\ lockFile' = TRUE
    /\ Goto(op, "opening")
    /\ UNCHANGED <<requestVars, record, named, reply, handle, db, up, historyVars>>

\* LevelDB opens the store: nobody has it open.
OpenDb(op) ==
    /\ pc[op] = "opening"
    /\ \A other \in Op : handle[other] = "none"
    /\ handle' = [handle EXCEPT ![op] = "held"]
    /\ Goto(op, "reading")
    /\ UNCHANGED <<requestVars, record, named, reply, lockFile, db, up, historyVars>>

\* The process serving op is gone; the kernel releases its LevelDB handles,
\* nobody releases the lock file.
Dies(op) ==
    LET dead == IF op \in ServerOp THEN ServerOp ELSE {op}
    IN  /\ pc' = [o \in Op |-> IF o \in dead /\ pc[o] \in InProgress THEN "lost" ELSE pc[o]]
        /\ handle' = [o \in Op |-> IF o \in dead THEN "none" ELSE handle[o]]
        /\ up' = (up /\ op \notin ServerOp)

\* Somebody has it open, or has not finished closing it.
OpenFails(op) ==
    /\ pc[op] = "opening"
    /\ \E other \in Op : handle[other] # "none"
    /\ Dies(op)
    /\ UNCHANGED <<requestVars, record, named, reply, lockFile, db, historyVars>>

\* db.close(); fs.unlinkSync(DB_LOCK_FILE), which throws if the file is gone.
CloseAndAnswer(op) ==
    /\ handle' = [handle EXCEPT ![op] = "closing"]
    /\ Goto(op, "answered")
    /\ UNCHANGED up
ReleaseLeaking(op) ==    \* a mutant: no unlinkSync
    CloseAndAnswer(op) /\ UNCHANGED lockFile
ReleaseSwallowed(op) ==  \* a mutant: the exception is caught and dropped
    IF lockFile THEN CloseAndAnswer(op) /\ lockFile' = FALSE
                ELSE UNCHANGED <<pc, handle, up, lockFile>>
Release(op) ==
    IF lockFile THEN CloseAndAnswer(op) /\ lockFile' = FALSE
                ELSE Dies(op) /\ UNCHANGED lockFile

\* The callback of db.get finds no reason to go on.  auth() answers after
\* unlinkSync, the others before it.
GetRefused(op, what) ==
    /\ pc[op] = "reading" /\ Turn(op)
    /\ Release(op)
    /\ IF lockFile \/ op \notin AuthOp THEN Tell(op, what) ELSE UNCHANGED reply
    /\ UNCHANGED <<requestVars, record, named, db, historyVars>>

\* What is kept open while db.put runs.
KeepNothing(op) ==   \* a mutant: closed and unlocked first, as auth() does
    lockFile' = FALSE /\ handle' = [handle EXCEPT ![op] = "closing"]
KeepOpen(op) == UNCHANGED <<lockFile, handle>>

\* The key db.put is called with; socket.username is read only now.
KeySwapped(op) == chosen[op]   \* a mutant: the arguments swapped
KeyOf(op)      == IF named[op] THEN user[op] ELSE FalseName

\* It calls db.put.
GetAccepted(op) ==
    /\ pc[op] = "reading" /\ Turn(op)
    /\ record' = [record EXCEPT ![op] = KeyOf(op)]
    /\ Goto(op, "writing")
    /\ KeepOpen(op)
    /\ UNCHANGED <<requestVars, named, reply, db, up, storedOps>>

AuthGet(op) ==
    op \in AuthOp /\
    \/ db[user[op]] = given[op] /\ GetRefused(op, "granted")
    \/ (db[user[op]] # given[op] \/ Faults) /\ GetRefused(op, "denied")

ChangeGet(op) ==
    op \in ChangeOp /\
    \/ (db[user[op]] # given[op] \/ Faults) /\ GetRefused(op, "notChanged")
    \/ db[user[op]] = given[op] /\ GetAccepted(op) /\ UNCHANGED misread

\* add-user.js looks at the value only: an I/O error is 'no such user'.
AddGet(op) ==
    op \in AddOp /\
    \/ db[user[op]] # NoPassword /\ GetRefused(op, "exists")
    \/ db[user[op]] = NoPassword /\ GetAccepted(op) /\ UNCHANGED misread
    \/ Faults /\ GetAccepted(op) /\ misread' = misread \cup {op}

Get(op) == AuthGet(op) \/ ChangeGet(op) \/ AddGet(op)

\* The put reaches the store.
Store(op) ==
    /\ pc[op] = "writing"
    /\ db' = [db EXCEPT ![record[op]] = chosen[op]]
    /\ storedOps' = storedOps \cup {op}
    /\ Goto(op, "written")
    /\ UNCHANGED <<requestVars, record, named, reply, handle, lockFile, up, misread>>

\* What the callback of db.put tells the requester.
OutcomeUnchecked(op) ==   \* a mutant: err is not looked at
    IF op \in ChangeOp THEN "changed" ELSE "added"
Outcome(op) ==
    IF pc[op] = "written"
    THEN IF op \in ChangeOp THEN "changed" ELSE "added"
    ELSE IF op \in ChangeOp THEN "notChanged" ELSE "ioError"

\* The callback of db.put, with or without an error.
Put(op) ==
    /\ pc[op] = "written" \/ (pc[op] = "writing" /\ Faults)
    /\ Turn(op)
    /\ Release(op)
    /\ IF lockFile THEN Tell(op, Outcome(op)) ELSE UNCHANGED reply
    /\ UNCHANGED <<requestVars, record, named, db, historyVars>>

\* LevelDB has finished close().
Closed(op) ==
    /\ handle[op] = "closing"
    /\ handle' = [handle EXCEPT ![op] = "none"]
    /\ UNCHANGED <<pc, requestVars, record, named, reply, lockFile, db, up, historyVars>>

-----------------------------------------------------------------------------
\* kill() of the socket a password change came from; in between handlers.
SocketKilled(op) ==
    /\ op \in ChangeOp /\ named[op] /\ pc[op] \in InCallback /\ Turn(op)
    /\ named' = [named EXCEPT ![op] = FALSE]
    /\ UNCHANGED <<pc, requestVars, record, reply, handle, lockFile, db, up, historyVars>>

\* The server or an add-user process is killed from outside.
Killed(op) ==
    /\ pc[op] \in InProgress
    /\ Dies(op)
    /\ UNCHANGED <<requestVars, record, named, reply, lockFile, db, historyVars>>

\* The operator restarts the server ...
Restart ==
    /\ ~up /\ up' = TRUE
    /\ UNCHANGED <<pc, requestVars, record, named, reply, handle, lockFile, db, historyVars>>

\* ... or removes the lock, the server not running.
RemoveLock ==
    /\ ~up /\ lockFile
    /\ lockFile' = FALSE
    /\ UNCHANGED <<pc, requestVars, record, named, reply, handle, db, up, historyVars>>

Serve(op) ==
    \/ SeesLock(op) \/ SeesNoLock(op) \/ TakeLock(op) \/ OpenDb(op)
    \/ OpenFails(op) \/ Get(op) \/ Store(op) \/ Put(op) \/ Closed(op)

Next ==
    \/ \E op \in Op : Serve(op) \/ ChangeRefused(op) \/ SocketKilled(op) \/ Killed(op)
    \/ Restart \/ RemoveLock

Spec == Init /\ [][Next]_vars

\* Handlers that have begun are finished and callbacks are called.  Nobody
\* has to make a request, restart the server or remove the lock.
FairSpec ==
    Spec /\ \A op \in Op :
        /\ WF_vars(TakeLock(op)) /\ WF_vars(OpenDb(op)) /\ WF_vars(OpenFails(op))
        /\ WF_vars(Get(op)) /\ WF_vars(Store(op)) /\ WF_vars(Put(op))
        /\ WF_vars(Closed(op))

-----------------------------------------------------------------------------
(* Properties.                                                             *)

\* The types of the variables.
TypeOK ==
    /\ pc \in [Op -> {"idle", "answered", "lost"} \cup InProgress]
    /\ user \in [Op -> User] /\ given \in [Op -> Password] /\ chosen \in [Op -> Password]
    /\ record \in [Op -> Record]
    /\ named \in [Op -> BOOLEAN]
    /\ reply \in [Op -> {"none", "granted", "denied", "locked", "exists", "added",
                         "ioError", "changed", "notChanged"}]
    /\ handle \in [Op -> {"none", "held", "closing"}]
    /\ lockFile \in BOOLEAN /\ up \in BOOLEAN
    /\ db \in [Record -> Password \cup {NoPassword}]
    /\ storedOps \subseteq Op /\ misread \subseteq AddOp

\* An account that exists changes only to the password of a request that
\* showed the old one, and one that does not only by add-user (whose look-up
\* did not fail): whatever crashes, however the two programs interleave, and
\* though the lock file does not exclude them.  Nobody may write between the
\* comparison and the put.
PasswordsGuarded ==
    [][\A u \in User : db'[u] # db[u] =>
          \E op \in Op :
              /\ record[op] = u /\ db'[u] = chosen[op]
              /\ \/ op \in AddOp /\ (db[u] = NoPassword \/ op \in misread)
                 \/ op \in ChangeOp /\ user[op] = u /\ given[op] = db[u]]_vars

\* A lock without an owner means that some process died with it: no path of
\* the code, error paths included, leaves it behind (it would lock everybody
\* out, restarts included).
Inside == {op \in Op : pc[op] \in InCallback}
LockNotLeaked == lockFile => Inside # {} \/ \E op \in Op : pc[op] = "lost"

\* The requester is told that the password was changed (the user was added)
\* exactly when a password was stored, though a put may fail.
AnsweredTruthfully ==
    \A op \in ChangeOp \cup AddOp : pc[op] = "answered" =>
        (op \in storedOps <=> reply[op] \in {"changed", "added"})

\* Seen by those who make the requests the two programs are one atomic store:
\* each password changes at one moment, against the one that is stored then,
\* and the answers are true - though get and put are two calls, both may fail,
\* processes die in between and the lock does not keep the programs apart.
Answer == [op \in Op |-> IF reply[op] = "none" THEN "none"
                         ELSE IF reply[op] \in {"granted", "changed", "added"} THEN "yes"
                         ELSE "no"]
Atomic == INSTANCE PasswordStore
            WITH Login <- AuthOp, Change <- ChangeOp, Add <- AddOp,
                 accounts <- [u \in User |-> db[u]], misled <- misread,
                 stored <- storedOps, answer <- Answer
IsPasswordStore == Atomic!Spec

\* As long as add-user has not been started the lock is what it looks like,
\* though it is looked for and created in two calls: one request at a time is
\* past it, and finds it still there when it unlocks (unlinkSync would throw),
\* whatever was killed, restarted or removed by hand before.
LockKept ==
    (\A op \in AddOp : pc[op] = "idle") =>
        /\ \A p, q \in Inside : p = q
        /\ Inside # {} => lockFile

\* A request that has begun is answered, unless its process dies.
Answered ==
    \A op \in Op : pc[op] \in InProgress ~> pc[op] \in {"answered", "lost"}

\* add-user.js:26 says 'Database locked. Try later': one request at a time
\* is past the lock.
OneInside == Cardinality(Inside) <= 1

\* docs/PROTOCOL.md:23 calls the password sent 'your new password': a change
\* writes no record but that of the user who asked for it.
OnlyOwnRecord ==
    \A op \in ChangeOp : op \in storedOps => record[op] = user[op]

=============================================================================
