# ssh-bbs in TLA+

A verification development for ssh-bbs: TLA+ modules translated from the
source, TLC runs that check them on small instances, and TLAPS proofs for every
value of the constants.  `PROJECT.json` lists the components, the runs, the
mutant of every property, the source lines of every definition, the findings,
the hazards and the theorems.

    tlc -workers 2 -config ChatServer.cfg MCChatServer     # a run: cfg, module
    tlapm ChatServerProofs.tla                             # the proofs

## The system

    ssh client == ssh ==> gateway (C, one process per session)
                            | getkey: {"type":"auth"...}  -> 64-byte key
                            | fork/exec node bbs.js <key> on a pty
                            v
                          bbs.js  -- JSON lines over TCP --> server.js
                                                               |  auth.db, auth.lock
                          add-user.js -------------------------+

| part | state | operations | what is hard |
|---|---|---|---|
| session layer, `server.js` | `clients`, `keys`, the flags of every socket, the key timers | connect, key logon, auth, chat commands, kill, timer | one handler at a time, but logons, kills and timers in any order; `kill` runs more than once on a socket; lines are handled after the socket has been destroyed; LevelDB answers late; a name has several connections |
| chat client, `bbs.js`, `client/*.js` | user list on the screen, `app.username` | start, read, type, quit, die | refreshes only on `join`/`quit`; streams in both directions; a process may die without a word |
| accounts, `server.js` and `add-user.js` | `auth.db` (LevelDB), `auth.lock` | auth, change password, add user | two programs; the lock is tested and made in two calls; values read after an asynchronous call; errors ignored; a crash leaves the lock |
| boards, `server.js` and `client/boards.js` | `threads`, `nextThreadID`, the list shown | threads, thread, new, delete, post | replies are copies and age; time passes between the sort and the label; NaN |
| gateway session, `src/gateway.c` | loop position, channel, child, terminals | login loop, callbacks, session loop, clean-up | packets in bursts, child and connection end in any order, a fork that fails |
| gateway main program, `src/gateway.c` | the listening socket, its children | check arguments, listen, accept, fork, SIGCHLD | several children end under one signal; stopped and started again while sessions go on; an address as long as its buffer |
| login from end to end | the attempt, the key, the lock | getkey, auth, key to `bbs.js`, logon | two logins at once, a lock that others hold, take away or leave behind, text that is no JSON, a key in pieces |
| framing, `server.js`, `client.js` | none (each chunk is split by itself) | split | a message in two chunks; the two sides answer a torn line differently |
| widgets | drawing | - | - |

Everything the modules say of LevelDB, libssh, TCP and node is external: it is
modelled from how the code uses it, and marked so in the map.

## Modules

**ChatServer** is the session layer of `server.js`.  `clients` is the array,
`keys` the table, `conn`, `authenticated`, `username` and `sockKey` the socket's
own fields, `keyTimers` the pending `setTimeout`s, `toClient` what was written
to a socket and not yet read, `pending` the one request LevelDB may be working
on.  One action per handler: `Logon`, `LogonLate`, `KeyRefused`, `OnAuth` and
`NotLoggedOn` are the branches of `handleNew`, `OnUsers` ... `OnPassword` those
of `handleMessage`, `Kill` is `kill` with everything it calls (`OnQuit`,
`OnEnd`, `OnError` and `OnMalformed` lead to it), `AuthEnds` and `PasswordEnds`
the callbacks of LevelDB, `IssueKey` the success of `auth()` for the gateway,
`KeyTimeout` its timer.

Any connection may send any line at any time.  The data loop
(`server.js:353-368`) goes on with the lines of a chunk after `kill()` or
`destroy()`, and the handlers ask for `authenticated` only, so the guards of
lines are `conn # "new"`, never `conn = "open"`: a key line behind a malformed
one makes the destroyed socket a member.  Such a **ghost** is in the array
without a connection.  What the write of its welcome does is node's: nothing,
an 'error' later (`OnError`), or an 'error' at once, in the middle of
`handleNew` (`LogonLate`); the model has all three.  A request of `auth` or
`password` may be answered when its socket has been destroyed or has logged on
meanwhile.  `FixedKey` are the keys that always log on: `debug`, which the code
puts into the table itself, and the names that `in` finds in every object, such
as `constructor`.  `issuedTo` and `usedBy` are history.  A generated key never
repeats (16 random numbers).

**ChatSystem** composes it with the `bbs.js` processes: `toServer` and
`toClient` are the two streams of each connection, whole messages in order.
`Hello` is what the 'connect' handler writes, `ClientReceive` is
`handleMessage` of `client.js`, `ClientTypes` the command line with `/passwd`,
`ClientQuits`/`ClientExits` the two halves of quitting (the process exits when
the write has been flushed), `ClientDies` a kill by the gateway.
`ServerReceive` dispatches the head of a stream to the handlers of ChatServer,
keeping or dropping what is behind a line that destroyed the socket,
`ServerAnswers` is LevelDB's answer to a change of password, whatever its client
has done since, `ServerEnd` sees the end of a stream it has read, `ServerError`
a reset, which loses the rest.  `heard` is history: the members at logon, corrected by each
announcement the client reads.

**Accounts** is the password database as both programs use it.  Requests are
constants (logins, password changes, add-users) and are cut where another actor
can come in: `SeesNoLock` / `TakeLock` between the two system calls on the lock,
then at each LevelDB callback.  `Turn` makes the server's handlers atomic among
themselves.  `Dies` is the end of a process - killed, or by an exception: a
second `open` of the store, or `unlinkSync` of a lock somebody else removed -
after which the kernel closes LevelDB and the lock stays.  `Restart` and
`RemoveLock` are the operator.  `storedOps` and `misread` are history: the
requests whose put has reached the store, and the add-users whose look-up has
failed.

**Boards** is the bulletin board: the five commands, the ids that count up, the
sort with its clock (any order among equals; no order at all when a time to live
is NaN), the copies on their way to clients, and on the client's side the list of
topics and the colour of the label.

**Gateway** is one session process of `gateway.c`.  A call of
`ssh_event_dopoll` is a phase (`login poll`, `session poll`) in which callbacks
run, up to `MaxBurst` of them; `LoginLoop`, `LoginPollEnds`, `SessionPollEnds`
and `Cleanup` are the code between the calls.  `pid`, `child`, the terminals and
the channel that is closed are kept as the code keeps them, -1 included: a
failed fork makes `waitpid` and `kill` mean something else.  Of the sizes it
keeps which terminal has the size the client said last (`fitting`).

**Listener** is the main program: arguments, `ssh_bind_listen`, one fork per
connection, `sigchld_handler`.  A process that has just been forked still has
the listening socket; a pending SIGCHLD is a flag, not a count.

**Sessions** puts a login together from end to end, on top of Listener: each
ssh connection is a session with the states of Shell, `talk` is the connection
of its `getkey()` to the server, `AuthBegins` and `AuthEnds` are the two
callbacks of `auth()` around `db.get`, `GotKey` and `GotLess` what `recvfrom`
may return, `ShowKey` is `handleNew` with the key.  The server's keys and
members are a Membership, so what is proved of Membership holds of ChatServer
too.

`getkey` copies the name and the password into JSON as they are.  `Ask` has the
user and the right or wrong password *as the server reads them*, which is what
was typed if the text is plain and anything otherwise; `AuthGarbled` is text the
server cannot read, or reads as a line that asks for something else (getkey's own
connection logs on with a fixed key), or as a whole request with more lines
behind it, so that getkey has its answer while `auth()` goes on (`other =
"late"`).  `AskIllegal` is a name or password of a length that is not sent,
right though it may be.  `unread` marks both.

The lock keeps nobody out who looks before it is made and makes it after:
`OtherLocks`, a password change or `add-user.js`, is two steps, and the second
succeeds on a lock that exists.  So another program may be inside together with
`auth()`, `OtherEnds` may remove the lock under it, and `AuthThrows` is the
exception `auth()` meets then.  `Dies` forgets keys, timers and members and
leaves the lock; `Restart` may find it removed by hand.  `disturbed` is history:
somebody else took part in the present attempt, or something broke.

**Framing** is one connection below the level of messages.  A message is three
units - its JSON in two halves and the newline - and a chunk is any stretch of
the stream.  Each side splits the chunk it has by itself and takes one line a
step; `Whole`, `Blank` and `Torn` say what the line is.  The server kills on a
torn line, the client logs it and goes on.  Of the chat it keeps what the list
of users depends on, the number of members.

### What they promise: the abstract specifications

* **Membership**: a key is a ticket for one use under the name of its user, and
  only its own timer takes it back; a connection is out, in, then gone.  It does
  not promise that whoever is gone stays gone: a gone connection that shows a
  ticket, or a member whose connection `auth()`'s answer destroys, is a ghost.
  ChatServer implements it (`IsMembership`): `Logon` and `LogonLate` are `Join`
  or, with a fixed key, `JoinFixed`, `Kill` is `Leave`, `Destroy` is `Sever`, a
  key issued `Issue`, the timer `Expire` or nothing.
* **Shell**: a session is at its login, open or gone, and has one `bbs.js` at
  most.  Gateway implements it (`IsShell`).
* **PasswordStore**: a password changes in one step, at a moment between the
  request and its answer, only against the old one, and the answer is true.
  Accounts implements it (`IsPasswordStore`): the put is `Replace`, or `Misplace`
  when the user has left meanwhile, the reply `Grant` or `Refuse`, a look-up of
  `add-user.js` that fails `Mislead`; `auth.lock` has no counterpart.
* **Stream**: messages are met in order, each handled or lost; a reader that is
  not tolerant ends with its first loss.  Framing implements it twice, with
  `Tolerant` false upwards and true downwards (`AreStreams`).

Sessions uses Membership and Shell for the parts it does not detail.  That it
uses Shell rightly - each of its sessions takes Shell's steps and no others - is
`EachIsShell`, which is proved.
ChatSystem's streams of whole messages are a Stream without losses: it shows
what the chat does when no message is torn, Framing what a tear changes.

**...Proofs** hold the theorems; **MC...** give the constants values.  Operators
marked as mutants are plausible mistakes; each property is shown to fail when
its mutant takes the place of the definition after it.

## Runs

| run | instance | what it shows |
|---|---|---|
| `chat_server` | 3 sockets, 2 keys, 2 fixed keys, 2 users, backlog 1 (0.7M states) | `ClientsAgree`: array and flags tell one story though `kill` repeats and keys come after it; `LogonIdentity`: a key logs one socket on, as the user it was made for; `KeyWindowHonoured`: nobody else's logon, quit or timer takes an unused key away; `IsMembership` |
| `chat_system` | 2 processes, 2 keys, 2 users, 1 command each (3.5M) | `ViewsCurrent`: the list is right or will be refreshed; `AnnouncementsBalance`: joins and quits account for every change; `FirstMessageIsUser`; `NoGhosts`: clients that are `bbs.js` make no ghosts |
| `chat_system_live` | the same without typing, one user (78k) | `ViewsSettle`, `DeadClientsLeave`, `StartedIsDecided` |
| `accounts` | 2 changes, 1 add-user, 2 accounts, I/O errors (3.7M) | `PasswordsGuarded`: no account changes without its password, in spite of everything; `LockKept`: until add-user comes the lock is what it looks like |
| `accounts_live` | 1 login, 1 change, 1 add-user, 1 account, I/O errors (0.5M) | `LockNotLeaked`: only a death leaves the lock; `IsPasswordStore`: from outside an atomic store that tells the truth; `Answered` |
| `boards` | 2 users, 2 threads, 2 posts, 2 instants (5.1M) | `PickedIsShown`, `CopiesAreBeginnings`, `MostUrgentFirst` |
| `gateway` | 2 channels, 2 terminals, bursts of 3 (0.5M) | `ExitStatusTrue`, `ChildKept`, `SessionEnds`; `ChildFits`: the child's terminal has the window's size; `IsShell`: one `bbs.js` at most, none left behind |
| `sessions` | 2 ssh connections, 2 keys, 2 users, 2 attempts of one and 1 of the other (0.8M) | `OwnName`: whoever is in has shown the password of the user the server read; `HeldKeyGood`: the key a session holds works in time; `AloneAdmitted`: a right password is refused only when somebody else or a fault came in between, or the server did not get to read it; `NobodyForgotten`: nobody waits for something that nobody will do; `AskingAnswered`: no `getkey()` hangs; `NothingLeft`: no zombie, no member whose `bbs.js` is gone, and the main program can be started again; `TypeOK` includes that the address fits its buffer |
| `framing` | 1 other member, 1 change, 1 line typed (0.6M) | `AreStreams`; `StaleOnlyByTear`: only a torn message leaves the list wrong, until the next join or quit; `SettlesUnlessTorn` |
| `one_inside`, `own_record` | 1 login, 1 change, 1 add-user, 2 accounts | findings: two programs past the lock; a password stored under `false` |
| `ten_seconds` | as `gateway` | finding: a login may take longer than the ten seconds of the comment |

Three properties are no longer run by themselves because a refinement that is
run implies them; each is still proved: `KeySingleUse` (by `IsMembership`),
`NoOrphan` (by `IsShell`) and `AnsweredTruthfully` (by `IsPasswordStore`).
`EachIsShell`, `KeyComesFirst`, `LoginTime` and `WindsUp` are stated beside the
properties that are run, and proved.

### Disagreements without a run

* A malformed line followed by a key line in one chunk puts a destroyed socket
  on the list of users (`server.js:231`, `:353-368`), where it stays unless a
  write to it makes an 'error'; so does the answer of an `auth` request on a
  connection that has logged on meanwhile (`server.js:160`).  PROTOCOL.md knows
  a user only with a connection.  Membership names these ghosts; `NoGhosts` says
  that `bbs.js` makes none.
* `server.js:129` asks `msg.key in keys`, which is true of every name an object
  inherits.  A key such as `constructor` logs on under a name that is a function,
  as often as it is shown.  The model treats it like `debug`, a fixed key.
* `gateway.c:172-179` does not escape what it copies into JSON.  A right password
  with a quote or a backslash is refused, as is one of more than 64 characters
  (`gateway.c:176`), though `add-user.js` and `/passwd` accept both; and text that
  holds fields or lines of its own makes the server read another request.  The
  one that matters, a fixed key, makes getkey's connection a member with no
  password shown.  `OwnName` and `AloneAdmitted` are about requests for a key
  that the server has read, and about `bbs.js`, not that connection.
* The comment on `formatRemainingTime` (`boards.js:12-15`) says cyan up to one
  day and blue up to four; the code cuts the hours off first, so that from 24 to
  48 hours it still says cyan and from 96 to 120 blue (`CutDay`).
* `server.js:7` calls `keyWindow` the life of a key, but its timer
  (`server.js:163`) asks whether the *user* is logged on: with another session
  open an unused key stays in the table for ever.  `KeyWindowHonoured` and
  `Membership!Expire` say what does hold: no key is taken away early.
* `add-user.js:34` looks at the value only, so an I/O error of the look-up
  counts as "no such user" and the account is replaced, although line 35
  promises that an existing user is refused.  `PasswordsGuarded` and
  PasswordStore name this as the one exception (`misread`): nothing else follows
  from an I/O error.
* PROTOCOL.md:3 says that the newline differentiates between messages; both
  programs also end a message where a chunk ends.  That is the loss in Stream.
* PROTOCOL.md:56 and :64 say that `join` and `quit` are about *another* user
  and that the user *has disconnected*; the code sends a client its own `join`
  and sends `quit` for each connection, whether or not the user has others.
* PROTOCOL.md:67 promises `error` for a failed command; `changePassword`
  answers with `notice`.

### Bounds

`MaxBacklog` stops new input while some client has that many unread messages; a
handler writes up to three, so streams of several messages, with announcements
of different users between a request and its answer, occur in `chat_system`,
where it is 2.  In `chat_server`, whose properties do not look into the streams,
it is 1.  In `chat_system_live` it is 12 and never reached, so that it cannot
help liveness.  Two sockets are the least for an announcement, three (in
`chat_server`) for two connections of one user and an observer; there each
connection may also use either of two fixed keys.  In `chat_system` nobody has a
fixed key, and the processes may be exchanged together with their keys
(`Symmetry`).  `ViewsCurrent` and every invariant of
`chat_server` are also proved without any bound.  In `accounts` two changes of one
account are what can spoil a comparison made before the put, two accounts tell
the wrong record from the right one, and logins, which store nothing, are left
to `accounts_live`.  In `boards` two threads suffice to reuse a number
and to be out of order, two posts to be out of order, and the two instants an
hour apart cross the borders of the labels; where the colours are those of the
comment on `formatRemainingTime` and where not is checked at every border as an
assumption of MCBoards, and proved for every time (`LabelsCutDays`).  `Polls` is 4 instead
of 100: only its comparison with `polls` counts.
In `sessions` two connections are the least for one to disturb the other, two
keys and users tell a wrong name from a right one, two attempts of one of them
let an attempt follow a refusal, the server may die any number of times, one
other program at a time is at the lock, and the lengths 63 and 64 lie on the
border of the test.  `MaxTries` bounds the model: the gateway looks only between
polls whether there were 3 attempts, so that a burst of packets may make more
(Gateway has that).  In `framing` one change of the others is what
a list can be wrong about, and the client's own join, its reply and the change
are enough for a reply to be overtaken; the two directions may be cut at any
unit.  All invariants and refinements of these two runs are also proved without
bounds.
Deadlock checking is off because every part may stop: all sessions over, the
server down, a bound reached.

### Fairness

`chat_system_live` assumes weak fairness of reading on both sides, of a process
that is to exit and of the end of its stream: both event loops serve every
stream with input, and the kernel reports a closed connection.  Nobody has to
log in, type, quit or die.  `accounts_live`: handlers that began finish, LevelDB
calls back.  `gateway`: the session process runs (its steps are sequential);
polls return by timeout or because something is pending; no packet is owed.
`sessions`: the pending signal is handled, a forked process goes on to give the
listening socket up, `auth()` is called back, `recvfrom` returns what has come,
and a closed connection is reported to a server that is up; nobody has to
connect, ask, start or restart anything, and no other program has to finish with
the lock.  `framing`: both event loops are given
what was sent and finish their chunk.

## Proofs

`ChatServerProofs`: the inductive invariant is `TypeOK /\ ClientsAgree /\
KeyInv`.  `ClientsAgree` is needed for the types already - the name in a `quit`
is a name, not `false`, because the socket was logged on.  `KeyInv` relates the
key table, the timers, the use of each key and the sockets: a key in the table
is unused and belongs to the user it was issued for (`TableFits`), a used key
has a socket (`UsesFit`), a logged-on socket's key is its own (`SocketsFit`);
from it follow `LogonIdentity`, `KeySingleUse` and `KeyWindowHonoured`.
`KeyWindowHonoured` is not inductive without `SocketsFit`: `kill` deletes
`socket.key`, and only the invariant says that this is a used key.
`LogonLate` keeps all of it because it leaves the flags and the array as they
were: what it changes is the table and the streams.  `HandlerKinds` and
`StepKinds` reduce the handlers to a few kinds - logons, kills, answers, keys
stored, and the quiet rest.

`ImplementsMembership` needs one fact more, `NamesFit`: exactly the logged-on
sockets have a name, and only a key that was issued is in the table.  Then each
kind of handler is one step of Membership: `TakeKeyIsJoin` says what both logons
do to the tickets, `LifeSevered` that destroying a connection without `kill()`
makes a ghost of a member and nobody of anybody else.

`ChatSystemProofs`: a step of the system is a step of the server, a stutter of
it or an exit that empties one stream (`ServerPartOfStep`), so the server's
invariants carry over.  `FirstInv` strengthens `FirstMessageIsUser`: a client
that has not read `user` has it first, or nothing and is not logged on.
`ViewsCurrent` is inductive with types and `ClientsAgree`; its proof follows the
trigger: a change is appended (`CurrentTold`), read and turned into a request
(`CurrentRead`), answered (`CurrentTaken`), and the answer stays right as long
as no change is appended behind it (`CurrentAppend`, `CountsSame`).
`KeyComesFirst` and `NoGhosts` are proved together (`OpenInv`), because each needs
the other: a client's key is the first line it writes and no second one follows
(`KeyFirstInv`: a stream is empty until its process connects; `HeadHandled`: once
the first line has been handled the client is logged on or destroyed), so no key
is left in the stream of a destroyed socket, and no ghost logs on; and LevelDB
works only for password changes of sockets that have logged on (`AskerFits`), so
no answer of `auth` destroys a member's connection.  Nothing of this is taken for
granted in ChatServer.
`SystemIsMembership` carries the refinement of the server over to the system:
every step has one part in the server, for which the lemmas of
`ImplementsMembership` were made, and a process that exits shows nothing outside
(`ExitIsNothing`).

`AnnouncementProofs`: `AnnouncementsBalance` counts, so its lemmas are about
counts: what appending to a stream and taking its head away do to the number of
times a message stands in it (`CountAppend`, `CountTail`, by a bijection), and
what a logon and a kill do to a user's connections (`CountsLogon`, `CountsKill`,
which need that the array has no duplicates).  The strengthening is `Unheard`:
nothing has been written to a connection that is not logged on yet, so the
newcomer starts with its welcome alone.

`AccountsProofs`: everything is proved with I/O errors, deaths and locks removed
by hand.  The invariant of `PasswordsGuarded` (`GuardInv`) says that LevelDB has
one user at a time and that what was read between `db.get` and `db.put` is still
stored.  It says nothing of `auth.lock`: two programs may be past that lock, and
the store's own lock is what keeps the passwords safe.  `ImplementsPasswordStore`
adds what was stored for whom (`TruthInv`) and that every request in progress is
unanswered (`Asked`); a step is then at most one of put, answer and failed
look-up, and each is the abstract step of that name (`StoreIsReplace`,
`TellingIsAnswer`).  `LockKept` is proved from `Alone`: while no add-user has been
started nobody holds the lock but the server, whose handlers look for it and
create it in one turn - the hypothesis that `one_inside` shows to be needed.

`BoardsProofs`: ids only count up and a copy on its way was true of its thread
when it was made (`StreamsFit`, `ScreensFit`); a thread that is still there has
only grown since.  `MostUrgentFirst` is inductive because the time left of all
threads shrinks alike.  `LabelsCutDays` is arithmetic alone: whole hours and
days of any number of milliseconds, against the comment's ranges.

`GatewayProofs`: the invariant ties `pid` to `child` (`ChildFitsPid`), forbids a
child before the session loop (`EarlyFits`) and after the clean-up (`LateFits`),
and keeps the size with the terminal as long as one was asked for (`SizeFits`).
`ImplementsShell` maps every action to one of Shell's or to nothing.
`LoginTimeHolds` is what is left of the ten seconds of `ten_seconds`: the time is
at most that of the polls plus one wait for `server.js` per attempt
(`TimeFits`).
`WindsUpHolds` is the part of `SessionEnds` that needs no fairness: without a
connection `StepsLeft`, a number, falls at every step (`StepDown`), so neither
loop can keep a session alive.

`SessionsProofs`: `KeyFits` and `KeysOwn` say who holds which key - a key that is
held is no longer fresh, was issued to the holder's user, and only its timer or
its use makes it bad; `Disturbance` says that whoever asks while another does, or while
the lock is anybody else's or stale, is disturbed, that whoever was right and was
refused is disturbed or was not read, and that a lock that is not stale has
somebody past it.  From these follow `OwnName`, `HeldKeyGood`
and `AloneAdmitted`.  `Waits` is a second invariant, on top of the first: who asks
has a process and, until the answer has come, a server (`AskerRuns`); an end is signalled until it is
waited for (`EndsSeen`); a member is in the memory of a server that runs
(`MembersLive`).  It gives `NobodyForgotten`, which is what `AskingAnswered` and
`NothingLeft` rest on: the step that fairness promises is there to be taken.
`SessionsAreShells` needs of `IInv` only that who asks is at the login and that a
shell runs in an open session.

`FramingProofs`: `UpFits` and `DownFits` say where a side may stop: the server
inside a message only when it gives the client up, the client only when it has
lost that message.  From them each line is one step of Stream, and the trigger
argument of `ViewsCurrent` goes through as long as nothing was missed.

The assumptions are those named in the modules: the special values are no
members of the sets they stand beside, and bounds are numbers.  No theorem has an
assumption of its own.

Only model-checked: the liveness properties (`ViewsSettle`, `DeadClientsLeave`,
`StartedIsDecided`, `Answered`, `SessionEnds`, `AskingAnswered`, `NothingLeft`,
`SettlesUnlessTorn`), because fairness is out of the prover's reach.

## Not modelled

* The headers under `src/include/libssh` and `src/src/config.h`: 6,965 of the
  7,474 lines of C in the repository are libssh's declarations and generated
  settings.  They hold no logic of ssh-bbs - libssh itself is a library the
  gateway links to, and its behaviour is modelled from `gateway.c` as external.
  Of `gateway.c` all functions with state are modelled; `usage` and the unused
  `process_stderr` (its descriptor is always -1) are not.
* Requests no client of the repository sends (values of the wrong type in the
  fields of a message); `OnMalformed` covers what they do to the sender.
* The order in which node empties a chunk: ChatServer lets other handlers run
  between the lines of one chunk, which node does not.  It allows more.
* Names that are no account's: fixed names are taken to be different from the
  names of accounts, and the answers of the server to a connection of getkey that
  has logged on to be something other than exactly 64 bytes.
* Accounts and Sessions each have one other program at the lock at a time, or as
  many as their constants say; ChatServer has the answers of `auth()` and
  `changePassword` as inputs.
* The uninitialised exit status after a failed fork, and which terminal a resize
  reaches after a second one was asked for: Gateway does what the code does, and
  `ExitStatusTrue` and `ChildFits` leave these two cases out.
* The screen: the widgets of `client/` draw and keep no state of the protocol.
  Of the client's board tab the list and the labels are modelled; opening and
  composing are not, and the tab is disabled (`chat.js:268`).
* Typing before the connection of `bbs.js` is up.  Node would send such a line
  before the key, and the server would destroy the connection.  The connection
  goes to 127.0.0.1, so it is up before the process first reads its terminal,
  unless the server's accept queue is full.  `KeyComesFirst` rests on this.
* A pid that is reused between two adjacent system calls of the gateway.
* Messages longer than a chunk: a message is cut once or twice in Framing, which
  has the effects of being cut more often.
* The gateway's ten seconds inside Sessions: `SessionOver` may come at any time
  between two attempts, Gateway has the polls.

## Plan

What is left is depth rather than parts.

1. ChatSystem on top of Framing's streams, with torn messages for several
   clients at once.
2. Accounts inside ChatSystem, where the answers to password changes are now an
   input, so that `own_record` meets the announcements.
3. The numbers of descriptors in Gateway, for the terminal closed twice.
