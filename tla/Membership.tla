----------------------------- MODULE Membership -----------------------------
(***************************************************************************)
(* What the session layer of server.js promises to whoever holds a logon   *)
(* key: a key is a ticket, issued once for a user, good until it is used   *)
(* or has expired, and it makes one connection a member under that user's  *)
(* name.  A connection is out, then perhaps a member, then gone.           *)
(*                                                                         *)
(* What it does not promise is that whoever is gone stays gone: a gone     *)
(* connection that still shows a ticket, and a member whose connection is  *)
(* destroyed by the answer to a request for a key, are ghosts, on the list *)
(* without a connection.  ChatServer is shown to implement this; Sessions  *)
(* is built on it.                                                         *)
(***************************************************************************)
CONSTANTS
    Socket,      \* connections, each used once
    Key,         \* keys that may be issued
    User,        \* account names
    FixedNames,  \* names that need no ticket
    NoUser

VARIABLES
    life,     \* per connection, "out", "in", "gone" or "ghost"
    member,   \* per connection, the name it is a member under, or NoUser
    ticket,   \* per key, the user it is good for now, or NoUser
    fresh     \* keys not issued yet

vars == <<life, member, ticket, fresh>>

Online(u) == \E s \in Socket : member[s] = u

Init ==
    /\ life = [s \in Socket |-> "out"]
    /\ member = [s \in Socket |-> NoUser]
    /\ ticket = [k \in Key |-> NoUser]
    /\ fresh = Key

Issue(u, k) ==
    /\ k \in fresh
    /\ fresh' = fresh \ {k}
    /\ ticket' = [ticket EXCEPT ![k] = u]
    /\ UNCHANGED member

\* A ticket is taken back only if its user is not online.
Expire(k) ==
    /\ ticket[k] # NoUser /\ ~Online(ticket[k])
    /\ ticket' = [ticket EXCEPT ![k] = NoUser]
    /\ UNCHANGED <<life, member, fresh>>

\* A connection that is gone shows its ticket in vain, or becomes a ghost.
Admit(s, u) ==
    /\ \/ /\ life[s] = "out" /\ life' = [life EXCEPT ![s] = "in"]
          /\ member' = [member EXCEPT ![s] = u]
       \/ /\ life[s] = "gone" /\ life' = [life EXCEPT ![s] = "ghost"]
          /\ member' = [member EXCEPT ![s] = u]
       \/ life[s] = "gone" /\ UNCHANGED <<life, member>>
    /\ UNCHANGED fresh

Join(s, k) ==
    /\ ticket[k] # NoUser
    /\ Admit(s, ticket[k])
    /\ ticket' = [ticket EXCEPT ![k] = NoUser]

JoinFixed(s) == (\E u \in FixedNames : Admit(s, u)) /\ UNCHANGED ticket

\* Refused, disconnected, quit or killed; the tickets stay good.
Leave(s) ==
    /\ life' = [life EXCEPT ![s] = "gone"]
    /\ member' = [member EXCEPT ![s] = NoUser]
    /\ UNCHANGED <<ticket, fresh>>

\* The connection on which a key was asked for is destroyed, not killed.
Severed(s) == life' = [life EXCEPT ![s] = IF @ \in {"in", "ghost"} THEN "ghost" ELSE "gone"]
Sever(s)   == Severed(s) /\ UNCHANGED <<member, ticket, fresh>>

Next ==
    \/ \E u \in User, k \in Key :
          Issue(u, k) /\ (UNCHANGED life \/ \E s \in Socket : Severed(s))
    \/ \E k \in Key : Expire(k)
    \/ \E s \in Socket : Leave(s) \/ Sever(s) \/ JoinFixed(s) \/ \E k \in Key : Join(s, k)

Spec == Init /\ [][Next]_vars

=============================================================================
