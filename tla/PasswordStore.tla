--------------------------- MODULE PasswordStore ----------------------------
(***************************************************************************)
(* What the two programs that use auth.db promise to whoever makes a       *)
(* request: a password changes in one step, at a moment between the        *)
(* request and its answer, only against the old one, and the answer is     *)
(* true.  auth.lock is no part of it.  Accounts is shown to implement this. *)
(***************************************************************************)
CONSTANTS
    Login, Change, Add,   \* requests: compare, compare and replace, create
    User, Password, NoPassword

Request == Login \cup Change \cup Add

VARIABLES
    accounts,  \* the password of each user, or NoPassword
    user, given, chosen,   \* what each request is about; never changes
    misled,    \* Add requests whose look-up has failed
    stored,    \* requests that have taken effect
    answer     \* per request "none", "yes" or "no"

vars == <<accounts, user, given, chosen, misled, stored, answer>>

Init ==
    /\ accounts \in [User -> Password \cup {NoPassword}]
    /\ user \in [Request -> User]
    /\ given \in [Request -> Password] /\ chosen \in [Request -> Password]
    /\ misled = {} /\ stored = {}
    /\ answer = [r \in Request |-> "none"]

\* What entitles a request to be stored, at the moment it is.
Entitled(r) ==
    /\ answer[r] = "none" /\ r \notin stored
    /\ \/ r \in Change /\ accounts[user[r]] = given[r]
       \/ r \in Add /\ (accounts[user[r]] = NoPassword \/ r \in misled)

Replace(r) ==
    /\ Entitled(r)
    /\ accounts' = [accounts EXCEPT ![user[r]] = chosen[r]]
    /\ stored' = stored \cup {r}
    /\ UNCHANGED <<user, given, chosen, misled, answer>>

\* A change whose user has left meanwhile goes to no account.
Misplace(r) ==
    /\ Entitled(r) /\ r \in Change
    /\ stored' = stored \cup {r}
    /\ UNCHANGED <<accounts, user, given, chosen, misled, answer>>

\* The look-up for an Add ends in an error, which counts as 'no such user'.
Mislead(r) ==
    /\ r \in Add /\ answer[r] = "none" /\ r \notin stored
    /\ misled' = misled \cup {r}
    /\ UNCHANGED <<accounts, user, given, chosen, stored, answer>>

\* The answer is final: a request that is refused is not stored later.
Grant(r) ==
    /\ answer[r] = "none"
    /\ IF r \in Login THEN accounts[user[r]] = given[r] ELSE r \in stored
    /\ answer' = [answer EXCEPT ![r] = "yes"]
    /\ UNCHANGED <<accounts, user, given, chosen, misled, stored>>

Refuse(r) ==
    /\ answer[r] = "none" /\ r \notin stored
    /\ answer' = [answer EXCEPT ![r] = "no"]
    /\ UNCHANGED <<accounts, user, given, chosen, misled, stored>>

Next ==
    \E r \in Request : Replace(r) \/ Misplace(r) \/ Mislead(r) \/ Grant(r) \/ Refuse(r)

Spec == Init /\ [][Next]_vars

=============================================================================
