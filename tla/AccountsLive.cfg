\* One login, one password change and one add-user on one account whose
\* store may fail: all are answered in the end, and told the truth.
SPECIFICATION FairSpec
CONSTANTS
    AuthOp = {login}
    ChangeOp = {change}
    AddOp = {add}
    User = {u1}
    FalseName = false
    Password = {p1, p2}
    NoPassword = NoPassword
    Faults = TRUE
INVARIANT LockNotLeaked
PROPERTIES Answered IsPasswordStore
CHECK_DEADLOCK FALSE
