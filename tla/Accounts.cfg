\* Two password changes and one add-user on two accounts.
SPECIFICATION Spec
CONSTANTS
    AuthOp = {}
    ChangeOp = {change, change2}
    AddOp = {add}
    User = {u1, u2}
    FalseName = false
    Password = {p1, p2}
    NoPassword = NoPassword
    Faults = TRUE
SYMMETRY Symmetry
INVARIANTS TypeOK LockKept
PROPERTIES PasswordsGuarded
CHECK_DEADLOCK FALSE
