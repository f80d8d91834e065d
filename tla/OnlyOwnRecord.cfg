SPECIFICATION Spec
CONSTANTS
    AuthOp = {login}
    ChangeOp = {change}
    AddOp = {add}
    User = {u1, u2}
    FalseName = false
    Password = {p1, p2}
    NoPassword = NoPassword
    Faults = FALSE
SYMMETRY Symmetry
INVARIANT OnlyOwnRecord
CHECK_DEADLOCK FALSE
