\* Three connections, two keys, two users: two connections of one user and
\* an observer, with every order of logons, timers and kills.
SPECIFICATION Spec
CONSTANTS
    Socket = {s1, s2, s3}
    Key = {k1, k2}
    User = {u1, u2}
    debug = debug
    DEBUG_OPER = DEBUG_OPER
    constructor = constructor
    Object = Object
    FixedKey = {debug, constructor}
    FixedName <- MCFixedName
    NoUser = NoUser
    NoKey = NoKey
    NoSocket = NoSocket
    MaxBacklog = 1
SYMMETRY Symmetry
INVARIANTS TypeOK ClientsAgree LogonIdentity KeyWindowHonoured
PROPERTIES IsMembership
CHECK_DEADLOCK FALSE
