SPECIFICATION SysSpec
CONSTANTS
    s1 = s1  s2 = s2
    k1 = k1  k2 = k2
    Socket = {s1, s2}
    Key = {k1, k2}
    User = {u1, u2}
    FixedKey = {}
    FixedName <- MCFixedName
    NoUser = NoUser
    NoKey = NoKey
    NoSocket = NoSocket
    MaxBacklog = 2
    AppKey <- MCTwoKeys
    Disconnected = Disconnected
    MaxTyped = 1
SYMMETRY Symmetry
INVARIANTS SysTypeOK NoGhosts ViewsCurrent FirstMessageIsUser AnnouncementsBalance
CHECK_DEADLOCK FALSE
