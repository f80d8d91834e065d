SPECIFICATION FairSpec
CONSTANTS
    s1 = s1  s2 = s2
    k1 = k1  k2 = k2
    Socket = {s1, s2}
    Key = {k1, k2}
    User = {u1}
    FixedKey = {}
    FixedName <- MCFixedName
    NoUser = NoUser
    NoKey = NoKey
    NoSocket = NoSocket
    MaxBacklog = 12
    AppKey <- MCTwoKeys
    Disconnected = Disconnected
    MaxTyped = 0
PROPERTIES ViewsSettle DeadClientsLeave StartedIsDecided
CHECK_DEADLOCK FALSE
