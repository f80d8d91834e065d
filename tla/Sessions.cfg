\* Two ssh connections, two users, two keys, two attempts of one and one of the other.
SPECIFICATION FairSpec
CONSTANTS
    a = a
    b = b
    Session = {a, b}
    AddressMax = 64
    AddressLength = {63, 64}
    Key = {k1, k2}
    User = {u1, u2}
    NoUser = NoUser
    NoKey = NoKey
    MaxTries <- MCMaxTries
INVARIANTS TypeOK OwnName HeldKeyGood NobodyForgotten
PROPERTIES AloneAdmitted AskingAnswered NothingLeft
CHECK_DEADLOCK FALSE
