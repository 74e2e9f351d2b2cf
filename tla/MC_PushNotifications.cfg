SPECIFICATION FairSpec
CONSTANTS
    Users = {u1, u2}
    Tokens = {t1, t2}
    Sends = {s1, s2}
    NoUser = NoUser
    MaxSignIns = 2
CHECK_DEADLOCK FALSE
INVARIANTS
    TypeOK
    AliveKeepsItsRow
PROPERTIES
    PushesFollowTheDevice
    EveryTokenTried
    ImplementsDelivery
