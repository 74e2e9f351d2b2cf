SPECIFICATION Spec
CONSTANTS
    Users = {u1, u2}
    Tokens = {t1}
    Sends = {s1}
    NoUser = NoUser
    MaxSignIns = 3
CHECK_DEADLOCK FALSE
INVARIANT RowFollowsSignIn
