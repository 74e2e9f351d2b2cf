SPECIFICATION Spec
CONSTANTS
    guest = guest
    host = host
    admin = admin
    UserIds = {u1}
    Roles = {guest, host, admin}
    Guest = guest
    Clients = {c1, c2}
    Idle = Idle
SYMMETRY Symmetry
INVARIANTS
    TypeOK
    NoDanglingRows
    RolelessOnlyByFailure
    RolesAreFresh
