SPECIFICATION FairSpec
CONSTANTS
    BookingIds = {b1}
    MaxCrashes = 1
    MaxRetries = 1
    MaxTroubles = 1
CHECK_DEADLOCK FALSE
INVARIANTS
    TypeOK
    OneMailPerRun
    MailsAreBounded
    LostOnItsOwn
PROPERTIES
    SilentOnceDeleted
    EveryJobSettles
    ImplementsQueue
