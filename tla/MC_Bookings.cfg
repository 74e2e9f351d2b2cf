SPECIFICATION Spec
CONSTANTS
    hotel = hotel
    host = host
    guest = guest
    stranger = stranger
    Users = {host, guest}
    Hotels = {hotel}
    Owner <- MCOwner
    BookingIds = {b1, b2}
    Requests = {r1, r2}
    CreateDtos <- SafetyDtos
    Asks <- SafetyAsks
    MaxDay = 2
    NoOwner = NoOwner
    NoBooking = NoBooking
    Idle = Idle
SYMMETRY Symmetry
INVARIANTS
    TypeOK
    OverlapOnlyByRace
    NoShowOnlyAfterCheckIn
    ConfirmedOnce
    HintNeverForbidden
    CalendarComplete
PROPERTIES
    ChangesByParties
