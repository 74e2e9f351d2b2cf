SPECIFICATION Spec
CONSTANTS
    hotel = hotel
    host = host
    guest = guest
    stranger = stranger
    Users = {host, guest}
    Hotels = {hotel}
    Owner <- MCOwner
    BookingIds = {b1, b2}
    Requests = {r1, r2}
    CreateDtos <- FormDtos
    Asks <- SafetyAsks
    MaxDay = 2
    NoOwner = NoOwner
    NoBooking = NoBooking
    Idle = Idle
SYMMETRY Symmetry
INVARIANT StayHasNights
