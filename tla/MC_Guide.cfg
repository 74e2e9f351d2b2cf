SPECIFICATION Spec
CONSTANTS
    hotel = hotel
    host = host
    guest = guest
    stranger = stranger
    Users = {host, guest}
    Hotels = {hotel}
    Owner <- MCOwner
    BookingIds = {b1}
    Requests = {r1, r2}
    CreateDtos <- LiveDtos
    Asks <- SafetyAsks
    MaxDay = 2
    NoOwner = NoOwner
    NoBooking = NoBooking
    Idle = Idle
INVARIANT ListsFollowGuide
