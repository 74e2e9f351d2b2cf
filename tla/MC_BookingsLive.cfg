SPECIFICATION FairSpec
CONSTANTS
    hotel = hotel
    host = host
    guest = guest
    stranger = stranger
    Users = {host, guest, stranger}
    Hotels = {hotel}
    Owner <- MCOwner
    BookingIds = {b1}
    Requests = {r1, r2}
    CreateDtos <- LiveDtos
    Asks <- LiveAsks
    MaxDay = 2
    NoOwner = NoOwner
    NoBooking = NoBooking
    Idle = Idle
PROPERTIES
    EveryRequestAnswered
    ImplementsLifecycle
