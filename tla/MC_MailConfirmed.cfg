SPECIFICATION Spec
CONSTANTS
    BookingIds = {b1}
    MaxCrashes = 1
    MaxRetries = 1
    MaxTroubles = 1
CHECK_DEADLOCK FALSE
PROPERTY MailSaysConfirmed
