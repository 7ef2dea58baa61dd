\* Two confirms and the worker on one booking.
SPECIFICATION PayingSpec
CONSTANTS
    Bookings = {b1}
    QuoteIds = {q1}
    Hashes = {"h1"}
    Transfers = {1}
    TransferOf <- OneHash
    Amount <- OneAmount
    ToPlatform = {1}
    Prices = {1}
    Units = {2}
    Slots = {r1, r2}
    MaxRequests = 4
    TTL = 1
    MaxTime = 0
    BatchLimit = 1
    Exclusive = FALSE
    NoBooking = NoBooking
    NoQuote = NoQuote
    NoHash = NoHash
INVARIANTS SettledOnce
