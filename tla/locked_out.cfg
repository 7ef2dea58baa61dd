\* One request at a time, any of which may fail half way.
SPECIFICATION PricingSpec
CONSTANTS
    Bookings = {b1}
    QuoteIds = {q1, q2}
    Hashes = {"h1"}
    Transfers = {1}
    TransferOf <- OneHash
    Amount <- OneAmount
    ToPlatform = {1}
    Prices = {1, 2}
    Units = {2}
    Slots = {r1}
    MaxRequests = 3
    TTL = 1
    MaxTime = 0
    BatchLimit = 1
    Exclusive = TRUE
    NoBooking = NoBooking
    NoQuote = NoQuote
    NoHash = NoHash
INVARIANTS LockedPriceStands
