\* Two spellings of one hash, one request at a time.
SPECIFICATION PayingSpec
CONSTANTS
    Bookings = {b1, b2}
    QuoteIds = {q1, q2}
    Hashes = {"h1", "h2"}
    Transfers = {1}
    TransferOf <- OneTransfer
    Amount <- OneAmount
    ToPlatform = {1}
    Prices = {1}
    Units = {2}
    Slots = {r1}
    MaxRequests = 2
    TTL = 1
    MaxTime = 0
    BatchLimit = 2
    Exclusive = TRUE
    NoBooking = NoBooking
    NoQuote = NoQuote
    NoHash = NoHash
INVARIANTS TransferSettlesOneBooking
