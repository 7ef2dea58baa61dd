\* Two owed bookings and a worker whose batch holds one.
SPECIFICATION PayingFairly
CONSTANTS
    Bookings = {b1, b2}
    QuoteIds = {q1, q2}
    Hashes = {"h1", "h2"}
    Transfers = {1, 2}
    TransferOf <- OneToOne
    Amount <- Amounts
    ToPlatform = {1, 2}
    Prices = {1}
    Units = {2}
    Slots = {r1, r2}
    MaxRequests = 2
    TTL = 1
    MaxTime = 0
    BatchLimit = 1
    Exclusive = FALSE
    NoBooking = NoBooking
    NoQuote = NoQuote
    NoHash = NoHash
PROPERTIES GoodPaymentSettles
