\* A quote request that outlives the settlement.
SPECIFICATION Spec
CONSTANTS
    Bookings = {b1}
    QuoteIds = {q1, q2}
    Hashes = {"h1"}
    Transfers = {1}
    TransferOf <- OneHash
    Amount <- OneAmount
    ToPlatform = {1}
    Prices = {1, 2}
    Units = {2}
    Slots = {r1, r2}
    MaxRequests = 5
    TTL = 1
    MaxTime = 0
    BatchLimit = 1
    Exclusive = FALSE
    NoBooking = NoBooking
    NoQuote = NoQuote
    NoHash = NoHash
PROPERTIES PaidPriceIsFixed
