\* Two owed bookings, a transfer that pays one of them and one that is a unit
\* short, two handlers, and the worker, whose batch holds both payments.
SPECIFICATION PayingFairly
CONSTANTS
    Bookings = {b1, b2}
    QuoteIds = {q1, q2}
    Hashes = {"h1", "h2"}
    Transfers = {1, 2}
    TransferOf <- OneToOne
    Amount <- Amounts
    ToPlatform = {1, 2}
    Prices = {1}
    Units = {2}
    Slots = {r1, r2}
    MaxRequests = 2
    TTL = 1
    MaxTime = 0
    BatchLimit = 2
    Exclusive = FALSE
    NoBooking = NoBooking
    NoQuote = NoQuote
    NoHash = NoHash
INVARIANTS ConfirmedIsPaid HashOnOnePayment AnswersHold
PROPERTIES GoodPaymentSettles
