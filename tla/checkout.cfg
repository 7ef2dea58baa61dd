\* The whole checkout of one booking: two handlers, the worker and the clock.
SPECIFICATION Spec
CONSTANTS
    Bookings = {b1}
    QuoteIds = {q1, q2}
    Hashes = {"h1"}
    Transfers = {1}
    TransferOf <- OneHash
    Amount <- OneAmount
    ToPlatform = {1}
    Prices = {1, 2}
    Units = {2}
    Slots = {r1, r2}
    MaxRequests = 5
    TTL = 1
    MaxTime = 1
    BatchLimit = 2
    Exclusive = FALSE
    NoBooking = NoBooking
    NoQuote = NoQuote
    NoHash = NoHash
SYMMETRY Symmetry
INVARIANTS TypeOK PaymentIsTheLockedQuote OneOfferOneLock AcceptedInTime ReadsStand
PROPERTIES QuoteLifecycle KeepsPromise
