\* The whole checkout of two bookings, one request or worker cycle at a time.
SPECIFICATION Spec
CONSTANTS
    Bookings = {b1, b2}
    QuoteIds = {q1, q2}
    Hashes = {"h1", "h2"}
    Transfers = {1, 2}
    TransferOf <- OneToOne
    Amount <- Amounts
    ToPlatform = {1, 2}
    Prices = {1}
    Units = {1, 2}
    Slots = {r1}
    MaxRequests = 8
    TTL = 1
    MaxTime = 0
    BatchLimit = 2
    Exclusive = TRUE
    NoBooking = NoBooking
    NoQuote = NoQuote
    NoHash = NoHash
SYMMETRY QuoteSymmetry
INVARIANTS SettledOnce TransferSettlesOneBooking ConfirmedTogether NoOfferBesideLock
PROPERTIES SettlementStands KeepsPromiseOnce
