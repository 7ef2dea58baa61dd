--------------------------- MODULE CheckoutState ---------------------------
(***************************************************************************)
(* The Postgres tables of the checkout, the request handlers in flight in  *)
(* the Actix workers, the reconciliation worker and the outside world they *)
(* read: the catalogue, the clock and the chains.                          *)
(*                                                                         *)
(* One step of the model is one awaited call of a handler: a single SQL    *)
(* statement, or one database transaction.  Whatever a handler has already *)
(* read lives in its request record until it writes it back, as it lives   *)
(* in the handler's locals between two .await points in the code.          *)
(***************************************************************************)
EXTENDS Finality, Naturals, FiniteSets

CONSTANTS
    Bookings,    \* booking ids
    QuoteIds,    \* quote ids; their number bounds the quotes a behaviour issues
    Hashes,      \* transaction hash strings as clients submit them
    TransferOf,  \* the on-chain transaction a hash string names
    Prices,      \* catalogue prices; the total is a function of the price
    Units,       \* token amounts the oracle's rate can convert a total into
    Slots,       \* handlers that can be in flight at the same time
    MaxRequests, \* bound on the requests a behaviour starts
    TTL,         \* QUOTE_TTL_SECONDS, in clock ticks
    MaxTime,     \* bound on the clock
    BatchLimit,  \* rows one reconciliation cycle loads (LIMIT 200)
    Exclusive,   \* TRUE: requests and worker cycles never overlap
    NoBooking, NoQuote, NoHash

ASSUME SetsAssumption ==
    /\ IsFiniteSet(Bookings)
    /\ NoBooking \notin Bookings /\ NoQuote \notin QuoteIds /\ NoHash \notin Hashes

ASSUME FiguresAssumption ==
    /\ Prices \subseteq Nat \ {0} /\ Units \subseteq Nat \ {0}
    /\ TransferOf \in [Hashes -> Transfers]
    /\ Amount \in [Transfers -> Nat] /\ ToPlatform \subseteq Transfers

ASSUME BoundsAssumption ==
    /\ MaxRequests \in Nat /\ TTL \in Nat \ {0} /\ MaxTime \in Nat
    /\ BatchLimit \in Nat \ {0} /\ Exclusive \in BOOLEAN

VARIABLES
    catalog,   \* current price of what each booking is for
    now,       \* the clock
    bookings, quotes, payments,   \* the tables, one row per id
    ledger,    \* rows of "transactions" per booking and hash
    req,       \* the request each handler slot is working on
    started,   \* requests started so far
    worker     \* the reconciliation worker

tables == <<bookings, quotes, payments, ledger>>
world  == <<catalog, now, chain>>
vars   == <<catalog, now, chain, bookings, quotes, payments, ledger,
            req, started, worker>>

----------------------------------------------------------------------------
(* Rows.  A row whose status is "none" has not been inserted. *)

BookingRow ==
    [status : {"none", "pending", "confirmed"}, price : Nat,
     tx : Hashes \cup {NoHash}]

QuoteRow ==
    [status : {"none", "active", "accepted", "superseded", "expired"},
     booking : Bookings \cup {NoBooking}, price : Nat, units : Nat,
     expires : Nat, accepted : Nat]

PaymentRow ==
    [status : {"none", "pending", "confirmed"}, quote : QuoteIds \cup {NoQuote},
     price : Nat, units : Nat, tx : Hashes \cup {NoHash}, created : Nat]

NoBookingRow == [status |-> "none", price |-> 0, tx |-> NoHash]
NoQuoteRow == [status |-> "none", booking |-> NoBooking, price |-> 0,
               units |-> 0, expires |-> 0, accepted |-> 0]
NoPaymentRow == [status |-> "none", quote |-> NoQuote, price |-> 0,
                 units |-> 0, tx |-> NoHash, created |-> 0]

----------------------------------------------------------------------------
(* Queries *)

AcceptedQuotes(b) ==
    {q \in QuoteIds : quotes[q].booking = b /\ quotes[q].status = "accepted"}

ActiveQuotes(b) ==
    {q \in QuoteIds : quotes[q].booking = b /\ quotes[q].status = "active"}

PaymentInserted(b) == payments[b].status # "none"

FaultyHashTaken(b, t) ==
    \E c \in Bookings \ {b} : payments[c].tx = t /\ payments[c].status = "pending"

\* Another booking's payment row carries hash t.
HashTaken(b, t) == \E c \in Bookings \ {b} : payments[c].tx = t

----------------------------------------------------------------------------
(* Handlers in flight.  A slot is idle, or holds the place the handler has  *)
(* reached and its locals; an idle slot keeps the last answer it gave.      *)

QuotingSteps ==
    {"quote.payment", "quote.accepted", "quote.catalog", "quote.write",
     "quote.convert", "quote.issue", "accept.mark",
     "init.payment", "init.quote", "init.save"}

ConfirmSteps ==
    {"confirm.guard", "confirm.verify", "confirm.record", "confirm.settle"}

Answers ==
    {"none", "refused", "failed", "quoted", "accepted", "owes", "paid",
     "not yet", "never"}

Request ==
    [pc : {"idle"} \cup QuotingSteps \cup ConfirmSteps,
     booking : Bookings \cup {NoBooking},
     row : BookingRow, id : QuoteIds \cup {NoQuote}, quote : QuoteRow,
     pay : PaymentRow, tx : Hashes \cup {NoHash}, answer : Answers]

Idle ==
    [pc |-> "idle", booking |-> NoBooking, row |-> NoBookingRow, id |-> NoQuote,
     quote |-> NoQuoteRow, pay |-> NoPaymentRow, tx |-> NoHash,
     answer |-> "none"]

Worker ==
    [pc : {"asleep", "load", "verify", "settle"},
     batch : [Bookings -> PaymentRow], at : Bookings \cup {NoBooking}]

Asleep == [pc |-> "asleep", batch |-> [b \in Bookings |-> NoPaymentRow],
           at |-> NoBooking]

InFlight == {r \in Slots : req[r].pc # "idle"}

\* A new request may start in slot r.
MayBegin(r) ==
    /\ req[r].pc = "idle"
    /\ started < MaxRequests
    /\ Exclusive => InFlight = {} /\ worker.pc = "asleep"

\* The handler in slot r answers its client and forgets its locals.
Answered(r, a) ==
    [Idle EXCEPT !.booking = req[r].booking, !.tx = req[r].tx, !.answer = a]

Answer(r, a) == req' = [req EXCEPT ![r] = Answered(r, a)]

Goto(r, step) == req' = [req EXCEPT ![r].pc = step]

\* Any awaited call can fail: a pool timeout, a database or provider error, a
\* rate that is refused as stale, the process going down.  The handler is gone,
\* and what it had already written stays.
Abort(r) ==
    /\ req[r].pc # "idle"
    /\ Answer(r, "failed")
    /\ UNCHANGED <<tables, world, started, worker>>

----------------------------------------------------------------------------
(* The outside world *)

CatalogMoves(b) ==
    /\ \E p \in Prices \ {catalog[b]} : catalog' = [catalog EXCEPT ![b] = p]
    /\ UNCHANGED <<now, chain, tables, req, started, worker>>

Tick ==
    /\ now < MaxTime
    /\ now' = now + 1
    /\ UNCHANGED <<catalog, chain, tables, req, started, worker>>

\* A transfer is unseen until it is final and successful, or has reverted.
ChainMoves(x) ==
    /\ Decided(x)
    /\ UNCHANGED <<catalog, now, tables, req, started, worker>>

----------------------------------------------------------------------------
TablesOK ==
    /\ bookings \in [Bookings -> BookingRow]
    /\ quotes \in [QuoteIds -> QuoteRow]
    /\ payments \in [Bookings -> PaymentRow]
    /\ ledger \in [Bookings -> [Hashes -> Nat]]
    /\ \A q \in QuoteIds : quotes[q].status # "none" => quotes[q].booking \in Bookings

\* A handler in flight works on a booking, and the offer it will insert is for it.
HandlerOK(h) ==
    /\ h.pc # "idle" => h.booking \in Bookings
    /\ h.pc = "quote.issue" => h.quote.booking = h.booking

ProcessesOK ==
    /\ req \in [Slots -> Request]
    /\ \A r \in Slots : HandlerOK(req[r])
    /\ started \in Nat
    /\ worker \in Worker

\* Every column, local and program counter stays within its type: the CHECK
\* constraints of the migration and the enums of the entities.
TypeOK ==
    /\ TablesOK
    /\ ProcessesOK
    /\ catalog \in [Bookings -> Prices]
    /\ now \in Nat
    /\ chain \in [Transfers -> Fates]

\* Nothing has been booked yet.
Init ==
    /\ catalog \in [Bookings -> Prices]
    /\ now = 0
    /\ ChainInit
    /\ bookings = [b \in Bookings |-> NoBookingRow]
    /\ quotes = [q \in QuoteIds |-> NoQuoteRow]
    /\ payments = [b \in Bookings |-> NoPaymentRow]
    /\ ledger = [b \in Bookings |-> [t \in Hashes |-> 0]]
    /\ req = [r \in Slots |-> Idle]
    /\ started = 0
    /\ worker = Asleep
=============================================================================
