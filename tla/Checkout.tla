------------------------------ MODULE Checkout ------------------------------
(***************************************************************************)
(* The checkout of one backend: any number of HTTP handlers, the           *)
(* reconciliation worker and the outside world, interleaved at every       *)
(* awaited call.                                                           *)
(***************************************************************************)
EXTENDS Quoting, Settlement

\* POST /bookings, /payments/quote, /payments/quote/accept and /payments/init.
QuotingRequest(r) ==
    \/ \E b \in Bookings : QuoteReadBooking(r, b) \/ InitReadBooking(r, b)
    \/ \E q \in QuoteIds, p \in Prices, u \in Units : AcceptRead(r, q, p, u)
    \/ QuoteCheckPayment(r) \/ QuoteCheckAccepted(r) \/ QuoteReadCatalog(r)
    \/ QuoteWriteBack(r) \/ QuoteConvert(r) \/ QuoteIssue(r)
    \/ AcceptMark(r)
    \/ InitCheckPayment(r) \/ InitReadQuote(r) \/ InitSave(r)

\* POST /payments/confirm.
ConfirmRequest(r) ==
    \/ \E b \in Bookings, t \in Hashes : ConfirmRead(r, b, t)
    \/ ConfirmGuard(r) \/ ConfirmVerify(r) \/ ConfirmRecord(r) \/ ConfirmSettle(r)

Reconciliation ==
    \/ WorkerSweep \/ WorkerLoad \/ WorkerSettles
    \/ \E b \in Bookings : WorkerDefers(b) \/ WorkerFinds(b)
    \/ WorkerAborts

Market == Tick \/ \E b \in Bookings : CatalogMoves(b) \/ CreateBooking(b)

Chains == \E x \in Transfers : ChainMoves(x)

Next ==
    \/ Market \/ Chains \/ Reconciliation
    \/ \E r \in Slots : QuotingRequest(r) \/ ConfirmRequest(r) \/ Abort(r)

Spec == Init /\ [][Next]_vars

----------------------------------------------------------------------------
(* Two parts of the system on their own.                                     *)

\* Before anything is paid: no hash has been submitted, so the worker's cycle
\* is its expiry sweep.
PricingNext ==
    \/ Market \/ WorkerSweep \/ WorkerLoad
    \/ \E r \in Slots : QuotingRequest(r) \/ Abort(r)

PricingSpec == Init /\ [][PricingNext]_vars

\* From the moment every booking owes its locked amount.
Owed ==
    /\ \E price \in Prices, f \in [Bookings -> QuoteIds], u \in [Bookings -> Units],
          age \in [Bookings -> 0 .. Cardinality(Bookings) - 1] :
         /\ \A b, c \in Bookings : b # c => f[b] # f[c] /\ age[b] # age[c]
         /\ catalog = [b \in Bookings |-> price]
         /\ bookings = [b \in Bookings |->
                          [status |-> "pending", price |-> price, tx |-> NoHash]]
         /\ quotes = [q \in QuoteIds |->
                        IF \E b \in Bookings : f[b] = q
                        THEN LET b == CHOOSE x \in Bookings : f[x] = q IN
                             [status |-> "accepted", booking |-> b, price |-> price,
                              units |-> u[b], expires |-> TTL, accepted |-> 0]
                        ELSE NoQuoteRow]
         /\ payments = [b \in Bookings |->
                          [status |-> "pending", quote |-> f[b], price |-> price,
                           units |-> u[b], tx |-> NoHash, created |-> age[b]]]
    /\ now = 0
    /\ ChainInit
    /\ ledger = [b \in Bookings |-> [t \in Hashes |-> 0]]
    /\ req = [r \in Slots |-> Idle] /\ started = 0 /\ worker = Asleep

PayingNext ==
    \/ Chains \/ Reconciliation
    \/ \E r \in Slots : ConfirmRequest(r) \/ Abort(r)

PayingSpec == Owed /\ [][PayingNext]_vars

\* The worker's loop never stops.  A cycle does not fail for ever, and a provider
\* that is asked again and again about a final transfer answers at last.
PayingFairly ==
    /\ PayingSpec
    /\ WF_vars(WorkerSweep) /\ SF_vars(WorkerLoad) /\ SF_vars(WorkerSettles)
    /\ \A b \in Bookings : SF_vars(WorkerFinds(b)) /\ WF_vars(WorkerDefers(b))

----------------------------------------------------------------------------
(* What holds however requests and worker cycles overlap *)

Figures(row) == <<row.price, row.units>>

\* What a payment asks for is what the user approved: its figures are those of
\* the booking's one accepted quote (Payment::from_quote, InitPayment).
PaymentIsTheLockedQuote ==
    \A b \in Bookings : PaymentInserted(b) =>
        \E q \in AcceptedQuotes(b) :
            payments[b].quote = q /\ Figures(payments[b]) = Figures(quotes[q])

\* A booking never has two offers open, nor two locked prices (QuoteRepository).
OneOfferOneLock ==
    \A q, p \in QuoteIds :
        /\ quotes[q].booking = quotes[p].booking
        /\ quotes[q].status = quotes[p].status
        /\ quotes[q].status \in {"active", "accepted"}
        => q = p

\* A quote is accepted only before its expiry, wherever the clock was when the
\* conditional UPDATE reached the database (AcceptQuote).
AcceptedInTime ==
    \A q \in QuoteIds :
        quotes[q].status = "accepted" => quotes[q].accepted < quotes[q].expires

\* A quote leaves "active" once and for all, and its figures are never rewritten:
\* what was superseded or has expired is not accepted later, and what was
\* accepted is not touched again (the four UPDATEs of PgQuoteRepository).
QuoteLifecycle ==
    [][\A q \in QuoteIds :
          /\ quotes[q].status = "none" => quotes'[q].status \in {"none", "active"}
          /\ quotes[q].status \notin {"none", "active"} => quotes'[q] = quotes[q]
          /\ quotes[q].status # "none" => Figures(quotes'[q]) = Figures(quotes[q])]_vars

\* No two payments carry one hash (idx_payments_tx_hash_unique).
HashOnOnePayment ==
    \A b, c \in Bookings : payments[b].tx = payments[c].tx /\ b # c
                              => payments[b].tx = NoHash

\* A transfer the chain has finalised, to the platform, of at least n base units.
Pays(t, n) ==
    /\ chain[TransferOf[t]] = "final"
    /\ TransferOf[t] \in ToPlatform /\ Amount[TransferOf[t]] >= n

Booked(b, t) == ledger[b][t] > 0

\* Every ledger row stands for a final transfer of what its booking owes, and
\* nothing is confirmed without one: no stale snapshot, failed verification or
\* half-done handler can confirm a booking the chain has not paid.
ConfirmedIsPaid ==
    \A b \in Bookings :
        /\ \A t \in Hashes : Booked(b, t) =>
               PaymentInserted(b) /\ Pays(t, payments[b].units)
        /\ payments[b].status = "confirmed" =>
               payments[b].tx # NoHash /\ Booked(b, payments[b].tx)
        /\ bookings[b].status = "confirmed" =>
               bookings[b].tx # NoHash /\ Booked(b, bookings[b].tx)

\* The promise the tables stand for.
Locked == [b \in Bookings |-> {Figures(quotes[q]) : q \in AcceptedQuotes(b)}]
Due == [b \in Bookings |-> IF PaymentInserted(b) THEN {Figures(payments[b])} ELSE {}]
Receipts == [b \in Bookings |-> {t \in Hashes : Booked(b, t)}]
Final == {x \in Transfers : chain[x] = "final"}

P == INSTANCE Promise WITH
       locked <- Locked, due <- Due, receipts <- Receipts, final <- Final

\* The checkout implements Promise: a lock is never withdrawn or changed, a debt
\* is what was locked, and nothing is booked that the chain has not paid.
KeepsPromise == P!Spec

\* What a client was told stays true: a price that was approved is locked, a
\* debt exists, a payment was booked, and a transfer reported as never settling
\* cannot pay this booking.
AnswersHold ==
    \A r \in Slots : req[r].pc = "idle" =>
        LET b == req[r].booking
            t == req[r].tx
        IN
        CASE req[r].answer = "accepted" -> AcceptedQuotes(b) # {}
          [] req[r].answer = "owes"     -> PaymentInserted(b)
          [] req[r].answer = "paid"     -> \E h \in Hashes : Booked(b, h)
          [] req[r].answer = "never"    -> ~Pays(t, payments[b].units)
          [] OTHER -> TRUE

\* A payment whose recorded hash names a good transfer is confirmed, unless its
\* hash is replaced first (the worker's loop).
GoodPaymentSettles ==
    \A b \in Bookings, t \in Hashes :
        payments[b].status = "pending" /\ payments[b].tx = t /\ Pays(t, payments[b].units)
            ~> payments[b].status = "confirmed" \/ payments[b].tx # t

----------------------------------------------------------------------------
(* Why: what the handlers and the worker have read and may still write is    *)
(* true of the tables for as long as they hold it.                           *)

HandlerKnows(h) ==
    /\ h.pc \in {"quote.payment", "quote.accepted", "quote.catalog", "quote.write"}
         => h.row.status = "pending"
    /\ h.pc \in {"quote.write", "quote.convert"} => h.row.price \in Prices
    /\ h.pc = "quote.issue" => h.quote.status = "active" /\ Figures(h.quote) \in Prices \X Units
    /\ h.pc = "accept.mark" => /\ h.id \in QuoteIds /\ quotes[h.id].booking = h.booking
                               /\ quotes[h.id].status # "none"
                               /\ h.quote.accepted < quotes[h.id].expires
    /\ h.pc = "init.save" => h.id \in AcceptedQuotes(h.booking) /\ h.quote = quotes[h.id]
    /\ h.pc \in ConfirmSteps => /\ PaymentInserted(h.booking) /\ h.tx \in Hashes
                                /\ h.pay.status = "pending"
                                /\ h.pay.units = payments[h.booking].units
    /\ h.pc = "confirm.settle" => Pays(h.tx, h.pay.units)

WorkerKnows ==
    /\ \A b \in Bookings : worker.batch[b] # NoPaymentRow =>
           /\ PaymentInserted(b) /\ worker.batch[b].tx \in Hashes
           /\ worker.batch[b].units = payments[b].units
    /\ worker.pc = "settle" =>
           /\ worker.at \in Bookings /\ worker.batch[worker.at] # NoPaymentRow
           /\ Pays(worker.batch[worker.at].tx, worker.batch[worker.at].units)

\* Whatever a handler or the worker has read and will still write or decide by
\* is true of the tables and the chain until it does (every use case and
\* reconcile_one), save for the booking row CreateQuote and the status
\* ConfirmPayment write back.
ReadsStand == (\A r \in Slots : HandlerKnows(req[r])) /\ WorkerKnows

\* The inductive invariant behind the theorems.
IndInv ==
    /\ TypeOK
    /\ ReadsStand
    /\ \A q \in QuoteIds : quotes[q].status # "none" => Figures(quotes[q]) \in Prices \X Units
    /\ OneOfferOneLock /\ AcceptedInTime /\ PaymentIsTheLockedQuote
    /\ HashOnOnePayment /\ ConfirmedIsPaid

----------------------------------------------------------------------------
(* What holds when requests and worker cycles do not overlap *)

\* A booking is settled at most once, by one hash (SettlementRepository).
SettledOnce ==
    \A b \in Bookings, t \in Hashes :
        /\ ledger[b][t] <= 1
        /\ \A h \in Hashes : Booked(b, t) /\ Booked(b, h) => t = h

\* An on-chain transfer settles at most one booking (README, "Properties").
TransferSettlesOneBooking ==
    \A b, c \in Bookings, t, h \in Hashes :
        Booked(b, t) /\ Booked(c, h) /\ TransferOf[t] = TransferOf[h] => b = c

\* The checkout implements Promise with every debt and every transfer settled
\* once ("settles at most one booking", README).
KeepsPromiseOnce == P!OnceSpec

\* Payment and booking are confirmed together, by the same hash.
ConfirmedTogether ==
    \A b \in Bookings :
        /\ payments[b].status = "confirmed" <=> bookings[b].status = "confirmed"
        /\ bookings[b].status = "confirmed" => bookings[b].tx = payments[b].tx

\* What is settled stays settled, with its hash and its price.
SettlementStands ==
    [][\A b \in Bookings :
          /\ payments[b].status = "confirmed" => payments'[b] = payments[b]
          /\ bookings[b].status = "confirmed" => bookings'[b] = bookings[b]]_vars

\* No offer is open beside a locked price (the guards of CreateQuote).
NoOfferBesideLock ==
    \A b \in Bookings : AcceptedQuotes(b) # {} => ActiveQuotes(b) = {}

----------------------------------------------------------------------------
(* What the documentation says and the code does not keep *)

\* "The locked price is still settleable afterwards": a lock nobody has turned
\* into a payment yet agrees with the booking InitPayment compares it to.
LockedPriceStands ==
    \A b \in Bookings, q \in QuoteIds :
        q \in AcceptedQuotes(b) /\ ~PaymentInserted(b)
            => quotes[q].price = bookings[b].price

\* "Never re-quote something that is already paid for: the settled amount is
\* fixed": a confirmed booking keeps its price.
PaidPriceIsFixed ==
    [][\A b \in Bookings : bookings[b].status = "confirmed"
                              => bookings'[b].price = bookings[b].price]_vars

=============================================================================
