------------------------------ MODULE Quoting ------------------------------
(***************************************************************************)
(* CreateBooking, CreateQuote, AcceptQuote and InitPayment: how a price is *)
(* offered, locked and turned into a debt.  None of these use cases holds  *)
(* a transaction across its reads and its writes.                          *)
(***************************************************************************)
EXTENDS CheckoutState

\* CreateBooking: the catalogue price is read and a pending row inserted.  The
\* id is unknown to anyone before the insert, so the two calls are one step.
CreateBooking(b) ==
    /\ bookings[b].status = "none"
    /\ bookings' = [bookings EXCEPT
                      ![b] = [status |-> "pending", price |-> catalog[b], tx |-> NoHash]]
    /\ UNCHANGED <<quotes, payments, ledger, world, req, started, worker>>

----------------------------------------------------------------------------
(* CreateQuote *)

\* find_by_id, and the refusal of a booking that is not pending.
QuoteReadBooking(r, b) ==
    /\ MayBegin(r)
    /\ bookings[b].status # "none"
    /\ req' = [req EXCEPT ![r] =
                 IF bookings[b].status = "pending"
                 THEN [Idle EXCEPT !.pc = "quote.payment", !.booking = b,
                                   !.row = bookings[b]]
                 ELSE [Idle EXCEPT !.booking = b, !.answer = "refused"]]
    /\ started' = started + 1
    /\ UNCHANGED <<tables, world, worker>>

\* `find_by_booking_id(..).await.is_ok()`: a failed read looks like no payment.
QuoteCheckPayment(r) ==
    /\ req[r].pc = "quote.payment"
    /\ \/ Goto(r, "quote.accepted")
       \/ PaymentInserted(req[r].booking) /\ Answer(r, "refused")
    /\ UNCHANGED <<tables, world, started, worker>>

FaultyQuoteCheckAccepted(r) ==
    /\ req[r].pc = "quote.accepted"
    /\ Goto(r, "quote.catalog")
    /\ UNCHANGED <<tables, world, started, worker>>

\* A booking whose price is locked is not quoted again.
QuoteCheckAccepted(r) ==
    /\ req[r].pc = "quote.accepted"
    /\ \/ AcceptedQuotes(req[r].booking) = {} /\ Goto(r, "quote.catalog")
       \/ AcceptedQuotes(req[r].booking) # {} /\ Answer(r, "refused")
    /\ UNCHANGED <<tables, world, started, worker>>

\* current_base_price: the in-memory booking is re-priced if the catalogue moved.
QuoteReadCatalog(r) ==
    LET price == catalog[req[r].booking]
        moved == price # req[r].row.price
    IN
    /\ req[r].pc = "quote.catalog"
    /\ req' = [req EXCEPT
                 ![r].pc = IF moved THEN "quote.write" ELSE "quote.convert",
                 ![r].row.price = price]
    /\ UNCHANGED <<tables, world, started, worker>>

\* bookings.update(&booking): status, hash and price of the row read at the
\* start, WHERE id = $5 and nothing else.
QuoteWriteBack(r) ==
    /\ req[r].pc = "quote.write"
    /\ bookings' = [bookings EXCEPT ![req[r].booking] = req[r].row]
    /\ Goto(r, "quote.convert")
    /\ UNCHANGED <<quotes, payments, ledger, world, started, worker>>

\* The oracle's rate turns the total into base units and PaymentQuote::issue
\* stamps the expiry.  A stale rate or an amount of zero is an Abort.
QuoteConvert(r) ==
    /\ req[r].pc = "quote.convert"
    /\ \E u \in Units :
         req' = [req EXCEPT
                   ![r].pc = "quote.issue",
                   ![r].quote = [status |-> "active", booking |-> req[r].booking,
                                 price |-> req[r].row.price, units |-> u,
                                 expires |-> now + TTL, accepted |-> 0]]
    /\ UNCHANGED <<tables, world, started, worker>>

FaultySupersede(b, q) == quotes[q]

FaultySupersedeAll(b, q) ==
    IF quotes[q].booking = b THEN [quotes[q] EXCEPT !.status = "superseded"]
                             ELSE quotes[q]

\* UPDATE .. SET status = 'superseded' WHERE booking_id = $1 AND status = 'active'
Supersede(b, q) ==
    IF q \in ActiveQuotes(b) THEN [quotes[q] EXCEPT !.status = "superseded"]
                             ELSE quotes[q]

\* quotes.issue: supersede and insert in one transaction.
QuoteIssue(r) ==
    /\ req[r].pc = "quote.issue"
    /\ \E id \in QuoteIds :
         /\ quotes[id].status = "none"
         /\ quotes' = [q \in QuoteIds |->
                         IF q = id THEN req[r].quote
                                   ELSE Supersede(req[r].booking, q)]
    /\ Answer(r, "quoted")
    /\ UNCHANGED <<bookings, payments, ledger, world, started, worker>>

----------------------------------------------------------------------------
(* AcceptQuote *)

FaultyAcceptable(q, price, units) ==
    /\ quotes[q].status \in {"active", "accepted"}
    /\ quotes[q].price = price /\ quotes[q].units = units

\* PaymentQuote::accept on the row as read: the figures the client displayed
\* must be the quote's, and an active quote must be inside its TTL.
Acceptable(q, price, units) ==
    /\ \/ quotes[q].status = "accepted"
       \/ quotes[q].status = "active" /\ now < quotes[q].expires
    /\ quotes[q].price = price /\ quotes[q].units = units

AcceptRead(r, q, price, units) ==
    /\ MayBegin(r)
    /\ quotes[q].status # "none"
    /\ req' = [req EXCEPT ![r] =
                 IF Acceptable(q, price, units)
                 THEN [Idle EXCEPT !.pc = "accept.mark",
                         !.booking = quotes[q].booking, !.id = q,
                         !.quote = [quotes[q] EXCEPT
                                      !.status = "accepted",
                                      !.accepted = IF quotes[q].status = "active"
                                                   THEN now ELSE @]]
                 ELSE [Idle EXCEPT !.booking = quotes[q].booking,
                                   !.answer = "refused"]]
    /\ started' = started + 1
    /\ UNCHANGED <<tables, world, worker>>

FaultyStillActive(q) == quotes[q].status \in {"active", "superseded", "expired"}

\* .. WHERE id = $1 AND status = 'active'
StillActive(q) == quotes[q].status = "active"

\* mark_accepted: the clock is not looked at again.  A second accepted quote
\* for the booking violates idx_payment_quotes_one_accepted.
AcceptMark(r) ==
    LET q == req[r].id IN
    /\ req[r].pc = "accept.mark"
    /\ \/ /\ StillActive(q)
          /\ AcceptedQuotes(req[r].booking) = {}
          /\ quotes' = [quotes EXCEPT ![q].status = "accepted",
                                      ![q].accepted = req[r].quote.accepted]
          /\ Answer(r, "accepted")
       \/ /\ ~StillActive(q) \/ AcceptedQuotes(req[r].booking) # {}
          /\ Answer(r, "refused")
          /\ UNCHANGED quotes
    /\ UNCHANGED <<bookings, payments, ledger, world, started, worker>>

----------------------------------------------------------------------------
(* InitPayment *)

InitReadBooking(r, b) ==
    /\ MayBegin(r)
    /\ bookings[b].status # "none"
    /\ req' = [req EXCEPT ![r] = [Idle EXCEPT !.pc = "init.payment", !.booking = b,
                                              !.row = bookings[b]]]
    /\ started' = started + 1
    /\ UNCHANGED <<tables, world, worker>>

InitCheckPayment(r) ==
    /\ req[r].pc = "init.payment"
    /\ \/ Goto(r, "init.quote")
       \/ PaymentInserted(req[r].booking) /\ Answer(r, "refused")
    /\ UNCHANGED <<tables, world, started, worker>>

FaultyPayable(r, q) ==
    /\ quotes[q].booking = req[r].booking
    /\ quotes[q].status \in {"active", "accepted"}

\* The booking's accepted quote, at the price the booking had when it was read.
Payable(r, q) ==
    /\ q \in AcceptedQuotes(req[r].booking)
    /\ quotes[q].price = req[r].row.price

InitReadQuote(r) ==
    /\ req[r].pc = "init.quote"
    /\ \/ \E q \in QuoteIds :
            /\ Payable(r, q)
            /\ req' = [req EXCEPT ![r].pc = "init.save", ![r].id = q,
                                  ![r].quote = quotes[q]]
       \/ /\ ~\E q \in QuoteIds : Payable(r, q)
          /\ Answer(r, "refused")
    /\ UNCHANGED <<tables, world, started, worker>>

FaultyPaymentFrom(r) ==
    [status |-> req[r].quote.status, quote |-> req[r].id, price |-> req[r].quote.price,
     units |-> req[r].quote.units, tx |-> NoHash,
     created |-> Cardinality({b \in Bookings : PaymentInserted(b)})]

\* Payment::from_quote copies the accepted quote.
PaymentFrom(r) ==
    [status |-> "pending", quote |-> req[r].id, price |-> req[r].quote.price,
     units |-> req[r].quote.units, tx |-> NoHash,
     created |-> Cardinality({b \in Bookings : PaymentInserted(b)})]

\* INSERT INTO payments; idx_payments_booking_unique refuses a second row.
InitSave(r) ==
    LET b == req[r].booking IN
    /\ req[r].pc = "init.save"
    /\ \/ /\ ~PaymentInserted(b)
          /\ payments' = [payments EXCEPT ![b] = PaymentFrom(r)]
          /\ Answer(r, "owes")
       \/ /\ PaymentInserted(b)
          /\ Answer(r, "refused")
          /\ UNCHANGED payments
    /\ UNCHANGED <<bookings, quotes, ledger, world, started, worker>>
=============================================================================
