------------------------- MODULE CheckoutExclusive --------------------------
(***************************************************************************)
(* What the checkout keeps when no two processes work on one booking at a  *)
(* time, whatever they do on others: a booking and a transfer are settled  *)
(* once, and what is settled stands.  Each theorem names its hypothesis:   *)
(* Apart, of the behaviour, or Exclusive, which lets nothing overlap and   *)
(* implies it; and OneSpelling where a transfer must not have two hashes.  *)
(***************************************************************************)
EXTENDS CheckoutRefines

\* No two hash strings name the same transfer.
OneSpelling == \A t, h \in Hashes : TransferOf[t] = TransferOf[h] => t = h

----------------------------------------------------------------------------
(* The hypothesis: handlers in flight are about different bookings, and the *)
(* worker settles none of theirs, as a lock per booking held from the first *)
(* read of a handler to its answer would have it.                           *)
Apart ==
    /\ \A r, s \in InFlight : req[r].booking = req[s].booking => r = s
    /\ worker.pc = "settle" => \A r \in InFlight : req[r].booking # worker.at

\* Where nothing overlaps, the process that runs is alone.
Alone ==
    /\ \A r, s \in InFlight : r = s
    /\ worker.pc # "asleep" => InFlight = {}

----------------------------------------------------------------------------
(* The invariant: what a handler has read of its booking is still so.       *)

PricingSteps == {"quote.catalog", "quote.write", "quote.convert", "quote.issue"}

\* What a handler finds when it writes is what it found when it read.
HandlerFinds(h) ==
    /\ h.pc \in PricingSteps \cup {"quote.payment", "quote.accepted"}
         => bookings[h.booking].status = "pending"
    /\ h.pc \in PricingSteps => AcceptedQuotes(h.booking) = {}
    /\ h.pc \in {"init.payment", "init.quote", "init.save"}
         => bookings[h.booking].status # "none"
    /\ h.pc \in ConfirmSteps => payments[h.booking].status = "pending"

\* The ledger has one row for a confirmed payment, under its hash, and no other.
OneRowEach ==
    \A b \in Bookings, t \in Hashes :
        ledger[b][t] = IF payments[b].status = "confirmed" /\ payments[b].tx = t THEN 1 ELSE 0

OnceInv ==
    /\ \A r \in Slots : HandlerFinds(req[r])
    /\ \A b \in Bookings : PaymentInserted(b) => bookings[b].status # "none"
    /\ OneRowEach /\ ConfirmedTogether /\ NoOfferBesideLock

----------------------------------------------------------------------------
(* Who runs *)

\* A handler that moves is the only one, and the worker sleeps.
LEMMA HandlerIsAlone ==
    ASSUME Exclusive, Alone, NEW r \in Slots,
           QuotingRequest(r) \/ ConfirmRequest(r) \/ Abort(r)
    PROVE  InFlight \subseteq {r} /\ worker.pc = "asleep" /\ UNCHANGED worker
<1>1. UNCHANGED worker /\ (MayBegin(r) \/ req[r].pc # "idle")
  <2>1. CASE QuotingRequest(r)
    BY <2>1 DEF QuotingRequest, QuoteReadBooking, InitReadBooking, AcceptRead,
       QuoteCheckPayment, QuoteCheckAccepted, QuoteReadCatalog, QuoteWriteBack, QuoteConvert,
       QuoteIssue, AcceptMark, InitCheckPayment, InitReadQuote, InitSave
  <2>2. CASE ConfirmRequest(r) \/ Abort(r)
    BY <2>2 DEF ConfirmRequest, ConfirmRead, ConfirmGuard, ConfirmVerify, ConfirmRecord,
       ConfirmSettle, Abort
  <2> QED BY <2>1, <2>2
<1>2. CASE MayBegin(r)
  BY <1>1, <1>2 DEF MayBegin
<1>3. CASE req[r].pc # "idle"
  BY <1>1, <1>3 DEF Alone, InFlight
<1> QED BY <1>1, <1>2, <1>3

\* While the worker's cycle runs no handler is in flight.
LEMMA WorkerIsAlone ==
    ASSUME Exclusive, Alone, Reconciliation
    PROVE  InFlight = {} /\ UNCHANGED req
BY DEF Alone, Reconciliation, WorkerSweep, WorkerLoad, WorkerDefers, WorkerFinds,
   WorkerSettles, WorkerAborts

LEMMA AloneStays ==
    ASSUME Exclusive, IndInv, Alone, [Next]_vars
    PROVE  Alone'
<1>1. ASSUME NEW r \in Slots, QuotingRequest(r) \/ ConfirmRequest(r) \/ Abort(r)
      PROVE  Alone'
  <2>1. InFlight \subseteq {r} /\ worker'.pc = "asleep"
    BY <1>1, HandlerIsAlone
  <2>2. \A s \in Slots \ {r} : req'[s] = req[s]
    BY <1>1, OthersStay
  <2>3. InFlight' \subseteq {r}
    BY <2>1, <2>2 DEF InFlight
  <2> QED BY <2>1, <2>3 DEF Alone
<1>2. CASE Reconciliation
  <2>1. InFlight' = {}
    BY <1>2, WorkerIsAlone DEF InFlight
  <2> QED BY <2>1 DEF Alone
<1>3. CASE Market \/ Chains \/ UNCHANGED vars
  <2>1. UNCHANGED <<req, worker>>
    BY <1>3 DEF Market, Tick, CatalogMoves, CreateBooking, Chains, ChainMoves, vars
  <2> QED BY <2>1 DEF Alone, InFlight
<1> QED BY <1>1, <1>2, <1>3 DEF Next

----------------------------------------------------------------------------
(* What the handler that moves finds afterwards *)

LEMMA AnsweredFinds ==
    ASSUME IndInv, NEW r \in Slots, NEW a, Answer(r, a)
    PROVE  HandlerFinds(req[r])'
<1>1. req'[r].pc = "idle"
  BY DEF Answer, Answered, Idle, IndInv, TypeOK, ProcessesOK
<1> QED BY <1>1 DEF HandlerFinds, PricingSteps, ConfirmSteps

LEMMA GoneTo ==
    ASSUME IndInv, NEW r \in Slots, NEW step, Goto(r, step)
    PROVE  req'[r].pc = step /\ req'[r].booking = req[r].booking
BY DEF Goto, IndInv, TypeOK, ProcessesOK, Request

LEMMA QuotingFinds ==
    ASSUME IndInv, NEW r \in Slots, HandlerFinds(req[r]),
           \/ \E b \in Bookings : QuoteReadBooking(r, b)
           \/ QuoteCheckPayment(r) \/ QuoteCheckAccepted(r) \/ QuoteReadCatalog(r)
           \/ QuoteWriteBack(r) \/ QuoteConvert(r) \/ QuoteIssue(r)
    PROVE  HandlerFinds(req[r])'
<1>0. /\ req \in [Slots -> Request] /\ req[r] \in Request
      /\ HandlerOK(req[r]) /\ HandlerKnows(req[r])
      /\ bookings \in [Bookings -> BookingRow]
  BY DEF IndInv, ReadsStand, TypeOK, ProcessesOK, TablesOK
<1> USE DEF PricingSteps, ConfirmSteps
<1>1. ASSUME NEW b \in Bookings, QuoteReadBooking(r, b) PROVE HandlerFinds(req[r])'
  <2>1. /\ req'[r].pc = IF bookings[b].status = "pending" THEN "quote.payment" ELSE "idle"
        /\ req'[r].booking = b
    BY <1>0, <1>1 DEF QuoteReadBooking, Idle
  <2>2. bookings' = bookings
    BY <1>1 DEF QuoteReadBooking, tables
  <2> QED BY <2>1, <2>2 DEF HandlerFinds
<1>2. CASE QuoteCheckPayment(r)
  <2>1. UNCHANGED tables /\ req[r].pc = "quote.payment"
    BY <1>2 DEF QuoteCheckPayment
  <2>2. CASE Goto(r, "quote.accepted")
    BY <2>1, <2>2, GoneTo DEF HandlerFinds, tables
  <2> QED BY <1>2, <2>2, AnsweredFinds DEF QuoteCheckPayment
<1>3. CASE QuoteCheckAccepted(r)
  <2>1. UNCHANGED tables /\ req[r].pc = "quote.accepted"
    BY <1>3 DEF QuoteCheckAccepted
  <2>2. CASE AcceptedQuotes(req[r].booking) = {} /\ Goto(r, "quote.catalog")
    BY <2>1, <2>2, GoneTo DEF HandlerFinds, AcceptedQuotes, tables
  <2> QED BY <1>3, <2>2, AnsweredFinds DEF QuoteCheckAccepted
<1>4. CASE QuoteReadCatalog(r)
  <2>1. UNCHANGED tables /\ req[r].pc = "quote.catalog"
    BY <1>4 DEF QuoteReadCatalog
  <2>2. req'[r].pc \in {"quote.write", "quote.convert"} /\ req'[r].booking = req[r].booking
    BY <1>0, <1>4 DEF QuoteReadCatalog, Request
  <2> QED BY <2>1, <2>2 DEF HandlerFinds, AcceptedQuotes, tables
<1>5. CASE QuoteWriteBack(r)
  <2>1. req'[r].pc = "quote.convert" /\ req'[r].booking = req[r].booking
    BY <1>5, GoneTo DEF QuoteWriteBack
  <2>2. req[r].booking \in Bookings /\ req[r].row.status = "pending"
    BY <1>0, <1>5 DEF QuoteWriteBack, HandlerOK, HandlerKnows
  <2>3. bookings'[req[r].booking].status = "pending" /\ quotes' = quotes
    BY <1>0, <1>5, <2>2 DEF QuoteWriteBack
  <2> QED BY <1>5, <2>1, <2>3 DEF HandlerFinds, AcceptedQuotes, QuoteWriteBack
<1>6. CASE QuoteConvert(r)
  <2>1. UNCHANGED tables /\ req[r].pc = "quote.convert"
    BY <1>6 DEF QuoteConvert
  <2>0. PICK offer : req' = [req EXCEPT ![r].pc = "quote.issue", ![r].quote = offer]
    BY <1>6 DEF QuoteConvert
  <2>2. req'[r].pc = "quote.issue" /\ req'[r].booking = req[r].booking
    BY <1>0, <2>0 DEF Request
  <2> QED BY <2>1, <2>2 DEF HandlerFinds, AcceptedQuotes, tables
<1>7. CASE QuoteIssue(r)
  BY <1>7, AnsweredFinds DEF QuoteIssue
<1> QED BY <1>1, <1>2, <1>3, <1>4, <1>5, <1>6, <1>7

LEMMA LockingFinds ==
    ASSUME IndInv, NEW r \in Slots, HandlerFinds(req[r]),
           \/ \E q \in QuoteIds, p \in Prices, u \in Units : AcceptRead(r, q, p, u)
           \/ AcceptMark(r)
           \/ \E b \in Bookings : InitReadBooking(r, b)
           \/ InitCheckPayment(r) \/ InitReadQuote(r) \/ InitSave(r)
    PROVE  HandlerFinds(req[r])'
<1>0. req \in [Slots -> Request] /\ req[r] \in Request
  BY DEF IndInv, TypeOK, ProcessesOK
<1> USE DEF PricingSteps, ConfirmSteps
<1>1. ASSUME NEW q \in QuoteIds, NEW p \in Prices, NEW u \in Units, AcceptRead(r, q, p, u)
      PROVE  HandlerFinds(req[r])'
  <2>1. req'[r].pc \in {"accept.mark", "idle"}
    BY <1>0, <1>1 DEF AcceptRead, Idle
  <2> QED BY <2>1 DEF HandlerFinds
<1>2. CASE AcceptMark(r)
  BY <1>2, AnsweredFinds DEF AcceptMark
<1>3. ASSUME NEW b \in Bookings, InitReadBooking(r, b) PROVE HandlerFinds(req[r])'
  <2>1. req'[r].pc = "init.payment" /\ req'[r].booking = b
    BY <1>0, <1>3 DEF InitReadBooking, Idle
  <2>2. bookings' = bookings /\ bookings[b].status # "none"
    BY <1>3 DEF InitReadBooking, tables
  <2> QED BY <2>1, <2>2 DEF HandlerFinds
<1>4. CASE InitCheckPayment(r)
  <2>1. UNCHANGED tables /\ req[r].pc = "init.payment"
    BY <1>4 DEF InitCheckPayment
  <2>2. CASE Goto(r, "init.quote")
    BY <2>1, <2>2, GoneTo DEF HandlerFinds, tables
  <2> QED BY <1>4, <2>2, AnsweredFinds DEF InitCheckPayment
<1>5. CASE InitReadQuote(r)
  <2>1. UNCHANGED tables /\ req[r].pc = "init.quote"
    BY <1>5 DEF InitReadQuote
  <2>2. ASSUME NEW q \in QuoteIds,
               req' = [req EXCEPT ![r].pc = "init.save", ![r].id = q, ![r].quote = quotes[q]]
        PROVE  HandlerFinds(req[r])'
    <3>1. req'[r].pc = "init.save" /\ req'[r].booking = req[r].booking
      BY <1>0, <2>2 DEF Request
    <3> QED BY <2>1, <3>1 DEF HandlerFinds, tables
  <2> QED BY <1>5, <2>2, AnsweredFinds DEF InitReadQuote
<1>6. CASE InitSave(r)
  BY <1>6, AnsweredFinds DEF InitSave
<1> QED BY <1>1, <1>2, <1>3, <1>4, <1>5, <1>6

LEMMA ConfirmingFinds ==
    ASSUME IndInv, NEW r \in Slots, HandlerFinds(req[r]), ConfirmRequest(r)
    PROVE  HandlerFinds(req[r])'
<1>0. req \in [Slots -> Request] /\ req[r] \in Request
  BY DEF IndInv, TypeOK, ProcessesOK
<1> USE DEF PricingSteps, ConfirmSteps
<1>1. ASSUME NEW b \in Bookings, NEW t \in Hashes, ConfirmRead(r, b, t)
      PROVE  HandlerFinds(req[r])'
  <2>1. /\ req'[r].pc \in {"idle", "confirm.guard"} /\ req'[r].booking = b
        /\ req'[r].pc = "confirm.guard" => payments[b].status = "pending"
    BY <1>0, <1>1 DEF ConfirmRead, Idle
  <2>2. payments' = payments
    BY <1>1 DEF ConfirmRead, tables
  <2> QED BY <2>1, <2>2 DEF HandlerFinds
<1>2. CASE ConfirmGuard(r)
  <2>1. UNCHANGED tables /\ req[r].pc = "confirm.guard"
    BY <1>2 DEF ConfirmGuard
  <2>2. CASE Goto(r, "confirm.verify")
    BY <2>1, <2>2, GoneTo DEF HandlerFinds, tables
  <2> QED BY <1>2, <2>2, AnsweredFinds DEF ConfirmGuard
<1>3. CASE ConfirmVerify(r)
  <2>1. UNCHANGED tables /\ req[r].pc = "confirm.verify"
    BY <1>3 DEF ConfirmVerify
  <2>0. PICK v : req' = [req EXCEPT
                   ![r].pc = IF v = "pays" THEN "confirm.settle" ELSE "confirm.record",
                   ![r].answer = CASE v = "pays" -> "paid"
                                   [] v = "unobserved" -> "not yet"
                                   [] v = "observed" -> "never"]
    BY <1>3 DEF ConfirmVerify
  <2>2. req'[r].pc \in {"confirm.settle", "confirm.record"} /\ req'[r].booking = req[r].booking
    BY <1>0, <2>0 DEF Request
  <2> QED BY <2>1, <2>2 DEF HandlerFinds, tables
<1>4. CASE ConfirmRecord(r)
  BY <1>4, AnsweredFinds DEF ConfirmRecord
<1>5. CASE ConfirmSettle(r)
  BY <1>5, AnsweredFinds DEF ConfirmSettle
<1> QED BY <1>1, <1>2, <1>3, <1>4, <1>5 DEF ConfirmRequest

\* A handler writes of no booking but its own, and locks no other's price.
LEMMA KeepsToItsBooking ==
    ASSUME IndInv, NEW r \in Slots, QuotingRequest(r) \/ ConfirmRequest(r) \/ Abort(r),
           NEW b \in Bookings, req[r].pc # "idle" => req[r].booking # b
    PROVE  /\ bookings'[b] = bookings[b] /\ payments'[b] = payments[b]
           /\ AcceptedQuotes(b)' \subseteq AcceptedQuotes(b)
<1>0. /\ payments \in [Bookings -> PaymentRow] /\ bookings \in [Bookings -> BookingRow]
      /\ quotes \in [QuoteIds -> QuoteRow]
      /\ HandlerKnows(req[r]) /\ HandlerOK(req[r])
  BY DEF IndInv, ReadsStand, TypeOK, TablesOK, ProcessesOK
<1>1. CASE UNCHANGED tables
  BY <1>1 DEF tables, AcceptedQuotes
<1>2. CASE QuoteWriteBack(r)
  <2>1. req[r].booking # b /\ quotes' = quotes /\ payments' = payments
    BY <1>2 DEF QuoteWriteBack
  <2> QED BY <1>0, <1>2, <2>1 DEF QuoteWriteBack, AcceptedQuotes
<1>3. CASE QuoteIssue(r)
  <2>1. PICK id \in QuoteIds :
          quotes' = [q \in QuoteIds |-> IF q = id THEN req[r].quote
                                          ELSE Supersede(req[r].booking, q)]
    BY <1>3 DEF QuoteIssue
  <2>2. req[r].quote.status = "active"
    BY <1>0, <1>3 DEF QuoteIssue, HandlerKnows
  <2>3. \A q \in QuoteIds : quotes'[q].status = "accepted" => quotes'[q] = quotes[q]
    BY <1>0, <2>1, <2>2 DEF Supersede, QuoteRow
  <2>4. bookings' = bookings /\ payments' = payments
    BY <1>3 DEF QuoteIssue
  <2> QED BY <2>3, <2>4 DEF AcceptedQuotes
<1>4. CASE AcceptMark(r)
  <2>1. /\ req[r].id \in QuoteIds /\ quotes[req[r].id].booking = req[r].booking
        /\ req[r].booking # b
    BY <1>0, <1>4 DEF AcceptMark, HandlerKnows
  <2>2. \A q \in QuoteIds \ {req[r].id} : quotes'[q] = quotes[q]
    BY <1>0, <1>4 DEF AcceptMark
  <2>3. quotes'[req[r].id].booking = quotes[req[r].id].booking
    BY <1>0, <1>4, <2>1 DEF AcceptMark, QuoteRow
  <2>4. bookings' = bookings /\ payments' = payments
    BY <1>4 DEF AcceptMark
  <2> QED BY <2>1, <2>2, <2>3, <2>4 DEF AcceptedQuotes
<1>5. CASE InitSave(r)
  <2>1. req[r].booking # b /\ quotes' = quotes /\ bookings' = bookings
    BY <1>5 DEF InitSave
  <2> QED BY <1>0, <1>5, <2>1 DEF InitSave, AcceptedQuotes
<1>6. CASE ConfirmRecord(r)
  <2>1. req[r].booking # b /\ quotes' = quotes /\ bookings' = bookings
    BY <1>6 DEF ConfirmRecord
  <2> QED BY <1>0, <1>6, <2>1 DEF ConfirmRecord, AcceptedQuotes
<1>7. CASE ConfirmSettle(r)
  <2>1. req[r].booking # b /\ quotes' = quotes
    BY <1>7 DEF ConfirmSettle
  <2> QED BY <1>0, <1>7, <2>1 DEF ConfirmSettle, Settle, AcceptedQuotes
<1>8. CASE QuotingRequest(r)
  BY <1>1, <1>2, <1>3, <1>4, <1>5, <1>8
  DEF QuotingRequest, QuoteReadBooking, InitReadBooking, AcceptRead,
      QuoteCheckPayment, QuoteCheckAccepted, QuoteReadCatalog, QuoteConvert,
      InitCheckPayment, InitReadQuote
<1>9. CASE ConfirmRequest(r) \/ Abort(r)
  BY <1>1, <1>6, <1>7, <1>9
  DEF ConfirmRequest, ConfirmRead, ConfirmGuard, ConfirmVerify, Abort
<1> QED BY <1>8, <1>9

\* So does the worker's cycle, of the booking it settles.
LEMMA WorkerKeepsToItsBooking ==
    ASSUME IndInv, Reconciliation, NEW b \in Bookings, worker.pc = "settle" => worker.at # b
    PROVE  /\ req' = req /\ bookings'[b] = bookings[b] /\ payments'[b] = payments[b]
           /\ AcceptedQuotes(b)' \subseteq AcceptedQuotes(b)
<1>0. /\ payments \in [Bookings -> PaymentRow] /\ bookings \in [Bookings -> BookingRow]
      /\ quotes \in [QuoteIds -> QuoteRow]
  BY DEF IndInv, TypeOK, TablesOK
<1>1. CASE WorkerSweep
  <2>1. \A q \in QuoteIds : quotes'[q].status = "accepted" => quotes'[q] = quotes[q]
    BY <1>0, <1>1 DEF WorkerSweep, Expired, QuoteRow
  <2> QED BY <1>1, <2>1 DEF WorkerSweep, AcceptedQuotes
<1>2. CASE WorkerSettles
  <2>1. worker.at # b /\ quotes' = quotes /\ req' = req
    BY <1>2 DEF WorkerSettles
  <2> QED BY <1>0, <1>2, <2>1 DEF WorkerSettles, Settle, AcceptedQuotes
<1>3. CASE WorkerLoad \/ (\E c \in Bookings : WorkerDefers(c) \/ WorkerFinds(c)) \/ WorkerAborts
  <2>1. UNCHANGED <<tables, req>>
    BY <1>3 DEF WorkerLoad, WorkerDefers, WorkerFinds, WorkerAborts
  <2> QED BY <2>1 DEF tables, AcceptedQuotes
<1> QED BY <1>1, <1>2, <1>3 DEF Reconciliation

LEMMA HandlersStillFind ==
    ASSUME Apart, IndInv, OnceInv, [Next]_vars, NEW s \in Slots
    PROVE  HandlerFinds(req[s])'
<1>0. HandlerFinds(req[s]) /\ HandlerOK(req[s])
  BY DEF OnceInv, IndInv, TypeOK, ProcessesOK
<1>1. ASSUME req'[s].pc = "idle" PROVE HandlerFinds(req[s])'
  BY <1>1 DEF HandlerFinds, PricingSteps, ConfirmSteps
<1>2. ASSUME req'[s] = req[s], req[s].pc # "idle",
             LET b == req[s].booking IN
             /\ bookings'[b] = bookings[b] /\ payments'[b] = payments[b]
             /\ AcceptedQuotes(b)' \subseteq AcceptedQuotes(b)
      PROVE  HandlerFinds(req[s])'
  BY <1>0, <1>2 DEF HandlerFinds
<1>3. ASSUME NEW r \in Slots, QuotingRequest(r) \/ ConfirmRequest(r) \/ Abort(r)
      PROVE  HandlerFinds(req[s])'
  <2>1. CASE r # s
    <3>1. req'[s] = req[s]
      BY <1>3, <2>1, OthersStay
    <3>2. CASE req[s].pc = "idle"
      BY <1>1, <3>1, <3>2
    <3>3. CASE req[s].pc # "idle"
      <4>1. req[s].booking \in Bookings
        BY <1>0, <3>3 DEF HandlerOK
      <4>2. req[r].pc # "idle" => req[r].booking # req[s].booking
        BY <2>1, <3>3 DEF Apart, InFlight
      <4> QED BY <1>2, <1>3, <3>1, <3>3, <4>1, <4>2, KeepsToItsBooking
    <3> QED BY <3>2, <3>3
  <2>2. CASE r = s /\ QuotingRequest(s)
    BY <1>0, <2>2, QuotingFinds, LockingFinds DEF QuotingRequest
  <2>3. CASE r = s /\ ConfirmRequest(s)
    BY <1>0, <2>3, ConfirmingFinds
  <2>4. CASE r = s /\ Abort(s)
    BY <2>4, AnsweredFinds DEF Abort
  <2> QED BY <1>3, <2>1, <2>2, <2>3, <2>4
<1>4. CASE Reconciliation
  <2>1. CASE req[s].pc = "idle"
    <3>1. req' = req
      BY <1>4 DEF Reconciliation, WorkerSweep, WorkerLoad, WorkerDefers, WorkerFinds,
         WorkerSettles, WorkerAborts
    <3> QED BY <1>1, <2>1, <3>1
  <2>2. CASE req[s].pc # "idle"
    <3>1. req[s].booking \in Bookings
      BY <1>0, <2>2 DEF HandlerOK
    <3>2. worker.pc = "settle" => worker.at # req[s].booking
      BY <2>2 DEF Apart, InFlight
    <3> QED BY <1>2, <1>4, <2>2, <3>1, <3>2, WorkerKeepsToItsBooking
  <2> QED BY <2>1, <2>2
<1>5. CASE Market \/ Chains \/ UNCHANGED vars
  <2>1. UNCHANGED <<req, quotes, payments>>
    BY <1>5 DEF Market, Tick, CatalogMoves, CreateBooking, Chains, ChainMoves, tables, vars
  <2>2. bookings \in [Bookings -> BookingRow]
    BY DEF IndInv, TypeOK, TablesOK
  <2>3. \A b \in Bookings : bookings[b].status # "none" => bookings'[b] = bookings[b]
    BY <1>5, <2>2 DEF Market, Tick, CatalogMoves, CreateBooking, Chains, ChainMoves, tables,
       vars
  <2> QED BY <1>0, <2>1, <2>3
          DEF HandlerFinds, HandlerOK, AcceptedQuotes, PricingSteps, ConfirmSteps
<1> QED BY <1>3, <1>4, <1>5 DEF Next

----------------------------------------------------------------------------
(* The tables *)

\* What a step does to the bookings, the payments and the ledger together.
LEMMA MoneyMoves ==
    ASSUME IndInv, [Next]_vars
    PROVE  \/ UNCHANGED <<bookings, payments, ledger>>
           \/ SettleStep
           \/ /\ UNCHANGED <<payments, ledger>>
              /\ (\E b \in Bookings : CreateBooking(b)) \/ (\E r \in Slots : QuoteWriteBack(r))
           \/ /\ UNCHANGED <<bookings, ledger>>
              /\ \E r \in Slots : InitSave(r) \/ ConfirmRecord(r)
<1>1. BookingsStep /\ PaymentsStep
  BY BookingsFootprint, PaymentsFootprint
<1>2. \A b \in Bookings : CreateBooking(b) => UNCHANGED <<payments, ledger>>
  BY DEF CreateBooking
<1>3. \A r \in Slots : QuoteWriteBack(r) => UNCHANGED <<payments, ledger>>
  BY DEF QuoteWriteBack
<1> QED BY <1>1, <1>2, <1>3 DEF BookingsStep, PaymentsStep

\* A settlement, alone, is the first of its booking and books it.
LEMMA FirstSettlement ==
    ASSUME IndInv, OnceInv, SettleStep
    PROVE  \E b \in Bookings, t \in Hashes :
              /\ CanSettle(b, t) /\ Settle(b, t) /\ Pays(t, payments[b].units)
              /\ payments[b].status = "pending" /\ bookings[b].status = "pending"
              /\ \A h \in Hashes : ledger[b][h] = 0
              /\ payments' = [payments EXCEPT ![b].status = "confirmed", ![b].tx = t]
              /\ bookings' = [bookings EXCEPT ![b] = [@ EXCEPT !.status = "confirmed", !.tx = t]]
              /\ ledger' = [ledger EXCEPT ![b][t] = @ + 1]
<1>1. PICK b \in Bookings, t \in Hashes : CanSettle(b, t) /\ Settle(b, t) /\ Pays(t, payments[b].units)
  BY DEF SettleStep
<1>2. payments[b].status = "pending" /\ ~HashTaken(b, t)
  BY <1>1 DEF CanSettle
<1>3. bookings[b].status \in {"none", "pending", "confirmed"}
  BY DEF IndInv, TypeOK, TablesOK, BookingRow
<1>4. bookings[b].status = "pending"
  BY <1>2, <1>3 DEF OnceInv, PaymentInserted, ConfirmedTogether
<1>5. \A h \in Hashes : ledger[b][h] = 0
  BY <1>2 DEF OnceInv, OneRowEach
<1>6. /\ payments' = [payments EXCEPT ![b].status = "confirmed", ![b].tx = t]
      /\ bookings' = [bookings EXCEPT ![b] = BookAsPaid(b, t)]
      /\ ledger' = [ledger EXCEPT ![b][t] = @ + 1]
  BY <1>1 DEF Settle
<1>7. BookAsPaid(b, t) = [bookings[b] EXCEPT !.status = "confirmed", !.tx = t]
  BY <1>4 DEF BookAsPaid
<1> QED BY <1>1, <1>2, <1>4, <1>5, <1>6, <1>7

\* The row ConfirmRecord writes is pending as the one it replaces.
LEMMA RecordsPending ==
    ASSUME IndInv, OnceInv, NEW r \in Slots, ConfirmRecord(r)
    PROVE  \/ UNCHANGED payments
           \/ \E b \in Bookings :
                 /\ payments[b].status = "pending"
                 /\ payments' = [payments EXCEPT ![b] = [@ EXCEPT !.status = "pending",
                                                                  !.tx = req[r].tx]]
<1>1. /\ req[r].booking \in Bookings /\ req[r].pay.status = "pending"
      /\ payments[req[r].booking].status = "pending"
  BY DEF ConfirmRecord, OnceInv, HandlerFinds, IndInv, TypeOK, ProcessesOK, HandlerOK,
     ReadsStand, HandlerKnows, ConfirmSteps
<1> QED BY <1>1 DEF ConfirmRecord, Recorded

\* The row CreateQuote writes back is pending as the one it replaces.
LEMMA WritesPending ==
    ASSUME IndInv, OnceInv, NEW r \in Slots, QuoteWriteBack(r)
    PROVE  \E b \in Bookings, row \in BookingRow :
              /\ bookings[b].status = "pending" /\ row.status = "pending"
              /\ bookings' = [bookings EXCEPT ![b] = row]
<1>1. /\ req[r].booking \in Bookings /\ req[r].row \in BookingRow
      /\ req[r].row.status = "pending" /\ bookings[req[r].booking].status = "pending"
  BY DEF QuoteWriteBack, OnceInv, HandlerFinds, PricingSteps, IndInv, TypeOK, ProcessesOK,
     HandlerOK, Request, ReadsStand, HandlerKnows
<1> QED BY <1>1 DEF QuoteWriteBack

TogetherInv ==
    /\ \A b \in Bookings : PaymentInserted(b) => bookings[b].status # "none"
    /\ OneRowEach /\ ConfirmedTogether

\* What is confirmed is not written again.
SettledStays ==
    \A b \in Bookings :
        /\ payments[b].status = "confirmed" => payments'[b] = payments[b]
        /\ bookings[b].status = "confirmed" => bookings'[b] = bookings[b]

LEMMA MoneyStaysTogether ==
    ASSUME IndInv, OnceInv, [Next]_vars
    PROVE  TogetherInv' /\ SettledStays
<1>0. /\ payments \in [Bookings -> PaymentRow] /\ bookings \in [Bookings -> BookingRow]
      /\ ledger \in [Bookings -> [Hashes -> Nat]]
      /\ TogetherInv
  BY DEF IndInv, TypeOK, TablesOK, OnceInv, TogetherInv
<1> USE DEF TogetherInv, OneRowEach, ConfirmedTogether, PaymentInserted, SettledStays
<1>1. CASE UNCHANGED <<bookings, payments, ledger>>
  BY <1>0, <1>1
<1>2. CASE SettleStep
  <2>1. PICK b \in Bookings, t \in Hashes :
          /\ payments[b].status = "pending" /\ bookings[b].status = "pending"
          /\ \A h \in Hashes : ledger[b][h] = 0
          /\ payments' = [payments EXCEPT ![b].status = "confirmed", ![b].tx = t]
          /\ bookings' = [bookings EXCEPT ![b] = [@ EXCEPT !.status = "confirmed", !.tx = t]]
          /\ ledger' = [ledger EXCEPT ![b][t] = @ + 1]
    BY <1>2, FirstSettlement
  <2>2. /\ payments'[b].status = "confirmed" /\ payments'[b].tx = t
        /\ bookings'[b].status = "confirmed" /\ bookings'[b].tx = t
        /\ \A h \in Hashes : ledger'[b][h] = IF h = t THEN 1 ELSE 0
    BY <1>0, <2>1 DEF PaymentRow, BookingRow
  <2>3. \A c \in Bookings \ {b} : /\ payments'[c] = payments[c] /\ bookings'[c] = bookings[c]
                                  /\ ledger'[c] = ledger[c]
    BY <1>0, <2>1
  <2> QED BY <1>0, <2>1, <2>2, <2>3
<1>3. ASSUME UNCHANGED <<payments, ledger>>, NEW b \in Bookings, CreateBooking(b)
      PROVE  TogetherInv' /\ SettledStays
  <2>1. /\ bookings[b].status = "none" /\ bookings'[b].status = "pending"
        /\ \A c \in Bookings \ {b} : bookings'[c] = bookings[c]
    BY <1>0, <1>3 DEF CreateBooking
  <2> QED BY <1>0, <1>3, <2>1
<1>4. ASSUME UNCHANGED <<payments, ledger>>, NEW r \in Slots, QuoteWriteBack(r)
      PROVE  TogetherInv' /\ SettledStays
  <2>1. PICK b \in Bookings, row \in BookingRow :
          /\ bookings[b].status = "pending" /\ row.status = "pending"
          /\ bookings' = [bookings EXCEPT ![b] = row]
    BY <1>4, WritesPending
  <2>2. /\ bookings[b].status = "pending" /\ bookings'[b].status = "pending"
        /\ \A c \in Bookings \ {b} : bookings'[c] = bookings[c]
    BY <1>0, <2>1
  <2> QED BY <1>0, <1>4, <2>2
<1>5. ASSUME UNCHANGED <<bookings, ledger>>, NEW r \in Slots, ConfirmRecord(r)
      PROVE  TogetherInv' /\ SettledStays
  <2>1. CASE UNCHANGED payments
    BY <1>0, <1>5, <2>1
  <2>2. ASSUME NEW b \in Bookings, payments[b].status = "pending",
               payments' = [payments EXCEPT ![b] = [@ EXCEPT !.status = "pending",
                                                             !.tx = req[r].tx]]
        PROVE  TogetherInv' /\ SettledStays
    <3>1. /\ payments'[b].status = "pending"
          /\ \A c \in Bookings \ {b} : payments'[c] = payments[c]
      BY <1>0, <2>2 DEF PaymentRow
    <3> QED BY <1>0, <1>5, <2>2, <3>1
  <2> QED BY <1>5, <2>1, <2>2, RecordsPending
<1>6. ASSUME UNCHANGED <<bookings, ledger>>, NEW r \in Slots, InitSave(r)
      PROVE  TogetherInv' /\ SettledStays
  <2>1. req[r].booking \in Bookings /\ bookings[req[r].booking].status # "none"
    BY <1>6 DEF InitSave, OnceInv, HandlerFinds, IndInv, TypeOK, ProcessesOK, HandlerOK
  <2>2. \/ payments' = payments
        \/ /\ payments[req[r].booking].status = "none"
           /\ payments'[req[r].booking].status = "pending"
           /\ \A c \in Bookings \ {req[r].booking} : payments'[c] = payments[c]
    BY <1>0, <1>6, <2>1 DEF InitSave, PaymentFrom
  <2>3. CASE payments' = payments
    BY <1>0, <1>6, <2>3
  <2>4. ASSUME NEW b \in Bookings, bookings[b].status # "none",
               payments[b].status = "none", payments'[b].status = "pending",
               \A c \in Bookings \ {b} : payments'[c] = payments[c]
        PROVE  TogetherInv' /\ SettledStays
    <3>1. SettledStays
      BY <1>6, <2>4
    <3>2. OneRowEach'
      BY <1>0, <1>6, <2>4
    <3>3. ConfirmedTogether'
      BY <1>0, <1>6, <2>4
    <3> QED BY <1>0, <1>6, <2>4, <3>1, <3>2, <3>3
  <2> QED BY <2>1, <2>2, <2>3, <2>4
<1> QED BY <1>1, <1>2, <1>3, <1>4, <1>5, <1>6, MoneyMoves

LEMMA NoOfferStays ==
    ASSUME IndInv, OnceInv, [Next]_vars
    PROVE  NoOfferBesideLock'
<1>0. quotes \in [QuoteIds -> QuoteRow] /\ NoOfferBesideLock
  BY DEF IndInv, TypeOK, TablesOK, OnceInv
<1>1. CASE UNCHANGED quotes
  BY <1>0, <1>1 DEF NoOfferBesideLock, AcceptedQuotes, ActiveQuotes
<1>2. CASE WorkerSweep
  <2>1. \A q \in QuoteIds : quotes'[q] = quotes[q] \/ quotes'[q] = Expired(q)
    BY <1>2 DEF WorkerSweep
  <2>2. \A q \in QuoteIds : \/ quotes'[q] = quotes[q]
                            \/ quotes'[q].status = "expired"
    BY <1>0, <2>1 DEF Expired, QuoteRow
  <2> QED BY <1>0, <2>2 DEF NoOfferBesideLock, AcceptedQuotes, ActiveQuotes
<1>3. ASSUME NEW r \in Slots, QuoteIssue(r) PROVE NoOfferBesideLock'
  <2>1. PICK id \in QuoteIds :
          /\ quotes[id].status = "none"
          /\ quotes' = [q \in QuoteIds |-> IF q = id THEN req[r].quote
                                             ELSE Supersede(req[r].booking, q)]
    BY <1>3 DEF QuoteIssue
  <2>2. /\ req[r].quote.status = "active" /\ req[r].quote.booking = req[r].booking
        /\ AcceptedQuotes(req[r].booking) = {}
    BY <1>3 DEF QuoteIssue, IndInv, ReadsStand, HandlerKnows, TypeOK, ProcessesOK, HandlerOK,
       OnceInv, HandlerFinds, PricingSteps
  <2>3. \A q \in QuoteIds \ {id} : quotes'[q] = quotes[q] \/ quotes'[q].status = "superseded"
    BY <1>0, <2>1 DEF Supersede, QuoteRow
  <2>4. quotes'[id] = req[r].quote
    BY <2>1
  <2>5. \A b \in Bookings : AcceptedQuotes(b)' \subseteq AcceptedQuotes(b)
    BY <2>2, <2>3, <2>4 DEF AcceptedQuotes
  <2>6. \A b \in Bookings \ {req[r].booking} : ActiveQuotes(b)' \subseteq ActiveQuotes(b)
    BY <2>2, <2>3, <2>4 DEF ActiveQuotes
  <2> QED BY <1>0, <2>2, <2>5, <2>6 DEF NoOfferBesideLock
<1>4. ASSUME NEW r \in Slots, AcceptMark(r), quotes' # quotes PROVE NoOfferBesideLock'
  <2>0. PICK booking : booking = req[r].booking
    OBVIOUS
  <2>1. PICK q \in QuoteIds :
          /\ quotes[q].booking = booking /\ quotes[q].status = "active"
          /\ quotes' = [quotes EXCEPT ![q].status = "accepted",
                                      ![q].accepted = req[r].quote.accepted]
    BY <1>4, <2>0 DEF AcceptMark, StillActive, IndInv, ReadsStand, HandlerKnows
  <2>2. /\ quotes'[q].status = "accepted" /\ quotes'[q].booking = booking
        /\ \A p \in QuoteIds \ {q} : quotes'[p] = quotes[p]
    BY <1>0, <2>1 DEF QuoteRow
  <2>3. ActiveQuotes(booking)' = {}
    BY <2>1, <2>2 DEF IndInv, OneOfferOneLock, ActiveQuotes
  <2>4. \A b \in Bookings \ {booking} :
           /\ AcceptedQuotes(b)' \subseteq AcceptedQuotes(b)
           /\ ActiveQuotes(b)' \subseteq ActiveQuotes(b)
    BY <2>2 DEF ActiveQuotes, AcceptedQuotes
  <2> QED BY <1>0, <2>3, <2>4 DEF NoOfferBesideLock
<1>5. QuotesStep
  BY QuotesFootprint
<1> QED BY <1>1, <1>2, <1>3, <1>4, <1>5 DEF QuotesStep

----------------------------------------------------------------------------
(* The theorems *)

LEMMA OnceInvInit == Init => OnceInv
<1> SUFFICES ASSUME Init PROVE OnceInv
  OBVIOUS
<1>1. \A r \in Slots : HandlerFinds(req[r])
  BY DEF Init, Idle, HandlerFinds, PricingSteps, ConfirmSteps
<1>2. \A b \in Bookings : ~PaymentInserted(b) /\ bookings[b].status = "none"
  BY DEF Init, NoPaymentRow, NoBookingRow, PaymentInserted
<1>3. OneRowEach /\ ConfirmedTogether
  BY <1>2 DEF Init, OneRowEach, ConfirmedTogether, PaymentInserted
<1>4. NoOfferBesideLock
  BY DEF Init, NoQuoteRow, NoOfferBesideLock, AcceptedQuotes
<1> QED BY <1>1, <1>2, <1>3, <1>4 DEF OnceInv

LEMMA OnceInvStep == IndInv /\ OnceInv /\ Apart /\ [Next]_vars => OnceInv' /\ SettledStays
<1> SUFFICES ASSUME IndInv, OnceInv, Apart, [Next]_vars PROVE OnceInv' /\ SettledStays
  OBVIOUS
<1>1. \A s \in Slots : HandlerFinds(req[s])'
  BY HandlersStillFind
<1>2. TogetherInv' /\ SettledStays
  BY MoneyStaysTogether
<1>3. NoOfferBesideLock'
  BY NoOfferStays
<1> QED BY <1>1, <1>2, <1>3 DEF OnceInv, TogetherInv

LEMMA OnceInvariant == Spec /\ []Apart => [](IndInv /\ OnceInv)
BY OnceInvInit, OnceInvStep, Invariant, PTL DEF Spec

\* Where nothing overlaps, no two processes work on one booking.
LEMMA ExclusiveIsApart ==
    ASSUME Exclusive
    PROVE  Spec => []Apart
<1>1. Init => Alone
  BY DEF Init, Idle, Asleep, Alone, InFlight
<1>2. IndInv /\ Alone /\ [Next]_vars => Alone'
  BY AloneStays
<1>3. Alone => Apart
  BY DEF Alone, Apart
<1> QED BY <1>1, <1>2, <1>3, Invariant, PTL DEF Spec

LEMMA OneTransferOneBooking ==
    ASSUME OneSpelling, IndInv, OnceInv
    PROVE  TransferSettlesOneBooking
<1> SUFFICES ASSUME NEW b \in Bookings, NEW c \in Bookings, NEW t \in Hashes, NEW h \in Hashes,
                    Booked(b, t), Booked(c, h), TransferOf[t] = TransferOf[h]
             PROVE  b = c
  BY DEF TransferSettlesOneBooking
<1>1. payments[b].tx = t /\ payments[c].tx = h
  BY DEF OnceInv, OneRowEach, Booked
<1>2. t = h /\ t # NoHash
  BY SetsAssumption DEF OneSpelling
<1> QED BY <1>1, <1>2 DEF IndInv, HashOnOnePayment

\* Processes that are never on one booking at the same time settle it at most once,
\* confirm payment and booking together and leave no offer beside a lock
\* (PgSettlementRepository::confirm_payment, ConfirmPayment, CreateQuote).
THEOREM ApartSettlesOnce ==
    Spec /\ []Apart => [](SettledOnce /\ ConfirmedTogether /\ NoOfferBesideLock)
<1>1. OnceInv => SettledOnce /\ ConfirmedTogether /\ NoOfferBesideLock
  BY DEF OnceInv, OneRowEach, SettledOnce, Booked
<1> QED BY <1>1, OnceInvariant, PTL

\* Such processes never write again what is settled: a confirmed booking keeps its
\* price, its hash and its status, a confirmed payment its row (bookings.update,
\* payment_repo.update).
THEOREM ApartSettlesForGood == Spec /\ []Apart => SettlementStands /\ PaidPriceIsFixed
<1>1. IndInv /\ OnceInv /\ Apart /\ [Next]_vars
        => [\A b \in Bookings :
              /\ payments[b].status = "confirmed" => payments'[b] = payments[b]
              /\ bookings[b].status = "confirmed" => bookings'[b] = bookings[b]]_vars
  BY OnceInvStep DEF SettledStays
<1>2. IndInv /\ OnceInv /\ Apart /\ [Next]_vars
        => [\A b \in Bookings : bookings[b].status = "confirmed"
                                  => bookings'[b].price = bookings[b].price]_vars
  BY OnceInvStep DEF SettledStays
<1> QED BY <1>1, <1>2, OnceInvariant, PTL DEF Spec, SettlementStands, PaidPriceIsFixed

\* A booking is settled at most once, by one hash, if handlers and the worker's
\* cycles take turns (SettlementRepository::confirm_payment).
THEOREM SettlesOnce == Exclusive => (Spec => []SettledOnce)
<1> SUFFICES ASSUME Exclusive PROVE Spec => []SettledOnce
  OBVIOUS
<1> QED BY ExclusiveIsApart, ApartSettlesOnce, PTL

\* An on-chain transfer settles at most one booking, if they take turns and no
\* transfer is submitted under two spellings (README, "Properties").
THEOREM TransferSettlesOne ==
    Exclusive /\ OneSpelling => (Spec => []TransferSettlesOneBooking)
<1> SUFFICES ASSUME Exclusive, OneSpelling PROVE Spec => []TransferSettlesOneBooking
  OBVIOUS
<1>1. IndInv /\ OnceInv => TransferSettlesOneBooking
  BY OneTransferOneBooking
<1> QED BY <1>1, ExclusiveIsApart, OnceInvariant, PTL

\* Payment and booking are confirmed together, by one hash, if they take turns
\* (the UPDATEs of PgSettlementRepository::confirm_payment).
THEOREM ConfirmsTogether == Exclusive => (Spec => []ConfirmedTogether)
<1> SUFFICES ASSUME Exclusive PROVE Spec => []ConfirmedTogether
  OBVIOUS
<1> QED BY ExclusiveIsApart, ApartSettlesOnce, PTL

\* No offer is open beside a locked price, if they take turns (CreateQuote).
THEOREM OffersEndWithLock == Exclusive => (Spec => []NoOfferBesideLock)
<1> SUFFICES ASSUME Exclusive PROVE Spec => []NoOfferBesideLock
  OBVIOUS
<1> QED BY ExclusiveIsApart, ApartSettlesOnce, PTL

\* What is settled stays settled, with its hash and its price, if they take
\* turns (bookings.update, payment_repo.update).
THEOREM SettledForGood == Exclusive => (Spec => SettlementStands)
<1> SUFFICES ASSUME Exclusive PROVE Spec => SettlementStands
  OBVIOUS
<1> QED BY ExclusiveIsApart, ApartSettlesForGood, PTL

\* The settlement of a booking is its first, and the first with this transfer.
LEMMA SettlesFresh ==
    ASSUME OneSpelling, IndInv, OnceInv, SettleStep
    PROVE  \E b \in Bookings, t \in Hashes :
              /\ CanSettle(b, t) /\ Settle(b, t) /\ Pays(t, payments[b].units)
              /\ P!Fresh(b, t)
<1>1. PICK b \in Bookings, t \in Hashes :
        /\ CanSettle(b, t) /\ Settle(b, t) /\ Pays(t, payments[b].units)
        /\ \A h \in Hashes : ledger[b][h] = 0
  BY FirstSettlement
<1>2. Receipts[b] = {}
  BY <1>1 DEF Receipts, Booked
<1>3. ASSUME NEW c \in Bookings, NEW h \in Receipts[c] PROVE TransferOf[h] # TransferOf[t]
  <2>1. h \in Hashes /\ Booked(c, h) /\ c # b
    BY <1>2 DEF Receipts
  <2>2. payments[c].tx = h
    BY <2>1 DEF Booked, OnceInv, OneRowEach
  <2>3. h # t
    BY <1>1, <2>1, <2>2 DEF CanSettle, HashTaken
  <2> QED BY <2>1, <2>3 DEF OneSpelling
<1> QED BY <1>1, <1>2, <1>3 DEF P!Fresh

LEMMA PromiseOnceStep ==
    ASSUME OneSpelling, IndInv, OnceInv, [Next]_vars
    PROVE  [P!OnceNext]_(P!promises)
<1>1. CASE ~SettleStep
  <2>1. Receipts' = Receipts
    BY <1>1, PaymentsFootprint, ReceiptsStay DEF PaymentsStep
  <2>2. CASE P!Owing
    BY <2>2 DEF P!OnceNext
  <2>3. CASE \E b \in Bookings, t \in Hashes : P!Receive(b, t)
    BY <2>1, <2>3 DEF P!Receive, P!promises
  <2> QED BY <2>2, <2>3, PromiseStep DEF P!Next
<1>2. CASE SettleStep
  <2>1. PICK b \in Bookings, t \in Hashes :
          /\ CanSettle(b, t) /\ Settle(b, t) /\ Pays(t, payments[b].units)
          /\ P!Fresh(b, t)
    BY <1>2, SettlesFresh
  <2>2. payments \in [Bookings -> PaymentRow] /\ ledger \in [Bookings -> [Hashes -> Nat]]
    BY DEF IndInv, TypeOK, TablesOK
  <2>3. payments' # payments /\ ledger' # ledger
    <3>1. payments'[b].status = "confirmed" /\ payments[b].status = "pending"
      BY <2>1, <2>2 DEF CanSettle, Settle, PaymentRow
    <3>2. ledger'[b][t] = ledger[b][t] + 1 /\ ledger[b][t] \in Nat
      BY <2>1, <2>2 DEF Settle
    <3> QED BY <3>1, <3>2
  <2>4. Locked' = Locked /\ Final' = Final
    BY <2>3, OneTableAtATime DEF Locked, AcceptedQuotes, Final
  <2>5. Due' = Due
    BY <2>3, PaymentsFootprint, DebtsStay DEF InitSave
  <2>6. P!Receive(b, t)
    BY <2>1, <2>4, <2>5, SettlingReceives DEF P!Receive
  <2> QED BY <2>1, <2>6 DEF P!OnceNext
<1> QED BY <1>1, <1>2

\* The checkout implements the promise with every debt and every transfer settled
\* once, if no two processes are on one booking at the same time and no transfer has
\* two spellings ("settles at most one booking", README).
THEOREM ApartRefinesOnce == OneSpelling => (Spec /\ []Apart => KeepsPromiseOnce)
<1> SUFFICES ASSUME OneSpelling PROVE Spec /\ []Apart => KeepsPromiseOnce
  OBVIOUS
<1>1. IndInv /\ OnceInv /\ [Next]_vars => [P!OnceNext]_(P!promises)
  BY PromiseOnceStep
<1> QED BY <1>1, PromiseInit, OnceInvariant, PTL DEF Spec, KeepsPromiseOnce, P!OnceSpec

\* The same, if handlers and the worker's cycles take turns.
THEOREM RefinesOnce == Exclusive /\ OneSpelling => (Spec => KeepsPromiseOnce)
<1> SUFFICES ASSUME Exclusive, OneSpelling PROVE Spec => KeepsPromiseOnce
  OBVIOUS
<1> QED BY ExclusiveIsApart, ApartRefinesOnce, PTL
=============================================================================
