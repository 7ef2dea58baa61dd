--------------------------- MODULE CheckoutProofs ---------------------------
(***************************************************************************)
(* Theorems about the checkout, for every set of bookings, quotes, hashes, *)
(* transfers and handlers, and every bound.                                *)
(***************************************************************************)
EXTENDS CheckoutTypes

\* What a transfer can become, and what a gateway may say of it.
USE DEF Fates, ChainInit, Decided, Outcomes

(* What a step can do to each table.                                       *)

QuotesStep ==
    \/ UNCHANGED quotes
    \/ WorkerSweep
    \/ \E r \in Slots : QuoteIssue(r) \/ AcceptMark(r)

\* Only a transfer that pays what the payment asks for is settled with.
SettleStep ==
    \E b \in Bookings, t \in Hashes :
        /\ CanSettle(b, t) /\ Settle(b, t)
        /\ Pays(t, payments[b].units)

PaymentsStep ==
    \/ UNCHANGED <<payments, ledger>>
    \/ SettleStep
    \/ UNCHANGED ledger /\ \E r \in Slots : InitSave(r) \/ ConfirmRecord(r)

BookingsStep ==
    \/ UNCHANGED bookings
    \/ SettleStep
    \/ \E b \in Bookings : CreateBooking(b)
    \/ \E r \in Slots : QuoteWriteBack(r)

ChainStep == \A x \in Transfers : chain[x] = "final" => chain'[x] = "final"

LEMMA ConfirmSettleStep ==
    ASSUME IndInv, NEW r \in Slots, ConfirmSettle(r)
    PROVE  SettleStep \/ UNCHANGED <<payments, bookings, ledger>>
<1>1. /\ req[r].booking \in Bookings /\ req[r].tx \in Hashes
      /\ Pays(req[r].tx, payments[req[r].booking].units)
  BY DEF IndInv, ReadsStand, TypeOK, ProcessesOK, HandlerOK, HandlerKnows, ConfirmSettle, ConfirmSteps
<1> QED BY <1>1 DEF ConfirmSettle, SettleStep

LEMMA WorkerSettlesStep ==
    ASSUME IndInv, WorkerSettles
    PROVE  SettleStep \/ UNCHANGED <<payments, bookings, ledger>>
<1>1. /\ worker.at \in Bookings /\ worker.batch[worker.at].tx \in Hashes
      /\ Pays(worker.batch[worker.at].tx, payments[worker.at].units)
  BY DEF IndInv, ReadsStand, WorkerKnows, WorkerSettles
<1> QED BY <1>1 DEF WorkerSettles, SettleStep

LEMMA QuotesFootprint ==
    ASSUME IndInv, [Next]_vars
    PROVE  QuotesStep
BY DEF QuotesStep, Next, vars, tables, world, Market, Tick, CatalogMoves, CreateBooking,
   Chains, ChainMoves, Reconciliation, WorkerLoad, WorkerSettles, WorkerDefers,
   WorkerFinds, WorkerAborts, QuotingRequest, QuoteReadBooking, InitReadBooking,
   AcceptRead, QuoteCheckPayment, QuoteCheckAccepted, QuoteReadCatalog, QuoteWriteBack,
   QuoteConvert, InitCheckPayment, InitReadQuote, InitSave, ConfirmRequest, ConfirmRead,
   ConfirmGuard, ConfirmVerify, ConfirmRecord, ConfirmSettle, Abort

LEMMA PaymentsFootprint ==
    ASSUME IndInv, [Next]_vars
    PROVE  PaymentsStep
<1>1. CASE Market \/ Chains \/ UNCHANGED vars
  BY <1>1 DEF Market, Tick, CatalogMoves, CreateBooking, Chains, ChainMoves,
     PaymentsStep, tables, vars
<1>2. CASE Reconciliation
  BY <1>2, WorkerSettlesStep
     DEF Reconciliation, WorkerSweep, WorkerLoad, WorkerDefers, WorkerFinds, WorkerAborts,
         PaymentsStep, tables
<1>3. ASSUME NEW r \in Slots, QuotingRequest(r) PROVE PaymentsStep
  <2>1. CASE InitSave(r)
    BY <2>1 DEF InitSave, PaymentsStep
  <2>2. CASE ~InitSave(r)
    BY <1>3, <2>2
       DEF QuotingRequest, QuoteReadBooking, InitReadBooking, AcceptRead, QuoteCheckPayment,
           QuoteCheckAccepted, QuoteReadCatalog, QuoteWriteBack, QuoteConvert, QuoteIssue,
           AcceptMark, InitCheckPayment, InitReadQuote, PaymentsStep, tables
  <2> QED BY <2>1, <2>2
<1>4. ASSUME NEW r \in Slots, ConfirmRequest(r) \/ Abort(r) PROVE PaymentsStep
  <2>1. CASE ConfirmRecord(r)
    BY <2>1 DEF ConfirmRecord, PaymentsStep
  <2>2. CASE ConfirmSettle(r)
    BY <2>2, ConfirmSettleStep DEF PaymentsStep
  <2>3. CASE ConfirmGuard(r) \/ ConfirmVerify(r) \/ Abort(r)
    BY <2>3 DEF ConfirmGuard, ConfirmVerify, Abort, PaymentsStep, tables
  <2>4. CASE \E b \in Bookings, t \in Hashes : ConfirmRead(r, b, t)
    BY <2>4 DEF ConfirmRead, PaymentsStep, tables
  <2> QED BY <1>4, <2>1, <2>2, <2>3, <2>4 DEF ConfirmRequest
<1> QED BY <1>1, <1>2, <1>3, <1>4 DEF Next

LEMMA BookingsFootprint ==
    ASSUME IndInv, [Next]_vars
    PROVE  BookingsStep
BY ConfirmSettleStep, WorkerSettlesStep
   DEF BookingsStep, Next, vars, tables, world, Market, Tick, CatalogMoves,
   Chains, ChainMoves, Reconciliation, WorkerSweep, WorkerLoad, WorkerDefers,
   WorkerFinds, WorkerAborts, QuotingRequest, QuoteReadBooking, InitReadBooking,
   AcceptRead, QuoteCheckPayment, QuoteCheckAccepted, QuoteReadCatalog,
   QuoteConvert, QuoteIssue, AcceptMark, InitCheckPayment, InitReadQuote, InitSave,
   ConfirmRequest, ConfirmRead, ConfirmGuard, ConfirmVerify, ConfirmRecord, Abort

LEMMA ChainFootprint ==
    ASSUME IndInv, [Next]_vars
    PROVE  ChainStep
<1>1. UNCHANGED chain \/ \E x \in Transfers : ChainMoves(x)
  BY DEF Next, vars, tables, world, Market, Tick, CatalogMoves, CreateBooking,
     Chains, Reconciliation, WorkerSweep, WorkerLoad, WorkerSettles, WorkerDefers,
     WorkerFinds, WorkerAborts, QuotingRequest, QuoteReadBooking, InitReadBooking,
     AcceptRead, QuoteCheckPayment, QuoteCheckAccepted, QuoteReadCatalog, QuoteWriteBack,
     QuoteConvert, QuoteIssue, AcceptMark, InitCheckPayment, InitReadQuote, InitSave,
     ConfirmRequest, ConfirmRead, ConfirmGuard, ConfirmVerify, ConfirmRecord,
     ConfirmSettle, Abort
<1> QED BY <1>1 DEF ChainStep, ChainMoves, IndInv, TypeOK

----------------------------------------------------------------------------
(* What never changes once it is there *)

QuoteKept(q) ==
    /\ quotes[q].status = "none" => quotes'[q].status \in {"none", "active"}
    /\ quotes[q].status \notin {"none", "active"} => quotes'[q] = quotes[q]
    /\ quotes[q].status # "none" =>
          /\ Figures(quotes'[q]) = Figures(quotes[q])
          /\ quotes'[q].status # "none"
          /\ quotes'[q].booking = quotes[q].booking
          /\ quotes'[q].expires = quotes[q].expires

LEMMA QuotesKept ==
    ASSUME IndInv, QuotesStep, NEW q \in QuoteIds
    PROVE  QuoteKept(q)
<1>0. quotes \in [QuoteIds -> QuoteRow]
  BY DEF IndInv, TypeOK, TablesOK
<1>1. CASE UNCHANGED quotes
  BY <1>1 DEF QuoteKept
<1>2. CASE WorkerSweep
  <2>1. quotes'[q] = Expired(q) \/ quotes' = quotes
    BY <1>2 DEF WorkerSweep
  <2>2. CASE quotes' = quotes
    BY <2>2 DEF QuoteKept
  <2>3. CASE quotes'[q] = Expired(q) /\ quotes[q].status = "active"
    BY <1>0, <2>3 DEF Expired, QuoteKept, Figures, QuoteRow
  <2>4. CASE quotes'[q] = Expired(q) /\ quotes[q].status # "active"
    BY <1>0, <2>4 DEF Expired, QuoteKept
  <2> QED BY <2>1, <2>2, <2>3, <2>4
<1>3. ASSUME NEW r \in Slots, QuoteIssue(r) PROVE QuoteKept(q)
  <2>1. req[r].quote.status = "active"
    BY <1>3 DEF IndInv, ReadsStand, HandlerKnows, QuoteIssue
  <2>2. \/ quotes[q].status = "none" /\ quotes'[q] = req[r].quote
        \/ quotes'[q] = Supersede(req[r].booking, q)
    BY <1>3 DEF QuoteIssue
  <2>3. CASE quotes[q].status = "none" /\ quotes'[q] = req[r].quote
    BY <2>1, <2>3 DEF QuoteKept
  <2>4. CASE quotes'[q] = Supersede(req[r].booking, q) /\ q \in ActiveQuotes(req[r].booking)
    BY <1>0, <2>4 DEF Supersede, ActiveQuotes, QuoteKept, Figures, QuoteRow
  <2>5. CASE quotes'[q] = Supersede(req[r].booking, q) /\ q \notin ActiveQuotes(req[r].booking)
    BY <2>5 DEF Supersede, QuoteKept
  <2> QED BY <2>2, <2>3, <2>4, <2>5
<1>4. ASSUME NEW r \in Slots, AcceptMark(r) PROVE QuoteKept(q)
  <2>1. \/ quotes'[q] = quotes[q]
        \/ /\ quotes[q].status = "active"
           /\ quotes'[q] = [quotes[q] EXCEPT !.status = "accepted",
                                             !.accepted = req[r].quote.accepted]
    BY <1>0, <1>4 DEF AcceptMark, StillActive
  <2>2. CASE quotes'[q] = quotes[q]
    BY <2>2 DEF QuoteKept
  <2>3. CASE /\ quotes[q].status = "active"
             /\ quotes'[q] = [quotes[q] EXCEPT !.status = "accepted",
                                               !.accepted = req[r].quote.accepted]
    BY <1>0, <2>3 DEF QuoteKept, Figures, QuoteRow
  <2> QED BY <2>1, <2>2, <2>3
<1> QED BY <1>1, <1>2, <1>3, <1>4 DEF QuotesStep

PaymentKept(b) ==
    PaymentInserted(b) =>
        /\ payments'[b].status # "none"
        /\ payments'[b].quote = payments[b].quote
        /\ Figures(payments'[b]) = Figures(payments[b])
        /\ payments'[b].units = payments[b].units

LEMMA PaymentsKept ==
    ASSUME IndInv, PaymentsStep, NEW b \in Bookings
    PROVE  PaymentKept(b)
<1>0. payments \in [Bookings -> PaymentRow]
  BY DEF IndInv, TypeOK, TablesOK
<1>1. CASE UNCHANGED payments
  BY <1>1 DEF PaymentKept, PaymentInserted
<1>2. CASE SettleStep
  <2>1. PICK c \in Bookings, t \in Hashes :
           payments' = [payments EXCEPT ![c].status = "confirmed", ![c].tx = t]
    BY <1>2 DEF SettleStep, Settle
  <2> QED BY <1>0, <2>1 DEF PaymentKept, PaymentInserted, Figures, PaymentRow
<1>3. ASSUME NEW r \in Slots, InitSave(r) PROVE PaymentKept(b)
  BY <1>0, <1>3 DEF InitSave, PaymentKept, PaymentInserted
<1>4. ASSUME NEW r \in Slots, ConfirmRecord(r) PROVE PaymentKept(b)
  <2>1. req[r].pay.status = "pending"
    BY <1>4 DEF IndInv, ReadsStand, HandlerKnows, ConfirmRecord, ConfirmSteps
  <2>2. \/ payments'[b] = payments[b]
        \/ payments'[b] = [payments[b] EXCEPT !.status = "pending", !.tx = req[r].tx]
    BY <1>0, <1>4, <2>1 DEF ConfirmRecord, Recorded
  <2> QED BY <1>0, <2>2 DEF PaymentKept, PaymentInserted, Figures, PaymentRow
<1> QED BY <1>1, <1>2, <1>3, <1>4 DEF PaymentsStep

LEMMA PaysKept ==
    ASSUME ChainStep, NEW t \in Hashes, NEW n, Pays(t, n)
    PROVE  Pays(t, n)'
BY FiguresAssumption DEF ChainStep, Pays

LEMMA BookedKept ==
    ASSUME IndInv, PaymentsStep, NEW b \in Bookings, NEW t \in Hashes, Booked(b, t)
    PROVE  Booked(b, t)'
<1>0. ledger \in [Bookings -> [Hashes -> Nat]]
  BY DEF IndInv, TypeOK, TablesOK
<1>1. CASE UNCHANGED ledger
  BY <1>1 DEF Booked
<1>2. CASE SettleStep
  <2>1. PICK c \in Bookings, h \in Hashes : ledger' = [ledger EXCEPT ![c][h] = @ + 1]
    BY <1>2 DEF SettleStep, Settle
  <2>2. ledger'[b][t] \in {ledger[b][t], ledger[b][t] + 1} /\ ledger[b][t] \in Nat
    BY <1>0, <2>1
  <2> QED BY <2>2 DEF Booked
<1> QED BY <1>1, <1>2 DEF PaymentsStep

\* What a handler knows stays true while others take their steps.
LEMMA KnowledgeKept ==
    ASSUME IndInv, [Next]_vars, NEW h \in Request, HandlerOK(h), HandlerKnows(h)
    PROVE  HandlerKnows(h)'
<1>1. \A q \in QuoteIds : QuoteKept(q)
  BY QuotesFootprint, QuotesKept
<1>2. \A b \in Bookings : PaymentKept(b)
  BY PaymentsFootprint, PaymentsKept
<1>3. h.pc = "confirm.settle" => Pays(h.tx, h.pay.units)'
  BY ChainFootprint, PaysKept DEF HandlerKnows, ConfirmSteps
<1>4. h.pc = "init.save" => h.id \in AcceptedQuotes(h.booking)' /\ h.quote = quotes'[h.id]
  BY <1>1 DEF HandlerKnows, AcceptedQuotes, QuoteKept
<1>5. h.pc = "accept.mark" => /\ h.id \in QuoteIds /\ quotes'[h.id].booking = h.booking
                              /\ quotes'[h.id].status # "none"
                              /\ h.quote.accepted < quotes'[h.id].expires
  BY <1>1 DEF HandlerKnows, QuoteKept
<1>6. h.pc \in ConfirmSteps => /\ PaymentInserted(h.booking)' /\ h.tx \in Hashes
                               /\ h.pay.status = "pending"
                               /\ h.pay.units = payments'[h.booking].units
  BY <1>2 DEF HandlerKnows, PaymentKept, PaymentInserted, HandlerOK, ConfirmSteps
<1> QED BY <1>3, <1>4, <1>5, <1>6 DEF HandlerKnows

----------------------------------------------------------------------------
(* What the handler that moves knows afterwards *)

LEMMA IdleKnows ==
    ASSUME NEW h, h.pc = "idle"
    PROVE  HandlerKnows(h)'
BY DEF HandlerKnows, ConfirmSteps

LEMMA AnsweredKnows ==
    ASSUME IndInv, NEW r \in Slots, NEW a, Answer(r, a)
    PROVE  HandlerKnows(req[r])'
BY IdleKnows DEF Answer, Answered, Idle, IndInv, ReadsStand, TypeOK, ProcessesOK, HandlerKnows, ConfirmSteps

LEMMA QuoteRequestKnows ==
    ASSUME IndInv, NEW r \in Slots,
           \/ \E b \in Bookings : QuoteReadBooking(r, b)
           \/ QuoteCheckPayment(r) \/ QuoteCheckAccepted(r) \/ QuoteReadCatalog(r)
           \/ QuoteWriteBack(r) \/ QuoteConvert(r) \/ QuoteIssue(r)
    PROVE  HandlerKnows(req[r])'
<1>0. /\ req \in [Slots -> Request] /\ req[r] \in Request
      /\ HandlerKnows(req[r]) /\ HandlerOK(req[r])
  BY DEF IndInv, ReadsStand, TypeOK, ProcessesOK
<1>1. ASSUME NEW b \in Bookings, QuoteReadBooking(r, b) PROVE HandlerKnows(req[r])'
  <2>1. CASE bookings[b].status = "pending"
    <3>1. /\ req'[r].pc = "quote.payment"
          /\ req'[r].row = bookings[b]
      BY <1>0, <1>1, <2>1 DEF QuoteReadBooking, Idle
    <3> QED BY <2>1, <3>1 DEF HandlerKnows, ConfirmSteps
  <2>2. CASE bookings[b].status # "pending"
    <3>1. req'[r].pc = "idle"
      BY <1>0, <1>1, <2>2 DEF QuoteReadBooking, Idle
    <3> QED BY <3>1 DEF HandlerKnows, ConfirmSteps
  <2> QED BY <2>1, <2>2
<1>2. CASE QuoteCheckPayment(r)
  <2>1. CASE Goto(r, "quote.accepted")
    <3>1. req'[r].pc = "quote.accepted" /\ req'[r].row = req[r].row
      BY <1>0, <2>1 DEF Goto, Request
    <3> QED BY <1>0, <1>2, <3>1 DEF QuoteCheckPayment, HandlerKnows, ConfirmSteps
  <2> QED BY <1>2, <2>1, AnsweredKnows DEF QuoteCheckPayment
<1>3. CASE QuoteCheckAccepted(r)
  <2>1. CASE Goto(r, "quote.catalog")
    <3>1. req'[r].pc = "quote.catalog" /\ req'[r].row = req[r].row
      BY <1>0, <2>1 DEF Goto, Request
    <3> QED BY <1>0, <1>3, <3>1 DEF QuoteCheckAccepted, HandlerKnows, ConfirmSteps
  <2> QED BY <1>3, <2>1, AnsweredKnows DEF QuoteCheckAccepted
<1>4. CASE QuoteReadCatalog(r)
  <2>1. catalog[req[r].booking] \in Prices
    BY <1>0, <1>4 DEF IndInv, TypeOK, HandlerOK, QuoteReadCatalog
  <2>2. /\ req'[r].pc \in {"quote.write", "quote.convert"}
        /\ req'[r].row = [req[r].row EXCEPT !.price = catalog[req[r].booking]]
    BY <1>0, <1>4 DEF QuoteReadCatalog, Request
  <2>3. req'[r].row.status = "pending" /\ req'[r].row.price \in Prices
    BY <1>0, <1>4, <2>1, <2>2 DEF QuoteReadCatalog, HandlerKnows, Request, BookingRow
  <2> QED BY <2>2, <2>3 DEF HandlerKnows, ConfirmSteps
<1>5. CASE QuoteWriteBack(r)
  <2>1. req'[r].pc = "quote.convert" /\ req'[r].row = req[r].row
    BY <1>0, <1>5 DEF QuoteWriteBack, Goto, Request
  <2> QED BY <1>0, <1>5, <2>1 DEF QuoteWriteBack, HandlerKnows, ConfirmSteps
<1>6. CASE QuoteConvert(r)
  <2>1. PICK u \in Units :
          req' = [req EXCEPT
                    ![r].pc = "quote.issue",
                    ![r].quote = [status |-> "active", booking |-> req[r].booking,
                                  price |-> req[r].row.price, units |-> u,
                                  expires |-> now + TTL, accepted |-> 0]]
    BY <1>6 DEF QuoteConvert
  <2>4. /\ req'[r].pc = "quote.issue" /\ req'[r].quote.status = "active"
        /\ req'[r].quote.price = req[r].row.price /\ req'[r].quote.units = u
    BY <1>0, <2>1 DEF Request
  <2>2. req[r].row.price \in Prices
    BY <1>0, <1>6 DEF QuoteConvert, HandlerKnows
  <2>3. /\ req'[r].quote.status = "active"
        /\ req'[r].quote.price \in Prices /\ req'[r].quote.units \in Units
    BY <2>1, <2>2, <2>4
  <2> QED BY <2>4, <2>3 DEF HandlerKnows, Figures, ConfirmSteps
<1>7. CASE QuoteIssue(r)
  BY <1>7, AnsweredKnows DEF QuoteIssue
<1> QED BY <1>1, <1>2, <1>3, <1>4, <1>5, <1>6, <1>7

LEMMA AcceptRequestKnows ==
    ASSUME IndInv, NEW r \in Slots,
           \/ \E q \in QuoteIds, p \in Prices, u \in Units : AcceptRead(r, q, p, u)
           \/ AcceptMark(r)
    PROVE  HandlerKnows(req[r])'
<1>0. req \in [Slots -> Request] /\ quotes \in [QuoteIds -> QuoteRow]
  BY DEF IndInv, TypeOK, ProcessesOK, TablesOK
<1>1. ASSUME NEW q \in QuoteIds, NEW p \in Prices, NEW u \in Units, AcceptRead(r, q, p, u)
      PROVE  HandlerKnows(req[r])'
  <2>1. CASE Acceptable(q, p, u)
    <3>1. /\ req'[r].pc = "accept.mark" /\ req'[r].id = q
          /\ req'[r].booking = quotes[q].booking
          /\ req'[r].quote = [quotes[q] EXCEPT
                                !.status = "accepted",
                                !.accepted = IF quotes[q].status = "active" THEN now ELSE @]
      BY <1>0, <1>1, <2>1 DEF AcceptRead, Idle
    <3>2. quotes' = quotes
      BY <1>1 DEF AcceptRead, tables
    <3>3. req'[r].quote.accepted = IF quotes[q].status = "active" THEN now
                                                                  ELSE quotes[q].accepted
      BY <1>0, <3>1 DEF QuoteRow
    <3>4. req'[r].quote.accepted < quotes[q].expires
      BY <1>0, <2>1, <3>3 DEF Acceptable, IndInv, AcceptedInTime
    <3>5. quotes[q].status # "none"
      BY <1>1 DEF AcceptRead
    <3> QED BY <3>1, <3>2, <3>4, <3>5 DEF HandlerKnows, ConfirmSteps
  <2>2. CASE ~Acceptable(q, p, u)
    <3>1. req'[r].pc = "idle"
      BY <1>0, <1>1, <2>2 DEF AcceptRead, Idle
    <3> QED BY <3>1 DEF HandlerKnows, ConfirmSteps
  <2> QED BY <2>1, <2>2
<1>2. CASE AcceptMark(r)
  BY <1>2, AnsweredKnows DEF AcceptMark
<1> QED BY <1>1, <1>2

LEMMA InitRequestKnows ==
    ASSUME IndInv, NEW r \in Slots,
           \/ \E b \in Bookings : InitReadBooking(r, b)
           \/ InitCheckPayment(r) \/ InitReadQuote(r) \/ InitSave(r)
    PROVE  HandlerKnows(req[r])'
<1>0. req \in [Slots -> Request] /\ req[r] \in Request
  BY DEF IndInv, TypeOK, ProcessesOK
<1>1. ASSUME NEW b \in Bookings, InitReadBooking(r, b) PROVE HandlerKnows(req[r])'
  <2>1. req'[r].pc = "init.payment"
    BY <1>0, <1>1 DEF InitReadBooking, Idle
  <2> QED BY <2>1 DEF HandlerKnows, ConfirmSteps
<1>2. CASE InitCheckPayment(r)
  <2>1. CASE Goto(r, "init.quote")
    <3>1. req'[r].pc = "init.quote"
      BY <1>0, <2>1 DEF Goto, Request
    <3> QED BY <3>1 DEF HandlerKnows, ConfirmSteps
  <2> QED BY <1>2, <2>1, AnsweredKnows DEF InitCheckPayment
<1>3. CASE InitReadQuote(r)
  <2>1. ASSUME NEW q \in QuoteIds, Payable(r, q),
               req' = [req EXCEPT ![r].pc = "init.save", ![r].id = q, ![r].quote = quotes[q]]
        PROVE  HandlerKnows(req[r])'
    <3>1. /\ req'[r].pc = "init.save" /\ req'[r].id = q /\ req'[r].quote = quotes[q]
          /\ req'[r].booking = req[r].booking
      BY <1>0, <2>1 DEF Request
    <3>2. quotes' = quotes
      BY <1>3 DEF InitReadQuote, tables
    <3> QED BY <2>1, <3>1, <3>2 DEF HandlerKnows, Payable, AcceptedQuotes, ConfirmSteps
  <2> QED BY <1>3, <2>1, AnsweredKnows DEF InitReadQuote
<1>4. CASE InitSave(r)
  BY <1>4, AnsweredKnows DEF InitSave
<1> QED BY <1>1, <1>2, <1>3, <1>4

LEMMA ConfirmRequestKnows ==
    ASSUME IndInv, NEW r \in Slots, ConfirmRequest(r)
    PROVE  HandlerKnows(req[r])'
<1>0. /\ req \in [Slots -> Request] /\ req[r] \in Request /\ HandlerKnows(req[r])
  BY DEF IndInv, ReadsStand, TypeOK, ProcessesOK
<1>1. ASSUME NEW b \in Bookings, NEW t \in Hashes, ConfirmRead(r, b, t)
      PROVE  HandlerKnows(req[r])'
  <2>1. CASE payments[b].status = "pending"
    <3>1. /\ req'[r].pc = "confirm.guard" /\ req'[r].booking = b /\ req'[r].tx = t
          /\ req'[r].pay = payments[b]
      BY <1>0, <1>1, <2>1 DEF ConfirmRead, Idle
    <3>2. payments' = payments
      BY <1>1 DEF ConfirmRead, tables
    <3> QED BY <2>1, <3>1, <3>2 DEF HandlerKnows, PaymentInserted
  <2>2. CASE payments[b].status # "pending"
    <3>1. req'[r].pc = "idle"
      BY <1>0, <1>1, <2>2 DEF ConfirmRead, Idle
    <3> QED BY <3>1 DEF HandlerKnows, ConfirmSteps
  <2> QED BY <2>1, <2>2
<1>2. CASE ConfirmGuard(r)
  <2>1. CASE Goto(r, "confirm.verify")
    <3>1. req'[r] = [req[r] EXCEPT !.pc = "confirm.verify"] /\ payments' = payments
      BY <1>0, <1>2, <2>1 DEF Goto, ConfirmGuard, tables
    <3> QED BY <1>0, <1>2, <3>1
            DEF ConfirmGuard, HandlerKnows, ConfirmSteps, PaymentInserted, Request
  <2> QED BY <1>2, <2>1, AnsweredKnows DEF ConfirmGuard
<1>3. CASE ConfirmVerify(r)
  <2>0. PICK v \in Verdicts(req[r].tx, req[r].pay.units) :
          req' = [req EXCEPT
                    ![r].pc = IF v = "pays" THEN "confirm.settle" ELSE "confirm.record",
                    ![r].answer = CASE v = "pays" -> "paid"
                                    [] v = "unobserved" -> "not yet"
                                    [] v = "observed" -> "never"]
    BY <1>3 DEF ConfirmVerify
  <2>1. /\ req'[r].pc = IF v = "pays" THEN "confirm.settle" ELSE "confirm.record"
        /\ req'[r].booking = req[r].booking /\ req'[r].tx = req[r].tx
        /\ req'[r].pay = req[r].pay
    BY <1>0, <2>0 DEF Request
  <2>2. payments' = payments /\ chain' = chain
    BY <1>3 DEF ConfirmVerify, tables, world
  <2>3. /\ PaymentInserted(req[r].booking) /\ req[r].tx \in Hashes
        /\ req[r].pay.status = "pending"
        /\ req[r].pay.units = payments[req[r].booking].units
    BY <1>0, <1>3 DEF ConfirmVerify, HandlerKnows, ConfirmSteps
  <2>4. v = "pays" => Pays(req[r].tx, req[r].pay.units)
    BY DEF Verdicts, Pays
  <2>5. ASSUME v = "pays"
        PROVE  /\ chain'[TransferOf[req'[r].tx]] = "final"
               /\ TransferOf[req'[r].tx] \in ToPlatform
               /\ Amount[TransferOf[req'[r].tx]] >= req'[r].pay.units
    BY <2>1, <2>2, <2>4, <2>5 DEF Pays
  <2>6. /\ PaymentInserted(req[r].booking)' /\ req'[r].tx \in Hashes
        /\ req'[r].pay.status = "pending"
        /\ req'[r].pay.units = payments'[req'[r].booking].units
    BY <2>1, <2>2, <2>3 DEF PaymentInserted
  <2>7. CASE v = "pays"
    BY <2>1, <2>5, <2>6, <2>7 DEF HandlerKnows, ConfirmSteps, PaymentInserted, Pays
  <2>8. CASE v # "pays"
    BY <2>1, <2>6, <2>8 DEF HandlerKnows, ConfirmSteps, PaymentInserted
  <2> QED BY <2>7, <2>8
<1>4. CASE ConfirmRecord(r)
  BY <1>4, AnsweredKnows DEF ConfirmRecord
<1>5. CASE ConfirmSettle(r)
  BY <1>5, AnsweredKnows DEF ConfirmSettle
<1> QED BY <1>1, <1>2, <1>3, <1>4, <1>5 DEF ConfirmRequest

\* A step of one handler leaves the locals of the others alone.
LEMMA OthersStay ==
    ASSUME IndInv, NEW r \in Slots, NEW s \in Slots, r # s,
           QuotingRequest(r) \/ ConfirmRequest(r) \/ Abort(r)
    PROVE  req'[s] = req[s]
<1>0. req \in [Slots -> Request]
  BY DEF IndInv, TypeOK, ProcessesOK
<1> HIDE DEF IndInv
<1>1. \E row : req' = [req EXCEPT ![r] = row]
  <2>1. CASE QuotingRequest(r)
    BY <2>1 DEF QuotingRequest, QuoteReadBooking, InitReadBooking, AcceptRead,
       QuoteCheckPayment, QuoteCheckAccepted, QuoteReadCatalog, QuoteWriteBack,
       QuoteConvert, QuoteIssue, AcceptMark, InitCheckPayment, InitReadQuote, InitSave,
       Goto, Answer
  <2>2. CASE ConfirmRequest(r) \/ Abort(r)
    BY <2>2 DEF ConfirmRequest, ConfirmRead, ConfirmGuard, ConfirmVerify, ConfirmRecord,
       ConfirmSettle, Abort, Goto, Answer
  <2> QED BY <2>1, <2>2
<1> QED BY <1>0, <1>1

LEMMA HandlersKnow ==
    ASSUME IndInv, [Next]_vars, NEW s \in Slots
    PROVE  HandlerKnows(req[s])'
<1>0. req[s] \in Request /\ HandlerOK(req[s]) /\ HandlerKnows(req[s])
  BY DEF IndInv, ReadsStand, TypeOK, ProcessesOK
<1>1. ASSUME req'[s] = req[s] PROVE HandlerKnows(req[s])'
  <2>1. PICK h : h = req[s]
    OBVIOUS
  <2>2. h \in Request /\ HandlerOK(h) /\ HandlerKnows(h)
    BY <1>0, <2>1
  <2>3. HandlerKnows(h)'
    BY <2>2, KnowledgeKept
  <2> QED BY <1>1, <2>1, <2>3 DEF HandlerKnows
<1>2. ASSUME NEW r \in Slots, QuotingRequest(r) \/ ConfirmRequest(r) \/ Abort(r)
      PROVE  HandlerKnows(req[s])'
  <2>1. CASE r # s
    BY <1>1, <1>2, <2>1, OthersStay
  <2>2. CASE r = s /\ QuotingRequest(s)
    BY <2>2, QuoteRequestKnows, AcceptRequestKnows, InitRequestKnows DEF QuotingRequest
  <2>3. CASE r = s /\ ConfirmRequest(s)
    BY <2>3, ConfirmRequestKnows
  <2>4. CASE r = s /\ Abort(s)
    BY <2>4, AnsweredKnows DEF Abort
  <2> QED BY <1>2, <2>1, <2>2, <2>3, <2>4
<1>3. CASE Market \/ Chains \/ Reconciliation \/ UNCHANGED vars
  <2>1. req' = req
    BY <1>3 DEF Market, Tick, CatalogMoves, CreateBooking, Chains, ChainMoves,
       Reconciliation, WorkerSweep, WorkerLoad, WorkerDefers, WorkerFinds, WorkerSettles,
       WorkerAborts, vars
  <2> QED BY <1>1, <2>1
<1> QED BY <1>2, <1>3 DEF Next

----------------------------------------------------------------------------
(* What the worker knows *)

BatchKnown(batch) ==
    \A b \in Bookings : batch[b] # NoPaymentRow =>
        /\ payments'[b].status # "none" /\ batch[b].tx \in Hashes
        /\ batch[b].units = payments'[b].units

LEMMA BatchKept ==
    ASSUME IndInv, [Next]_vars
    PROVE  BatchKnown(worker.batch)
<1>1. \A b \in Bookings : PaymentKept(b)
  BY PaymentsFootprint, PaymentsKept
<1> QED BY <1>1 DEF BatchKnown, PaymentKept, PaymentInserted, IndInv, ReadsStand, WorkerKnows

LEMMA RemainingKnows ==
    ASSUME NEW batch, BatchKnown(batch), worker' = Remaining(batch)
    PROVE  WorkerKnows'
<1>1. worker'.pc # "settle" /\ worker'.batch = batch
  BY DEF Remaining
<1> QED BY <1>1 DEF WorkerKnows, BatchKnown, PaymentInserted

LEMMA WorkerStillKnows ==
    ASSUME IndInv, [Next]_vars
    PROVE  WorkerKnows'
<1>0. /\ worker \in Worker /\ payments \in [Bookings -> PaymentRow]
      /\ worker.batch \in [Bookings -> PaymentRow]
  BY DEF IndInv, TypeOK, ProcessesOK, TablesOK, Worker
<1>1. BatchKnown(worker.batch)
  BY BatchKept
<1>2. CASE WorkerSweep
  <2>1. worker'.pc = "load" /\ worker'.batch = worker.batch
    BY <1>0, <1>2 DEF WorkerSweep, Worker
  <2> QED BY <1>1, <2>1 DEF WorkerKnows, BatchKnown, PaymentInserted
<1>3. CASE WorkerLoad
  <2>1. PICK due : /\ due \subseteq Candidates
                   /\ worker' = Remaining([b \in Bookings |->
                                             IF b \in due THEN payments[b] ELSE NoPaymentRow])
    BY <1>3 DEF WorkerLoad, Oldest
  <2>2. payments' = payments
    BY <1>3 DEF WorkerLoad, tables
  <2>3. BatchKnown([b \in Bookings |-> IF b \in due THEN payments[b] ELSE NoPaymentRow])
    BY <1>0, <2>1, <2>2 DEF BatchKnown, Candidates, PaymentRow
  <2> QED BY <2>1, <2>3, RemainingKnows
<1>4. ASSUME NEW c \in Bookings, BatchKnown(worker.batch) PROVE BatchKnown(Without(c))
  BY <1>0, <1>4 DEF BatchKnown, Without
<1>5. CASE \E c \in Bookings : WorkerDefers(c)
  BY <1>1, <1>4, <1>5, RemainingKnows DEF WorkerDefers
<1>6. ASSUME NEW c \in Bookings, WorkerFinds(c) PROVE WorkerKnows'
  <2>1. /\ worker'.pc = "settle" /\ worker'.at = c /\ worker'.batch = worker.batch
        /\ chain' = chain /\ worker.batch[c] # NoPaymentRow
    BY <1>0, <1>6 DEF WorkerFinds, Worker, world
  <2>2. Pays(worker.batch[c].tx, worker.batch[c].units)
    BY <1>6 DEF WorkerFinds, Verdicts, Pays
  <2>3. Pays(worker.batch[worker.at].tx, worker.batch[worker.at].units)'
    BY <2>1, <2>2 DEF Pays
  <2> QED BY <1>1, <2>1, <2>3 DEF WorkerKnows, BatchKnown, PaymentInserted
<1>7. CASE WorkerSettles
  <2>1. worker.at \in Bookings /\ worker' = Remaining(Without(worker.at))
    BY <1>7 DEF WorkerSettles, IndInv, ReadsStand, WorkerKnows
  <2> QED BY <1>1, <1>4, <2>1, RemainingKnows
<1>8. CASE WorkerAborts
  BY <1>8 DEF WorkerAborts, Asleep, WorkerKnows
<1>9. CASE UNCHANGED worker
  <2>1. worker.pc = "settle" =>
          /\ worker.at \in Bookings /\ worker.batch[worker.at] # NoPaymentRow
          /\ worker.batch[worker.at].tx \in Hashes
          /\ Pays(worker.batch[worker.at].tx, worker.batch[worker.at].units)
    BY DEF IndInv, ReadsStand, WorkerKnows
  <2>2. ASSUME worker.pc = "settle"
        PROVE  Pays(worker.batch[worker.at].tx, worker.batch[worker.at].units)'
    <3>1. ChainStep
      BY ChainFootprint
    <3> QED BY <1>9, <2>1, <2>2, <3>1, FiguresAssumption DEF ChainStep, Pays
  <2> QED BY <1>1, <1>9, <2>1, <2>2 DEF WorkerKnows, BatchKnown, PaymentInserted
<1>10. Reconciliation \/ UNCHANGED worker
  BY DEF Next, vars, Market, Tick, CatalogMoves, CreateBooking, Chains, ChainMoves,
     QuotingRequest, QuoteReadBooking, InitReadBooking, AcceptRead, QuoteCheckPayment,
     QuoteCheckAccepted, QuoteReadCatalog, QuoteWriteBack, QuoteConvert, QuoteIssue,
     AcceptMark, InitCheckPayment, InitReadQuote, InitSave, ConfirmRequest, ConfirmRead,
     ConfirmGuard, ConfirmVerify, ConfirmRecord, ConfirmSettle, Abort
<1> QED BY <1>2, <1>3, <1>5, <1>6, <1>7, <1>8, <1>9, <1>10 DEF Reconciliation

----------------------------------------------------------------------------
(* The tables *)

FiguresOK ==
    \A q \in QuoteIds : quotes[q].status # "none" => Figures(quotes[q]) \in Prices \X Units

LEMMA FiguresStay ==
    ASSUME IndInv, QuotesStep
    PROVE  FiguresOK'
<1> SUFFICES ASSUME NEW q \in QuoteIds, quotes'[q].status # "none"
             PROVE  Figures(quotes'[q]) \in Prices \X Units
  BY DEF FiguresOK
<1>1. QuoteKept(q)
  BY QuotesKept
<1>2. CASE quotes[q].status # "none"
  BY <1>1, <1>2 DEF QuoteKept, IndInv
<1>3. CASE quotes[q].status = "none"
  <2>1. PICK r \in Slots : QuoteIssue(r) /\ quotes'[q] = req[r].quote
    <3>0. quotes \in [QuoteIds -> QuoteRow]
      BY DEF IndInv, TypeOK, TablesOK
    <3>1. quotes'[q] # quotes[q]
      BY <1>3
    <3>2. ~WorkerSweep /\ quotes' # quotes
      BY <1>3, <3>1 DEF WorkerSweep, Expired
    <3>3. ASSUME NEW r \in Slots, AcceptMark(r) PROVE FALSE
      BY <1>3, <3>0, <3>1, <3>3 DEF AcceptMark, StillActive
    <3>4. ASSUME NEW r \in Slots, QuoteIssue(r) PROVE quotes'[q] = req[r].quote
      BY <1>3, <3>1, <3>4 DEF QuoteIssue, Supersede, ActiveQuotes
    <3> QED BY <3>2, <3>3, <3>4 DEF QuotesStep
  <2> QED BY <2>1 DEF QuoteIssue, IndInv, ReadsStand, HandlerKnows
<1> QED BY <1>2, <1>3

\* Issuing supersedes the offer that was open; accepting finds no other lock.
LEMMA OneOfferStays ==
    ASSUME IndInv, QuotesStep
    PROVE  OneOfferOneLock'
<1>0. quotes \in [QuoteIds -> QuoteRow] /\ OneOfferOneLock
  BY DEF IndInv, TypeOK, TablesOK
<1>1. CASE UNCHANGED quotes
  BY <1>0, <1>1 DEF OneOfferOneLock
<1>2. CASE WorkerSweep
  <2>1. \A q \in QuoteIds : quotes'[q] = quotes[q] \/ quotes'[q] = Expired(q)
    BY <1>2 DEF WorkerSweep
  <2>2. \A q \in QuoteIds : \/ quotes'[q] = quotes[q]
                            \/ quotes'[q].status = "expired"
    BY <1>0, <2>1 DEF Expired, QuoteRow
  <2> QED BY <1>0, <2>2 DEF OneOfferOneLock
<1>3. ASSUME NEW r \in Slots, QuoteIssue(r) PROVE OneOfferOneLock'
  <2>1. PICK id \in QuoteIds :
          /\ quotes[id].status = "none"
          /\ quotes' = [q \in QuoteIds |-> IF q = id THEN req[r].quote
                                             ELSE Supersede(req[r].booking, q)]
    BY <1>3 DEF QuoteIssue
  <2>2. req[r].quote.status = "active" /\ req[r].quote.booking = req[r].booking
    BY <1>3 DEF QuoteIssue, IndInv, ReadsStand, HandlerKnows, TypeOK, ProcessesOK, HandlerOK
  <2>3. \A q \in QuoteIds \ {id} :
          \/ quotes'[q] = quotes[q] /\ q \notin ActiveQuotes(req[r].booking)
          \/ quotes'[q].status = "superseded"
    BY <1>0, <2>1 DEF Supersede, QuoteRow
  <2>4. quotes'[id] = req[r].quote
    BY <2>1
  <2> QED BY <1>0, <2>2, <2>3, <2>4 DEF OneOfferOneLock, ActiveQuotes
<1>4. ASSUME NEW r \in Slots, AcceptMark(r) PROVE OneOfferOneLock'
  <2>1. \/ quotes' = quotes
        \/ /\ AcceptedQuotes(req[r].booking) = {} /\ req[r].id \in QuoteIds
           /\ quotes[req[r].id].booking = req[r].booking
           /\ quotes' = [quotes EXCEPT ![req[r].id].status = "accepted",
                                       ![req[r].id].accepted = req[r].quote.accepted]
    BY <1>4 DEF AcceptMark, IndInv, ReadsStand, HandlerKnows
  <2>2. CASE quotes' = quotes
    BY <1>0, <2>2 DEF OneOfferOneLock
  <2>3. CASE quotes' # quotes
    <3>1. /\ quotes'[req[r].id].status = "accepted"
          /\ quotes'[req[r].id].booking = req[r].booking
          /\ \A q \in QuoteIds \ {req[r].id} : quotes'[q] = quotes[q]
      BY <1>0, <2>1, <2>3 DEF QuoteRow
    <3> QED BY <1>0, <2>1, <2>3, <3>1 DEF OneOfferOneLock, AcceptedQuotes
  <2> QED BY <2>2, <2>3
<1> QED BY <1>1, <1>2, <1>3, <1>4 DEF QuotesStep

LEMMA AcceptedInTimeStays ==
    ASSUME IndInv, QuotesStep
    PROVE  AcceptedInTime'
<1> SUFFICES ASSUME NEW q \in QuoteIds, quotes'[q].status = "accepted"
             PROVE  quotes'[q].accepted < quotes'[q].expires
  BY DEF AcceptedInTime
<1>0. quotes \in [QuoteIds -> QuoteRow]
  BY DEF IndInv, TypeOK, TablesOK
<1>1. CASE quotes'[q] = quotes[q]
  BY <1>1 DEF IndInv, AcceptedInTime
<1>2. CASE quotes'[q] # quotes[q]
  <2>1. ~WorkerSweep /\ ~UNCHANGED quotes
    BY <1>0, <1>2 DEF WorkerSweep, Expired, QuoteRow
  <2>2. ASSUME NEW r \in Slots, QuoteIssue(r) PROVE FALSE
    <3>1. req[r].quote.status = "active"
      BY <2>2 DEF QuoteIssue, IndInv, ReadsStand, HandlerKnows
    <3> QED BY <1>0, <1>2, <2>2, <3>1 DEF QuoteIssue, Supersede, ActiveQuotes, QuoteRow
  <2>3. ASSUME NEW r \in Slots, AcceptMark(r) PROVE quotes'[q].accepted < quotes'[q].expires
    <3>1. /\ q = req[r].id
          /\ quotes'[q] = [quotes[q] EXCEPT !.status = "accepted",
                                            !.accepted = req[r].quote.accepted]
      BY <1>0, <1>2, <2>3 DEF AcceptMark
    <3>2. req[r].quote.accepted < quotes[q].expires
      BY <2>3, <3>1 DEF AcceptMark, IndInv, ReadsStand, HandlerKnows
    <3> QED BY <1>0, <3>1, <3>2 DEF QuoteRow
  <2> QED BY <2>1, <2>2, <2>3 DEF QuotesStep
<1> QED BY <1>1, <1>2

\* The row InitPayment inserts copies the quote the handler read; the lock and
\* the row are both kept afterwards.
LEMMA LockedQuoteStays ==
    ASSUME IndInv, QuotesStep, PaymentsStep
    PROVE  PaymentIsTheLockedQuote'
<1> SUFFICES ASSUME NEW b \in Bookings, PaymentInserted(b)'
             PROVE  \E q \in AcceptedQuotes(b)' :
                       payments'[b].quote = q /\ Figures(payments'[b]) = Figures(quotes'[q])
  BY DEF PaymentIsTheLockedQuote
<1>0. payments \in [Bookings -> PaymentRow]
  BY DEF IndInv, TypeOK, TablesOK
<1>1. \A q \in AcceptedQuotes(b) : q \in AcceptedQuotes(b)' /\ quotes'[q] = quotes[q]
  BY QuotesKept DEF AcceptedQuotes, QuoteKept
<1>2. CASE PaymentInserted(b)
  <2>1. PICK q \in AcceptedQuotes(b) :
          payments[b].quote = q /\ Figures(payments[b]) = Figures(quotes[q])
    BY <1>2 DEF IndInv, PaymentIsTheLockedQuote
  <2>2. PaymentKept(b)
    BY PaymentsKept
  <2> QED BY <1>1, <1>2, <2>1, <2>2 DEF PaymentKept
<1>3. CASE ~PaymentInserted(b)
  <2>1. PICK r \in Slots : InitSave(r) /\ req[r].booking = b /\ payments'[b] = PaymentFrom(r)
    <3>1. payments'[b].status # "none" /\ payments[b].status = "none"
      BY <1>3 DEF PaymentInserted
    <3>2. ~SettleStep
      BY <1>0, <3>1 DEF SettleStep, CanSettle, Settle, PaymentRow
    <3>3. ASSUME NEW r \in Slots, ConfirmRecord(r) PROVE FALSE
      <4>1. PaymentInserted(req[r].booking)
        BY <3>3 DEF ConfirmRecord, IndInv, ReadsStand, HandlerKnows, ConfirmSteps
      <4> QED BY <1>0, <1>3, <3>1, <3>3, <4>1 DEF ConfirmRecord
    <3>4. ASSUME NEW r \in Slots, InitSave(r)
          PROVE  req[r].booking = b /\ payments'[b] = PaymentFrom(r)
      BY <1>0, <3>1, <3>4 DEF InitSave
    <3> QED BY <3>1, <3>2, <3>3, <3>4 DEF PaymentsStep
  <2>2. req[r].id \in AcceptedQuotes(b) /\ req[r].quote = quotes[req[r].id]
    BY <2>1 DEF InitSave, IndInv, ReadsStand, HandlerKnows
  <2>3. /\ payments'[b].quote = req[r].id
        /\ Figures(payments'[b]) = Figures(quotes[req[r].id])
    BY <2>1, <2>2 DEF PaymentFrom, Figures
  <2> QED BY <1>1, <2>2, <2>3
<1> QED BY <1>2, <1>3

LEMMA HashStaysOnOne ==
    ASSUME IndInv, PaymentsStep
    PROVE  HashOnOnePayment'
<1>0. payments \in [Bookings -> PaymentRow] /\ HashOnOnePayment
  BY DEF IndInv, TypeOK, TablesOK
<1>1. ASSUME NEW b \in Bookings, NEW t, t = NoHash \/ ~HashTaken(b, t),
             payments'[b].tx \in {payments[b].tx, t},
             \A c \in Bookings \ {b} : payments'[c].tx = payments[c].tx
      PROVE  HashOnOnePayment'
  BY <1>0, <1>1 DEF HashOnOnePayment, HashTaken
<1>2. CASE UNCHANGED payments
  BY <1>0, <1>2 DEF HashOnOnePayment
<1>3. CASE SettleStep
  <2>1. PICK b \in Bookings, t \in Hashes :
          /\ ~HashTaken(b, t)
          /\ payments' = [payments EXCEPT ![b].status = "confirmed", ![b].tx = t]
    BY <1>3 DEF SettleStep, CanSettle, Settle
  <2>2. payments'[b].tx = t /\ \A c \in Bookings \ {b} : payments'[c] = payments[c]
    BY <1>0, <2>1 DEF PaymentRow
  <2> QED BY <1>1, <2>1, <2>2
<1>4. ASSUME NEW r \in Slots, InitSave(r) PROVE HashOnOnePayment'
  <2>1. PICK b \in Bookings : b = req[r].booking
    BY <1>4 DEF InitSave, IndInv, TypeOK, ProcessesOK, HandlerOK
  <2>2. CASE payments' = payments
    BY <1>2, <2>2
  <2>3. CASE payments' = [payments EXCEPT ![b] = PaymentFrom(r)]
    <3>1. payments'[b].tx = NoHash /\ \A c \in Bookings \ {b} : payments'[c] = payments[c]
      BY <1>0, <2>3 DEF PaymentFrom
    <3> QED BY <1>1, <3>1
  <2> QED BY <1>4, <2>1, <2>2, <2>3 DEF InitSave
<1>5. ASSUME NEW r \in Slots, ConfirmRecord(r) PROVE HashOnOnePayment'
  <2>1. PICK b \in Bookings, t \in {req[r].tx} : b = req[r].booking
    BY <1>5 DEF ConfirmRecord, IndInv, TypeOK, ProcessesOK, HandlerOK
  <2>2. CASE payments' = payments
    BY <1>2, <2>2
  <2>3. CASE payments' # payments
    <3>1. ~HashTaken(b, t) /\ payments' = [payments EXCEPT ![b] = Recorded(r)]
      BY <1>5, <2>1, <2>3 DEF ConfirmRecord
    <3>2. payments'[b].tx = t /\ \A c \in Bookings \ {b} : payments'[c] = payments[c]
      BY <1>0, <2>1, <3>1 DEF Recorded, PaymentRow
    <3> QED BY <1>1, <3>1, <3>2
  <2> QED BY <2>2, <2>3
<1> QED BY <1>2, <1>3, <1>4, <1>5 DEF PaymentsStep

\* A ledger row is only ever written beside a verified transfer.
LEMMA LedgerIsPaid ==
    ASSUME IndInv, PaymentsStep, ChainStep, NEW b \in Bookings, NEW t \in Hashes,
           Booked(b, t)'
    PROVE  PaymentInserted(b)' /\ Pays(t, payments[b].units)'
<1>0. ledger \in [Bookings -> [Hashes -> Nat]] /\ payments \in [Bookings -> PaymentRow]
  BY DEF IndInv, TypeOK, TablesOK
<1>1. PaymentInserted(b) /\ Pays(t, payments[b].units)
  <2>1. CASE Booked(b, t)
    BY <2>1 DEF IndInv, ConfirmedIsPaid
  <2>2. CASE ~Booked(b, t)
    <3>1. SettleStep
      BY <2>2 DEF PaymentsStep, Booked
    <3>2. PICK c \in Bookings, h \in Hashes :
            /\ CanSettle(c, h) /\ Pays(h, payments[c].units)
            /\ ledger' = [ledger EXCEPT ![c][h] = @ + 1]
      BY <3>1 DEF SettleStep, Settle
    <3>3. c = b /\ h = t
      BY <1>0, <2>2, <3>2 DEF Booked
    <3> QED BY <3>2, <3>3 DEF CanSettle, PaymentInserted
  <2> QED BY <2>1, <2>2
<1>2. PaymentKept(b)
  BY PaymentsKept
<1>3. PaymentInserted(b)' /\ payments'[b].units = payments[b].units
  BY <1>1, <1>2 DEF PaymentKept, PaymentInserted
<1> QED BY <1>1, <1>3, FiguresAssumption DEF Pays, ChainStep

LEMMA ConfirmedStaysPaid ==
    ASSUME IndInv, PaymentsStep, BookingsStep, ChainStep
    PROVE  ConfirmedIsPaid'
<1> SUFFICES ASSUME NEW b \in Bookings
             PROVE  /\ payments'[b].status = "confirmed" =>
                         payments'[b].tx # NoHash /\ Booked(b, payments[b].tx)'
                    /\ bookings'[b].status = "confirmed" =>
                         bookings'[b].tx # NoHash /\ Booked(b, bookings[b].tx)'
  BY LedgerIsPaid DEF ConfirmedIsPaid
<1>0. /\ ledger \in [Bookings -> [Hashes -> Nat]]
      /\ payments \in [Bookings -> PaymentRow] /\ bookings \in [Bookings -> BookingRow]
  BY DEF IndInv, TypeOK, TablesOK
<1>1. /\ payments[b].status = "confirmed" =>
           payments[b].tx \in Hashes /\ payments[b].tx # NoHash /\ Booked(b, payments[b].tx)
      /\ bookings[b].status = "confirmed" =>
           bookings[b].tx \in Hashes /\ bookings[b].tx # NoHash /\ Booked(b, bookings[b].tx)
  BY <1>0 DEF IndInv, ConfirmedIsPaid, PaymentRow, BookingRow
<1>2. \A t \in Hashes : Booked(b, t) => Booked(b, t)'
  BY BookedKept
<1>3. CASE SettleStep
  <2>1. PICK c \in Bookings, t \in Hashes :
          /\ payments' = [payments EXCEPT ![c].status = "confirmed", ![c].tx = t]
          /\ bookings' = [bookings EXCEPT ![c] = BookAsPaid(c, t)]
          /\ ledger' = [ledger EXCEPT ![c][t] = @ + 1]
    BY <1>3 DEF SettleStep, Settle
  <2>2. CASE b # c
    <3>1. payments'[b] = payments[b] /\ bookings'[b] = bookings[b] /\ ledger'[b] = ledger[b]
      BY <1>0, <2>1, <2>2
    <3> QED BY <1>1, <3>1 DEF Booked
  <2>3. CASE b = c
    <3>1. ledger'[b][t] = ledger[b][t] + 1 /\ ledger[b][t] \in Nat
      BY <1>0, <2>1, <2>3
    <3>2. ledger'[b][t] > 0 /\ t # NoHash
      BY <3>1, SetsAssumption
    <3>3. payments'[b].tx = t
      BY <1>0, <2>1, <2>3 DEF PaymentRow
    <3>4. \/ bookings[b].status = "pending" /\ bookings'[b].tx = t
          \/ bookings'[b] = bookings[b]
      BY <1>0, <2>1, <2>3 DEF BookAsPaid, BookingRow
    <3>5. CASE bookings'[b].tx = t
      BY <3>2, <3>3, <3>5 DEF Booked
    <3>6. CASE bookings'[b] = bookings[b]
      BY <1>1, <1>2, <3>2, <3>3, <3>6 DEF Booked
    <3> QED BY <3>4, <3>5, <3>6
  <2> QED BY <2>2, <2>3
<1>4. ASSUME ~SettleStep, payments'[b].status = "confirmed"
      PROVE  payments'[b].tx # NoHash /\ Booked(b, payments[b].tx)'
  <2>1. ASSUME NEW r \in Slots, InitSave(r) \/ ConfirmRecord(r)
        PROVE  payments'[b] = payments[b]
    <3>1. req[r].pc = "confirm.record" => req[r].pay.status = "pending"
      BY DEF IndInv, ReadsStand, HandlerKnows, ConfirmSteps
    <3>2. CASE InitSave(r)
      BY <1>0, <1>4, <3>2 DEF InitSave, PaymentFrom
    <3>3. CASE ConfirmRecord(r)
      <4>1. payments'[b] # payments[b] =>
              payments'[b] = [payments[b] EXCEPT !.status = req[r].pay.status,
                                                 !.tx = req[r].tx]
        BY <1>0, <3>3 DEF ConfirmRecord, Recorded
      <4> QED BY <1>0, <1>4, <3>1, <3>3, <4>1 DEF ConfirmRecord, PaymentRow
    <3> QED BY <2>1, <3>2, <3>3
  <2>2. payments'[b] = payments[b] /\ ledger' = ledger
    BY <1>4, <2>1 DEF PaymentsStep
  <2> QED BY <1>1, <1>4, <2>2 DEF Booked
<1>5. ASSUME ~SettleStep, bookings'[b].status = "confirmed"
      PROVE  bookings'[b].tx # NoHash /\ Booked(b, bookings[b].tx)'
  <2>1. ASSUME NEW c \in Bookings, CreateBooking(c) PROVE bookings'[b] = bookings[b]
    BY <1>0, <1>5, <2>1 DEF CreateBooking
  <2>2. ASSUME NEW r \in Slots, QuoteWriteBack(r) PROVE bookings'[b] = bookings[b]
    <3>1. req[r].row.status = "pending"
      BY <2>2 DEF QuoteWriteBack, IndInv, ReadsStand, HandlerKnows
    <3> QED BY <1>0, <1>5, <2>2, <3>1 DEF QuoteWriteBack
  <2>3. bookings'[b] = bookings[b] /\ ledger' = ledger
    BY <1>5, <2>1, <2>2 DEF BookingsStep, PaymentsStep
  <2> QED BY <1>1, <1>5, <2>3 DEF Booked
<1> QED BY <1>3, <1>4, <1>5

----------------------------------------------------------------------------
(* The inductive invariant *)

LEMMA IndInvInit == Init => IndInv
<1> SUFFICES ASSUME Init PROVE IndInv
  OBVIOUS
<1>1. TypeOK
  BY InitTyped
<1>2. \A r \in Slots : HandlerKnows(req[r])
  BY DEF Init, Idle, HandlerKnows, ConfirmSteps
<1>3. WorkerKnows
  BY DEF Init, Asleep, WorkerKnows
<1>4. \A q \in QuoteIds : quotes[q].status = "none"
  BY DEF Init, NoQuoteRow
<1>5. OneOfferOneLock /\ AcceptedInTime
  BY <1>4 DEF OneOfferOneLock, AcceptedInTime
<1>6. \A b \in Bookings : payments[b].status = "none" /\ payments[b].tx = NoHash
  BY DEF Init, NoPaymentRow
<1>7. PaymentIsTheLockedQuote /\ HashOnOnePayment
  BY <1>6 DEF PaymentIsTheLockedQuote, PaymentInserted, HashOnOnePayment
<1>8. ConfirmedIsPaid
  BY <1>6 DEF Init, NoBookingRow, ConfirmedIsPaid, Booked
<1> QED BY <1>1, <1>2, <1>3, <1>4, <1>5, <1>7, <1>8 DEF IndInv, ReadsStand

LEMMA IndInvStep == IndInv /\ [Next]_vars => IndInv'
<1> SUFFICES ASSUME IndInv, [Next]_vars PROVE IndInv'
  OBVIOUS
<1>1. TypeOK'
  BY NextTyped DEF IndInv
<1>2. QuotesStep /\ PaymentsStep /\ BookingsStep /\ ChainStep
  BY QuotesFootprint, PaymentsFootprint, BookingsFootprint, ChainFootprint
<1>3. (\A r \in Slots : HandlerKnows(req[r]))' /\ WorkerKnows'
  BY HandlersKnow, WorkerStillKnows
<1>4. FiguresOK' /\ OneOfferOneLock' /\ AcceptedInTime' /\ PaymentIsTheLockedQuote'
  BY <1>2, FiguresStay, OneOfferStays, AcceptedInTimeStays, LockedQuoteStays
<1>5. HashOnOnePayment' /\ ConfirmedIsPaid'
  BY <1>2, HashStaysOnOne, ConfirmedStaysPaid
<1> QED BY <1>1, <1>3, <1>4, <1>5 DEF IndInv, ReadsStand, FiguresOK

\* In every reachable state what handlers and the worker hold is still true of
\* the tables, and with it everything below.
THEOREM Invariant == Spec => []IndInv
BY IndInvInit, IndInvStep, PTL DEF Spec

\* What handlers and the worker have read stays true while they hold it.
THEOREM ReadsKeepStanding == Spec => []ReadsStand
<1>1. IndInv => ReadsStand
  BY DEF IndInv
<1> QED BY <1>1, Invariant, PTL

\* What a payment asks for is what the user approved (InitPayment).
THEOREM LockedQuoteIsOwed == Spec => []PaymentIsTheLockedQuote
<1>1. IndInv => PaymentIsTheLockedQuote
  BY DEF IndInv
<1> QED BY <1>1, Invariant, PTL

\* One offer open and one price locked per booking (PgQuoteRepository).
THEOREM OneOfferAndLock == Spec => []OneOfferOneLock
<1>1. IndInv => OneOfferOneLock
  BY DEF IndInv
<1> QED BY <1>1, Invariant, PTL

\* No quote is accepted after its expiry (AcceptQuote, mark_accepted).
THEOREM AcceptanceInTime == Spec => []AcceptedInTime
<1>1. IndInv => AcceptedInTime
  BY DEF IndInv
<1> QED BY <1>1, Invariant, PTL

\* Nothing is confirmed, by a handler or by the worker, that the chain has not
\* paid in full (ConfirmPayment, PgSettlementRepository, the worker).
THEOREM ConfirmedWasPaid == Spec => []ConfirmedIsPaid
<1>1. IndInv => ConfirmedIsPaid
  BY DEF IndInv
<1> QED BY <1>1, Invariant, PTL

\* No hash is on two payments, whichever path wrote it (idx_payments_tx_hash_unique).
THEOREM HashOnOne == Spec => []HashOnOnePayment
<1>1. IndInv => HashOnOnePayment
  BY DEF IndInv
<1> QED BY <1>1, Invariant, PTL

\* A quote leaves "active" once, and its figures never change.
THEOREM QuotesRunOneWay == Spec => QuoteLifecycle
<1>1. IndInv /\ [Next]_vars =>
        [\A q \in QuoteIds :
           /\ quotes[q].status = "none" => quotes'[q].status \in {"none", "active"}
           /\ quotes[q].status \notin {"none", "active"} => quotes'[q] = quotes[q]
           /\ quotes[q].status # "none" => Figures(quotes'[q]) = Figures(quotes[q])]_vars
  BY QuotesFootprint, QuotesKept DEF QuoteKept
<1> QED BY <1>1, Invariant, PTL DEF Spec, QuoteLifecycle

----------------------------------------------------------------------------
(* What clients were told *)

\* Not a transfer of n base units to the platform, whatever becomes of it.
Short(t, n) == ~(TransferOf[t] \in ToPlatform /\ Amount[TransferOf[t]] >= n)

\* An answer, and what the tables have to say for it.
Told(b, t, a) ==
    /\ a = "accepted" => b \in Bookings /\ AcceptedQuotes(b) # {}
    /\ a = "owes" => b \in Bookings /\ PaymentInserted(b)
    /\ a = "paid" => b \in Bookings /\ \E h \in Hashes : Booked(b, h)
    /\ a = "never" => /\ b \in Bookings /\ t \in Hashes
                      /\ PaymentInserted(b) /\ Short(t, payments[b].units)

\* Of a transfer that was observed, ConfirmPayment decides on the answer before
\* it has recorded the hash.
Vouched(h) ==
    /\ h.pc = "idle" => Told(h.booking, h.tx, h.answer)
    /\ h.pc = "confirm.record" =>
          /\ h.answer \in {"not yet", "never"}
          /\ h.answer = "never" => Told(h.booking, h.tx, "never")

AllVouched == \A r \in Slots : Vouched(req[r])

LEMMA ToldStays ==
    ASSUME IndInv, [Next]_vars, NEW b, NEW t, NEW a, Told(b, t, a)
    PROVE  Told(b, t, a)'
<1>1. QuotesStep /\ PaymentsStep
  BY QuotesFootprint, PaymentsFootprint
<1>2. ASSUME b \in Bookings, AcceptedQuotes(b) # {} PROVE (AcceptedQuotes(b) # {})'
  <2>1. PICK q \in QuoteIds : quotes[q].booking = b /\ quotes[q].status = "accepted"
    BY <1>2 DEF AcceptedQuotes
  <2>2. QuoteKept(q)
    BY <1>1, QuotesKept
  <2>3. quotes'[q].booking = b /\ quotes'[q].status = "accepted"
    BY <2>1, <2>2 DEF QuoteKept
  <2> QED BY <2>3 DEF AcceptedQuotes
<1>3. ASSUME b \in Bookings, PaymentInserted(b)
      PROVE  PaymentInserted(b)' /\ payments'[b].units = payments[b].units
  BY <1>1, <1>3, PaymentsKept DEF PaymentKept, PaymentInserted
<1>4. ASSUME b \in Bookings, NEW h \in Hashes, Booked(b, h) PROVE Booked(b, h)'
  BY <1>1, <1>4, BookedKept
<1>5. CASE a = "accepted"
  BY <1>2, <1>5 DEF Told
<1>6. CASE a = "owes"
  BY <1>3, <1>6 DEF Told
<1>7. CASE a = "paid"
  BY <1>4, <1>7 DEF Told
<1>8. CASE a = "never"
  BY <1>3, <1>8 DEF Told, Short
<1> QED BY <1>5, <1>6, <1>7, <1>8 DEF Told

LEMMA VouchedStays ==
    ASSUME IndInv, [Next]_vars, NEW h, Vouched(h) PROVE Vouched(h)'
BY ToldStays DEF Vouched

\* These answers promise nothing.
LEMMA PlainAnswer ==
    ASSUME IndInv, NEW r \in Slots, NEW a \in {"refused", "failed", "quoted"}, Answer(r, a)
    PROVE  Vouched(req[r])'
<1>1. req'[r].pc = "idle" /\ req'[r].answer = a
  BY DEF Answer, Answered, Idle, IndInv, TypeOK, ProcessesOK
<1> QED BY <1>1 DEF Vouched, Told

\* A handler that goes on, anywhere but to the record.
LEMMA GoesOn ==
    ASSUME NEW r \in Slots, req'[r].pc \notin {"idle", "confirm.record"}
    PROVE  Vouched(req[r])'
BY DEF Vouched

LEMMA GotoVouched ==
    ASSUME IndInv, NEW r \in Slots, NEW step, step \notin {"idle", "confirm.record"},
           Goto(r, step)
    PROVE  Vouched(req[r])'
<1>1. req'[r].pc = step
  BY DEF Goto, IndInv, TypeOK, ProcessesOK, Request
<1> QED BY <1>1, GoesOn

LEMMA GivenAnswer ==
    ASSUME IndInv, NEW r \in Slots, NEW a, Answer(r, a)
    PROVE  /\ req'[r].pc = "idle" /\ req'[r].booking = req[r].booking
           /\ req'[r].tx = req[r].tx /\ req'[r].answer = a
BY DEF Answer, Answered, Idle, IndInv, TypeOK, ProcessesOK

LEMMA AnswerVouched ==
    ASSUME IndInv, NEW r \in Slots, NEW a, Answer(r, a),
           NEW b, b = req[r].booking, NEW t, t = req[r].tx, Told(b, t, a)'
    PROVE  Vouched(req[r])'
<1>1. PICK h : h = req'[r]
  OBVIOUS
<1>2. h.pc = "idle" /\ h.booking = b /\ h.tx = t /\ h.answer = a
  BY <1>1, GivenAnswer
<1>3. Vouched(h)'
  BY <1>2 DEF Vouched
<1> QED BY <1>1, <1>3 DEF Vouched

LEMMA QuotingVouched ==
    ASSUME IndInv, NEW r \in Slots, QuotingRequest(r)
    PROVE  Vouched(req[r])'
<1>0. /\ req \in [Slots -> Request] /\ req[r] \in Request /\ HandlerKnows(req[r])
      /\ HandlerOK(req[r])
  BY DEF IndInv, ReadsStand, TypeOK, ProcessesOK
<1>1. ASSUME NEW b \in Bookings, QuoteReadBooking(r, b) \/ InitReadBooking(r, b)
      PROVE  Vouched(req[r])'
  <2>1. \/ req'[r].pc \in {"quote.payment", "init.payment"}
        \/ req'[r].pc = "idle" /\ req'[r].answer = "refused"
    BY <1>0, <1>1 DEF QuoteReadBooking, InitReadBooking, Idle
  <2> QED BY <2>1 DEF Vouched, Told
<1>2. ASSUME NEW q \in QuoteIds, NEW p \in Prices, NEW u \in Units, AcceptRead(r, q, p, u)
      PROVE  Vouched(req[r])'
  <2>1. \/ req'[r].pc = "accept.mark"
        \/ req'[r].pc = "idle" /\ req'[r].answer = "refused"
    BY <1>0, <1>2 DEF AcceptRead, Idle
  <2> QED BY <2>1 DEF Vouched, Told
<1>3. CASE QuoteCheckPayment(r) \/ QuoteCheckAccepted(r) \/ InitCheckPayment(r)
  <2>1. CASE \/ Goto(r, "quote.accepted") \/ Goto(r, "quote.catalog")
             \/ Goto(r, "init.quote")
    BY <2>1, GotoVouched
  <2>2. CASE Answer(r, "refused")
    BY <2>2, PlainAnswer
  <2> QED BY <1>3, <2>1, <2>2 DEF QuoteCheckPayment, QuoteCheckAccepted, InitCheckPayment
<1>4. CASE QuoteReadCatalog(r) \/ QuoteWriteBack(r) \/ QuoteConvert(r)
  <2>1. CASE QuoteWriteBack(r)
    BY <2>1, GotoVouched DEF QuoteWriteBack
  <2>2. CASE QuoteReadCatalog(r)
    <3>1. req'[r].pc \in {"quote.write", "quote.convert"}
      BY <1>0, <2>2 DEF QuoteReadCatalog, Request
    <3> QED BY <3>1, GoesOn
  <2>3. CASE QuoteConvert(r)
    <3>1. req'[r].pc = "quote.issue"
      BY <1>0, <2>3 DEF QuoteConvert, Request
    <3> QED BY <3>1, GoesOn
  <2> QED BY <1>4, <2>1, <2>2, <2>3
<1>5. CASE QuoteIssue(r)
  BY <1>5, PlainAnswer DEF QuoteIssue
<1>6. CASE AcceptMark(r)
  <2>1. CASE Answer(r, "refused")
    BY <2>1, PlainAnswer
  <2>2. CASE /\ quotes' = [quotes EXCEPT ![req[r].id].status = "accepted",
                                         ![req[r].id].accepted = req[r].quote.accepted]
             /\ Answer(r, "accepted")
    <3>1. /\ req[r].id \in QuoteIds /\ quotes[req[r].id].booking = req[r].booking
          /\ req[r].booking \in Bookings /\ quotes \in [QuoteIds -> QuoteRow]
      BY <1>0, <1>6 DEF AcceptMark, HandlerKnows, HandlerOK, IndInv, TypeOK, TablesOK
    <3>2. PICK b, t : b \in Bookings /\ b = req[r].booking /\ t = req[r].tx
      BY <3>1
    <3>3. quotes'[req[r].id].status = "accepted" /\ quotes'[req[r].id].booking = b
      BY <2>2, <3>1, <3>2 DEF QuoteRow
    <3>4. AcceptedQuotes(b)' # {}
      BY <3>1, <3>3 DEF AcceptedQuotes
    <3>5. Told(b, t, "accepted")'
      BY <3>2, <3>4 DEF Told
    <3> QED BY <2>2, <3>2, <3>5, AnswerVouched
  <2> QED BY <1>6, <2>1, <2>2 DEF AcceptMark
<1>7. CASE InitReadQuote(r)
  <2>1. CASE Answer(r, "refused")
    BY <2>1, PlainAnswer
  <2>2. CASE ~Answer(r, "refused")
    <3>1. PICK q \in QuoteIds :
            req' = [req EXCEPT ![r].pc = "init.save", ![r].id = q, ![r].quote = quotes[q]]
      BY <1>7, <2>2 DEF InitReadQuote
    <3>2. req'[r].pc = "init.save"
      BY <1>0, <3>1 DEF Request
    <3> QED BY <3>2, GoesOn
  <2> QED BY <2>1, <2>2
<1>8. CASE InitSave(r)
  <2>1. CASE Answer(r, "refused")
    BY <2>1, PlainAnswer
  <2>2. CASE payments' = [payments EXCEPT ![req[r].booking] = PaymentFrom(r)]
             /\ Answer(r, "owes")
    <3>1. req[r].booking \in Bookings /\ payments \in [Bookings -> PaymentRow]
      BY <1>0, <1>8 DEF InitSave, HandlerOK, IndInv, TypeOK, TablesOK
    <3>2. PICK b, t : b \in Bookings /\ b = req[r].booking /\ t = req[r].tx
      BY <3>1
    <3>3. payments'[b].status = "pending"
      BY <2>2, <3>1, <3>2 DEF PaymentFrom
    <3>4. Told(b, t, "owes")'
      BY <3>2, <3>3 DEF Told, PaymentInserted
    <3> QED BY <2>2, <3>2, <3>4, AnswerVouched
  <2> QED BY <1>8, <2>1, <2>2 DEF InitSave
<1> QED BY <1>1, <1>2, <1>3, <1>4, <1>5, <1>6, <1>7, <1>8 DEF QuotingRequest

LEMMA ConfirmingVouched ==
    ASSUME IndInv, [Next]_vars, AllVouched, NEW r \in Slots, ConfirmRequest(r)
    PROVE  Vouched(req[r])'
<1>0. /\ req \in [Slots -> Request] /\ req[r] \in Request /\ HandlerKnows(req[r])
      /\ HandlerOK(req[r]) /\ Vouched(req[r])
      /\ payments \in [Bookings -> PaymentRow] /\ ledger \in [Bookings -> [Hashes -> Nat]]
  BY DEF IndInv, ReadsStand, TypeOK, ProcessesOK, TablesOK, AllVouched
<1>1. ASSUME NEW b \in Bookings, payments[b].status = "confirmed"
      PROVE  \E h \in Hashes : Booked(b, h)
  BY <1>0, <1>1 DEF IndInv, ConfirmedIsPaid, PaymentRow
<1>2. ASSUME NEW b \in Bookings, NEW t \in Hashes, ConfirmRead(r, b, t)
      PROVE  Vouched(req[r])'
  <2>1. ledger' = ledger
    BY <1>2 DEF ConfirmRead, tables
  <2>2. CASE payments[b].status = "pending"
    <3>1. req'[r].pc = "confirm.guard"
      BY <1>0, <1>2, <2>2 DEF ConfirmRead, Idle
    <3> QED BY <3>1, GoesOn
  <2>3. CASE payments[b].status = "confirmed"
    <3>1. PICK g : g = req'[r]
      OBVIOUS
    <3>2. g.pc = "idle" /\ g.booking = b /\ g.answer = "paid"
      BY <1>0, <1>2, <2>3, <3>1 DEF ConfirmRead, Idle
    <3>3. \E h \in Hashes : Booked(b, h)'
      BY <1>1, <2>1, <2>3 DEF Booked
    <3>4. Vouched(g)'
      BY <3>2, <3>3 DEF Vouched, Told
    <3> QED BY <3>1, <3>4 DEF Vouched
  <2>4. CASE payments[b].status \notin {"pending", "confirmed"}
    <3>1. req'[r].pc = "idle" /\ req'[r].answer = "refused"
      BY <1>0, <1>2, <2>4 DEF ConfirmRead, Idle
    <3> QED BY <3>1 DEF Vouched, Told
  <2> QED BY <2>2, <2>3, <2>4
<1>3. CASE ConfirmGuard(r)
  <2>1. CASE Goto(r, "confirm.verify")
    <3>1. req'[r].pc = "confirm.verify"
      BY <1>0, <2>1 DEF Goto
    <3> QED BY <3>1, GoesOn
  <2> QED BY <1>3, <2>1, PlainAnswer DEF ConfirmGuard
<1>4. CASE ConfirmVerify(r)
  <2>0. PICK v \in Verdicts(req[r].tx, req[r].pay.units) :
          req' = [req EXCEPT
                    ![r].pc = IF v = "pays" THEN "confirm.settle" ELSE "confirm.record",
                    ![r].answer = CASE v = "pays" -> "paid"
                                    [] v = "unobserved" -> "not yet"
                                    [] v = "observed" -> "never"]
    BY <1>4 DEF ConfirmVerify
  <2>1. PICK b \in Bookings, t \in Hashes : b = req[r].booking /\ t = req[r].tx
    BY <1>0, <1>4 DEF ConfirmVerify, HandlerKnows, HandlerOK, ConfirmSteps
  <2>2. PICK g : g = req'[r]
    OBVIOUS
  <2>3. /\ g.booking = b /\ g.tx = t
        /\ g.pc = IF v = "pays" THEN "confirm.settle" ELSE "confirm.record"
        /\ g.answer = CASE v = "pays" -> "paid"
                         [] v = "unobserved" -> "not yet"
                         [] v = "observed" -> "never"
    BY <1>0, <2>0, <2>1, <2>2 DEF Request
  <2>4. v \in {"pays", "unobserved", "observed"}
        /\ (v = "observed" => Short(t, req[r].pay.units))
    BY <2>1 DEF Verdicts, Short
  <2>5. payments' = payments /\ PaymentInserted(b) /\ req[r].pay.units = payments[b].units
    BY <1>0, <1>4, <2>1 DEF ConfirmVerify, HandlerKnows, ConfirmSteps, tables
  <2>6. v = "observed" => Told(b, t, "never")'
    BY <2>4, <2>5 DEF Told, PaymentInserted, Short
  <2>7. Vouched(g)'
    BY <2>3, <2>4, <2>6 DEF Vouched
  <2> QED BY <2>2, <2>7 DEF Vouched
<1>5. CASE ConfirmRecord(r)
  <2>1. CASE Answer(r, "failed")
    BY <2>1, PlainAnswer
  <2>2. CASE Answer(r, req[r].answer)
    <3>1. PICK b, t, a : b = req[r].booking /\ t = req[r].tx /\ a = req[r].answer
      OBVIOUS
    <3>2. a \in {"not yet", "never"} /\ (a = "never" => Told(b, t, a))
      BY <1>0, <1>5, <3>1 DEF ConfirmRecord, Vouched
    <3>3. Told(b, t, a)
      BY <3>2 DEF Told
    <3>4. Told(b, t, a)'
      BY <3>3, ToldStays
    <3> QED BY <2>2, <3>1, <3>4, AnswerVouched
  <2> QED BY <1>5, <2>1, <2>2 DEF ConfirmRecord
<1>6. CASE ConfirmSettle(r)
  <2>1. PICK b \in Bookings, t \in Hashes : b = req[r].booking /\ t = req[r].tx
    BY <1>0, <1>6 DEF ConfirmSettle, HandlerKnows, HandlerOK, ConfirmSteps
  <2>2. CASE Answer(r, "refused")
    BY <2>2, PlainAnswer
  <2>3. CASE Settle(b, t) /\ Answer(r, "paid")
    <3>1. ledger'[b][t] = ledger[b][t] + 1 /\ ledger[b][t] \in Nat
      BY <1>0, <2>3 DEF Settle
    <3>2. Booked(b, t)'
      BY <3>1 DEF Booked
    <3>3. Told(b, t, "paid")'
      BY <3>2 DEF Told
    <3> QED BY <2>1, <2>3, <3>3, AnswerVouched
  <2>4. CASE payments[b].status = "confirmed" /\ ledger' = ledger /\ Answer(r, "paid")
    <3>1. \E h \in Hashes : Booked(b, h)'
      BY <1>1, <2>4 DEF Booked
    <3>2. Told(b, t, "paid")'
      BY <3>1 DEF Told
    <3> QED BY <2>1, <2>4, <3>2, AnswerVouched
  <2> QED BY <1>6, <2>1, <2>2, <2>3, <2>4 DEF ConfirmSettle
<1> QED BY <1>2, <1>3, <1>4, <1>5, <1>6 DEF ConfirmRequest

LEMMA VouchedStep == IndInv /\ AllVouched /\ [Next]_vars => AllVouched'
<1> SUFFICES ASSUME IndInv, AllVouched, [Next]_vars, NEW s \in Slots PROVE Vouched(req[s])'
  BY DEF AllVouched
<1>1. ASSUME req'[s] = req[s] PROVE Vouched(req[s])'
  <2>1. PICK h : h = req[s]
    OBVIOUS
  <2>2. Vouched(h)'
    BY <2>1, VouchedStays DEF AllVouched
  <2> QED BY <1>1, <2>1, <2>2 DEF Vouched
<1>2. ASSUME NEW r \in Slots, QuotingRequest(r) \/ ConfirmRequest(r) \/ Abort(r)
      PROVE  Vouched(req[s])'
  <2>1. CASE r # s
    BY <1>1, <1>2, <2>1, OthersStay
  <2>2. CASE r = s
    BY <1>2, <2>2, QuotingVouched, ConfirmingVouched, PlainAnswer DEF Abort
  <2> QED BY <2>1, <2>2
<1>3. CASE Market \/ Chains \/ Reconciliation \/ UNCHANGED vars
  <2>1. req' = req
    BY <1>3 DEF Market, Tick, CatalogMoves, CreateBooking, Chains, ChainMoves,
       Reconciliation, WorkerSweep, WorkerLoad, WorkerDefers, WorkerFinds, WorkerSettles,
       WorkerAborts, vars
  <2> QED BY <1>1, <2>1
<1> QED BY <1>2, <1>3 DEF Next

\* What the answers are vouched for by is what AnswersHold says of them.
LEMMA VouchedHolds == AllVouched => AnswersHold
<1> SUFFICES ASSUME AllVouched, NEW r \in Slots, req[r].pc = "idle"
             PROVE  LET b == req[r].booking
                        t == req[r].tx
                    IN  /\ req[r].answer = "accepted" => AcceptedQuotes(b) # {}
                        /\ req[r].answer = "owes" => PaymentInserted(b)
                        /\ req[r].answer = "paid" => \E h \in Hashes : Booked(b, h)
                        /\ req[r].answer = "never" => ~Pays(t, payments[b].units)
  BY DEF AnswersHold
<1> QED BY DEF AllVouched, Vouched, Told, Short, Pays

\* What a client was told stays true, whatever other requests and the worker do
\* afterwards (the responses of AcceptQuote, InitPayment and ConfirmPayment).
THEOREM ToldForGood == Spec => []AnswersHold
<1>1. Init => AllVouched
  <2> SUFFICES ASSUME Init, NEW r \in Slots PROVE Vouched(req[r])
    BY DEF AllVouched
  <2>1. req[r].pc = "idle" /\ req[r].answer = "none"
    BY DEF Init, Idle
  <2> QED BY <2>1 DEF Vouched, Told
<1> QED BY <1>1, VouchedHolds, Invariant, VouchedStep, PTL DEF Spec

----------------------------------------------------------------------------
(* The parts of the system that begin elsewhere, or take fewer steps.        *)

\* In Owed each payment asks for the figures of its booking's accepted quote.
LEMMA OwedTables ==
    ASSUME Owed
    PROVE  /\ TypeOK /\ OneOfferOneLock /\ AcceptedInTime /\ PaymentIsTheLockedQuote
           /\ \A q \in QuoteIds :
                 quotes[q].status # "none" => Figures(quotes[q]) \in Prices \X Units
<1>1. PICK price \in Prices, f \in [Bookings -> QuoteIds], u \in [Bookings -> Units],
           age \in [Bookings -> 0 .. Cardinality(Bookings) - 1] :
         /\ \A b, c \in Bookings : b # c => f[b] # f[c] /\ age[b] # age[c]
         /\ catalog = [b \in Bookings |-> price]
         /\ bookings = [b \in Bookings |->
                          [status |-> "pending", price |-> price, tx |-> NoHash]]
         /\ quotes = [q \in QuoteIds |->
                        IF \E b \in Bookings : f[b] = q
                        THEN LET b == CHOOSE x \in Bookings : f[x] = q IN
                             [status |-> "accepted", booking |-> b, price |-> price,
                              units |-> u[b], expires |-> TTL, accepted |-> 0]
                        ELSE NoQuoteRow]
         /\ payments = [b \in Bookings |->
                          [status |-> "pending", quote |-> f[b], price |-> price,
                           units |-> u[b], tx |-> NoHash, created |-> age[b]]]
  BY DEF Owed
<1>2. /\ price \in Nat /\ price \in Prices /\ TTL \in Nat /\ 0 < TTL
      /\ \A b \in Bookings : u[b] \in Nat /\ u[b] \in Units /\ f[b] \in QuoteIds /\ age[b] \in Nat
  <2>1. ASSUME NEW b \in Bookings PROVE age[b] \in Nat
    BY <1>1, SetsAssumption, FS_CardinalityType
  <2>2. /\ price \in Nat /\ TTL \in Nat /\ 0 < TTL
        /\ \A b \in Bookings : u[b] \in Units /\ f[b] \in QuoteIds
    BY FiguresAssumption, BoundsAssumption
  <2> QED BY <2>1, <2>2, FiguresAssumption
<1>3. ASSUME NEW b \in Bookings
      PROVE  quotes[f[b]] = [status |-> "accepted", booking |-> b, price |-> price,
                             units |-> u[b], expires |-> TTL, accepted |-> 0]
  <2>1. (CHOOSE x \in Bookings : f[x] = f[b]) = b
    BY <1>1
  <2> QED BY <1>1, <1>2, <2>1
<1>4. ASSUME NEW q \in QuoteIds, quotes[q] # NoQuoteRow PROVE \E b \in Bookings : f[b] = q
  BY <1>1, <1>4
<1>5. quotes \in [QuoteIds -> QuoteRow]
  <2>1. ASSUME NEW q \in QuoteIds PROVE quotes[q] \in QuoteRow
    <3>1. CASE quotes[q] = NoQuoteRow
      BY <3>1 DEF NoQuoteRow, QuoteRow
    <3>2. CASE quotes[q] # NoQuoteRow
      <4>1. PICK b \in Bookings : f[b] = q
        BY <1>4, <3>2
      <4>2. quotes[q] = [status |-> "accepted", booking |-> b, price |-> price,
                         units |-> u[b], expires |-> TTL, accepted |-> 0]
        BY <1>3, <4>1
      <4> QED BY <1>2, <4>2 DEF QuoteRow
    <3> QED BY <3>1, <3>2
  <2>2. quotes = [q \in QuoteIds |-> quotes[q]]
    BY <1>1
  <2> QED BY <2>1, <2>2
<1>6. ASSUME NEW q \in QuoteIds, quotes[q].status # "none"
      PROVE  \E b \in Bookings : /\ q = f[b] /\ quotes[q].booking = b
                                 /\ quotes[q].status = "accepted"
                                 /\ quotes[q].price = price /\ quotes[q].units = u[b]
                                 /\ quotes[q].expires = TTL /\ quotes[q].accepted = 0
  <2>1. PICK b \in Bookings : f[b] = q
    BY <1>4, <1>6 DEF NoQuoteRow
  <2>2. quotes[q] = [status |-> "accepted", booking |-> b, price |-> price,
                     units |-> u[b], expires |-> TTL, accepted |-> 0]
    BY <1>3, <2>1
  <2>3. /\ q = f[b] /\ quotes[q].booking = b /\ quotes[q].status = "accepted"
        /\ quotes[q].price = price /\ quotes[q].units = u[b]
        /\ quotes[q].expires = TTL /\ quotes[q].accepted = 0
    BY <2>1, <2>2
  <2> QED BY <2>3
<1>7. TablesOK
  <2>1. bookings \in [Bookings -> BookingRow]
    BY <1>1, <1>2 DEF BookingRow
  <2>2. payments \in [Bookings -> PaymentRow]
    BY <1>1, <1>2 DEF PaymentRow
  <2>3. ledger \in [Bookings -> [Hashes -> Nat]]
    BY DEF Owed
  <2>4. \A q \in QuoteIds : quotes[q].status # "none" => quotes[q].booking \in Bookings
    BY <1>6
  <2> QED BY <1>5, <2>1, <2>2, <2>3, <2>4 DEF TablesOK
<1>8. TypeOK
  <2>1. req = [r \in Slots |-> Idle] /\ started = 0 /\ worker = Asleep
    BY DEF Owed
  <2>3. ProcessesOK
    BY <2>1, RowsTyped DEF ProcessesOK, HandlerOK, Idle
  <2>2. now \in Nat /\ chain \in [Transfers -> Fates]
    BY DEF Owed
  <2>4. catalog \in [Bookings -> Prices]
    BY <1>1
  <2> QED BY <1>7, <2>2, <2>3, <2>4 DEF TypeOK
<1>9. OneOfferOneLock /\ AcceptedInTime
  <2>1. OneOfferOneLock
    BY <1>6 DEF OneOfferOneLock
  <2>2. AcceptedInTime
    BY <1>2, <1>6 DEF AcceptedInTime
  <2> QED BY <2>1, <2>2
<1>10. PaymentIsTheLockedQuote
  <2> SUFFICES ASSUME NEW b \in Bookings
               PROVE  /\ f[b] \in AcceptedQuotes(b) /\ payments[b].quote = f[b]
                      /\ Figures(payments[b]) = Figures(quotes[f[b]])
    BY DEF PaymentIsTheLockedQuote
  <2>1. payments[b] = [status |-> "pending", quote |-> f[b], price |-> price,
                       units |-> u[b], tx |-> NoHash, created |-> age[b]]
    BY <1>1
  <2>2. quotes[f[b]] = [status |-> "accepted", booking |-> b, price |-> price,
                        units |-> u[b], expires |-> TTL, accepted |-> 0]
    BY <1>3
  <2>3. f[b] \in AcceptedQuotes(b)
    BY <1>2, <2>2 DEF AcceptedQuotes
  <2> QED BY <2>1, <2>2, <2>3 DEF Figures
<1>11. \A q \in QuoteIds : quotes[q].status # "none" => Figures(quotes[q]) \in Prices \X Units
  BY <1>2, <1>6 DEF Figures
<1> QED BY <1>8, <1>9, <1>10, <1>11

LEMMA OwedHolds == Owed => IndInv /\ AllVouched
<1> SUFFICES ASSUME Owed PROVE IndInv /\ AllVouched
  OBVIOUS
<1>1. req = [r \in Slots |-> Idle] /\ worker = Asleep
  BY DEF Owed
<1>2. ReadsStand
  BY <1>1 DEF Idle, Asleep, ReadsStand, HandlerKnows, WorkerKnows, ConfirmSteps
<1>3. AllVouched
  <2>1. \A r \in Slots : req[r].pc = "idle" /\ req[r].answer = "none"
    BY <1>1 DEF Idle
  <2> QED BY <2>1 DEF AllVouched, Vouched, Told
<1>4. \A b \in Bookings : /\ payments[b].status = "pending" /\ payments[b].tx = NoHash
                          /\ bookings[b].status = "pending"
                          /\ \A t \in Hashes : ledger[b][t] = 0
  BY DEF Owed
<1>5. HashOnOnePayment /\ ConfirmedIsPaid
  BY <1>4 DEF HashOnOnePayment, ConfirmedIsPaid, Booked
<1> QED BY <1>2, <1>3, <1>5, OwedTables DEF IndInv

\* From the states in which every booking owes its locked amount, whatever confirms
\* and the worker do, nothing is confirmed that was not paid, no hash is on two
\* payments and no client was told what does not last (ConfirmPayment, the worker).
THEOREM PayingKeeps == PayingSpec => [](ConfirmedIsPaid /\ HashOnOnePayment /\ AnswersHold)
<1>1. [PayingNext]_vars => [Next]_vars
  BY DEF PayingNext, Next
<1>2. IndInv /\ AllVouched => ConfirmedIsPaid /\ HashOnOnePayment /\ AnswersHold
  BY VouchedHolds DEF IndInv
<1> QED BY <1>1, <1>2, OwedHolds, IndInvStep, VouchedStep, PTL DEF PayingSpec
----------------------------------------------------------------------------
(* What the worker waits to settle *)

\* A pending payment whose recorded hash names a transfer that pays it.
Good(b, t) ==
    payments[b].status = "pending" /\ payments[b].tx = t /\ Pays(t, payments[b].units)

\* The gateway may say so, and the settlement transaction would take it.
GoodCanSettle ==
    \A b \in Bookings, t \in Hashes :
        Good(b, t) => "pays" \in Verdicts(t, payments[b].units) /\ CanSettle(b, t)

\* It stays so until it is settled or a confirm records another hash for it.
GoodUntilSettled ==
    [][\A b \in Bookings, t \in Hashes :
         Good(b, t) => \/ Good(b, t)'
                       \/ payments[b].status' = "confirmed"
                       \/ payments[b].tx' # t]_vars

LEMMA GoodIsKept ==
    ASSUME IndInv, [Next]_vars, NEW b \in Bookings, NEW t \in Hashes, Good(b, t)
    PROVE  \/ Good(b, t)'
           \/ payments[b].status' = "confirmed"
           \/ payments[b].tx' # t
<1>0. payments \in [Bookings -> PaymentRow] /\ PaymentInserted(b)
  BY DEF IndInv, TypeOK, TablesOK, Good, PaymentInserted
<1>1. PaymentsStep /\ ChainStep
  BY PaymentsFootprint, ChainFootprint
<1>2. PaymentInserted(b)' /\ payments'[b].units = payments[b].units
  BY <1>0, <1>1, PaymentsKept DEF PaymentKept, PaymentInserted
<1>3. Pays(t, payments[b].units)'
  <2>1. PICK n : n = payments[b].units
    OBVIOUS
  <2>2. Pays(t, n)'
    BY <1>1, <2>1, PaysKept DEF Good
  <2> QED BY <1>2, <2>1, <2>2 DEF Pays
<1>4. payments'[b].status \in {"pending", "confirmed"}
  BY <1>2, NextTyped DEF IndInv, TypeOK, TablesOK, PaymentRow, PaymentInserted
<1> QED BY <1>3, <1>4 DEF Good

LEMMA GoodSettles == IndInv => GoodCanSettle
<1> SUFFICES ASSUME IndInv, NEW b \in Bookings, NEW t \in Hashes, Good(b, t)
             PROVE  "pays" \in Verdicts(t, payments[b].units) /\ CanSettle(b, t)
  BY DEF GoodCanSettle
<1>1. t # NoHash
  BY SetsAssumption
<1>2. ~HashTaken(b, t)
  BY <1>1 DEF IndInv, HashOnOnePayment, HashTaken, Good
<1> QED BY <1>2 DEF Good, CanSettle, Verdicts, Pays

\* A payment that deserves to be confirmed is never refused and never loses its
\* claim: no other booking's row, stale handler, settlement or failed cycle spoils
\* it, so that only the gateway's answers and the worker's turn are waited for (the
\* safety half of GoodPaymentSettles).
THEOREM GoodKeepsItsClaim ==
    (Spec \/ PayingSpec) => []GoodCanSettle /\ GoodUntilSettled
<1>1. [PayingNext]_vars => [Next]_vars
  BY DEF PayingNext, Next
<1>2. IndInv /\ [Next]_vars =>
        [\A b \in Bookings, t \in Hashes :
           Good(b, t) => \/ Good(b, t)'
                         \/ payments[b].status' = "confirmed"
                         \/ payments[b].tx' # t]_vars
  BY GoodIsKept
<1>3. Owed => IndInv
  BY OwedHolds
<1> QED BY <1>1, <1>2, <1>3, GoodSettles, IndInvInit, IndInvStep, PTL
        DEF Spec, PayingSpec, GoodUntilSettled
=============================================================================
