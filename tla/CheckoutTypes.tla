--------------------------- MODULE CheckoutTypes ----------------------------
(***************************************************************************)
(* The rows, the locals and the program counters of the checkout keep      *)
(* their types, for every value of the constants.                          *)
(***************************************************************************)
EXTENDS Checkout, TLAPS, FiniteSetTheorems

\* What a transfer can become, and what a gateway may say of it.
USE DEF Fates, ChainInit, Decided, Outcomes

\* The rows and records every state starts from.
LEMMA RowsTyped ==
    /\ NoBookingRow \in BookingRow
    /\ NoQuoteRow \in QuoteRow
    /\ NoPaymentRow \in PaymentRow
    /\ Idle \in Request
    /\ Asleep \in Worker
BY DEF NoBookingRow, BookingRow, NoQuoteRow, QuoteRow, NoPaymentRow, PaymentRow,
       Idle, Request, Answers, Asleep, Worker

LEMMA InitTyped == Init => TypeOK
BY RowsTyped DEF Init, TypeOK, TablesOK, ProcessesOK, HandlerOK, NoQuoteRow, Idle

\* The number of payments inserted so far is a natural number.
LEMMA CreatedTyped ==
    Cardinality({b \in Bookings : PaymentInserted(b)}) \in Nat
BY SetsAssumption, FS_Subset, FS_CardinalityType

\* A handler whose new place and locals are of the right kind leaves req typed.
LEMMA StepTyped ==
    ASSUME TypeOK, NEW r \in Slots, NEW h \in Request, HandlerOK(h),
           req' = [req EXCEPT ![r] = h]
    PROVE  req' \in [Slots -> Request] /\ \A s \in Slots : HandlerOK(req'[s])
BY DEF TypeOK, ProcessesOK

LEMMA AnswerTyped ==
    ASSUME TypeOK, NEW r \in Slots, NEW a \in Answers, Answer(r, a)
    PROVE  req' \in [Slots -> Request] /\ \A s \in Slots : HandlerOK(req'[s])
<1>1. Answered(r, a) \in Request /\ HandlerOK(Answered(r, a))
  BY RowsTyped DEF TypeOK, ProcessesOK, Answered, Idle, Request, HandlerOK
<1> QED BY <1>1, StepTyped DEF Answer

LEMMA GotoTyped ==
    ASSUME TypeOK, NEW r \in Slots, req[r].pc # "idle",
           NEW step \in (QuotingSteps \cup ConfirmSteps) \ {"quote.issue"}, Goto(r, step)
    PROVE  req' \in [Slots -> Request] /\ \A s \in Slots : HandlerOK(req'[s])
<1>1. [req[r] EXCEPT !.pc = step] \in Request /\ HandlerOK([req[r] EXCEPT !.pc = step])
  BY DEF TypeOK, ProcessesOK, Request, HandlerOK
<1> QED BY <1>1, StepTyped DEF Goto

LEMMA QuoteRequestTyped ==
    ASSUME TypeOK, NEW r \in Slots,
           \/ \E b \in Bookings : QuoteReadBooking(r, b)
           \/ QuoteCheckPayment(r) \/ QuoteCheckAccepted(r) \/ QuoteReadCatalog(r)
           \/ QuoteWriteBack(r) \/ QuoteConvert(r) \/ QuoteIssue(r)
    PROVE  TypeOK'
<1> USE DEF TypeOK, TablesOK, ProcessesOK
<1>0. req[r] \in Request /\ HandlerOK(req[r])
  OBVIOUS
<1>1. ASSUME NEW b \in Bookings, QuoteReadBooking(r, b) PROVE TypeOK'
  <2>1. bookings[b] \in BookingRow
    OBVIOUS
  <2> DEFINE reading == [Idle EXCEPT !.pc = "quote.payment", !.booking = b,
                                     !.row = bookings[b]]
             refused == [Idle EXCEPT !.booking = b, !.answer = "refused"]
  <2>2. reading \in Request /\ HandlerOK(reading) /\ refused \in Request /\ HandlerOK(refused)
    BY <2>1, RowsTyped DEF Idle, Request, QuotingSteps, Answers, HandlerOK
  <2>3. \/ req' = [req EXCEPT ![r] = reading]
        \/ req' = [req EXCEPT ![r] = refused]
    BY <1>1 DEF QuoteReadBooking
  <2>4. req' \in [Slots -> Request] /\ \A s \in Slots : HandlerOK(req'[s])
    BY <2>2, <2>3, StepTyped
  <2>5. started' = started + 1 /\ UNCHANGED <<tables, world, worker>>
    BY <1>1 DEF QuoteReadBooking
  <2> QED BY <2>4, <2>5 DEF tables, world
<1>2. CASE QuoteCheckPayment(r)
  BY <1>2, AnswerTyped, GotoTyped
     DEF QuoteCheckPayment, QuotingSteps, Answers, tables, world
<1>3. CASE QuoteCheckAccepted(r)
  BY <1>3, AnswerTyped, GotoTyped
     DEF QuoteCheckAccepted, QuotingSteps, Answers, tables, world
<1>4. CASE QuoteReadCatalog(r)
  <2>1. catalog[req[r].booking] \in Nat
    BY <1>0, <1>4, FiguresAssumption DEF QuoteReadCatalog, HandlerOK
  <2> DEFINE price == catalog[req[r].booking]
             h == [req[r] EXCEPT !.pc = IF price # req[r].row.price
                                        THEN "quote.write" ELSE "quote.convert",
                                 !.row.price = price]
  <2>2. req' = [req EXCEPT ![r] = h]
    BY <1>0, <1>4 DEF QuoteReadCatalog, Request
  <2>3. [req[r].row EXCEPT !.price = price] \in BookingRow
    BY <1>0, <2>1 DEF Request, BookingRow
  <2>4. h \in Request /\ HandlerOK(h)
    BY <1>0, <1>4, <2>3 DEF QuoteReadCatalog, Request, QuotingSteps, HandlerOK
  <2>5. UNCHANGED <<tables, world, started, worker>>
    BY <1>4 DEF QuoteReadCatalog
  <2>6. req' \in [Slots -> Request] /\ \A s \in Slots : HandlerOK(req'[s])
    BY <2>2, <2>4, StepTyped
  <2> QED BY <2>5, <2>6 DEF tables, world
<1>5. CASE QuoteWriteBack(r)
  <2>1. req[r].row \in BookingRow
    BY <1>0 DEF Request
  <2> QED BY <1>5, <2>1, GotoTyped DEF QuoteWriteBack, QuotingSteps, world
<1>6. CASE QuoteConvert(r)
  <2>1. PICK u \in Units :
           req' = [req EXCEPT ![r] =
             [req[r] EXCEPT
                !.pc = "quote.issue",
                !.quote = [status |-> "active", booking |-> req[r].booking,
                           price |-> req[r].row.price, units |-> u,
                           expires |-> now + TTL, accepted |-> 0]]]
    BY <1>6 DEF QuoteConvert
  <2> DEFINE offer == [status |-> "active", booking |-> req[r].booking,
                       price |-> req[r].row.price, units |-> u,
                       expires |-> now + TTL, accepted |-> 0]
             h == [req[r] EXCEPT !.pc = "quote.issue", !.quote = offer]
  <2>2. offer \in QuoteRow
    <3>1. req[r].booking \in Bookings
      BY <1>0, <1>6 DEF QuoteConvert, HandlerOK
    <3>2. req[r].row.price \in Nat
      BY <1>0 DEF Request, BookingRow
    <3>3. u \in Nat /\ now + TTL \in Nat
      BY FiguresAssumption, BoundsAssumption
    <3> QED BY <3>1, <3>2, <3>3 DEF QuoteRow
  <2>3. h \in Request /\ HandlerOK(h)
    BY <1>0, <1>6, <2>2 DEF QuoteConvert, Request, QuotingSteps, HandlerOK
  <2> QED BY <1>6, <2>1, <2>3, StepTyped DEF QuoteConvert, tables, world
<1>7. CASE QuoteIssue(r)
  <2>1. req[r].quote \in QuoteRow /\ req[r].quote.booking \in Bookings
    BY <1>0, <1>7 DEF QuoteIssue, Request, HandlerOK
  <2>2. \A q \in QuoteIds : /\ Supersede(req[r].booking, q) \in QuoteRow
                            /\ Supersede(req[r].booking, q).status # "none"
                                 => Supersede(req[r].booking, q).booking \in Bookings
    BY DEF Supersede, ActiveQuotes, QuoteRow
  <2>3. /\ quotes' \in [QuoteIds -> QuoteRow]
        /\ \A q \in QuoteIds : quotes'[q].status # "none" => quotes'[q].booking \in Bookings
    BY <1>7, <2>1, <2>2 DEF QuoteIssue
  <2> QED BY <1>7, <2>3, AnswerTyped DEF QuoteIssue, Answers, world
<1> QED BY <1>1, <1>2, <1>3, <1>4, <1>5, <1>6, <1>7

LEMMA AcceptRequestTyped ==
    ASSUME TypeOK, NEW r \in Slots,
           \/ \E q \in QuoteIds, p \in Prices, u \in Units : AcceptRead(r, q, p, u)
           \/ AcceptMark(r)
    PROVE  TypeOK'
<1> USE DEF TypeOK, TablesOK, ProcessesOK
<1>0. req[r] \in Request /\ HandlerOK(req[r])
  OBVIOUS
<1>1. ASSUME NEW q \in QuoteIds, NEW p \in Prices, NEW u \in Units, AcceptRead(r, q, p, u)
      PROVE  TypeOK'
  <2> DEFINE taken == IF quotes[q].status = "active" THEN now ELSE quotes[q].accepted
             marked == [quotes[q] EXCEPT !.status = "accepted", !.accepted = taken]
             marking == [Idle EXCEPT !.pc = "accept.mark", !.booking = quotes[q].booking,
                                     !.id = q, !.quote = marked]
             refused == [Idle EXCEPT !.booking = quotes[q].booking, !.answer = "refused"]
  <2>1. quotes[q].booking \in Bookings
    BY <1>1 DEF AcceptRead
  <2>2. marked \in QuoteRow
    <3>1. taken \in Nat
      BY DEF QuoteRow
    <3> QED BY <3>1 DEF QuoteRow
  <2>3. marking \in Request /\ HandlerOK(marking) /\ refused \in Request /\ HandlerOK(refused)
    BY <2>1, <2>2, RowsTyped DEF Idle, Request, QuotingSteps, Answers, HandlerOK
  <2>4. req' = [req EXCEPT ![r] = marking] \/ req' = [req EXCEPT ![r] = refused]
    BY <1>1 DEF AcceptRead
  <2>5. req' \in [Slots -> Request] /\ \A s \in Slots : HandlerOK(req'[s])
    BY <2>3, <2>4, StepTyped
  <2>6. started' = started + 1 /\ UNCHANGED <<tables, world, worker>>
    BY <1>1 DEF AcceptRead
  <2> QED BY <2>5, <2>6 DEF tables, world
<1>2. CASE AcceptMark(r)
  <2>1. req' \in [Slots -> Request] /\ \A s \in Slots : HandlerOK(req'[s])
    BY <1>2, AnswerTyped DEF AcceptMark, Answers
  <2>2. req[r].quote.accepted \in Nat /\ req[r].id \in QuoteIds \cup {NoQuote}
    BY <1>0 DEF Request, QuoteRow
  <2>3. /\ quotes' \in [QuoteIds -> QuoteRow]
        /\ \A q \in QuoteIds : quotes'[q].status # "none" => quotes'[q].booking \in Bookings
    <3> DEFINE marked(p) == [quotes[p] EXCEPT !.status = "accepted",
                                              !.accepted = req[r].quote.accepted]
    <3>1. ASSUME NEW p \in QuoteIds, quotes[p].status = "active"
          PROVE  marked(p) \in QuoteRow /\ marked(p).booking \in Bookings
      BY <2>2, <3>1 DEF QuoteRow
    <3>2. CASE UNCHANGED quotes
      BY <3>2
    <3>3. CASE /\ quotes[req[r].id].status = "active"
               /\ quotes' = [quotes EXCEPT ![req[r].id] = marked(req[r].id)]
      <4> HIDE DEF marked
      <4> QED BY <3>1, <3>3
    <3> QED BY <1>2, <3>2, <3>3 DEF AcceptMark, StillActive
  <2> QED BY <1>2, <2>1, <2>3 DEF AcceptMark, world
<1> QED BY <1>1, <1>2

LEMMA InitRequestTyped ==
    ASSUME TypeOK, NEW r \in Slots,
           \/ \E b \in Bookings : InitReadBooking(r, b)
           \/ InitCheckPayment(r) \/ InitReadQuote(r) \/ InitSave(r)
    PROVE  TypeOK'
<1> USE DEF TypeOK, TablesOK, ProcessesOK
<1>0. req[r] \in Request /\ HandlerOK(req[r])
  OBVIOUS
<1>1. ASSUME NEW b \in Bookings, InitReadBooking(r, b) PROVE TypeOK'
  <2> DEFINE h == [Idle EXCEPT !.pc = "init.payment", !.booking = b, !.row = bookings[b]]
  <2>1. bookings[b] \in BookingRow
    OBVIOUS
  <2>2. h \in Request /\ HandlerOK(h)
    BY <2>1, RowsTyped DEF Idle, Request, QuotingSteps, Answers, HandlerOK
  <2>3. req' = [req EXCEPT ![r] = h]
    BY <1>1 DEF InitReadBooking
  <2>4. req' \in [Slots -> Request] /\ \A s \in Slots : HandlerOK(req'[s])
    BY <2>2, <2>3, StepTyped
  <2>5. started' = started + 1 /\ UNCHANGED <<tables, world, worker>>
    BY <1>1 DEF InitReadBooking
  <2> QED BY <2>4, <2>5 DEF tables, world
<1>2. CASE InitCheckPayment(r)
  BY <1>2, AnswerTyped, GotoTyped
     DEF InitCheckPayment, QuotingSteps, Answers, tables, world
<1>3. CASE InitReadQuote(r)
  <2>1. req' \in [Slots -> Request] /\ \A s \in Slots : HandlerOK(req'[s])
    <3>1. ASSUME NEW q \in QuoteIds,
                 req' = [req EXCEPT ![r].pc = "init.save", ![r].id = q, ![r].quote = quotes[q]]
          PROVE  req' \in [Slots -> Request] /\ \A s \in Slots : HandlerOK(req'[s])
      <4> DEFINE h == [req[r] EXCEPT !.pc = "init.save", !.id = q, !.quote = quotes[q]]
      <4>1. h \in Request /\ HandlerOK(h)
        BY <1>0, <1>3 DEF InitReadQuote, Request, QuotingSteps, HandlerOK
      <4>2. req' = [req EXCEPT ![r] = h]
        BY <3>1
      <4> QED BY <4>1, <4>2, StepTyped
    <3> QED BY <1>3, <3>1, AnswerTyped DEF InitReadQuote, Answers
  <2>2. UNCHANGED <<tables, world, started, worker>>
    BY <1>3 DEF InitReadQuote
  <2> QED BY <2>1, <2>2 DEF tables, world
<1>4. CASE InitSave(r)
  <2>1. req' \in [Slots -> Request] /\ \A s \in Slots : HandlerOK(req'[s])
    BY <1>4, AnswerTyped DEF InitSave, Answers
  <2>2. PaymentFrom(r) \in PaymentRow
    <3>1. req[r].quote.price \in Nat /\ req[r].quote.units \in Nat
      BY <1>0 DEF Request, QuoteRow
    <3>2. req[r].id \in QuoteIds \cup {NoQuote}
      BY <1>0 DEF Request
    <3> HIDE DEF TypeOK, TablesOK, ProcessesOK
    <3> QED BY <3>1, <3>2, CreatedTyped DEF PaymentFrom, PaymentRow
  <2>3. payments' \in [Bookings -> PaymentRow]
    BY <1>4, <2>2 DEF InitSave
  <2> QED BY <1>4, <2>1, <2>3 DEF InitSave, world
<1> QED BY <1>1, <1>2, <1>3, <1>4

\* A settlement keeps the tables typed, whatever booking and hash it is given.
LEMMA SettleTyped ==
    ASSUME TypeOK, NEW b, NEW t \in Hashes \cup {NoHash}, Settle(b, t), UNCHANGED quotes
    PROVE  TablesOK'
<1> USE DEF TypeOK, TablesOK
<1>1. payments' \in [Bookings -> PaymentRow]
  <2>1. ASSUME NEW c \in Bookings
        PROVE  [payments[c] EXCEPT !.status = "confirmed", !.tx = t] \in PaymentRow
    <3>1. payments[c] \in PaymentRow
      OBVIOUS
    <3> HIDE DEF TypeOK, TablesOK
    <3> QED BY <3>1 DEF PaymentRow
  <2>2. payments' = [payments EXCEPT ![b] =
                       [payments[b] EXCEPT !.status = "confirmed", !.tx = t]]
    BY DEF Settle
  <2> QED BY <2>1, <2>2
<1>2. bookings' \in [Bookings -> BookingRow]
  <2>1. b \in Bookings => BookAsPaid(b, t) \in BookingRow
    BY DEF BookAsPaid, BookingRow
  <2> QED BY <2>1 DEF Settle
<1>3. ledger' \in [Bookings -> [Hashes -> Nat]]
  <2>1. ASSUME NEW c \in Bookings PROVE ledger'[c] \in [Hashes -> Nat]
    <3>1. ledger[c] \in [Hashes -> Nat]
      OBVIOUS
    <3>2. ledger'[c] = IF c = b THEN [ledger[c] EXCEPT ![t] = @ + 1] ELSE ledger[c]
      BY DEF Settle
    <3> HIDE DEF TypeOK, TablesOK
    <3>3. [ledger[c] EXCEPT ![t] = @ + 1] \in [Hashes -> Nat]
      <4>1. t \in Hashes => ledger[c][t] + 1 \in Nat
        BY <3>1
      <4> QED BY <3>1, <4>1
    <3> QED BY <3>1, <3>2, <3>3
  <2>2. ledger' = [c \in Bookings |->
                     IF c = b THEN [ledger[c] EXCEPT ![t] = @ + 1] ELSE ledger[c]]
    BY DEF Settle
  <2> QED BY <2>1, <2>2
<1> QED BY <1>1, <1>2, <1>3

LEMMA ConfirmRequestTyped ==
    ASSUME TypeOK, NEW r \in Slots, ConfirmRequest(r)
    PROVE  TypeOK'
<1> USE DEF TypeOK, ProcessesOK
<1>0. req[r] \in Request /\ HandlerOK(req[r])
  OBVIOUS
<1>1. ASSUME NEW b \in Bookings, NEW t \in Hashes, ConfirmRead(r, b, t) PROVE TypeOK'
  <2> DEFINE guarding == [Idle EXCEPT !.pc = "confirm.guard", !.booking = b, !.tx = t,
                                      !.pay = payments[b]]
             told(a) == [Idle EXCEPT !.booking = b, !.tx = t, !.answer = a]
  <2>1. payments[b] \in PaymentRow
    BY DEF TablesOK
  <2>2. guarding \in Request /\ HandlerOK(guarding)
    BY <2>1, RowsTyped DEF Idle, Request, ConfirmSteps, Answers, HandlerOK
  <2>3. ASSUME NEW a \in Answers PROVE told(a) \in Request /\ HandlerOK(told(a))
    BY RowsTyped DEF Idle, Request, HandlerOK
  <2>4. \/ req' = [req EXCEPT ![r] = guarding]
        \/ req' = [req EXCEPT ![r] = told("paid")]
        \/ req' = [req EXCEPT ![r] = told("refused")]
    BY <1>1 DEF ConfirmRead
  <2>5. told("paid") \in Request /\ HandlerOK(told("paid"))
    BY <2>3 DEF Answers
  <2>6. told("refused") \in Request /\ HandlerOK(told("refused"))
    BY <2>3 DEF Answers
  <2> HIDE DEF guarding, told
  <2>7. req' \in [Slots -> Request] /\ \A s \in Slots : HandlerOK(req'[s])
    BY <2>2, <2>4, <2>5, <2>6, StepTyped
  <2>8. started' = started + 1 /\ UNCHANGED <<tables, world, worker>>
    BY <1>1 DEF ConfirmRead
  <2> QED BY <2>7, <2>8 DEF tables, world, TablesOK
<1>2. CASE ConfirmGuard(r)
  BY <1>2, AnswerTyped, GotoTyped
     DEF ConfirmGuard, ConfirmSteps, Answers, tables, world, TablesOK
<1>3. CASE ConfirmVerify(r)
  <2>1. PICK v \in Verdicts(req[r].tx, req[r].pay.units) :
           req' = [req EXCEPT
                     ![r].pc = IF v = "pays" THEN "confirm.settle" ELSE "confirm.record",
                     ![r].answer = CASE v = "pays" -> "paid"
                                     [] v = "unobserved" -> "not yet"
                                     [] v = "observed" -> "never"]
    BY <1>3 DEF ConfirmVerify
  <2>2. v \in {"pays", "unobserved", "observed"}
    BY DEF Verdicts
  <2>3. PICK h : /\ req' = [req EXCEPT ![r] = h]
                 /\ \E step \in {"confirm.settle", "confirm.record"}, a \in Answers :
                      h = [req[r] EXCEPT !.pc = step, !.answer = a]
    BY <1>0, <2>1, <2>2 DEF Answers
  <2>4. h \in Request /\ HandlerOK(h)
    BY <1>0, <1>3, <2>3 DEF ConfirmVerify, Request, ConfirmSteps, HandlerOK
  <2>5. UNCHANGED <<tables, world, started, worker>>
    BY <1>3 DEF ConfirmVerify
  <2>6. req' \in [Slots -> Request] /\ \A s \in Slots : HandlerOK(req'[s])
    BY <2>3, <2>4, StepTyped
  <2> QED BY <2>5, <2>6 DEF tables, world, TablesOK
<1>4. CASE ConfirmRecord(r)
  <2>1. req[r].answer \in Answers /\ req[r].pay \in PaymentRow
           /\ req[r].tx \in Hashes \cup {NoHash} /\ "failed" \in Answers
    BY <1>0 DEF Request, Answers
  <2>2. req' \in [Slots -> Request] /\ \A s \in Slots : HandlerOK(req'[s])
    BY <1>4, <2>1, AnswerTyped DEF ConfirmRecord
  <2>3. req[r].booking \in Bookings => Recorded(r) \in PaymentRow
    BY <2>1 DEF Recorded, PaymentRow, TablesOK
  <2>4. payments' \in [Bookings -> PaymentRow]
    BY <1>4, <2>3 DEF ConfirmRecord, TablesOK
  <2> QED BY <1>4, <2>2, <2>4 DEF ConfirmRecord, world, TablesOK
<1>5. CASE ConfirmSettle(r)
  <2>1. req[r].tx \in Hashes \cup {NoHash}
    BY <1>0 DEF Request
  <2>2. TablesOK'
    <3>1. CASE Settle(req[r].booking, req[r].tx)
      BY <1>5, <2>1, <3>1, SettleTyped DEF ConfirmSettle
    <3>2. CASE UNCHANGED <<payments, bookings, ledger>>
      BY <1>5, <3>2 DEF ConfirmSettle, TablesOK
    <3> QED BY <1>5, <3>1, <3>2 DEF ConfirmSettle
  <2>3. req' \in [Slots -> Request] /\ \A s \in Slots : HandlerOK(req'[s])
    BY <1>5, AnswerTyped DEF ConfirmSettle, Answers
  <2> QED BY <1>5, <2>2, <2>3 DEF ConfirmSettle, world
<1> QED BY <1>1, <1>2, <1>3, <1>4, <1>5 DEF ConfirmRequest

LEMMA ReconciliationTyped ==
    ASSUME TypeOK, Reconciliation
    PROVE  TypeOK'
<1> USE DEF TypeOK, ProcessesOK
<1>0. /\ worker.pc \in {"asleep", "load", "verify", "settle"}
      /\ worker.batch \in [Bookings -> PaymentRow]
      /\ worker.at \in Bookings \cup {NoBooking}
  BY DEF Worker
<1>a. ASSUME NEW batch \in [Bookings -> PaymentRow] PROVE Remaining(batch) \in Worker
  BY DEF Remaining, Worker
<1>b. ASSUME NEW b PROVE Without(b) \in [Bookings -> PaymentRow]
  BY <1>0, RowsTyped DEF Without
<1>1. CASE WorkerSweep
  <2>1. \A q \in QuoteIds : /\ Expired(q) \in QuoteRow
                            /\ Expired(q).status # "none" => Expired(q).booking \in Bookings
    BY DEF Expired, QuoteRow, TablesOK
  <2>2. /\ quotes' \in [QuoteIds -> QuoteRow]
        /\ \A q \in QuoteIds : quotes'[q].status # "none" => quotes'[q].booking \in Bookings
    BY <1>1, <2>1 DEF WorkerSweep, TablesOK
  <2>3. worker' \in Worker
    BY <1>1 DEF WorkerSweep, Worker
  <2> QED BY <1>1, <2>2, <2>3 DEF WorkerSweep, world, TablesOK
<1>2. CASE WorkerLoad
  <2>1. \A S : [b \in Bookings |-> IF b \in S THEN payments[b] ELSE NoPaymentRow]
                  \in [Bookings -> PaymentRow]
    BY RowsTyped DEF TablesOK
  <2>2. worker' \in Worker
    BY <1>2, <1>a, <2>1 DEF WorkerLoad
  <2> QED BY <1>2, <2>2 DEF WorkerLoad, tables, world, TablesOK
<1>3. ASSUME NEW b \in Bookings, WorkerDefers(b) PROVE TypeOK'
  BY <1>3, <1>a, <1>b DEF WorkerDefers, tables, world, TablesOK
<1>4. ASSUME NEW b \in Bookings, WorkerFinds(b) PROVE TypeOK'
  BY <1>4 DEF WorkerFinds, Worker, tables, world, TablesOK
<1>5. CASE WorkerSettles
  <2>1. worker' \in Worker
    BY <1>5, <1>a, <1>b DEF WorkerSettles
  <2>2. TablesOK'
    <3>1. CASE Settle(worker.at, worker.batch[worker.at].tx) /\ worker.at \in Bookings
      <4>1. worker.batch[worker.at].tx \in Hashes \cup {NoHash}
        BY <1>0, <3>1 DEF PaymentRow
      <4> QED BY <1>5, <3>1, <4>1, SettleTyped DEF WorkerSettles
    <3>2. CASE Settle(worker.at, worker.batch[worker.at].tx) /\ worker.at \notin Bookings
      BY <1>5, <3>2 DEF WorkerSettles, Settle, TablesOK
    <3>3. CASE UNCHANGED <<payments, bookings, ledger>>
      BY <1>5, <3>3 DEF WorkerSettles, TablesOK
    <3> QED BY <1>5, <3>1, <3>2, <3>3 DEF WorkerSettles
  <2> QED BY <1>5, <2>1, <2>2 DEF WorkerSettles, world
<1>6. CASE WorkerAborts
  BY <1>6, RowsTyped DEF WorkerAborts, tables, world, TablesOK
<1> QED BY <1>1, <1>2, <1>3, <1>4, <1>5, <1>6 DEF Reconciliation

LEMMA WorldTyped ==
    ASSUME TypeOK, Market \/ Chains
    PROVE  TypeOK'
<1> USE DEF TypeOK, ProcessesOK, TablesOK
<1>1. CASE Tick
  BY <1>1 DEF Tick, tables
<1>2. ASSUME NEW b \in Bookings, CatalogMoves(b) PROVE TypeOK'
  BY <1>2 DEF CatalogMoves, tables
<1>3. ASSUME NEW b \in Bookings, CreateBooking(b) PROVE TypeOK'
  <2>1. [status |-> "pending", price |-> catalog[b], tx |-> NoHash] \in BookingRow
    BY FiguresAssumption DEF BookingRow
  <2>2. bookings' \in [Bookings -> BookingRow]
    BY <1>3, <2>1 DEF CreateBooking
  <2> QED BY <1>3, <2>2 DEF CreateBooking, world
<1>4. ASSUME NEW x \in Transfers, ChainMoves(x) PROVE TypeOK'
  BY <1>4 DEF ChainMoves, tables
<1> QED BY <1>1, <1>2, <1>3, <1>4 DEF Market, Chains

LEMMA AbortTyped ==
    ASSUME TypeOK, NEW r \in Slots, Abort(r)
    PROVE  TypeOK'
BY AnswerTyped DEF Abort, Answers, TypeOK, ProcessesOK, TablesOK, tables, world

LEMMA NextTyped ==
    ASSUME TypeOK, [Next]_vars
    PROVE  TypeOK'
<1>1. ASSUME NEW r \in Slots, QuotingRequest(r) PROVE TypeOK'
  BY <1>1, QuoteRequestTyped, AcceptRequestTyped, InitRequestTyped DEF QuotingRequest
<1>2. CASE UNCHANGED vars
  BY <1>2 DEF vars, TypeOK, ProcessesOK, TablesOK
<1> QED
  BY <1>1, <1>2, ConfirmRequestTyped, ReconciliationTyped, WorldTyped, AbortTyped DEF Next

\* Every column, local and program counter keeps its type, whichever handlers
\* and worker cycles overlap.
THEOREM Typed == Spec => []TypeOK
<1>1. Init => TypeOK
  BY InitTyped
<1>2. TypeOK /\ [Next]_vars => TypeOK'
  BY NextTyped
<1> QED BY <1>1, <1>2, PTL DEF Spec
=============================================================================
