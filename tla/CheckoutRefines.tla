--------------------------- MODULE CheckoutRefines ---------------------------
(***************************************************************************)
(* The checkout implements Promise: every step of a handler, the worker or *)
(* the world is one step of the promise, or none.                          *)
(***************************************************************************)
EXTENDS CheckoutProofs

\* What a transfer can become, and what a gateway may say of it.
USE DEF Fates, ChainInit, Decided, Outcomes

\* No step touches more than one of the quotes, the payments and the chain.
LEMMA OneTableAtATime ==
    ASSUME IndInv, [Next]_vars
    PROVE  \/ QuotesStep /\ UNCHANGED <<payments, ledger, chain>>
           \/ PaymentsStep /\ UNCHANGED <<quotes, chain>>
           \/ UNCHANGED <<quotes, payments, ledger>> /\ \E x \in Transfers : ChainMoves(x)
<1>1. QuotesStep /\ PaymentsStep
  BY QuotesFootprint, PaymentsFootprint
<1>2. CASE Market \/ Chains \/ UNCHANGED vars
  BY <1>1, <1>2 DEF Market, Tick, CatalogMoves, CreateBooking, Chains, ChainMoves, tables,
     world, vars
<1>3. CASE Reconciliation
  BY <1>1, <1>3 DEF Reconciliation, WorkerSweep, WorkerLoad, WorkerDefers, WorkerFinds,
     WorkerSettles, WorkerAborts, tables, world
<1>4. ASSUME NEW r \in Slots, QuotingRequest(r)
      PROVE  \/ UNCHANGED <<payments, ledger, chain>>
             \/ UNCHANGED <<quotes, chain>>
  BY <1>4 DEF QuotingRequest, QuoteReadBooking, InitReadBooking, AcceptRead,
     QuoteCheckPayment, QuoteCheckAccepted, QuoteReadCatalog, QuoteWriteBack, QuoteConvert,
     QuoteIssue, AcceptMark, InitCheckPayment, InitReadQuote, InitSave, tables, world
<1>5. ASSUME NEW r \in Slots, ConfirmRequest(r) \/ Abort(r)
      PROVE  UNCHANGED <<quotes, chain>>
  BY <1>5 DEF ConfirmRequest, ConfirmRead, ConfirmGuard, ConfirmVerify, ConfirmRecord,
     ConfirmSettle, Abort, tables, world
<1> QED BY <1>1, <1>2, <1>3, <1>4, <1>5 DEF Next

----------------------------------------------------------------------------
(* The quotes: a lock is put where none was. *)

LEMMA LocksStay ==
    ASSUME IndInv, QuotesStep,
           \A r \in Slots : ~AcceptMark(r)
    PROVE  Locked' = Locked
<1>0. quotes \in [QuoteIds -> QuoteRow]
  BY DEF IndInv, TypeOK, TablesOK
<1>1. ASSUME NEW q \in QuoteIds, quotes'[q].status = "accepted" PROVE quotes'[q] = quotes[q]
  <2>1. CASE WorkerSweep
    BY <1>0, <1>1, <2>1 DEF WorkerSweep, Expired, QuoteRow
  <2>2. ASSUME NEW r \in Slots, QuoteIssue(r) PROVE quotes'[q] = quotes[q]
    <3>1. req[r].quote.status = "active"
      BY <2>2 DEF QuoteIssue, IndInv, ReadsStand, HandlerKnows
    <3> QED BY <1>0, <1>1, <2>2, <3>1 DEF QuoteIssue, Supersede, QuoteRow
  <2> QED BY <2>1, <2>2 DEF QuotesStep
<1>2. \A q \in QuoteIds : quotes[q].status = "accepted" => quotes'[q] = quotes[q]
  BY QuotesKept DEF QuoteKept
<1>3. \A b \in Bookings : AcceptedQuotes(b)' = AcceptedQuotes(b)
  BY <1>1, <1>2 DEF AcceptedQuotes
<1>4. \A b \in Bookings : \A q \in AcceptedQuotes(b) : Figures(quotes'[q]) = Figures(quotes[q])
  BY <1>2 DEF AcceptedQuotes
<1>5. \A b \in Bookings : {Figures(quotes'[q]) : q \in AcceptedQuotes(b)'}
                            = {Figures(quotes[q]) : q \in AcceptedQuotes(b)}
  BY <1>3, <1>4
<1> QED BY <1>5 DEF Locked

LEMMA AcceptingLocks ==
    ASSUME IndInv, NEW r \in Slots, AcceptMark(r), quotes' # quotes
    PROVE  \E b \in Bookings, f \in Prices \X Units :
              Locked[b] = {} /\ Locked' = [Locked EXCEPT ![b] = {f}]
<1>1. PICK b \in Bookings, q \in QuoteIds :
        /\ quotes[q].booking = b /\ quotes[q].status # "none"
        /\ AcceptedQuotes(b) = {}
        /\ quotes' = [quotes EXCEPT ![q].status = "accepted",
                                    ![q].accepted = req[r].quote.accepted]
  <2>1. HandlerKnows(req[r]) /\ req[r].pc = "accept.mark" /\ req[r].booking \in Bookings
    BY DEF AcceptMark, IndInv, ReadsStand, TypeOK, ProcessesOK, HandlerOK
  <2>2. /\ req[r].id \in QuoteIds /\ quotes[req[r].id].booking = req[r].booking
        /\ quotes[req[r].id].status # "none"
    BY <2>1 DEF HandlerKnows
  <2> QED BY <2>1, <2>2 DEF AcceptMark
<1>2. PICK f \in Prices \X Units : f = Figures(quotes[q])
  BY <1>1 DEF IndInv
<1>0. quotes \in [QuoteIds -> QuoteRow]
  BY DEF IndInv, TypeOK, TablesOK
<1>3. /\ quotes'[q].status = "accepted" /\ quotes'[q].booking = b
      /\ Figures(quotes'[q]) = f
      /\ \A p \in QuoteIds \ {q} : quotes'[p] = quotes[p]
  BY <1>0, <1>1, <1>2 DEF QuoteRow, Figures
<1>4. AcceptedQuotes(b)' = {q}
  BY <1>1, <1>3 DEF AcceptedQuotes
<1>5. \A c \in Bookings \ {b} :
         {Figures(quotes'[p]) : p \in AcceptedQuotes(c)'}
            = {Figures(quotes[p]) : p \in AcceptedQuotes(c)}
  <2> SUFFICES ASSUME NEW c \in Bookings \ {b}
               PROVE  {Figures(quotes'[p]) : p \in AcceptedQuotes(c)'}
                         = {Figures(quotes[p]) : p \in AcceptedQuotes(c)}
    OBVIOUS
  <2>1. AcceptedQuotes(c)' = AcceptedQuotes(c) /\ q \notin AcceptedQuotes(c)
    BY <1>1, <1>3 DEF AcceptedQuotes
  <2>2. \A p \in AcceptedQuotes(c) : quotes'[p] = quotes[p]
    BY <1>3, <2>1 DEF AcceptedQuotes
  <2> QED BY <2>1, <2>2
<1>6. {Figures(quotes'[p]) : p \in AcceptedQuotes(b)'} = {f}
  BY <1>3, <1>4
<1>7. Locked[b] = {} /\ Locked' = [Locked EXCEPT ![b] = {f}]
  BY <1>1, <1>5, <1>6 DEF Locked
<1> QED BY <1>7

----------------------------------------------------------------------------
(* The payments: a debt is what was locked. *)

LEMMA DebtsStay ==
    ASSUME IndInv, PaymentsStep, \A r \in Slots : ~InitSave(r)
    PROVE  Due' = Due
<1>0. payments \in [Bookings -> PaymentRow]
  BY DEF IndInv, TypeOK, TablesOK
<1>1. ASSUME NEW b \in Bookings, ~PaymentInserted(b) PROVE ~PaymentInserted(b)'
  <2>1. CASE SettleStep
    BY <1>0, <1>1, <2>1 DEF SettleStep, Settle, CanSettle, PaymentInserted
  <2>2. ASSUME NEW r \in Slots, ConfirmRecord(r) PROVE ~PaymentInserted(b)'
    <3>1. PaymentInserted(req[r].booking)
      BY <2>2 DEF ConfirmRecord, IndInv, ReadsStand, HandlerKnows, ConfirmSteps
    <3> QED BY <1>0, <1>1, <2>2, <3>1 DEF ConfirmRecord, PaymentInserted
  <2> QED BY <1>1, <2>1, <2>2 DEF PaymentsStep, PaymentInserted
<1>2. \A b \in Bookings : PaymentInserted(b) =>
          PaymentInserted(b)' /\ Figures(payments'[b]) = Figures(payments[b])
  BY PaymentsKept DEF PaymentKept, PaymentInserted
<1> QED BY <1>1, <1>2 DEF Due

LEMMA InitSaveOwes ==
    ASSUME IndInv, NEW r \in Slots, InitSave(r), payments' # payments
    PROVE  \E b \in Bookings :
              /\ Due[b] = {} /\ Locked[b] # {}
              /\ Due' = [Due EXCEPT ![b] = Locked[b]]
<1>0. payments \in [Bookings -> PaymentRow]
  BY DEF IndInv, TypeOK, TablesOK
<1>1. PICK b \in Bookings, q \in QuoteIds :
        /\ q \in AcceptedQuotes(b)
        /\ req[r].id = q /\ req[r].quote = quotes[q]
        /\ ~PaymentInserted(b)
        /\ payments' = [payments EXCEPT ![b] = PaymentFrom(r)]
  <2>1. HandlerKnows(req[r]) /\ req[r].pc = "init.save" /\ req[r].booking \in Bookings
    BY DEF InitSave, IndInv, ReadsStand, TypeOK, ProcessesOK, HandlerOK
  <2>2. /\ req[r].id \in AcceptedQuotes(req[r].booking) /\ req[r].id \in QuoteIds
        /\ req[r].quote = quotes[req[r].id]
    BY <2>1 DEF HandlerKnows, AcceptedQuotes
  <2> QED BY <2>1, <2>2 DEF InitSave
<1>2. AcceptedQuotes(b) = {q}
  BY <1>1 DEF AcceptedQuotes, IndInv, OneOfferOneLock
<1>3. Locked[b] = {Figures(quotes[q])}
  BY <1>2 DEF Locked
<1>4. /\ payments'[b].status = "pending" /\ Figures(payments'[b]) = Figures(quotes[q])
      /\ \A c \in Bookings \ {b} : payments'[c] = payments[c]
  BY <1>0, <1>1 DEF PaymentFrom, Figures
<1>5. Due[b] = {} /\ Due' = [Due EXCEPT ![b] = Locked[b]]
  BY <1>1, <1>3, <1>4 DEF Due, PaymentInserted
<1> QED BY <1>3, <1>5

LEMMA SettlingReceives ==
    ASSUME IndInv, NEW b \in Bookings, NEW t \in Hashes,
           CanSettle(b, t), Settle(b, t), Pays(t, payments[b].units)
    PROVE  /\ TransferOf[t] \in Final \cap ToPlatform
           /\ \E f \in Due[b] : Amount[TransferOf[t]] >= f[2]
           /\ Receipts' = [Receipts EXCEPT ![b] = @ \cup {t}]
<1>0. ledger \in [Bookings -> [Hashes -> Nat]]
  BY DEF IndInv, TypeOK, TablesOK
<1>1. /\ PaymentInserted(b) /\ Pays(t, payments[b].units)
      /\ ledger' = [ledger EXCEPT ![b][t] = @ + 1]
  BY DEF Settle, CanSettle, PaymentInserted
<1>2. TransferOf[t] \in Final \cap ToPlatform
  BY <1>1, FiguresAssumption DEF Pays, Final
<1>3. Figures(payments[b]) \in Due[b] /\ Amount[TransferOf[t]] >= Figures(payments[b])[2]
  BY <1>1 DEF Pays, Due, Figures
<1>4. \A c \in Bookings, h \in Hashes :
         ledger'[c][h] = IF c = b /\ h = t THEN ledger[c][h] + 1 ELSE ledger[c][h]
  BY <1>0, <1>1
<1>5. \A c \in Bookings, h \in Hashes : ledger[c][h] \in Nat
  BY <1>0
<1>6. \A c \in Bookings, h \in Hashes : ledger'[c][h] > 0 <=> ledger[c][h] > 0 \/ (c = b /\ h = t)
  BY <1>4, <1>5
<1>7. Receipts' = [Receipts EXCEPT ![b] = @ \cup {t}]
  BY <1>6 DEF Receipts, Booked
<1> QED BY <1>2, <1>3, <1>7

LEMMA ReceiptsStay ==
    ASSUME UNCHANGED ledger
    PROVE  Receipts' = Receipts
BY DEF Receipts, Booked

----------------------------------------------------------------------------
(* The refinement *)

LEMMA PromiseInit == Init => P!Init
<1> SUFFICES ASSUME Init PROVE P!Init
  OBVIOUS
<1>1. \A q \in QuoteIds : quotes[q].status = "none"
  BY DEF Init, NoQuoteRow
<1>2. Locked = [b \in Bookings |-> {}]
  BY <1>1 DEF Locked, AcceptedQuotes
<1>3. Due = [b \in Bookings |-> {}]
  BY DEF Init, NoPaymentRow, Due, PaymentInserted
<1>4. Receipts = [b \in Bookings |-> {}]
  BY DEF Init, Receipts, Booked
<1>5. Final = {}
  BY DEF Init, Final
<1> QED BY <1>2, <1>3, <1>4, <1>5 DEF P!Init

LEMMA PromiseStep ==
    ASSUME IndInv, [Next]_vars
    PROVE  [P!Next]_(P!promises)
<1>1. CASE QuotesStep /\ UNCHANGED <<payments, ledger, chain>>
  <2>1. Due' = Due /\ Receipts' = Receipts /\ Final' = Final
    BY <1>1, ReceiptsStay DEF Due, PaymentInserted, Final
  <2>2. CASE Locked' = Locked
    BY <2>1, <2>2 DEF P!promises
  <2>3. CASE Locked' # Locked
    <3>1. PICK r \in Slots : AcceptMark(r)
      BY <1>1, <2>3, LocksStay
    <3>2. quotes' # quotes
      BY <2>3 DEF Locked, AcceptedQuotes
    <3>3. \E b \in Bookings : P!Lock(b)
      BY <2>1, <3>1, <3>2, AcceptingLocks DEF P!Lock
    <3> QED BY <3>3 DEF P!Next, P!Owing
  <2> QED BY <2>2, <2>3
<1>2. CASE PaymentsStep /\ UNCHANGED <<quotes, chain>>
  <2>1. Locked' = Locked /\ Final' = Final
    BY <1>2 DEF Locked, AcceptedQuotes, Final
  <2>2. CASE Due' = Due /\ SettleStep
    <3>1. PICK b \in Bookings, t \in Hashes :
            CanSettle(b, t) /\ Settle(b, t) /\ Pays(t, payments[b].units)
      BY <2>2 DEF SettleStep
    <3>2. P!Receive(b, t)
      BY <2>1, <2>2, <3>1, SettlingReceives DEF P!Receive
    <3> QED BY <3>2 DEF P!Next
  <2>3. CASE Due' = Due /\ ~SettleStep
    <3>1. Receipts' = Receipts
      BY <1>2, <2>3, ReceiptsStay DEF PaymentsStep
    <3> QED BY <2>1, <2>3, <3>1 DEF P!promises
  <2>4. CASE Due' # Due
    <3>1. PICK r \in Slots : InitSave(r)
      BY <1>2, <2>4, DebtsStay
    <3>2. payments' # payments
      BY <2>4 DEF Due, PaymentInserted
    <3>3. Receipts' = Receipts
      BY <3>1, ReceiptsStay DEF InitSave
    <3>4. \E b \in Bookings : P!Owe(b)
      BY <2>1, <3>1, <3>2, <3>3, InitSaveOwes DEF P!Owe
    <3> QED BY <3>4 DEF P!Next, P!Owing
  <2> QED BY <2>2, <2>3, <2>4
<1>3. ASSUME UNCHANGED <<quotes, payments, ledger>>, NEW x \in Transfers, ChainMoves(x)
      PROVE  [P!Next]_(P!promises)
  <2>1. Locked' = Locked /\ Due' = Due /\ Receipts' = Receipts
    BY <1>3, ReceiptsStay DEF Locked, AcceptedQuotes, Due, PaymentInserted
  <2>2. chain \in [Transfers -> {"unseen", "final", "reverted"}]
    BY DEF IndInv, TypeOK
  <2>3. x \notin Final /\ (Final' = Final \cup {x} \/ Final' = Final)
    BY <1>3, <2>2 DEF ChainMoves, Final
  <2>4. CASE Final' = Final
    BY <2>1, <2>4 DEF P!promises
  <2>5. CASE Final' = Final \cup {x}
    BY <2>1, <2>3, <2>5 DEF P!Finalise, P!Owing, P!Next
  <2> QED BY <2>3, <2>4, <2>5
<1> QED BY <1>1, <1>2, <1>3, OneTableAtATime

\* The checkout implements the promise: whatever overlaps or fails half way, a
\* lock is never withdrawn, a debt is the lock, and a receipt is a final transfer
\* of what is due.
THEOREM Refinement == Spec => KeepsPromise
<1>1. IndInv /\ [Next]_vars => [P!Next]_(P!promises)
  BY PromiseStep
<1> QED BY <1>1, PromiseInit, Invariant, PTL DEF Spec, KeepsPromise, P!Spec
=============================================================================
