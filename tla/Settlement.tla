----------------------------- MODULE Settlement -----------------------------
(***************************************************************************)
(* ConfirmPayment, the settlement transaction and the reconciliation       *)
(* worker: how a submitted transaction hash turns a pending payment into a *)
(* settled booking.                                                        *)
(***************************************************************************)
EXTENDS CheckoutState

FaultyVerdicts(t, units) ==
    IF chain[TransferOf[t]] = "final" /\ TransferOf[t] \in ToPlatform
    THEN {"pays"} ELSE {"unobserved"}

\* verify_transaction of the chain's gateway; a provider error is an Abort.
Verdicts(t, units) == Outcomes(TransferOf[t], units)

----------------------------------------------------------------------------
(* PgSettlementRepository::confirm_payment: one transaction, the payment and *)
(* booking rows locked from its first statement on.                          *)

FaultyBookAsPaid(b, t) == bookings[b]

\* UPDATE bookings .. WHERE id = $2 AND status = 'pending': a booking that is
\* already confirmed keeps its first hash.
BookAsPaid(b, t) ==
    IF bookings[b].status = "pending"
    THEN [bookings[b] EXCEPT !.status = "confirmed", !.tx = t]
    ELSE bookings[b]

FaultyCanSettle(b, t) == payments[b].status = "pending"

CanSettle(b, t) == payments[b].status = "pending" /\ ~HashTaken(b, t)

FaultySettle(b, t) ==
    /\ payments' = [payments EXCEPT ![b].tx = t]
    /\ bookings' = [bookings EXCEPT ![b] = BookAsPaid(b, t)]
    /\ ledger' = [ledger EXCEPT ![b][t] = @ + 1]

Settle(b, t) ==
    /\ payments' = [payments EXCEPT ![b].status = "confirmed", ![b].tx = t]
    /\ bookings' = [bookings EXCEPT ![b] = BookAsPaid(b, t)]
    /\ ledger' = [ledger EXCEPT ![b][t] = @ + 1]

----------------------------------------------------------------------------
(* ConfirmPayment *)

FaultyConfirmRead(r, b, t) ==
    /\ MayBegin(r) /\ PaymentInserted(b)
    /\ req' = [req EXCEPT ![r] =
                 [Idle EXCEPT !.pc = "confirm.guard", !.booking = b, !.tx = t,
                              !.pay = payments[b]]]
    /\ started' = started + 1
    /\ UNCHANGED <<tables, world, worker>>

ConfirmRead(r, b, t) ==
    /\ MayBegin(r)
    /\ req' = [req EXCEPT ![r] =
                 CASE payments[b].status = "pending" ->
                        [Idle EXCEPT !.pc = "confirm.guard", !.booking = b, !.tx = t,
                                     !.pay = payments[b]]
                   [] payments[b].status = "confirmed" ->
                        [Idle EXCEPT !.booking = b, !.tx = t, !.answer = "paid"]
                   [] OTHER ->
                        [Idle EXCEPT !.booking = b, !.tx = t, !.answer = "refused"]]
    /\ started' = started + 1
    /\ UNCHANGED <<tables, world, worker>>

\* find_by_tx_hash: the hash must not belong to another booking's payment.
ConfirmGuard(r) ==
    /\ req[r].pc = "confirm.guard"
    /\ \/ ~HashTaken(req[r].booking, req[r].tx) /\ Goto(r, "confirm.verify")
       \/ HashTaken(req[r].booking, req[r].tx) /\ Answer(r, "refused")
    /\ UNCHANGED <<tables, world, started, worker>>

\* The answer the handler will give is decided with the verdict: "not yet" when
\* nothing was observed, "never" when the recipient or the amount is wrong.
ConfirmVerify(r) ==
    /\ req[r].pc = "confirm.verify"
    /\ \E v \in Verdicts(req[r].tx, req[r].pay.units) :
         req' = [req EXCEPT
                   ![r].pc = IF v = "pays" THEN "confirm.settle" ELSE "confirm.record",
                   ![r].answer = CASE v = "pays" -> "paid"
                                   [] v = "unobserved" -> "not yet"
                                   [] v = "observed" -> "never"]
    /\ UNCHANGED <<tables, world, started, worker>>

FaultyRecorded(r) ==
    [payments[req[r].booking] EXCEPT !.tx = req[r].tx, !.status = "confirmed"]

\* payment_repo.update(&pending): the status as read, the submitted hash.
Recorded(r) ==
    [payments[req[r].booking] EXCEPT !.status = req[r].pay.status, !.tx = req[r].tx]

\* idx_payments_tx_hash_unique turns a taken hash into a database error.
ConfirmRecord(r) ==
    LET b == req[r].booking IN
    /\ req[r].pc = "confirm.record"
    /\ \/ /\ ~HashTaken(b, req[r].tx)
          /\ payments' = [payments EXCEPT ![b] = Recorded(r)]
          /\ Answer(r, req[r].answer)
       \/ /\ HashTaken(b, req[r].tx)
          /\ Answer(r, "failed")
          /\ UNCHANGED payments
    /\ UNCHANGED <<bookings, quotes, ledger, world, started, worker>>

ConfirmSettle(r) ==
    LET b == req[r].booking
        t == req[r].tx
    IN
    /\ req[r].pc = "confirm.settle"
    /\ \/ CanSettle(b, t) /\ Settle(b, t) /\ Answer(r, "paid")
       \/ /\ ~CanSettle(b, t)
          /\ Answer(r, IF payments[b].status = "confirmed" THEN "paid" ELSE "refused")
          /\ UNCHANGED <<payments, bookings, ledger>>
    /\ UNCHANGED <<quotes, world, started, worker>>

----------------------------------------------------------------------------
(* PaymentReconciliationWorker::run_once *)

\* UPDATE .. SET status = 'expired' WHERE status = 'active' AND expires_at <= NOW()
Expired(q) ==
    IF quotes[q].status = "active" /\ quotes[q].expires <= now
    THEN [quotes[q] EXCEPT !.status = "expired"] ELSE quotes[q]

\* The cycle starts with the expiry sweep; a sweep that fails is only logged.
WorkerSweep ==
    /\ worker.pc = "asleep"
    /\ Exclusive => InFlight = {}
    /\ \/ quotes' = [q \in QuoteIds |-> Expired(q)]
       \/ UNCHANGED quotes
    /\ worker' = [worker EXCEPT !.pc = "load"]
    /\ UNCHANGED <<bookings, payments, ledger, world, req, started>>

Candidates == {b \in Bookings : payments[b].status = "pending" /\ payments[b].tx # NoHash}

FaultyOldest(n, S) ==
    {b \in S : Cardinality({c \in S : payments[c].created < payments[b].created}) < n - 1}

\* ORDER BY created_at ASC LIMIT n
Oldest(n, S) ==
    {b \in S : Cardinality({c \in S : payments[c].created < payments[b].created}) < n}

\* The batch goes on with what is left of it.
Remaining(batch) ==
    [pc |-> IF \E b \in Bookings : batch[b] # NoPaymentRow THEN "verify" ELSE "asleep",
     batch |-> batch, at |-> NoBooking]

Without(b) == [worker.batch EXCEPT ![b] = NoPaymentRow]

\* find_pending_with_tx: the rows as they are now, for the whole cycle.
WorkerLoad ==
    /\ worker.pc = "load"
    /\ LET due == Oldest(BatchLimit, Candidates) IN
       worker' = Remaining([b \in Bookings |->
                              IF b \in due THEN payments[b] ELSE NoPaymentRow])
    /\ UNCHANGED <<tables, world, req, started>>

WorkerDefers(b) ==
    /\ worker.pc = "verify" /\ worker.batch[b] # NoPaymentRow
    /\ worker' = Remaining(Without(b))
    /\ UNCHANGED <<tables, world, req, started>>

WorkerFinds(b) ==
    /\ worker.pc = "verify" /\ worker.batch[b] # NoPaymentRow
    /\ "pays" \in Verdicts(worker.batch[b].tx, worker.batch[b].units)
    /\ worker' = [worker EXCEPT !.pc = "settle", !.at = b]
    /\ UNCHANGED <<tables, world, req, started>>

WorkerSettles ==
    LET b == worker.at
        t == worker.batch[b].tx
    IN
    /\ worker.pc = "settle"
    /\ \/ CanSettle(b, t) /\ Settle(b, t)
       \/ ~CanSettle(b, t) /\ UNCHANGED <<payments, bookings, ledger>>
    /\ worker' = Remaining(Without(b))
    /\ UNCHANGED <<quotes, world, req, started>>

\* A database error, or the process restarting: the cycle is over.
WorkerAborts ==
    /\ worker.pc # "asleep"
    /\ worker' = Asleep
    /\ UNCHANGED <<tables, world, req, started>>
=============================================================================
