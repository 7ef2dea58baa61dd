----------------------------- MODULE MCCheckout -----------------------------
(* Small instances of Checkout: hashes are strings over integer transfers.   *)
EXTENDS Checkout, TLC

\* Each of two hash strings names a transfer of its own.
OneToOne == [t \in {"h1", "h2"} |-> IF t = "h1" THEN 1 ELSE 2]

\* Two spellings of the hash of one transfer.
OneTransfer == [t \in {"h1", "h2"} |-> 1]

\* Transfer 1 pays two units, transfer 2 only one.
Amounts == [x \in {1, 2} |-> IF x = 1 THEN 2 ELSE 1]
BothPay == [x \in {1, 2} |-> 2]

OneHash == [t \in {"h1"} |-> 1]
OneAmount == [x \in {1} |-> 2]

Symmetry == Permutations(Slots) \cup Permutations(QuoteIds)

\* For the runs with one slot.
QuoteSymmetry == Permutations(Bookings) \cup Permutations(QuoteIds)
=============================================================================
