------------------------------- MODULE Custody -------------------------------
(* What an escrow contract promises about one order, whatever chain it runs  *)
(* on: a deposit is made once, on terms that never change afterwards; it     *)
(* then leaves the contract once, in one step, either released to the payee  *)
(* and the treasury those terms name or returned to the buyer; and nothing   *)
(* else is ever paid on behalf of that order.  EvmEscrow and SolanaEscrow    *)
(* are shown to implement it.                                                *)
EXTENDS Naturals, Sequences

CONSTANTS Keys,        \* the identities an order can have
          Terms,       \* records with fields buyer, payee, treasury, amount, fee
          Surpluses,   \* what may have reached an order's deposit besides its amount
          NoTerms

VARIABLES stage,       \* "none", "held", "released" or "returned"
          terms,       \* what the deposit was made on
          paid         \* the payments made for the order, in order

vars == <<stage, terms, paid>>

Payment(to, amount) == [to |-> to, amount |-> amount]

(* The payee's leg, and the treasury's unless it is empty.                   *)
Proceeds(t, surplus) ==
    LET net == Payment(t.payee, t.amount - t.fee)
        cut == Payment(t.treasury, t.fee + surplus)
    IN  IF cut.amount > 0 THEN <<net, cut>> ELSE <<net>>

Init == /\ stage = [k \in Keys |-> "none"]
        /\ terms = [k \in Keys |-> NoTerms]
        /\ paid = [k \in Keys |-> <<>>]

Deposit(k) ==
    /\ stage[k] = "none"
    /\ stage' = [stage EXCEPT ![k] = "held"]
    /\ \E t \in Terms : t.fee < t.amount /\ terms' = [terms EXCEPT ![k] = t]
    /\ UNCHANGED paid

Release(k) ==
    /\ stage[k] = "held"
    /\ stage' = [stage EXCEPT ![k] = "released"]
    /\ \E surplus \in Surpluses :
         paid' = [paid EXCEPT ![k] = Proceeds(terms[k], surplus)]
    /\ UNCHANGED terms

Return(k) ==
    /\ stage[k] = "held"
    /\ stage' = [stage EXCEPT ![k] = "returned"]
    /\ \E surplus \in Surpluses :
         paid' = [paid EXCEPT ![k] = <<Payment(terms[k].buyer, terms[k].amount + surplus)>>]
    /\ UNCHANGED terms

Next == \E k \in Keys : Deposit(k) \/ Release(k) \/ Return(k)

Spec == Init /\ [][Next]_vars
==============================================================================
