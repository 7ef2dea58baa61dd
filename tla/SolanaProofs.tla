----------------------------- MODULE SolanaProofs -----------------------------
(***************************************************************************)
(* Proofs about SolanaEscrow, for any number of orders, buyers, sellers,   *)
(* admins and mints, any amounts and any clock.                            *)
(***************************************************************************)
EXTENDS SolanaEscrow, TLAPS

Payments == [to: Payouts \cup Treasuries \cup Buyers, amount: Nat]

(* Nothing is paid for an order before it settles.                           *)
PaidOnlyWhenSettled ==
    \A k \in OrderIds : orders[k].status \in {"None"} \cup Live => paid[k] = <<>>

(* A deposit is a quoted amount, and at most Gift tokens have joined it.     *)
DepositIsQuoted ==
    \A k \in OrderIds : orders[k] # NoOrder =>
      /\ orders[k].amount \in Amounts /\ orders[k].fee \in Fees
      /\ orders[k].status \in Live => Vault(k) <= orders[k].amount + Gift

IndInv == TypeOK /\ VaultBacksOrder /\ PaidOnlyWhenSettled /\ DepositIsQuoted

(* A live order has a token account for its mint, with its amount and no     *)
(* more than a gift on top.                                                  *)
LEMMA VaultHolds ==
    ASSUME IndInv, NEW k \in OrderIds, orders[k].status \in Live
    PROVE  /\ orders[k] \in Order /\ orders[k].fee < orders[k].amount
           /\ orders[k].mint \in Mints
           /\ Vault(k) \in Nat /\ Vault(k) # Absent
           /\ Vault(k) >= orders[k].amount /\ Vault(k) <= orders[k].amount + Gift
<1>1. orders[k] # NoOrder /\ orders[k] \in Order /\ orders[k].fee < orders[k].amount
  BY DEF IndInv, TypeOK, Live, NoOrder
<1>2. orders[k].mint \in Mints
  BY <1>1 DEF Order
<1>3. Vault(k) \in Nat \cup {Absent}
  BY <1>2 DEF Vault, IndInv, TypeOK
<1>4. Vault(k) # Absent /\ Vault(k) >= orders[k].amount /\ Vault(k) <= orders[k].amount + Gift
  BY <1>1 DEF IndInv, VaultBacksOrder, DepositIsQuoted
<1> QED BY <1>1, <1>2, <1>3, <1>4

(* An account that is written belongs to one order; the vaults of the others *)
(* are what they were.                                                       *)
LEMMA OtherVaults ==
    ASSUME TypeOK, NEW k, NEW mint, NEW held, tokens' = [tokens EXCEPT ![k][mint] = held],
           NEW i \in OrderIds, i # k, orders[i].status \in Live, orders'[i] = orders[i]
    PROVE  Vault(i)' = Vault(i)
<1>1. orders[i] \in Order
  BY DEF TypeOK, Live, NoOrder
<1>2. orders[i].mint \in Mints
  BY <1>1 DEF Order
<1> QED BY <1>2 DEF Vault, TypeOK

(* What a settlement pays: one payment, or two.                              *)
LEMMA RefundPayments ==
    ASSUME IndInv, NEW k \in OrderIds, orders[k].status \in Live
    PROVE  LET p == <<Payment(orders[k].buyer, Vault(k))>> IN
           /\ p \in Seq(Payments) /\ <<>> \o p = p
<1>1. Vault(k) \in Nat /\ orders[k].buyer \in Buyers
  BY VaultHolds DEF Order
<1> QED BY <1>1 DEF Payment, Payments

LEMMA ProceedsPayments ==
    ASSUME IndInv, NEW k \in OrderIds, orders[k].status \in Live
    PROVE  /\ Proceeds(k) \in Seq(Payments)
           /\ <<>> \o Proceeds(k) = Proceeds(k)
<1> DEFINE o == orders[k]
           net == Payment(o.payout, o.amount - o.fee)
           cut == Payment(o.treasury, Vault(k) - net.amount)
<1>1. /\ o \in Order /\ o.fee < o.amount /\ Vault(k) \in Nat
  BY VaultHolds
<1>2. net.amount \in Nat /\ (Vault(k) > net.amount => Vault(k) - net.amount \in Nat)
  BY <1>1 DEF Order, Payment
<1>3. net \in Payments /\ (Vault(k) > net.amount => cut \in Payments)
  BY <1>1, <1>2 DEF Order, Payment, Payments
<1>4. Proceeds(k) = IF Vault(k) > net.amount THEN <<net, cut>> ELSE <<net>>
  BY DEF Proceeds
<1> HIDE DEF net, cut
<1> QED BY <1>3, <1>4

(* Every settlement, whatever it pays, keeps the invariant.                  *)
LEMMA SettleKeeps ==
    ASSUME IndInv, NEW k \in OrderIds, orders[k].status \in Live,
           NEW status \in {"Completed", "Refunded"}, NEW payments \in Seq(Payments),
           <<>> \o payments = payments, Settle(k, status, payments)
    PROVE  IndInv'
<1>1. orders[k] \in Order /\ orders[k].fee < orders[k].amount
  BY DEF IndInv, TypeOK, Live, NoOrder, Order
<1>2. orders'[k] \in Order /\ orders'[k].fee < orders'[k].amount
      /\ orders'[k].status = status
      /\ \A i \in OrderIds : i # k => orders'[i] = orders[i]
  BY <1>1 DEF Settle, IndInv, TypeOK, Order
<1>3. paid' \in [OrderIds -> Seq(Payments)] /\ \A i \in OrderIds : i # k => paid'[i] = paid[i]
  BY DEF Settle, IndInv, TypeOK, PaidOnlyWhenSettled, Payments
<1>4. /\ tokens' \in [OrderIds -> [Mints -> Nat \cup {Absent}]]
      /\ \A i \in OrderIds : i # k /\ orders[i].status \in Live => Vault(i)' = Vault(i)
  BY <1>2, OtherVaults DEF Settle, IndInv, TypeOK
<1>5. TypeOK'
  BY <1>2, <1>3, <1>4 DEF Settle, IndInv, TypeOK, Payments
<1>6. VaultBacksOrder'
  BY <1>2, <1>4 DEF IndInv, VaultBacksOrder, Live
<1>7. PaidOnlyWhenSettled'
  BY <1>2, <1>3 DEF IndInv, PaidOnlyWhenSettled, Live
<1>8. DepositIsQuoted'
  <2> SUFFICES ASSUME NEW i \in OrderIds, orders'[i] # NoOrder
               PROVE  /\ orders'[i].amount \in Amounts /\ orders'[i].fee \in Fees
                      /\ orders'[i].status \in Live => Vault(i)' <= orders'[i].amount + Gift
    BY DEF DepositIsQuoted
  <2>1. CASE i = k
    <3>1. orders'[k].amount = orders[k].amount /\ orders'[k].fee = orders[k].fee
      BY <1>1 DEF Settle, IndInv, TypeOK, Order
    <3>2. orders[k] # NoOrder
      BY DEF NoOrder, Live
    <3> QED BY <1>2, <2>1, <3>1, <3>2 DEF IndInv, DepositIsQuoted, Live
  <2>2. CASE i # k
    BY <1>2, <1>4, <2>2 DEF IndInv, DepositIsQuoted
  <2> QED BY <2>1, <2>2
<1> QED BY <1>5, <1>6, <1>7, <1>8 DEF IndInv

LEMMA GovernanceKeeps == IndInv /\ Governance => IndInv'
<1> SUFFICES ASSUME IndInv, Governance PROVE IndInv'
  OBVIOUS
<1>1. UNCHANGED <<orders, tokens, paid, now>>
  BY DEF Governance, Initialize, SetConfig, SetPaused, TransferAdmin, AcceptAdmin,
         RegisterMint, RevokeMint, RegisterMerchant, UpdateMerchant
<1>2. VaultBacksOrder' /\ PaidOnlyWhenSettled' /\ DepositIsQuoted'
  BY <1>1 DEF IndInv, VaultBacksOrder, PaidOnlyWhenSettled, DepositIsQuoted, Vault
<1>3. config' \in {NoConfig} \cup Config
  <2>1. CASE Initialize
    BY <2>1 DEF Initialize, Config
  <2>2. CASE SetConfig \/ SetPaused \/ TransferAdmin \/ \E a \in Admins : AcceptAdmin(a)
    BY <2>2 DEF SetConfig, SetPaused, TransferAdmin, AcceptAdmin, ByAdmin, Initialized,
                IndInv, TypeOK, Config
  <2>3. CASE \/ \E mint \in Mints : RegisterMint(mint) \/ RevokeMint(mint)
             \/ \E s \in Sellers : RegisterMerchant(s) \/ UpdateMerchant(s)
    BY <2>3 DEF RegisterMint, RevokeMint, RegisterMerchant, UpdateMerchant, IndInv, TypeOK
  <2> QED BY <2>1, <2>2, <2>3 DEF Governance
<1>4. mints' \subseteq Mints
  BY DEF Governance, Initialize, SetConfig, SetPaused, TransferAdmin, AcceptAdmin,
         RegisterMint, RevokeMint, RegisterMerchant, UpdateMerchant, IndInv, TypeOK
<1>5. merchants' \in [Sellers -> {NoMerchant} \cup [payout: Payouts, active: BOOLEAN]]
  <2>1. CASE \E s \in Sellers : RegisterMerchant(s) \/ UpdateMerchant(s)
    <3>1. PICK s \in Sellers, p \in Payouts, active \in BOOLEAN :
            merchants' = [merchants EXCEPT ![s] = [payout |-> p, active |-> active]]
      BY <2>1 DEF RegisterMerchant, UpdateMerchant
    <3> QED BY <3>1 DEF IndInv, TypeOK
  <2>2. CASE UNCHANGED merchants
    BY <2>2 DEF IndInv, TypeOK
  <2> QED BY <2>1, <2>2 DEF Governance, Initialize, SetConfig, SetPaused, TransferAdmin,
             AcceptAdmin, RegisterMint, RevokeMint
<1>6. changes' \in Nat
  <2>1. changes' = changes \/ changes' = changes + 1
    BY DEF Governance, Initialize, SetConfig, SetPaused, TransferAdmin, AcceptAdmin, ByAdmin,
           RegisterMint, RevokeMint, RegisterMintAccounts, RevokeMintAccounts, RegisterMerchant, UpdateMerchant
  <2> QED BY <2>1 DEF IndInv, TypeOK
<1>7. TypeOK'
  BY <1>1, <1>3, <1>4, <1>5, <1>6 DEF IndInv, TypeOK
<1> QED BY <1>2, <1>7 DEF IndInv

LEMMA CreateKeeps ==
    ASSUME IndInv, NEW q \in Quotes, CreateOrder(q) PROVE IndInv'
<1> DEFINE k == q.id
<1>1. /\ k \in OrderIds /\ q.buyer \in Buyers /\ q.seller \in Sellers /\ q.mint \in Mints
      /\ q.amount \in Amounts /\ q.fee \in Fees /\ q.amount \in Nat /\ q.fee \in Nat
  BY FiguresAssumption DEF Quotes
<1>2. /\ merchants[q.seller].payout \in Payouts /\ config.treasury \in Treasuries
      /\ now + config.window \in Nat
  <2>1. merchants[q.seller] \in [payout: Payouts, active: BOOLEAN]
    BY <1>1 DEF CreateOrder, IndInv, TypeOK, NoMerchant
  <2>2. config \in Config
    BY DEF CreateOrder, Accounts, IndInv, TypeOK, Initialized
  <2>3. config.window \in Nat /\ config.treasury \in Treasuries /\ now \in Nat
    BY <2>2, FiguresAssumption DEF Config, IndInv, TypeOK
  <2> QED BY <2>1, <2>3
<1>3. /\ orders' = [orders EXCEPT ![k] = orders'[k]]
      /\ orders'[k] \in Order /\ orders'[k].fee < orders'[k].amount
      /\ orders'[k].status = "Pending" /\ orders'[k].amount = q.amount
      /\ orders'[k].fee = q.fee
  BY <1>1, <1>2 DEF CreateOrder, Sound, IndInv, TypeOK, Order
<1>4. /\ tokens' = [tokens EXCEPT ![k][q.mint] = q.amount]
      /\ UNCHANGED <<config, mints, merchants, paid, now, changes>>
  BY DEF CreateOrder
<1>5. paid[k] = <<>>
  BY <1>1 DEF CreateOrder, Accounts, IndInv, PaidOnlyWhenSettled, NoOrder
<1>6. TypeOK'
  BY <1>1, <1>3, <1>4 DEF IndInv, TypeOK
<1>7. Vault(k)' = q.amount /\ orders[k].status \notin Live
  <2>1. q.mint \in Mints /\ orders'[k].mint = q.mint
    BY <1>1 DEF CreateOrder, IndInv, TypeOK
  <2>2. Vault(k)' = q.amount
    BY <1>1, <1>4, <2>1 DEF Vault, IndInv, TypeOK
  <2> QED BY <2>2 DEF CreateOrder, Accounts, NoOrder, Live
<1>8. \A i \in OrderIds : i # k =>
         /\ orders'[i] = orders[i]
         /\ orders[i].status \in Live => Vault(i)' = Vault(i)
  <2>1. \A i \in OrderIds : i # k => orders'[i] = orders[i]
    BY <1>3 DEF IndInv, TypeOK
  <2> QED BY <1>4, <2>1, OtherVaults DEF IndInv
<1>9. VaultBacksOrder'
  BY <1>1, <1>3, <1>7, <1>8, AbsentAssumption DEF IndInv, VaultBacksOrder
<1>10. PaidOnlyWhenSettled'
  BY <1>1, <1>3, <1>4, <1>5 DEF IndInv, PaidOnlyWhenSettled, TypeOK, Live
<1>11. DepositIsQuoted'
  BY <1>1, <1>3, <1>7, <1>8, FiguresAssumption DEF IndInv, DepositIsQuoted
<1> QED BY <1>6, <1>9, <1>10, <1>11 DEF IndInv

LEMMA ConfirmKeeps ==
    ASSUME IndInv, NEW k \in OrderIds, NEW sender \in Senders, ConfirmOrder(k, sender)
    PROVE  IndInv'
<1>1. orders[k] \in Order /\ orders[k].fee < orders[k].amount
  BY DEF ConfirmOrder, IndInv, TypeOK, NoOrder, Order
<1>2. /\ orders'[k] \in Order /\ orders'[k].fee < orders'[k].amount
      /\ orders'[k].status = "Confirmed" /\ orders'[k].amount = orders[k].amount
      /\ orders'[k].fee = orders[k].fee /\ orders'[k].mint = orders[k].mint
      /\ orders' = [orders EXCEPT ![k] = orders'[k]]
  BY <1>1 DEF ConfirmOrder, IndInv, TypeOK, Order
<1>3. orders[k].status = "Pending"
      /\ UNCHANGED <<config, mints, merchants, tokens, paid, now, changes>>
  BY DEF ConfirmOrder
<1>4. TypeOK'
  BY <1>2, <1>3 DEF IndInv, TypeOK
<1>5. \A i \in OrderIds : Vault(i)' = Vault(i)
  BY <1>2, <1>3 DEF Vault, IndInv, TypeOK
<1>6. VaultBacksOrder'
  BY <1>2, <1>3, <1>5 DEF IndInv, VaultBacksOrder, TypeOK, Live
<1>7. PaidOnlyWhenSettled'
  BY <1>2, <1>3 DEF IndInv, PaidOnlyWhenSettled, TypeOK, Live
<1>8. DepositIsQuoted'
  <2> SUFFICES ASSUME NEW i \in OrderIds, orders'[i] # NoOrder
               PROVE  /\ orders'[i].amount \in Amounts /\ orders'[i].fee \in Fees
                      /\ orders'[i].status \in Live => Vault(i)' <= orders'[i].amount + Gift
    BY DEF DepositIsQuoted
  <2>1. CASE i = k
    <3>1. orders[k] # NoOrder /\ orders[k].status \in Live
      BY <1>3 DEF NoOrder, Live
    <3> QED BY <1>2, <1>5, <2>1, <3>1 DEF IndInv, DepositIsQuoted
  <2>2. CASE i # k
    BY <1>2, <1>5, <2>2 DEF IndInv, DepositIsQuoted, TypeOK
  <2> QED BY <2>1, <2>2
<1> QED BY <1>4, <1>6, <1>7, <1>8 DEF IndInv

(* What others do to an order's address: nothing to a live order's vault but *)
(* add to it, by no more than the gift.                                      *)
LEMMA OutsideKeeps ==
    ASSUME IndInv, NEW k \in OrderIds, NEW mint \in Mints,
           OpenAccount(k, mint) \/ Donate(k, mint)
    PROVE  IndInv'
<1>1. PICK held \in Nat :
        /\ tokens' = [tokens EXCEPT ![k][mint] = held]
        /\ tokens[k][mint] = Absent \/ held = tokens[k][mint] + 1
        /\ tokens[k][mint] # Absent => tokens[k][mint] < Escrowed(k, mint) + Gift
  <2> DEFINE before == tokens[k][mint]
             Written(held) == tokens' = [tokens EXCEPT ![k][mint] = held]
  <2>1. CASE OpenAccount(k, mint)
    <3>1. before = Absent /\ Written(0)
      BY <2>1 DEF OpenAccount
    <3> QED BY <3>1
  <2>2. CASE Donate(k, mint)
    <3>1. before # Absent /\ before < Escrowed(k, mint) + Gift /\ Written(before + 1)
      BY <2>2 DEF Donate
    <3>2. before \in Nat
      BY <3>1 DEF IndInv, TypeOK
    <3>3. before + 1 \in Nat
      BY <3>2
    <3> QED BY <3>1, <3>3
  <2> QED BY <2>1, <2>2
<1>2. UNCHANGED <<config, mints, merchants, orders, paid, now, changes>>
  BY DEF OpenAccount, Donate
<1>3. TypeOK'
  BY <1>1, <1>2 DEF IndInv, TypeOK
<1>4. ASSUME NEW i \in OrderIds, orders[i].status \in Live
      PROVE  Vault(i)' # Absent /\ Vault(i)' >= orders[i].amount
             /\ Vault(i)' <= orders[i].amount + Gift
  <2>1. /\ orders[i] \in Order /\ orders[i].mint \in Mints
        /\ Vault(i) \in Nat /\ Vault(i) # Absent
        /\ Vault(i) >= orders[i].amount /\ Vault(i) <= orders[i].amount + Gift
    BY <1>4, VaultHolds
  <2>2. CASE i = k /\ orders[i].mint = mint
    <3>1. Vault(i) = tokens[k][mint] /\ Escrowed(k, mint) = orders[i].amount
      BY <1>4, <2>2 DEF Vault, Escrowed
    <3>2. Vault(i)' = held
      BY <1>1, <1>2, <2>1, <2>2 DEF Vault, IndInv, TypeOK
    <3>3. orders[i].amount \in Nat
      BY <2>1 DEF Order
    <3> QED BY <1>1, <2>1, <3>1, <3>2, <3>3, FiguresAssumption, AbsentAssumption
  <2>3. CASE ~(i = k /\ orders[i].mint = mint)
    <3>1. Vault(i)' = Vault(i)
      BY <1>1, <1>2, <2>1, <2>3 DEF Vault, IndInv, TypeOK
    <3> QED BY <2>1, <3>1
  <2> QED BY <2>2, <2>3
<1>5. VaultBacksOrder'
  BY <1>2, <1>4 DEF VaultBacksOrder
<1>6. PaidOnlyWhenSettled'
  BY <1>2 DEF IndInv, PaidOnlyWhenSettled
<1>7. DepositIsQuoted'
  BY <1>2, <1>4 DEF IndInv, DepositIsQuoted
<1> QED BY <1>3, <1>5, <1>6, <1>7 DEF IndInv

LEMMA StepKeeps == IndInv /\ [Next]_vars => IndInv'
<1> SUFFICES ASSUME IndInv, [Next]_vars PROVE IndInv'
  OBVIOUS
<1>1. CASE Governance
  BY <1>1, GovernanceKeeps
<1>2. ASSUME NEW q \in Quotes, CreateOrder(q) PROVE IndInv'
  BY <1>2, CreateKeeps
<1>3. ASSUME NEW k \in OrderIds, NEW sender \in Senders, ConfirmOrder(k, sender) PROVE IndInv'
  BY <1>3, ConfirmKeeps
<1>4. ASSUME NEW k \in OrderIds, NEW sender \in Senders, CompleteOrder(k, sender) PROVE IndInv'
  <2>1. orders[k].status \in Live /\ Settle(k, "Completed", Proceeds(k))
    BY <1>4 DEF CompleteOrder, Live
  <2>2. Proceeds(k) \in Seq(Payments) /\ <<>> \o Proceeds(k) = Proceeds(k)
    BY <2>1, ProceedsPayments
  <2> QED BY <2>1, <2>2, SettleKeeps
<1>5. ASSUME NEW k \in OrderIds, orders[k].status \in Live, SettleRefund(k) PROVE IndInv'
  <2> DEFINE p == <<Payment(orders[k].buyer, Vault(k))>>
  <2>1. p \in Seq(Payments) /\ <<>> \o p = p
    BY <1>5, RefundPayments
  <2>2. Settle(k, "Refunded", p)
    BY <1>5 DEF SettleRefund
  <2> HIDE DEF p
  <2> QED BY <1>5, <2>1, <2>2, SettleKeeps
<1>6. ASSUME NEW k \in OrderIds, NEW sender \in Senders,
             RefundOrder(k, sender) \/ TimeoutRefund(k, sender)
      PROVE  IndInv'
  BY <1>5, <1>6 DEF RefundOrder, TimeoutRefund, Live
<1>7. ASSUME NEW k \in OrderIds, NEW mint \in Mints, OpenAccount(k, mint) \/ Donate(k, mint)
      PROVE  IndInv'
  BY <1>7, OutsideKeeps
<1>8. CASE Tick
  <2>1. now' \in Nat /\ UNCHANGED <<config, mints, merchants, orders, tokens, paid, changes>>
    BY <1>8 DEF Tick, IndInv, TypeOK
  <2> QED BY <2>1 DEF IndInv, TypeOK, VaultBacksOrder, PaidOnlyWhenSettled, DepositIsQuoted, Vault
<1>9. CASE UNCHANGED vars
  BY <1>9 DEF vars, IndInv, TypeOK, VaultBacksOrder, PaidOnlyWhenSettled, DepositIsQuoted, Vault
<1> QED BY <1>1, <1>2, <1>3, <1>4, <1>6, <1>7, <1>8, <1>9 DEF Next

LEMMA InitHolds == Init => IndInv
  BY AbsentAssumption
  DEF Init, IndInv, TypeOK, VaultBacksOrder, PaidOnlyWhenSettled, DepositIsQuoted, NoOrder, Live

(* The inductive invariant holds in every reachable state.                   *)
THEOREM Invariant == Spec => []IndInv
  BY InitHolds, StepKeeps, PTL DEF Spec

(* Every account keeps its type, and every fee leaves the seller something.  *)
THEOREM Typed == Spec => []TypeOK
  BY Invariant, PTL DEF IndInv

(* A live order's vault is open and holds at least what the order promises,  *)
(* whatever instructions any accounts make, whatever token accounts are      *)
(* opened at the addresses of orders and whatever is sent to them.           *)
THEOREM VaultsBacked == Spec => []VaultBacksOrder
  BY Invariant, PTL DEF IndInv

(* Whatever was sent to a live order's vault, either settlement can be made  *)
(* from it and empties it: close_vault never refuses.                        *)
VaultEmpties ==
    \A k \in OrderIds : orders[k].status \in Live =>
      /\ Vault(k) # Absent /\ Vault(k) >= orders[k].amount
      /\ Moved(Proceeds(k)) = Vault(k)
      /\ Moved(<<Payment(orders[k].buyer, Vault(k))>>) = Vault(k)

(* No order is stranded by its figures: a live one passes every check of     *)
(* complete_order and settle_refund on balances, whatever was sent to its    *)
(* vault (what OneExit and AlwaysAWayOut need of the vault).                 *)
THEOREM SettlesInFull == Spec => []VaultEmpties
<1>1. ASSUME IndInv, NEW k \in OrderIds, orders[k].status \in Live
      PROVE  /\ Vault(k) # Absent /\ Vault(k) >= orders[k].amount
             /\ Moved(Proceeds(k)) = Vault(k)
             /\ Moved(<<Payment(orders[k].buyer, Vault(k))>>) = Vault(k)
  <2> DEFINE o == orders[k]
             net == Payment(o.payout, o.amount - o.fee)
             cut == Payment(o.treasury, Vault(k) - net.amount)
  <2>1. /\ o \in Order /\ o.fee < o.amount /\ Vault(k) \in Nat
        /\ Vault(k) # Absent /\ Vault(k) >= o.amount
    BY <1>1, VaultHolds
  <2>2. net.amount = o.amount - o.fee /\ cut.amount = Vault(k) - net.amount
    BY DEF Payment
  <2>3. o.amount - o.fee \in Nat /\ o.amount - o.fee <= Vault(k)
    BY <2>1 DEF Order
  <2>4. Moved(<<Payment(o.buyer, Vault(k))>>) = Vault(k)
    BY DEF Moved, Payment
  <2>5. CASE Vault(k) > net.amount
    <3>1. Proceeds(k) = <<net, cut>>
      BY <2>5 DEF Proceeds
    <3>2. Moved(<<net, cut>>) = net.amount + cut.amount
      BY DEF Moved
    <3> QED BY <2>1, <2>2, <2>3, <2>4, <3>1, <3>2
  <2>6. CASE ~(Vault(k) > net.amount)
    <3>1. Proceeds(k) = <<net>>
      BY <2>6 DEF Proceeds
    <3>2. Moved(<<net>>) = net.amount
      BY DEF Moved
    <3> QED BY <2>1, <2>2, <2>3, <2>4, <2>6, <3>1, <3>2
  <2> QED BY <2>5, <2>6
<1>2. IndInv => VaultEmpties
  BY <1>1 DEF VaultEmpties
<1> QED BY <1>2, Invariant, PTL

----------------------------------------------------------------------------
(* The program implements Custody.                                           *)

LEMMA InitRefines == Init => C!Init
  BY DEF Init, C!Init, Deposited, Agreed, Stage, TermsOf, NoOrder, Live

(* What an instruction does not write, the abstract state does not show.     *)
LEMMA Unshown == UNCHANGED <<orders, paid>> => UNCHANGED C!vars
  BY DEF C!vars, Deposited, Agreed, Stage, TermsOf

(* Changing one order's record changes the two mapped functions there only.  *)
LEMMA OneOrder ==
    ASSUME TypeOK, NEW k \in OrderIds, NEW o, orders' = [orders EXCEPT ![k] = o]
    PROVE  /\ Deposited' = [Deposited EXCEPT ![k] = Stage(o)]
           /\ Agreed' = [Agreed EXCEPT ![k] = TermsOf(o)]
  BY DEF TypeOK, Deposited, Agreed

LEMMA SettleRefines ==
    ASSUME IndInv, NEW k \in OrderIds, orders[k].status \in Live,
           NEW status \in {"Completed", "Refunded"}, NEW payments,
           <<>> \o payments = payments, Settle(k, status, payments)
    PROVE  /\ Deposited[k] = "held" /\ Agreed[k] = TermsOf(orders[k])
           /\ Deposited' = [Deposited EXCEPT
                             ![k] = IF status = "Completed" THEN "released" ELSE "returned"]
           /\ UNCHANGED Agreed
           /\ paid' = [paid EXCEPT ![k] = payments]
<1> DEFINE o == [orders[k] EXCEPT !.status = status]
<1>0. TypeOK
  BY DEF IndInv
<1>1. orders[k] \in Order
  BY <1>0 DEF TypeOK, Live, NoOrder, Order
<1>2. orders' = [orders EXCEPT ![k] = o]
  BY DEF Settle
<1>3. /\ o.status = status /\ o.buyer = orders[k].buyer /\ o.payout = orders[k].payout
      /\ o.treasury = orders[k].treasury /\ o.amount = orders[k].amount
      /\ o.fee = orders[k].fee
  BY <1>1 DEF Order
<1>4. Stage(o) = IF status = "Completed" THEN "released" ELSE "returned"
  BY <1>3 DEF Stage, Live
<1>5. TermsOf(o) = TermsOf(orders[k])
  BY <1>3 DEF TermsOf, Live
<1>6. Deposited[k] = "held" /\ Agreed[k] = TermsOf(orders[k])
  BY DEF Deposited, Agreed, Stage, Live
<1>7. paid' = [paid EXCEPT ![k] = payments]
  BY DEF Settle, IndInv, PaidOnlyWhenSettled
<1> HIDE DEF o
<1>8. Deposited' = [Deposited EXCEPT ![k] = Stage(o)] /\ Agreed' = [Agreed EXCEPT ![k] = TermsOf(o)]
  BY <1>0, <1>2, OneOrder
<1>9. Agreed' = Agreed
  BY <1>5, <1>6, <1>8 DEF Agreed
<1> QED BY <1>4, <1>6, <1>7, <1>8, <1>9

(* The surplus of a settlement is what reached the vault unasked.            *)
LEMMA Surplus ==
    ASSUME IndInv, NEW k \in OrderIds, orders[k].status \in Live
    PROVE  /\ orders[k] \in Order /\ orders[k].fee < orders[k].amount /\ Vault(k) \in Nat
           /\ Vault(k) - orders[k].amount \in 0 .. Gift
<1>1. /\ orders[k] \in Order /\ orders[k].fee < orders[k].amount /\ Vault(k) \in Nat
      /\ Vault(k) >= orders[k].amount /\ Vault(k) <= orders[k].amount + Gift
  BY VaultHolds
<1>2. orders[k].amount \in Nat
  BY <1>1 DEF Order
<1> QED BY <1>1, <1>2, FiguresAssumption

LEMMA CompleteRefines ==
    ASSUME IndInv, NEW k \in OrderIds, NEW sender \in Senders, CompleteOrder(k, sender)
    PROVE  C!Release(k)
<1> DEFINE o == orders[k]
           extra == Vault(k) - o.amount
<1>1. orders[k].status \in Live /\ Settle(k, "Completed", Proceeds(k))
  BY DEF CompleteOrder, Live
<1>2. Proceeds(k) \in Seq(Payments) /\ <<>> \o Proceeds(k) = Proceeds(k)
  BY <1>1, ProceedsPayments
<1>3. /\ Deposited[k] = "held" /\ Agreed[k] = TermsOf(o)
      /\ Deposited' = [Deposited EXCEPT ![k] = "released"]
      /\ UNCHANGED Agreed
      /\ paid' = [paid EXCEPT ![k] = Proceeds(k)]
  BY <1>1, <1>2, SettleRefines
<1>4. o \in Order /\ o.fee < o.amount /\ Vault(k) \in Nat /\ extra \in 0 .. Gift
  BY <1>1, Surplus
<1>5. /\ TermsOf(o).payee = o.payout /\ TermsOf(o).treasury = o.treasury
      /\ TermsOf(o).amount = o.amount /\ TermsOf(o).fee = o.fee
  BY <1>1 DEF TermsOf, Live
<1>6. o.amount \in Nat /\ o.fee \in Nat
  BY <1>4 DEF Order
<1>7. /\ Vault(k) > o.amount - o.fee <=> o.fee + extra > 0
      /\ Vault(k) - (o.amount - o.fee) = o.fee + extra
  BY <1>4, <1>6, FiguresAssumption
<1>8. C!Proceeds(Agreed[k], extra) = Proceeds(k)
  BY <1>3, <1>5, <1>7 DEF C!Proceeds, Proceeds, C!Payment, Payment
<1> QED BY <1>3, <1>4, <1>8 DEF C!Release

LEMMA RefundRefines ==
    ASSUME IndInv, NEW k \in OrderIds, orders[k].status \in Live, SettleRefund(k)
    PROVE  C!Return(k)
<1> DEFINE o == orders[k]
           extra == Vault(k) - o.amount
           p == <<Payment(o.buyer, Vault(k))>>
<1>1. p \in Seq(Payments) /\ <<>> \o p = p
  BY RefundPayments
<1>2. Settle(k, "Refunded", p)
  BY DEF SettleRefund
<1>3. o \in Order /\ Vault(k) \in Nat /\ extra \in 0 .. Gift
  BY Surplus
<1>4. TermsOf(o).buyer = o.buyer /\ TermsOf(o).amount = o.amount /\ o.amount \in Nat
  BY <1>3 DEF TermsOf, Live, Order
<1>5. <<C!Payment(TermsOf(o).buyer, TermsOf(o).amount + extra)>> = p
  BY <1>3, <1>4 DEF C!Payment, Payment
<1> HIDE DEF p
<1>6. /\ Deposited[k] = "held" /\ Agreed[k] = TermsOf(o)
      /\ Deposited' = [Deposited EXCEPT ![k] = "returned"]
      /\ UNCHANGED Agreed
      /\ paid' = [paid EXCEPT ![k] = p]
  BY <1>1, <1>2, SettleRefines
<1> QED BY <1>3, <1>5, <1>6 DEF C!Return

LEMMA CreateRefines ==
    ASSUME IndInv, NEW q \in Quotes, CreateOrder(q) PROVE C!Deposit(q.id)
<1> DEFINE k == q.id
           o == orders'[k]
<1>1. /\ k \in OrderIds /\ q.buyer \in Buyers /\ q.amount \in Amounts /\ q.fee \in Fees
      /\ q.seller \in Sellers
  BY DEF Quotes
<1>2. merchants[q.seller].payout \in Payouts /\ config.treasury \in Treasuries
  <2>1. merchants[q.seller] \in [payout: Payouts, active: BOOLEAN]
    BY <1>1 DEF CreateOrder, IndInv, TypeOK, NoMerchant
  <2>2. config \in Config
    BY DEF CreateOrder, Accounts, IndInv, TypeOK, Initialized
  <2> QED BY <2>1, <2>2 DEF Config
<1>3. /\ orders' = [orders EXCEPT ![k] = o] /\ TypeOK
      /\ o.status = "Pending" /\ o.buyer = q.buyer /\ o.payout = merchants[q.seller].payout
      /\ o.treasury = config.treasury /\ o.amount = q.amount /\ o.fee = q.fee
  BY <1>1 DEF CreateOrder, IndInv, TypeOK
<1>4. Deposited[k] = "none" /\ UNCHANGED paid
  BY <1>1 DEF CreateOrder, Accounts, Deposited, Stage, NoOrder, Live
<1>5. /\ Stage(o) = "held"
      /\ TermsOf(o) \in TermsSpace /\ TermsOf(o).fee < TermsOf(o).amount
  BY <1>1, <1>2, <1>3 DEF Stage, TermsOf, TermsSpace, Live, CreateOrder, Sound
<1>6. Deposited' = [Deposited EXCEPT ![k] = Stage(o)] /\ Agreed' = [Agreed EXCEPT ![k] = TermsOf(o)]
  <2> HIDE DEF o
  <2> QED BY <1>1, <1>3, OneOrder
<1> QED BY <1>4, <1>5, <1>6 DEF C!Deposit

LEMMA ConfirmRefines ==
    ASSUME IndInv, NEW k \in OrderIds, NEW sender \in Senders, ConfirmOrder(k, sender)
    PROVE  UNCHANGED C!vars
<1> DEFINE o == [orders[k] EXCEPT !.status = "Confirmed"]
<1>0. TypeOK
  BY DEF IndInv
<1>1. orders[k] \in Order /\ orders[k].status = "Pending"
  BY <1>0 DEF ConfirmOrder, TypeOK, NoOrder, Order
<1>2. orders' = [orders EXCEPT ![k] = o] /\ UNCHANGED paid
  BY DEF ConfirmOrder
<1>3. Stage(o) = Stage(orders[k]) /\ TermsOf(o) = TermsOf(orders[k])
  BY <1>1 DEF Stage, TermsOf, Live, Order
<1> HIDE DEF o
<1>4. Deposited' = [Deposited EXCEPT ![k] = Stage(o)] /\ Agreed' = [Agreed EXCEPT ![k] = TermsOf(o)]
  BY <1>0, <1>2, OneOrder
<1>5. Deposited' = Deposited /\ Agreed' = Agreed
  BY <1>3, <1>4 DEF Deposited, Agreed
<1> QED BY <1>2, <1>5 DEF C!vars

LEMMA StepRefines == IndInv /\ [Next]_vars => [C!Next]_(C!vars)
<1> SUFFICES ASSUME IndInv, [Next]_vars PROVE C!Next \/ UNCHANGED C!vars
  OBVIOUS
<1>1. CASE Governance
  <2>1. UNCHANGED <<orders, paid>>
    BY <1>1 DEF Governance, Initialize, SetConfig, SetPaused, TransferAdmin, AcceptAdmin,
           RegisterMint, RevokeMint, RegisterMerchant, UpdateMerchant
  <2> QED BY <2>1, Unshown
<1>2. ASSUME NEW q \in Quotes, CreateOrder(q) PROVE C!Next
  <2>1. q.id \in OrderIds
    BY DEF Quotes
  <2> QED BY <1>2, <2>1, CreateRefines DEF C!Next
<1>3. ASSUME NEW k \in OrderIds, NEW sender \in Senders, ConfirmOrder(k, sender)
      PROVE  UNCHANGED C!vars
  BY <1>3, ConfirmRefines
<1>4. ASSUME NEW k \in OrderIds, NEW sender \in Senders, CompleteOrder(k, sender)
      PROVE  C!Next
  BY <1>4, CompleteRefines DEF C!Next
<1>5. ASSUME NEW k \in OrderIds, NEW sender \in Senders,
             RefundOrder(k, sender) \/ TimeoutRefund(k, sender)
      PROVE  C!Next
  <2>1. orders[k].status \in Live /\ SettleRefund(k)
    BY <1>5 DEF RefundOrder, TimeoutRefund, Live
  <2> QED BY <2>1, RefundRefines DEF C!Next
<1>6. CASE \/ \E k \in OrderIds, mint \in Mints : OpenAccount(k, mint) \/ Donate(k, mint)
           \/ Tick
           \/ UNCHANGED vars
  <2>1. UNCHANGED <<orders, paid>>
    BY <1>6 DEF OpenAccount, Donate, Tick, vars
  <2> QED BY <2>1, Unshown
<1> QED BY <1>1, <1>2, <1>3, <1>4, <1>5, <1>6 DEF Next

(* The program keeps custody of every order: one deposit, terms that never   *)
(* change, and one payment of all of it to the wallets of those terms.       *)
THEOREM Refinement == Spec => KeepsCustody
  BY InitRefines, StepRefines, Invariant, PTL DEF Spec, KeepsCustody, C!Spec
----------------------------------------------------------------------------
(* The way out of the program.                                               *)

(* What the two refunds ask for, and what either of them writes: one value   *)
(* for each variable, so that the instruction goes through exactly when it   *)
(* is open (OneExit says ENABLED where these say Open).                      *)
VaultPays(k) ==
    /\ Vault(k) # Absent /\ Vault(k) >= orders[k].amount
    /\ Moved(<<Payment(orders[k].buyer, Vault(k))>>) = Vault(k)

RefundOpen(k, sender) ==
    /\ \/ orders[k].status = "Pending" /\ sender = orders[k].buyer
       \/ orders[k].status \in Live /\ (sender = orders[k].seller \/ IsAdmin(sender))
    /\ now <= orders[k].deadline /\ VaultPays(k)

TimeoutOpen(k, sender) ==
    /\ orders[k].status \in Live /\ sender = orders[k].buyer
    /\ now > orders[k].deadline /\ VaultPays(k)

RefundDone(k) ==
    /\ orders' = [orders EXCEPT ![k].status = "Refunded"]
    /\ paid' = [paid EXCEPT ![k] = @ \o <<Payment(orders[k].buyer, Vault(k))>>]
    /\ tokens' = [tokens EXCEPT ![k][orders[k].mint] = Absent]
    /\ config' = config /\ mints' = mints /\ merchants' = merchants
    /\ now' = now /\ changes' = changes

LEMMA ExitsOpen ==
    ASSUME NEW k, NEW sender
    PROVE  /\ RefundOrder(k, sender) <=> RefundOpen(k, sender) /\ RefundDone(k)
           /\ TimeoutRefund(k, sender) <=> TimeoutOpen(k, sender) /\ RefundDone(k)
<1>1. SettleRefund(k) <=> VaultPays(k) /\ RefundDone(k)
  BY DEF SettleRefund, Settle, RefundDone, VaultPays
<1> QED BY <1>1 DEF RefundOrder, TimeoutRefund, RefundOpen, TimeoutOpen

(* The buyer of an order the seller has not accepted has one way out and     *)
(* never two; the buyer of any live order has the timeout as soon as the     *)
(* deadline is past, and not before.                                         *)
OneOpenExit ==
    \A k \in OrderIds :
      LET buyer == orders[k].buyer IN
      /\ orders[k].status = "Pending" => (RefundOpen(k, buyer) <=> ~TimeoutOpen(k, buyer))
      /\ orders[k].status \in Live => (TimeoutOpen(k, buyer) <=> now > orders[k].deadline)

(* No gift, pause, revoked mint, suspended merchant or new admin closes the  *)
(* buyer's exit or opens a second one: OneExit of the run, with what the two *)
(* refunds check written out in place of ENABLED.                            *)
THEOREM OneWayOut == Spec => []OneOpenExit
<1>1. ASSUME IndInv, VaultEmpties, NEW k \in OrderIds, orders[k].status \in Live
      PROVE  LET buyer == orders[k].buyer IN
             /\ orders[k].status = "Pending" =>
                  (RefundOpen(k, buyer) <=> ~TimeoutOpen(k, buyer))
             /\ TimeoutOpen(k, buyer) <=> now > orders[k].deadline
  <2>1. VaultPays(k)
    BY <1>1 DEF VaultEmpties, VaultPays
  <2>2. now \in Nat /\ orders[k].deadline \in Nat
    BY <1>1 DEF IndInv, TypeOK, NoOrder, Order, Live
  <2>3. now <= orders[k].deadline <=> ~(now > orders[k].deadline)
    BY <2>2
  <2>4. TimeoutOpen(k, orders[k].buyer) <=> now > orders[k].deadline
    BY <1>1, <2>1 DEF TimeoutOpen
  <2>5. orders[k].status = "Pending" =>
          (RefundOpen(k, orders[k].buyer) <=> now <= orders[k].deadline)
    BY <2>1 DEF RefundOpen
  <2> QED BY <2>3, <2>4, <2>5
<1>2. IndInv /\ VaultEmpties => OneOpenExit
  BY <1>1 DEF OneOpenExit, Live
<1> QED BY <1>2, Invariant, SettlesInFull, PTL

(* The deposit is there and its deadline has passed.                         *)
Overdue(k) == orders[k].status \in Live /\ now > orders[k].deadline

(* The right to a timeout refund is lost in one way, by the deposit leaving: *)
(* no confirmation, setting or handover moves the deadline of an order, and  *)
(* no order goes back to having none.                                        *)
StaysOverdue ==
    [][\A k \in OrderIds : Overdue(k) =>
         Overdue(k)' \/ Deposited[k]' \in {"released", "returned"}]_vars

(* The safety half of AlwaysAWayOut: what fairness has to wait for never     *)
(* goes away.                                                                *)
THEOREM OverdueUntilPaid == Spec => StaysOverdue
<1>1. ASSUME IndInv, [Next]_vars, NEW k \in OrderIds, Overdue(k)
      PROVE  Overdue(k)' \/ Deposited[k]' \in {"released", "returned"}
  <2>0. /\ orders \in [OrderIds -> {NoOrder} \cup Order] /\ now \in Nat
        /\ orders[k] \in Order /\ orders[k].deadline \in Nat
    BY <1>1 DEF IndInv, TypeOK, Overdue, NoOrder, Order, Live
  <2>1. CASE UNCHANGED <<orders, now>>
    BY <1>1, <2>1 DEF Overdue
  <2>2. ASSUME NEW q \in Quotes, CreateOrder(q) PROVE Overdue(k)'
    <3>1. orders'[k] = orders[k] /\ now' = now
      BY <1>1, <2>0, <2>2 DEF CreateOrder, Accounts, NoOrder, Overdue, Live
    <3> QED BY <1>1, <3>1 DEF Overdue
  <2>3. ASSUME NEW j \in OrderIds, NEW sender \in Senders, ConfirmOrder(j, sender)
        PROVE  Overdue(k)'
    <3>1. orders'[k].deadline = orders[k].deadline /\ orders'[k].status \in Live /\ now' = now
      BY <1>1, <2>0, <2>3 DEF ConfirmOrder, Overdue, Order, Live
    <3> QED BY <1>1, <3>1 DEF Overdue
  <2>4. ASSUME NEW j \in OrderIds, NEW sender \in Senders,
               CompleteOrder(j, sender) \/ RefundOrder(j, sender) \/ TimeoutRefund(j, sender)
        PROVE  Overdue(k)' \/ Deposited[k]' \in {"released", "returned"}
    <3>1. PICK status \in {"Completed", "Refunded"} :
            orders' = [orders EXCEPT ![j].status = status] /\ now' = now
      BY <2>4 DEF CompleteOrder, RefundOrder, TimeoutRefund, SettleRefund, Settle
    <3>2. CASE j = k
      <4>1. orders'[k].status = status
        BY <2>0, <3>1, <3>2 DEF Order
      <4>2. Deposited'[k] = Stage(orders'[k])
        BY DEF Deposited
      <4> QED BY <4>1, <4>2 DEF Stage, Live
    <3>3. CASE j # k
      BY <1>1, <2>0, <3>1, <3>3 DEF Overdue
    <3> QED BY <3>2, <3>3
  <2>5. CASE Tick
    <3>1. orders' = orders /\ now' = now + 1
      BY <2>5 DEF Tick
    <3> QED BY <1>1, <2>0, <3>1 DEF Overdue
  <2>6. Governance \/ (\E j \in OrderIds, mint \in Mints : OpenAccount(j, mint) \/ Donate(j, mint)) \/ UNCHANGED vars
          => UNCHANGED <<orders, now>>
    BY DEF Governance, Initialize, SetConfig, SetPaused, TransferAdmin, AcceptAdmin,
           RegisterMint, RevokeMint, RegisterMerchant, UpdateMerchant, OpenAccount, Donate, vars
  <2> QED BY <1>1, <2>1, <2>2, <2>3, <2>4, <2>5, <2>6 DEF Next
<1>2. IndInv /\ [Next]_vars =>
        [\A k \in OrderIds : Overdue(k) =>
           Overdue(k)' \/ Deposited[k]' \in {"released", "returned"}]_vars
  BY <1>1
<1> QED BY <1>2, Invariant, PTL DEF Spec, StaysOverdue

----------------------------------------------------------------------------
(* What Custody means for the money.                                         *)

(* Nothing is paid for an order that has not settled; a released one has     *)
(* paid its merchant exactly what was quoted and the treasury the rest, at   *)
(* least the fee, a returned one its buyer, and what was paid is the deposit *)
(* and whatever was sent on top of it.                                       *)
PaidAsAgreed(k) ==
    LET t == Agreed[k]
        p == paid[k]
    IN  /\ Deposited[k] \in {"none", "held"} => p = <<>>
        /\ Deposited[k] # "none" => t.fee \in Nat /\ t.amount \in Nat /\ t.fee < t.amount
        /\ Deposited[k] = "released" =>
             /\ p[1] = Payment(t.payee, t.amount - t.fee)
             /\ \E surplus \in 0 .. Gift :
                  IF t.fee + surplus > 0
                  THEN Len(p) = 2 /\ p[2] = Payment(t.treasury, t.fee + surplus)
                  ELSE Len(p) = 1
        /\ Deposited[k] = "returned" =>
             \E surplus \in 0 .. Gift : p = <<Payment(t.buyer, t.amount + surplus)>>

Ledgered == /\ DOMAIN Deposited = OrderIds /\ DOMAIN Agreed = OrderIds
            /\ DOMAIN paid = OrderIds
            /\ \A k \in OrderIds : Deposited[k] \in {"none", "held", "released", "returned"}
            /\ \A k \in OrderIds : PaidAsAgreed(k)

LEMMA ReleasedParts ==
    ASSUME NEW t, t.fee \in Nat, t.amount \in Nat, t.fee < t.amount,
           NEW surplus \in 0 .. Gift, NEW p, p = C!Proceeds(t, surplus)
    PROVE  /\ p[1] = Payment(t.payee, t.amount - t.fee)
           /\ IF t.fee + surplus > 0
              THEN Len(p) = 2 /\ p[2] = Payment(t.treasury, t.fee + surplus)
              ELSE Len(p) = 1
<1> DEFINE net == Payment(t.payee, t.amount - t.fee)
           cut == Payment(t.treasury, t.fee + surplus)
<1>1. C!Proceeds(t, surplus) = IF cut.amount > 0 THEN <<net, cut>> ELSE <<net>>
  BY DEF C!Proceeds, C!Payment, Payment
<1>2. cut.amount = t.fee + surplus
  BY DEF Payment
<1> HIDE DEF net, cut
<1>3. p = IF t.fee + surplus > 0 THEN <<net, cut>> ELSE <<net>>
  BY <1>1, <1>2
<1> QED BY <1>3 DEF net, cut

LEMMA CustodyPays ==
    ASSUME Ledgered, C!Next, NEW k \in OrderIds
    PROVE  PaidAsAgreed(k)' /\ Deposited'[k] \in {"none", "held", "released", "returned"}
<1>0. PaidAsAgreed(k) /\ Deposited[k] \in {"none", "held", "released", "returned"}
  BY DEF Ledgered
<1>1. PICK j \in OrderIds : C!Deposit(j) \/ C!Release(j) \/ C!Return(j)
  BY DEF C!Next
<1>2. CASE C!Deposit(j) /\ j = k
  <2>1. /\ Deposited'[k] = "held" /\ paid'[k] = <<>>
        /\ \E t \in TermsSpace : t.fee < t.amount /\ Agreed'[k] = t
    BY <1>0, <1>2 DEF C!Deposit, Ledgered, PaidAsAgreed
  <2>2. \A t \in TermsSpace : t.fee \in Nat /\ t.amount \in Nat
    BY FiguresAssumption DEF TermsSpace
  <2> QED BY <2>1, <2>2 DEF PaidAsAgreed
<1>3. CASE C!Release(j) /\ j = k
  <2>1. /\ Deposited[k] = "held" /\ Deposited'[k] = "released" /\ Agreed'[k] = Agreed[k]
        /\ \E surplus \in 0 .. Gift : paid'[k] = C!Proceeds(Agreed[k], surplus)
    BY <1>3 DEF C!Release, Ledgered
  <2>2. /\ Agreed[k].fee \in Nat /\ Agreed[k].amount \in Nat
        /\ Agreed[k].fee < Agreed[k].amount
    BY <1>0, <2>1 DEF PaidAsAgreed
  <2>3. PICK surplus \in 0 .. Gift : paid'[k] = C!Proceeds(Agreed[k], surplus)
    BY <2>1
  <2>4. /\ paid'[k][1] = Payment(Agreed[k].payee, Agreed[k].amount - Agreed[k].fee)
        /\ IF Agreed[k].fee + surplus > 0
           THEN Len(paid'[k]) = 2
                /\ paid'[k][2] = Payment(Agreed[k].treasury, Agreed[k].fee + surplus)
           ELSE Len(paid'[k]) = 1
    BY <2>2, <2>3, ReleasedParts
  <2> QED BY <2>1, <2>2, <2>4 DEF PaidAsAgreed
<1>4. CASE C!Return(j) /\ j = k
  <2>1. /\ Deposited[k] = "held" /\ Deposited'[k] = "returned" /\ Agreed'[k] = Agreed[k]
        /\ \E surplus \in 0 .. Gift :
             paid'[k] = <<C!Payment(Agreed[k].buyer, Agreed[k].amount + surplus)>>
    BY <1>4 DEF C!Return, Ledgered
  <2>2. /\ Agreed[k].fee \in Nat /\ Agreed[k].amount \in Nat
        /\ Agreed[k].fee < Agreed[k].amount
    BY <1>0, <2>1 DEF PaidAsAgreed
  <2> QED BY <2>1, <2>2 DEF PaidAsAgreed, C!Payment, Payment
<1>5. CASE j # k
  <2>1. /\ Deposited'[k] = Deposited[k] /\ Agreed'[k] = Agreed[k] /\ paid'[k] = paid[k]
    BY <1>1, <1>5 DEF C!Deposit, C!Release, C!Return, Ledgered
  <2> QED BY <1>0, <2>1 DEF PaidAsAgreed
<1> QED BY <1>1, <1>2, <1>3, <1>4, <1>5

LEMMA LedgeredStep == Ledgered /\ [C!Next]_(C!vars) => Ledgered'
<1>1. ASSUME Ledgered, C!Next PROVE Ledgered'
  <2>1. DOMAIN Deposited' = OrderIds /\ DOMAIN Agreed' = OrderIds /\ DOMAIN paid' = OrderIds
    BY <1>1 DEF Ledgered, C!Next, C!Deposit, C!Release, C!Return
  <2> QED BY <1>1, <2>1, CustodyPays DEF Ledgered
<1>2. ASSUME Ledgered, UNCHANGED C!vars PROVE Ledgered'
  BY <1>2 DEF Ledgered, PaidAsAgreed, C!vars
<1> QED BY <1>1, <1>2

(* Every token is accounted for: what has left an order's vault is nothing   *)
(* while the order is live and, once it is settled, exactly what             *)
(* complete_order or settle_refund promises of the terms it was made on (a   *)
(* consequence of the refinement).                                           *)
THEOREM PaidInFull == Spec => [](\A k \in OrderIds : PaidAsAgreed(k))
<1>1. C!Init => Ledgered
  BY DEF C!Init, Ledgered, PaidAsAgreed
<1>2. Ledgered => \A k \in OrderIds : PaidAsAgreed(k)
  BY DEF Ledgered
<1> QED BY <1>1, <1>2, LedgeredStep, Refinement, PTL DEF KeepsCustody, C!Spec
==============================================================================
