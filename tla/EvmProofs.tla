------------------------------ MODULE EvmProofs ------------------------------
(***************************************************************************)
(* Proofs about EvmEscrow, for any number of orders, buyers, sellers,      *)
(* tokens and governance calls, any amounts, and any callbacks.            *)
(***************************************************************************)
EXTENDS EvmEscrow, SequenceTheorems, FiniteSetTheorems, WellFoundedInduction, TLAPS

Deposit == {a + d : a \in Amounts, d \in 0 .. Drift}

(* Nothing is paid for an order before it settles, and every order carries   *)
(* an amount that arrived and a fee that was signed.                         *)
StorageOK(os, pd) ==
    \A k \in Keys :
      /\ os[k] # NoOrder => os[k].amount \in Deposit /\ os[k].fee \in Fees
                            /\ os[k].fee < os[k].amount
      /\ os[k].status \in {"None"} \cup Live => pd[k] = <<>>

Agrees(k, o, p) == Stage(o) = Stage(p) /\ TermsOf(k, o) = TermsOf(k, p)

(* What an order's settlement pays in all, and how the open call divides it  *)
(* into what is paid and what is left.                                       *)
Due(k, o) == IF o.status = "Completed" THEN Proceeds(o)
             ELSE <<Payment(BuyerOf(k), o.amount)>>

Remaining(k) ==
    LET due == Due(k, orders[k]) IN
    \/ paid[k] = <<>> /\ call.rest = due
    \/ Len(due) = 2 /\ paid[k] = <<due[1]>> /\ call.rest = <<due[2]>>

(* While a call is open: what a revert would restore is sound, every other   *)
(* order stands where it stood, but for a seller's confirmation, and the     *)
(* call's own order is as far as the call has come.                          *)
PullOK ==
    call.kind = "pull" => \A k \in call.order :
      /\ call.saved.orders[k] = NoOrder /\ paid[k] = call.saved.paid[k]
      /\ orders[k].status \in Live /\ orders[k].amount = call.amount

PayOK ==
    call.kind = "pay" =>
      /\ Len(call.rest) \in {1, 2}
      /\ \A k \in call.order :
           /\ call.saved.orders[k].status \in Live
           /\ orders[k].status \in {"Completed", "Refunded"}
           /\ TermsOf(k, orders[k]) = TermsOf(k, call.saved.orders[k])
           /\ Remaining(k)

CallOK ==
    ~Idle =>
      /\ StorageOK(call.saved.orders, call.saved.paid)
      /\ \A a \in Assets : call.saved.held[a] >= call.saved.escrow[a]
      /\ \A k \in Keys : k \notin call.order =>
           Agrees(k, orders[k], call.saved.orders[k]) /\ paid[k] = call.saved.paid[k]
      /\ PullOK /\ PayOK

IndInv == TypeOK /\ StorageOK(orders, paid) /\ CallOK /\ Solvent

----------------------------------------------------------------------------
(* Types, taken apart and put together.                                      *)

LEMMA BuyerType == \A k \in Keys : BuyerOf(k) \in Buyers
  BY DEF Keys, BuyerOf

LEMMA Unpack ==
    ASSUME TypeOK
    PROVE  /\ orders \in [Keys -> {NoOrder} \cup Order] /\ paid \in [Keys -> Seq(Payments)]
           /\ escrow \in [Assets -> Nat] /\ held \in [Assets -> Nat] /\ settings \in Setting
           /\ now \in Nat /\ changes \in Nat /\ call \in {NoCall} \cup Pull \cup Pay
           /\ \A k \in Keys : orders[k] # NoOrder => orders[k].fee < orders[k].amount
  BY DEF TypeOK, Saved, Storage

LEMMA Pack ==
    ASSUME orders \in [Keys -> {NoOrder} \cup Order], paid \in [Keys -> Seq(Payments)],
           escrow \in [Assets -> Nat], held \in [Assets -> Nat], settings \in Setting,
           now \in Nat, changes \in Nat, call \in {NoCall} \cup Pull \cup Pay,
           \A k \in Keys : orders[k] # NoOrder => orders[k].fee < orders[k].amount
    PROVE  TypeOK
  BY DEF TypeOK, Saved, Storage

(* An idle contract owes nothing beyond its escrow.                          *)
LEMMA IdleOwes == Idle => \A a \in Assets : Outgoing(a) = 0
  BY DEF Idle, Outgoing, NoCall

LEMMA OpenCall == TypeOK /\ ~Idle => call \in Pull \cup Pay
  BY Unpack DEF Idle

(* A call that begins from an idle contract saves a sound state.             *)
LEMMA SavedSound ==
    ASSUME IndInv, Idle
    PROVE  /\ Saved \in Storage
           /\ StorageOK(Saved.orders, Saved.paid)
           /\ \A a \in Assets : Saved.held[a] >= Saved.escrow[a]
<1>1. Saved \in Storage /\ Saved.orders = orders /\ Saved.paid = paid
      /\ Saved.held = held /\ Saved.escrow = escrow
  BY DEF IndInv, TypeOK, Saved
<1>2. \A a \in Assets : held[a] >= escrow[a]
  <2> SUFFICES ASSUME NEW a \in Assets PROVE held[a] >= escrow[a]
    OBVIOUS
  <2>1. held[a] >= escrow[a] + Outgoing(a) /\ Outgoing(a) = 0
    BY IdleOwes DEF IndInv, Solvent
  <2>2. escrow[a] \in Nat /\ held[a] \in Nat
    BY Unpack DEF IndInv
  <2> QED BY <2>1, <2>2
<1> QED BY <1>1, <1>2 DEF IndInv

----------------------------------------------------------------------------
(* Creating an order.                                                        *)

LEMMA NewOrderType ==
    ASSUME IndInv, NEW q \in Quotes, MayOpen(q)
    PROVE  LET o == NewOrder(q) IN
           /\ o \in Order /\ o # NoOrder /\ o.status = "Pending" /\ o.token = q.token
           /\ o.amount = q.amount /\ o.fee = q.fee /\ o.fee < o.amount
           /\ q.key \in Keys /\ q.token \in Assets
           /\ q.amount \in Amounts /\ q.amount \in Nat /\ q.fee \in Fees /\ q.amount \in Deposit
<1>1. /\ q.key \in Keys /\ q.seller \in Sellers /\ q.token \in Assets
      /\ q.amount \in Amounts /\ q.fee \in Fees /\ q.amount \in Nat /\ q.fee \in Nat
  BY FiguresAssumption DEF Quotes
<1>2. settings \in Setting /\ now \in Nat
  BY Unpack DEF IndInv
<1>3. /\ settings.merchants[q.seller].payout \in Payouts /\ settings.treasury \in Treasuries
      /\ settings.window \in Nat
  BY <1>1, <1>2, FiguresAssumption DEF Setting
<1>4. now + settings.window \in Nat
  BY <1>2, <1>3
<1>5. q.fee < q.amount
  BY DEF MayOpen, Sound
<1>6. q.amount \in Deposit
  <2>1. q.amount = q.amount + 0 /\ 0 \in 0 .. Drift
    BY <1>1, FiguresAssumption
  <2> QED BY <1>1, <2>1 DEF Deposit
<1> QED BY <1>1, <1>3, <1>4, <1>5, <1>6 DEF NewOrder, Order, NoOrder

LEMMA CreateKeeps ==
    ASSUME IndInv, NEW q \in Quotes, CreateOrder(q) PROVE IndInv'
<1> DEFINE k == q.key
           o == NewOrder(q)
<1>1. /\ o \in Order /\ o # NoOrder /\ o.status = "Pending"
      /\ o.amount = q.amount /\ o.fee = q.fee /\ o.fee < o.amount /\ k \in Keys
      /\ q.amount \in Nat /\ q.fee \in Fees /\ q.amount \in Deposit
  BY NewOrderType DEF CreateOrder
<1>2. /\ orders' = [orders EXCEPT ![k] = o]
      /\ escrow' = [escrow EXCEPT ![Native] = @ + q.amount]
      /\ held' = [held EXCEPT ![Native] = @ + q.amount]
      /\ UNCHANGED <<paid, settings, call, now, changes>> /\ Idle /\ orders[k] = NoOrder
  <2>1. orders[k] \in {NoOrder} \cup Order
    BY <1>1, Unpack DEF IndInv
  <2>2. orders[k] = NoOrder
    BY <2>1 DEF CreateOrder, MayOpen, Order
  <2> QED BY <2>2 DEF CreateOrder
<1> HIDE DEF o, k
<1>3. TypeOK /\ StorageOK(orders, paid)
  BY DEF IndInv
<1>4. TypeOK'
  <2>1. escrow' \in [Assets -> Nat] /\ held' \in [Assets -> Nat]
    <3>1. Native \in Assets
      BY DEF Assets
    <3>2. escrow[Native] + q.amount \in Nat /\ held[Native] + q.amount \in Nat
      BY <1>1, <1>3, <3>1, Unpack
    <3> QED BY <1>2, <1>3, <3>2, Unpack
  <2>2. orders' \in [Keys -> {NoOrder} \cup Order]
        /\ \A i \in Keys : orders'[i] # NoOrder => orders'[i].fee < orders'[i].amount
    BY <1>1, <1>2, <1>3, Unpack
  <2> QED BY <1>2, <1>3, <2>1, <2>2, Unpack, Pack DEF TypeOK, Saved, Storage
<1>5. StorageOK(orders, paid)'
  BY <1>1, <1>2, <1>3, Unpack DEF StorageOK, NoOrder, Live
<1>6. CallOK'
  BY <1>2 DEF CallOK, Idle
<1>7. Solvent'
  <2> SUFFICES ASSUME NEW a \in Assets PROVE held'[a] >= escrow'[a] + Outgoing(a)'
    BY DEF Solvent
  <2>1. held[a] >= escrow[a] /\ held[a] \in Nat /\ escrow[a] \in Nat
    BY <1>2, SavedSound, <1>3, Unpack DEF Saved
  <2>2. Outgoing(a)' = 0
    BY <1>2 DEF Outgoing, Idle, NoCall
  <2>3. held'[a] >= escrow'[a]
    BY <1>1, <1>2, <1>3, <2>1, Unpack
  <2> QED BY <1>3, <1>2, <1>1, <2>1, <2>2, <2>3, Unpack
<1> QED BY <1>4, <1>5, <1>6, <1>7 DEF IndInv

LEMMA PullStarts ==
    ASSUME IndInv, NEW q \in Quotes, CreateOrderERC20(q) PROVE IndInv'
<1> DEFINE k == q.key
           o == NewOrder(q)
<1>1. /\ o \in Order /\ o # NoOrder /\ o.status = "Pending"
      /\ o.amount = q.amount /\ o.fee = q.fee /\ o.fee < o.amount /\ k \in Keys
      /\ q.amount \in Amounts /\ q.fee \in Fees /\ q.amount \in Deposit
  BY NewOrderType DEF CreateOrderERC20
<1>2. /\ orders' = [orders EXCEPT ![k] = o]
      /\ call' = [kind |-> "pull", order |-> {k}, amount |-> q.amount, saved |-> Saved]
      /\ UNCHANGED <<escrow, held, paid, settings, now, changes>> /\ Idle
  BY DEF CreateOrderERC20
<1>3. orders[k] = NoOrder
  BY <1>1, Unpack DEF CreateOrderERC20, MayOpen, IndInv, Order, NoOrder
<1>4. TypeOK /\ StorageOK(orders, paid)
  BY DEF IndInv
<1> HIDE DEF o, k
<1>5. /\ Saved \in Storage /\ StorageOK(Saved.orders, Saved.paid)
      /\ \A a \in Assets : Saved.held[a] >= Saved.escrow[a]
      /\ Saved.orders = orders /\ Saved.paid = paid
  BY <1>2, SavedSound DEF Saved
<1>6. call' \in Pull
  BY <1>1, <1>2, <1>5 DEF Pull
<1>7. /\ call'.kind = "pull" /\ call'.order = {k} /\ call'.amount = q.amount
      /\ call'.saved = Saved /\ call' # NoCall
  BY <1>2 DEF NoCall
<1>8. TypeOK'
  <2>1. orders' \in [Keys -> {NoOrder} \cup Order]
        /\ \A i \in Keys : orders'[i] # NoOrder => orders'[i].fee < orders'[i].amount
    BY <1>1, <1>2, <1>4, Unpack
  <2> QED BY <1>2, <1>4, <1>6, <2>1, Unpack DEF TypeOK, Saved, Storage
<1>9. StorageOK(orders, paid)'
  BY <1>1, <1>2, <1>3, <1>4, Unpack DEF StorageOK, NoOrder, Live
<1>10. CallOK'
  <2>1. \A i \in Keys : i \notin call'.order =>
          Agrees(i, orders'[i], orders[i]) /\ paid'[i] = paid[i]
    BY <1>1, <1>2, <1>4, <1>7, Unpack DEF Agrees
  <2>2. PullOK'
    BY <1>1, <1>2, <1>3, <1>4, <1>5, <1>7, Unpack DEF PullOK, Live
  <2>3. PayOK'
    BY <1>7 DEF PayOK
  <2> QED BY <1>5, <1>7, <2>1, <2>2, <2>3 DEF CallOK
<1>11. Solvent'
  <2> SUFFICES ASSUME NEW a \in Assets PROVE held'[a] >= escrow'[a] + Outgoing(a)'
    BY DEF Solvent
  <2>1. held[a] >= escrow[a] /\ held[a] \in Nat /\ escrow[a] \in Nat
    BY <1>2, SavedSound, <1>4, Unpack DEF Saved
  <2>2. Outgoing(a)' = 0
    BY <1>7 DEF Outgoing
  <2> QED BY <1>2, <2>1, <2>2
<1> QED BY <1>8, <1>9, <1>10, <1>11 DEF IndInv

LEMMA PullKeeps == ASSUME IndInv, PullTokens PROVE IndInv'
<1>1. PICK k \in call.order, received \in 0 .. call.amount + Drift :
        /\ received >= call.amount
        /\ held' = [held EXCEPT ![orders[k].token] = @ + received]
        /\ escrow' = [escrow EXCEPT ![orders[k].token] = @ + received]
        /\ orders' = [orders EXCEPT ![k].amount = received]
  BY DEF PullTokens
<1>2. call.kind = "pull" /\ call' = NoCall /\ UNCHANGED <<paid, settings, now, changes>>
  BY DEF PullTokens
<1>3. TypeOK /\ StorageOK(orders, paid) /\ ~Idle
  BY <1>2 DEF IndInv, Idle, NoCall
<1>4. call \in Pull
  BY <1>2, <1>3, OpenCall DEF Pay
<1>5. k \in Keys /\ call.amount \in Amounts /\ call.amount \in Nat
  BY <1>4, FiguresAssumption DEF Pull
<1>6. /\ orders[k].status \in Live /\ orders[k].amount = call.amount
  BY <1>2, <1>3 DEF IndInv, CallOK, PullOK
<1>7. orders[k] \in Order /\ orders[k] # NoOrder
  BY <1>3, <1>5, <1>6, Unpack DEF NoOrder, Live
<1>8. received \in Nat /\ received \in Deposit
  <2>1. received - call.amount \in 0 .. Drift /\ received = call.amount + (received - call.amount)
    BY <1>1, <1>5, FiguresAssumption
  <2> QED BY <1>1, <1>5, <2>1, FiguresAssumption DEF Deposit
<1> DEFINE o == [orders[k] EXCEPT !.amount = received]
<1>9. /\ o \in Order /\ o # NoOrder /\ o.status = orders[k].status /\ o.amount = received
      /\ o.fee = orders[k].fee /\ orders' = [orders EXCEPT ![k] = o]
  BY <1>1, <1>7, <1>8 DEF Order, NoOrder
<1> HIDE DEF o
<1>10. orders[k].fee < orders[k].amount /\ orders[k].fee \in Nat /\ orders[k].fee \in Fees
       /\ orders[k].token \in Assets
  BY <1>3, <1>5, <1>7 DEF StorageOK, Order
<1>11. o.fee < o.amount
  BY <1>1, <1>5, <1>6, <1>8, <1>9, <1>10
<1>12. TypeOK'
  <2>1. escrow' \in [Assets -> Nat] /\ held' \in [Assets -> Nat]
    BY <1>1, <1>3, <1>8, <1>10, Unpack
  <2>2. orders' \in [Keys -> {NoOrder} \cup Order]
        /\ \A i \in Keys : orders'[i] # NoOrder => orders'[i].fee < orders'[i].amount
    BY <1>3, <1>5, <1>9, <1>11, Unpack
  <2> QED BY <1>2, <1>3, <2>1, <2>2, Unpack DEF TypeOK, Saved, Storage
<1>13. StorageOK(orders, paid)'
  BY <1>2, <1>3, <1>5, <1>8, <1>9, <1>10, <1>11, Unpack DEF StorageOK
<1>14. CallOK'
  BY <1>2 DEF CallOK, Idle
<1>15. Solvent'
  <2> SUFFICES ASSUME NEW a \in Assets PROVE held'[a] >= escrow'[a] + Outgoing(a)'
    BY DEF Solvent
  <2>1. held[a] >= escrow[a] + Outgoing(a) /\ Outgoing(a) = 0 /\ Outgoing(a)' = 0
    BY <1>2 DEF IndInv, Solvent, Outgoing, NoCall
  <2>2. held[a] \in Nat /\ escrow[a] \in Nat
    BY <1>3, Unpack
  <2>3. \/ held'[a] = held[a] /\ escrow'[a] = escrow[a]
        \/ held'[a] = held[a] + received /\ escrow'[a] = escrow[a] + received
    BY <1>1, <1>3, Unpack
  <2> QED BY <1>8, <2>1, <2>2, <2>3
<1> QED BY <1>12, <1>13, <1>14, <1>15 DEF IndInv

----------------------------------------------------------------------------
(* The life of an order.                                                     *)

LEMMA ConfirmKeeps ==
    ASSUME IndInv, NEW k \in Keys, NEW sender \in Senders, ConfirmOrder(k, sender)
    PROVE  IndInv'
<1> DEFINE o == [orders[k] EXCEPT !.status = "Confirmed"]
<1>1. TypeOK /\ StorageOK(orders, paid)
  BY DEF IndInv
<1>2. /\ orders[k].status = "Pending" /\ orders' = [orders EXCEPT ![k] = o]
      /\ UNCHANGED <<escrow, held, paid, settings, call, now, changes>>
  BY DEF ConfirmOrder
<1>3. orders[k] \in Order /\ orders[k] # NoOrder
  BY <1>1, <1>2, Unpack DEF NoOrder
<1>4. /\ o \in Order /\ o # NoOrder /\ o.status = "Confirmed" /\ o.amount = orders[k].amount
      /\ o.fee = orders[k].fee /\ o.payout = orders[k].payout /\ o.treasury = orders[k].treasury
  BY <1>3 DEF Order, NoOrder
<1>5. Stage(o) = Stage(orders[k]) /\ TermsOf(k, o) = TermsOf(k, orders[k])
  BY <1>2, <1>4 DEF Stage, TermsOf, Live
<1> HIDE DEF o
<1>6. TypeOK'
  <2>1. orders' \in [Keys -> {NoOrder} \cup Order]
        /\ \A i \in Keys : orders'[i] # NoOrder => orders'[i].fee < orders'[i].amount
    BY <1>1, <1>2, <1>3, <1>4, Unpack
  <2> QED BY <1>1, <1>2, <2>1, Unpack DEF TypeOK, Saved, Storage
<1>7. StorageOK(orders, paid)'
  BY <1>1, <1>2, <1>3, <1>4, Unpack DEF StorageOK, Live
<1>8. CallOK'
  <2> SUFFICES ASSUME ~Idle PROVE CallOK'
    BY <1>2 DEF CallOK, Idle
  <2>1. \A i \in Keys : i # k => orders'[i] = orders[i]
    BY <1>1, <1>2, Unpack
  <2>2. orders'[k] = o
    BY <1>1, <1>2, Unpack
  <2>3. \A i \in Keys : i \notin call.order =>
          Agrees(i, orders'[i], call.saved.orders[i]) /\ paid'[i] = call.saved.paid[i]
    BY <1>2, <1>5, <2>1, <2>2 DEF IndInv, CallOK, Agrees
  <2>4. PullOK'
    <3> SUFFICES ASSUME call.kind = "pull", NEW i \in call.order
                 PROVE  /\ call.saved.orders[i] = NoOrder /\ paid[i] = call.saved.paid[i]
                        /\ orders'[i].status \in Live /\ orders'[i].amount = call.amount
      BY <1>2 DEF PullOK
    <3>1. /\ call.saved.orders[i] = NoOrder /\ paid[i] = call.saved.paid[i]
          /\ orders[i].status \in Live /\ orders[i].amount = call.amount
      BY DEF IndInv, CallOK, PullOK
    <3>2. i \in Keys
      BY <1>1, OpenCall DEF Pull, Pay
    <3> QED BY <1>4, <2>1, <2>2, <3>1, <3>2 DEF Live
  <2>5. PayOK'
    <3> SUFFICES ASSUME call.kind = "pay"
                 PROVE  PayOK'
      BY <1>2 DEF PayOK
    <3>1. \A i \in call.order : i \in Keys /\ i # k
      BY <1>1, <1>2, OpenCall DEF IndInv, CallOK, PayOK, Pull, Pay
    <3>2. \A i \in call.order : Remaining(i)' <=> Remaining(i)
      BY <1>2, <2>1, <3>1 DEF Remaining, Due, Proceeds
    <3> QED BY <1>2, <2>1, <3>1, <3>2 DEF IndInv, CallOK, PayOK
  <2> QED BY <1>2, <2>3, <2>4, <2>5 DEF IndInv, CallOK, Idle
<1>9. Solvent'
  BY <1>2 DEF IndInv, Solvent, Outgoing
<1> QED BY <1>6, <1>7, <1>8, <1>9 DEF IndInv

(* The payments of a settlement are one or two and add up to the amount.     *)
LEMMA DueShape ==
    ASSUME TypeOK, NEW k \in Keys, NEW o \in Order, o.fee < o.amount
    PROVE  /\ Due(k, o) \in Seq(Payments)
           /\ \/ Len(Due(k, o)) = 1 /\ Due(k, o)[1].amount = o.amount
              \/ Len(Due(k, o)) = 2 /\ Due(k, o)[1].amount + Due(k, o)[2].amount = o.amount
<1>1. o.amount \in Nat /\ o.fee \in Nat /\ o.amount - o.fee \in Nat
      /\ (o.amount - o.fee) + o.fee = o.amount
  BY DEF Order
<1> DEFINE net == Payment(o.payout, o.amount - o.fee)
           cut == Payment(o.treasury, o.fee)
           back == Payment(BuyerOf(k), o.amount)
<1>2. /\ net \in Payments /\ cut \in Payments /\ back \in Payments
      /\ net.amount = o.amount - o.fee /\ cut.amount = o.fee /\ back.amount = o.amount
  BY <1>1, BuyerType DEF Order, Payment, Payments
<1>3. Due(k, o) = IF o.status # "Completed" THEN <<back>>
                  ELSE IF o.fee > 0 THEN <<net, cut>> ELSE <<net>>
  BY DEF Due, Proceeds
<1> HIDE DEF net, cut, back
<1>4. CASE Due(k, o) = <<net, cut>>
  BY <1>1, <1>2, <1>4
<1>5. CASE Due(k, o) = <<net>> /\ o.fee = 0
  BY <1>1, <1>2, <1>5
<1>6. CASE Due(k, o) = <<back>>
  BY <1>2, <1>6
<1> QED BY <1>1, <1>3, <1>4, <1>5, <1>6

LEMMA SettleKeeps ==
    ASSUME IndInv, Idle, NEW k \in Keys, orders[k].status \in Live,
           NEW status \in {"Completed", "Refunded"}, NEW payouts,
           payouts = Due(k, [orders[k] EXCEPT !.status = status]),
           Settle(k, status, payouts)
    PROVE  IndInv'
<1> DEFINE o == [orders[k] EXCEPT !.status = status]
           t == orders[k].token
<1>1. TypeOK /\ StorageOK(orders, paid)
  BY DEF IndInv
<1>2. orders[k] \in Order /\ orders[k] # NoOrder /\ orders[k].fee < orders[k].amount
  BY <1>1, Unpack DEF NoOrder, Live, StorageOK
<1>3. /\ o \in Order /\ o # NoOrder /\ o.status = status /\ o.amount = orders[k].amount
      /\ o.fee = orders[k].fee /\ TermsOf(k, o) = TermsOf(k, orders[k])
      /\ t \in Assets /\ orders[k].amount \in Nat
  BY <1>2 DEF Order, NoOrder, TermsOf, Live
<1>4. payouts = Due(k, o) /\ orders' = [orders EXCEPT ![k] = o]
  BY DEF Settle
<1>5. /\ escrow[t] >= orders[k].amount
      /\ escrow' = [escrow EXCEPT ![t] = @ - orders[k].amount]
      /\ call' = [kind |-> "pay", order |-> {k}, token |-> t, rest |-> payouts, saved |-> Saved]
      /\ UNCHANGED <<held, paid, settings, now, changes>>
  BY DEF Settle
<1>6. /\ payouts \in Seq(Payments)
      /\ \/ Len(payouts) = 1 /\ payouts[1].amount = orders[k].amount
         \/ Len(payouts) = 2 /\ payouts[1].amount + payouts[2].amount = orders[k].amount
  BY <1>1, <1>2, <1>3, <1>4, DueShape
<1>7. /\ Saved \in Storage /\ StorageOK(Saved.orders, Saved.paid)
      /\ \A a \in Assets : Saved.held[a] >= Saved.escrow[a]
      /\ Saved.orders = orders /\ Saved.paid = paid
      /\ \A a \in Assets : held[a] >= escrow[a]
  BY SavedSound DEF Saved
<1> HIDE DEF o, t
<1>8. call' \in Pay
  BY <1>3, <1>5, <1>6, <1>7 DEF Pay
<1>9. /\ call'.kind = "pay" /\ call'.order = {k} /\ call'.token = t /\ call'.rest = payouts
      /\ call'.saved = Saved
  BY <1>5
<1>10. TypeOK'
  <2>1. orders' \in [Keys -> {NoOrder} \cup Order]
        /\ \A i \in Keys : orders'[i] # NoOrder => orders'[i].fee < orders'[i].amount
    BY <1>1, <1>2, <1>3, <1>4, Unpack
  <2>2. escrow' \in [Assets -> Nat]
    <3>1. escrow[t] - orders[k].amount \in Nat
      BY <1>1, <1>3, <1>5, Unpack
    <3> QED BY <1>1, <1>5, <3>1, Unpack
  <2> QED BY <1>1, <1>5, <1>8, <2>1, <2>2, Unpack DEF TypeOK, Saved, Storage
<1>11. StorageOK(orders, paid)'
  BY <1>1, <1>2, <1>3, <1>4, <1>5, Unpack DEF StorageOK, Live
<1>12. CallOK'
  <2>1. \A i \in Keys : i \notin call'.order =>
          Agrees(i, orders'[i], orders[i]) /\ paid'[i] = paid[i]
    BY <1>1, <1>4, <1>5, <1>9, Unpack DEF Agrees
  <2>2. orders'[k] = o /\ paid'[k] = <<>>
    BY <1>1, <1>4, <1>5, Unpack DEF StorageOK
  <2>3. Remaining(k)'
    BY <1>4, <1>9, <2>2 DEF Remaining
  <2>4. PayOK'
    BY <1>3, <1>6, <1>7, <1>9, <2>2, <2>3 DEF PayOK
  <2>5. PullOK'
    BY <1>9 DEF PullOK
  <2> QED BY <1>7, <1>9, <2>1, <2>4, <2>5 DEF CallOK
<1>13. Solvent'
  <2> SUFFICES ASSUME NEW a \in Assets PROVE held'[a] >= escrow'[a] + Outgoing(a)'
    BY DEF Solvent
  <2>1. held[a] >= escrow[a] /\ held[a] \in Nat /\ escrow[a] \in Nat /\ held'[a] = held[a]
    BY <1>1, <1>5, <1>7, Unpack
  <2>2. CASE a = t
    <3>1. Outgoing(a)' = orders[k].amount
      BY <1>6, <1>9, <2>2 DEF Outgoing
    <3>2. escrow'[a] = escrow[a] - orders[k].amount
      BY <1>1, <1>5, <2>2, Unpack
    <3> QED BY <1>3, <2>1, <3>1, <3>2
  <2>3. CASE a # t
    <3>1. Outgoing(a)' = 0
      BY <1>9, <2>3 DEF Outgoing
    <3>2. escrow'[a] = escrow[a]
      BY <1>1, <1>5, <2>3, Unpack
    <3> QED BY <2>1, <3>1, <3>2
  <2> QED BY <2>2, <2>3
<1> QED BY <1>10, <1>11, <1>12, <1>13 DEF IndInv

LEMMA TailOfPair ==
    ASSUME NEW S, NEW s \in Seq(S), Len(s) = 2
    PROVE  s[1] \in S /\ s[2] \in S /\ Tail(s) = <<s[2]>>
<1>1. s[1] \in S /\ s[2] \in S
  BY ElementOfSeq
<1>2. Tail(s) \in Seq(S) /\ Len(Tail(s)) = 1 /\ Tail(s)[1] = s[2]
  <2>1. s # <<>>
    BY EmptySeq
  <2>2. Tail(s) \in Seq(S) /\ Len(Tail(s)) = 1
        /\ \A i \in 1 .. Len(Tail(s)) : Tail(s)[i] = s[i + 1]
    BY <2>1, HeadTailProperties
  <2> QED BY <2>2
<1> DEFINE t == <<s[2]>>
<1>3. t \in Seq(S) /\ Len(t) = 1 /\ t[1] = s[2]
  BY <1>1
<1> HIDE DEF t
<1> DEFINE w == Tail(s)
<1>4. w \in Seq(S) /\ Len(w) = 1 /\ w[1] = t[1]
  BY <1>2, <1>3
<1> HIDE DEF w
<1>5. \A i \in 1 .. Len(w) : w[i] = t[i]
  <2> SUFFICES ASSUME NEW i \in 1 .. Len(w) PROVE w[i] = t[i]
    OBVIOUS
  <2>1. i = 1
    BY <1>4
  <2> QED BY <1>4, <2>1
<1>6. w = t
  BY <1>3, <1>4, <1>5, SeqEqual
<1> QED BY <1>1, <1>6 DEF t, w

LEMMA Appended ==
    ASSUME NEW S, NEW a \in S, NEW b \in S
    PROVE  Append(<<>>, a) = <<a>> /\ Append(<<a>>, b) = <<a, b>>
<1>1. <<>> \in Seq(S)
  BY EmptySeq
<1>2. Append(<<>>, a) = <<>> \o <<a>>
  BY <1>1, AppendIsConcat
<1>3. <<a>> \in Seq(S)
  OBVIOUS
<1>4. <<>> \o <<a>> = <<a>>
  BY <1>3, ConcatEmptySeq
<1> DEFINE u == Append(<<a>>, b)
           v == <<a, b>>
<1>5. u \in Seq(S) /\ Len(u) = 2 /\ u[1] = a /\ u[2] = b
  BY <1>3
<1>6. v \in Seq(S) /\ Len(v) = 2 /\ v[1] = a /\ v[2] = b
  OBVIOUS
<1> HIDE DEF u, v
<1>7. \A i \in 1 .. Len(u) : u[i] = v[i]
  BY <1>5, <1>6
<1>8. u = v
  BY <1>5, <1>6, <1>7, SeqEqual
<1> QED BY <1>2, <1>4, <1>8 DEF u, v

(* The next payment of an open call is among what it still has to pay.       *)
LEMMA NextPayment ==
    ASSUME IndInv, Payout
    PROVE  /\ call \in Pay /\ ~Idle /\ call.rest \in Seq(Payments) /\ Len(call.rest) \in {1, 2}
           /\ Head(call.rest) = call.rest[1] /\ call.rest[1] \in Payments
           /\ Len(call.rest) = 1 => Outgoing(call.token) = call.rest[1].amount
           /\ Len(call.rest) = 2 =>
                /\ call.rest[2] \in Payments /\ Tail(call.rest) = <<call.rest[2]>>
                /\ Outgoing(call.token) = call.rest[1].amount + call.rest[2].amount
<1>1. call.kind = "pay" /\ ~Idle
  BY DEF Payout, Idle, NoCall
<1>2. call \in Pay
  BY <1>1, OpenCall DEF IndInv, Pull
<1>3. call.rest \in Seq(Payments) /\ Len(call.rest) \in {1, 2}
  BY <1>1, <1>2 DEF Pay, IndInv, CallOK, PayOK
<1>4. Outgoing(call.token) = IF Len(call.rest) = 1 THEN call.rest[1].amount
                             ELSE call.rest[1].amount + call.rest[2].amount
  BY <1>1 DEF Outgoing
<1>5. Head(call.rest) = call.rest[1] /\ call.rest[1] \in Payments
  BY <1>3, ElementOfSeq
<1>6. CASE Len(call.rest) = 2
  BY <1>1, <1>2, <1>3, <1>4, <1>6, TailOfPair
<1> QED BY <1>1, <1>2, <1>3, <1>4, <1>5, <1>6

LEMMA PayoutKeeps == ASSUME IndInv, Payout PROVE IndInv'
<1> DEFINE p == Head(call.rest)
           t == call.token
<1>1. TypeOK /\ StorageOK(orders, paid) /\ CallOK /\ Solvent
  BY DEF IndInv
<1>2. /\ call \in Pay /\ ~Idle /\ call.rest \in Seq(Payments) /\ Len(call.rest) \in {1, 2}
      /\ p = call.rest[1] /\ p \in Payments
      /\ Len(call.rest) = 1 => Outgoing(t) = p.amount
      /\ Len(call.rest) = 2 =>
           /\ call.rest[2] \in Payments /\ Tail(call.rest) = <<call.rest[2]>>
           /\ Outgoing(t) = p.amount + call.rest[2].amount
  BY NextPayment
<1>3. /\ held[t] >= p.amount /\ held' = [held EXCEPT ![t] = @ - p.amount]
      /\ paid' = [k \in Keys |-> IF k \in call.order THEN Append(paid[k], p) ELSE paid[k]]
      /\ call' = IF Len(call.rest) = 1 THEN NoCall ELSE [call EXCEPT !.rest = Tail(@)]
      /\ UNCHANGED <<orders, escrow, settings, now, changes>>
  BY DEF Payout
<1>4. t \in Assets /\ held[t] \in Nat /\ p.amount \in Nat
  BY <1>1, <1>2, Unpack DEF Pay, Payments
<1> HIDE DEF p, t
<1>5. CASE Len(call.rest) = 1
  <2>1. call' = NoCall
    BY <1>3, <1>5
  <2>2. TypeOK'
    <3>1. held' \in [Assets -> Nat]
      <4>1. held[t] - p.amount \in Nat
        BY <1>3, <1>4
      <4> QED BY <1>1, <1>3, <4>1, Unpack
    <3>2. paid' \in [Keys -> Seq(Payments)]
      BY <1>1, <1>2, <1>3, Unpack
    <3> QED BY <1>1, <1>3, <2>1, <3>1, <3>2, Unpack DEF TypeOK, Saved, Storage
  <2>3. StorageOK(orders, paid)'
    <3>1. \A k \in call.order : orders[k].status \in {"Completed", "Refunded"}
      BY <1>1, <1>2 DEF CallOK, PayOK, Pay
    <3> QED BY <1>1, <1>3, <3>1 DEF StorageOK, Live
  <2>4. CallOK'
    BY <2>1 DEF CallOK, Idle
  <2>5. Solvent'
    <3> SUFFICES ASSUME NEW a \in Assets PROVE held'[a] >= escrow'[a] + Outgoing(a)'
      BY DEF Solvent
    <3>1. Outgoing(a)' = 0
      BY <2>1 DEF Outgoing, NoCall
    <3>2. held[a] >= escrow[a] + Outgoing(a) /\ held[a] \in Nat /\ escrow[a] \in Nat
      BY <1>1, Unpack DEF Solvent
    <3>3. CASE a = t
      <4>1. held'[a] = held[a] - p.amount /\ Outgoing(a) = p.amount
        BY <1>1, <1>2, <1>3, <1>5, <3>3, Unpack
      <4> QED BY <1>3, <1>4, <3>1, <3>2, <4>1
    <3>4. CASE a # t
      <4>1. held'[a] = held[a] /\ Outgoing(a) = 0
        BY <1>1, <1>3, <3>4, Unpack DEF Outgoing, t
      <4> QED BY <1>3, <3>1, <3>2, <4>1
    <3> QED BY <3>3, <3>4
  <2> QED BY <2>2, <2>3, <2>4, <2>5 DEF IndInv
<1>6. CASE Len(call.rest) = 2
  <2> DEFINE r == call.rest[2]
  <2>0. r \in Payments /\ r.amount \in Nat /\ Tail(call.rest) = <<r>>
        /\ Outgoing(t) = p.amount + r.amount
    BY <1>2, <1>6 DEF Payments
  <2>1. call' = [call EXCEPT !.rest = <<r>>]
    BY <1>3, <1>6, <2>0
  <2>2. <<r>> \in Seq(Payments) /\ Len(<<r>>) = 1 /\ <<r>>[1] = r
    BY <2>0
  <2>3. /\ call' \in Pay /\ call'.rest = <<r>> /\ call'.kind = "pay" /\ call'.saved = call.saved
        /\ call'.order = call.order /\ call'.token = t
    BY <1>2, <2>1, <2>2 DEF Pay, t
  <2>4. TypeOK'
    <3>1. held' \in [Assets -> Nat]
      <4>1. held[t] - p.amount \in Nat
        BY <1>3, <1>4
      <4> QED BY <1>1, <1>3, <4>1, Unpack
    <3>2. paid' \in [Keys -> Seq(Payments)]
      BY <1>1, <1>2, <1>3, Unpack
    <3> QED BY <1>1, <1>3, <2>3, <3>1, <3>2, Unpack DEF TypeOK, Saved, Storage
  <2>5. StorageOK(orders, paid)'
    <3>1. \A k \in call.order : orders[k].status \in {"Completed", "Refunded"}
      BY <1>1, <1>2 DEF CallOK, PayOK, Pay
    <3> QED BY <1>1, <1>3, <3>1 DEF StorageOK, Live
  <2>6. CallOK'
    <3>1. \A k \in Keys : k \notin call.order =>
            Agrees(k, orders[k], call.saved.orders[k]) /\ paid'[k] = call.saved.paid[k]
      BY <1>1, <1>2, <1>3 DEF CallOK
    <3>2. PayOK'
      <4>1. ASSUME NEW k \in call.order PROVE Remaining(k)'
        <5>1. k \in Keys /\ orders[k].status \in {"Completed", "Refunded"} /\ Remaining(k)
          BY <1>1, <1>2 DEF Pay, CallOK, PayOK
        <5>2. paid[k] = <<>> /\ call.rest = Due(k, orders[k])
          <6>1. \A r2 : Len(<<r2>>) = 1
            OBVIOUS
          <6> QED BY <1>6, <5>1, <6>1 DEF Remaining
        <5>3. paid'[k] = <<p>>
          BY <1>2, <1>3, <5>1, <5>2, Appended
        <5>4. Len(Due(k, orders[k])) = 2 /\ paid'[k] = <<Due(k, orders[k])[1]>>
              /\ call'.rest = <<Due(k, orders[k])[2]>>
          BY <1>2, <1>6, <2>3, <5>2, <5>3
        <5> QED BY <1>3, <5>4 DEF Remaining, Due, Proceeds
      <4>2. Len(call'.rest) \in {1, 2}
        BY <2>2, <2>3
      <4>3. \A k \in call.order :
              /\ call.saved.orders[k].status \in Live
              /\ orders[k].status \in {"Completed", "Refunded"}
              /\ TermsOf(k, orders[k]) = TermsOf(k, call.saved.orders[k])
        BY <1>1, <1>2 DEF Pay, CallOK, PayOK
      <4> QED BY <1>3, <2>3, <4>1, <4>2, <4>3 DEF PayOK
    <3>3. PullOK'
      BY <2>3 DEF PullOK
    <3>4. ~Idle /\ ~Idle'
      BY <1>2, <2>3 DEF Idle, NoCall
    <3> QED BY <1>1, <1>3, <2>3, <3>1, <3>2, <3>3, <3>4 DEF CallOK
  <2>7. Solvent'
    <3> SUFFICES ASSUME NEW a \in Assets PROVE held'[a] >= escrow'[a] + Outgoing(a)'
      BY DEF Solvent
    <3>1. held[a] >= escrow[a] + Outgoing(a) /\ held[a] \in Nat /\ escrow[a] \in Nat
      BY <1>1, Unpack DEF Solvent
    <3>2. CASE a = t
      <4>1. held'[a] = held[a] - p.amount /\ Outgoing(a) = p.amount + r.amount
        BY <1>1, <1>3, <2>0, <3>2, Unpack
      <4>2. Outgoing(a)' = r.amount
        BY <2>2, <2>3, <3>2 DEF Outgoing
      <4> QED BY <1>3, <1>4, <2>0, <3>1, <4>1, <4>2
    <3>3. CASE a # t
      <4>1. held'[a] = held[a] /\ Outgoing(a) = 0
        BY <1>1, <1>3, <3>3, Unpack DEF Outgoing, t
      <4>2. Outgoing(a)' = 0
        BY <2>3, <3>3 DEF Outgoing
      <4> QED BY <1>3, <3>1, <4>1, <4>2
    <3> QED BY <3>2, <3>3
  <2> QED BY <2>4, <2>5, <2>6, <2>7 DEF IndInv
<1> QED BY <1>2, <1>5, <1>6

(* A revert restores what was sound when the call began.                     *)
LEMMA RevertKeeps == ASSUME IndInv, Revert PROVE IndInv'
<1>1. /\ ~Idle /\ call' = NoCall /\ UNCHANGED <<now, changes>>
      /\ orders' = call.saved.orders /\ escrow' = call.saved.escrow
      /\ held' = call.saved.held /\ paid' = call.saved.paid
      /\ settings' = call.saved.settings
  BY DEF Revert
<1>2. /\ StorageOK(call.saved.orders, call.saved.paid)
      /\ \A a \in Assets : call.saved.held[a] >= call.saved.escrow[a]
  BY <1>1 DEF IndInv, CallOK
<1>3. call.saved \in Storage
  BY <1>1, OpenCall DEF IndInv, Pull, Pay
<1>4. TypeOK'
  <2>1. Saved' = call.saved
    BY <1>1, <1>3 DEF Saved, Storage
  <2>2. \A k \in Keys : orders'[k] # NoOrder => orders'[k].fee < orders'[k].amount
    BY <1>1, <1>2 DEF StorageOK
  <2> QED BY <1>1, <1>3, <2>1, <2>2, Unpack DEF IndInv, TypeOK
<1>5. StorageOK(orders, paid)'
  BY <1>1, <1>2 DEF StorageOK
<1>6. CallOK'
  BY <1>1 DEF CallOK, Idle
<1>7. Solvent'
  <2> SUFFICES ASSUME NEW a \in Assets PROVE held'[a] >= escrow'[a] + Outgoing(a)'
    BY DEF Solvent
  <2>1. Outgoing(a)' = 0
    BY <1>1 DEF Outgoing, NoCall
  <2>2. escrow'[a] \in Nat /\ held'[a] >= escrow'[a]
    BY <1>1, <1>2, <1>3 DEF Storage
  <2> QED BY <2>1, <2>2
<1> QED BY <1>4, <1>5, <1>6, <1>7 DEF IndInv

----------------------------------------------------------------------------
(* Governance and the chain.                                                 *)

LEMMA SweepKeeps ==
    ASSUME IndInv, NEW a \in Assets, NEW to \in Treasuries, SweepUnaccounted(a, to)
    PROVE  IndInv'
<1> DEFINE extra == UnaccountedBalance(a)
           p == Payment(to, extra)
<1>1. TypeOK
  BY DEF IndInv
<1>2. /\ Idle /\ extra > 0
      /\ call' = [kind |-> "pay", order |-> {}, token |-> a, rest |-> <<p>>, saved |-> Saved]
      /\ UNCHANGED <<orders, escrow, held, paid, settings, now, changes>>
  BY DEF SweepUnaccounted
<1>3. extra \in Nat /\ held[a] = escrow[a] + extra
  <2>1. held[a] \in Nat /\ escrow[a] \in Nat
    BY <1>1, Unpack
  <2>2. held[a] > escrow[a] /\ extra = held[a] - escrow[a]
    BY <1>2 DEF UnaccountedBalance
  <2> QED BY <2>1, <2>2
<1> HIDE DEF extra
<1>4. p \in Payments /\ p.amount = extra
  BY <1>3 DEF Payment, Payments
<1> HIDE DEF p
<1>5. <<p>> \in Seq(Payments) /\ Len(<<p>>) = 1 /\ <<p>>[1] = p
  BY <1>4
<1>6. /\ Saved \in Storage /\ StorageOK(Saved.orders, Saved.paid)
      /\ \A b \in Assets : Saved.held[b] >= Saved.escrow[b]
      /\ Saved.orders = orders /\ Saved.paid = paid
      /\ \A b \in Assets : held[b] >= escrow[b]
  BY <1>2, SavedSound DEF Saved
<1>7. call' \in Pay
  BY <1>2, <1>5, <1>6 DEF Pay
<1>8. /\ call'.kind = "pay" /\ call'.order = {} /\ call'.token = a /\ call'.rest = <<p>>
      /\ call'.saved = Saved
  BY <1>2
<1>9. TypeOK'
  BY <1>1, <1>2, <1>7, Unpack DEF TypeOK, Saved, Storage
<1>10. StorageOK(orders, paid)'
  BY <1>2 DEF IndInv, StorageOK
<1>11. CallOK'
  <2>1. PullOK' /\ PayOK'
    BY <1>5, <1>8 DEF PullOK, PayOK
  <2> QED BY <1>2, <1>6, <1>8, <2>1 DEF CallOK, Agrees
<1>12. Solvent'
  <2> SUFFICES ASSUME NEW b \in Assets PROVE held'[b] >= escrow'[b] + Outgoing(b)'
    BY DEF Solvent
  <2>1. held[b] >= escrow[b] /\ held[b] \in Nat /\ escrow[b] \in Nat
    BY <1>1, <1>6, Unpack
  <2>2. CASE b = a
    <3>1. Outgoing(b)' = extra
      BY <1>4, <1>5, <1>8, <2>2 DEF Outgoing
    <3> QED BY <1>2, <1>3, <2>1, <2>2, <3>1
  <2>3. CASE b # a
    <3>1. Outgoing(b)' = 0
      BY <1>8, <2>3 DEF Outgoing
    <3> QED BY <1>2, <2>1, <3>1
  <2> QED BY <2>2, <2>3
<1> QED BY <1>9, <1>10, <1>11, <1>12 DEF IndInv

(* Every setter leaves settings of the type they had.                        *)
LEMMA Setters ==
    ASSUME TypeOK, Governance PROVE \E new \in Setting : Govern(new)
<1>1. settings \in Setting
  BY Unpack
<1>2. CASE SetQuoteSigner
  BY <1>1, <1>2 DEF SetQuoteSigner, Setting
<1>3. CASE SetTreasury
  BY <1>1, <1>3 DEF SetTreasury, Setting
<1>4. CASE SetRefundWindow
  BY <1>1, <1>4 DEF SetRefundWindow, Setting
<1>5. CASE Pause
  BY <1>1, <1>5 DEF Pause, Setting
<1>6. CASE Unpause
  BY <1>1, <1>6 DEF Unpause, Setting
<1>7. CASE SetMerchant
  <2>1. PICK s \in Sellers, p \in Payouts, active \in BOOLEAN :
          Govern([settings EXCEPT !.merchants[s] = [payout |-> p, active |-> active]])
    BY <1>7 DEF SetMerchant
  <2>2. [settings EXCEPT !.merchants[s] = [payout |-> p, active |-> active]] \in Setting
    BY <1>1 DEF Setting
  <2> QED BY <2>1, <2>2
<1>8. CASE AddSupportedToken
  <2>1. PICK a \in Tokens : Govern([settings EXCEPT !.tokens = @ \cup {a}])
    BY <1>8 DEF AddSupportedToken
  <2>2. [settings EXCEPT !.tokens = @ \cup {a}] \in Setting
    BY <1>1 DEF Setting, Assets
  <2> QED BY <2>1, <2>2
<1>9. CASE RemoveSupportedToken
  <2>1. PICK a \in Tokens : Govern([settings EXCEPT !.tokens = @ \ {a}])
    BY <1>9 DEF RemoveSupportedToken
  <2>2. [settings EXCEPT !.tokens = @ \ {a}] \in Setting
    BY <1>1 DEF Setting
  <2> QED BY <2>1, <2>2
<1>10. CASE TransferOwnership
  BY <1>1, <1>10 DEF TransferOwnership, Setting
<1>11. CASE AcceptOwnership
  <2>1. [settings EXCEPT !.owner = settings.pending, !.pending = {}] \in Setting
    BY <1>1 DEF Setting
  <2> QED BY <1>11, <2>1 DEF AcceptOwnership
<1>12. CASE RenounceOwnership
  BY <1>1, <1>12 DEF RenounceOwnership, Setting
<1> QED BY <1>2, <1>3, <1>4, <1>5, <1>6, <1>7, <1>8, <1>9, <1>10, <1>11, <1>12 DEF Governance

LEMMA GovernKeeps == ASSUME IndInv, Governance PROVE IndInv'
<1>1. TypeOK
  BY DEF IndInv
<1>2. PICK new \in Setting : Govern(new)
  BY <1>1, Setters
<1>3. /\ settings' = new /\ changes' = changes + 1
      /\ UNCHANGED <<orders, escrow, held, paid, call, now>>
  BY <1>2 DEF Govern
<1>4. TypeOK'
  <2>1. changes' \in Nat
    BY <1>1, <1>3, Unpack
  <2> QED BY <1>1, <1>3, <2>1, Unpack DEF TypeOK, Saved, Storage
<1>5. StorageOK(orders, paid)'
  BY <1>3 DEF IndInv, StorageOK
<1>6. CallOK'
  BY <1>3 DEF IndInv, CallOK, PullOK, PayOK, Remaining, Idle
<1>7. Solvent'
  BY <1>3 DEF IndInv, Solvent, Outgoing
<1> QED BY <1>4, <1>5, <1>6, <1>7 DEF IndInv

LEMMA DonateKeeps == ASSUME IndInv, NEW a \in Assets, Donate(a) PROVE IndInv'
<1>1. TypeOK
  BY DEF IndInv
<1>2. /\ Idle /\ held' = [held EXCEPT ![a] = @ + 1]
      /\ UNCHANGED <<orders, escrow, paid, settings, call, now, changes>>
  BY DEF Donate
<1>3. TypeOK'
  <2>1. held' \in [Assets -> Nat]
    <3>1. held[a] + 1 \in Nat
      BY <1>1, Unpack
    <3> QED BY <1>1, <1>2, <3>1, Unpack
  <2> QED BY <1>1, <1>2, <2>1, Unpack DEF TypeOK, Saved, Storage
<1>4. StorageOK(orders, paid)'
  BY <1>2 DEF IndInv, StorageOK
<1>5. CallOK'
  BY <1>2 DEF CallOK, Idle
<1>6. Solvent'
  <2> SUFFICES ASSUME NEW b \in Assets PROVE held'[b] >= escrow'[b] + Outgoing(b)'
    BY DEF Solvent
  <2>1. held[b] >= escrow[b] /\ held[b] \in Nat /\ escrow[b] \in Nat
    BY <1>1, <1>2, SavedSound, Unpack DEF Saved
  <2>2. Outgoing(b)' = 0
    BY <1>2 DEF Outgoing, Idle, NoCall
  <2>3. held'[b] = held[b] \/ held'[b] = held[b] + 1
    BY <1>1, <1>2, Unpack
  <2> QED BY <1>2, <2>1, <2>2, <2>3
<1> QED BY <1>3, <1>4, <1>5, <1>6 DEF IndInv

LEMMA TickKeeps == ASSUME IndInv, Tick PROVE IndInv'
<1>1. TypeOK
  BY DEF IndInv
<1>2. now' = now + 1 /\ UNCHANGED <<orders, escrow, held, paid, settings, call, changes>>
  BY DEF Tick
<1>3. TypeOK'
  <2>1. now' \in Nat
    BY <1>1, <1>2, Unpack
  <2> QED BY <1>1, <1>2, <2>1, Unpack DEF TypeOK, Saved, Storage
<1> QED BY <1>2, <1>3 DEF IndInv, StorageOK, CallOK, PullOK, PayOK, Remaining, Idle,
                        Solvent, Outgoing

LEMMA ExitKeeps ==
    ASSUME IndInv, NEW k \in Keys, NEW sender \in Senders,
           CompleteOrder(k, sender) \/ RefundOrder(k, sender) \/ TimeoutRefund(k, sender)
    PROVE  IndInv'
<1>1. Idle /\ orders[k].status \in Live
  BY DEF CompleteOrder, RefundOrder, TimeoutRefund, MayRefund, Live
<1>2. orders[k] \in Order
  BY <1>1, Unpack DEF IndInv, NoOrder, Live
<1>3. CASE CompleteOrder(k, sender)
  <2> DEFINE o == [orders[k] EXCEPT !.status = "Completed"]
  <2>1. Proceeds(orders[k]) = Due(k, o)
    BY <1>2 DEF Proceeds, Due, Order
  <2>2. Settle(k, "Completed", Proceeds(orders[k]))
    BY <1>3 DEF CompleteOrder
  <2> QED BY <1>1, <2>1, <2>2, SettleKeeps
<1>4. CASE RefundOrder(k, sender) \/ TimeoutRefund(k, sender)
  <2> DEFINE o == [orders[k] EXCEPT !.status = "Refunded"]
             back == <<Payment(BuyerOf(k), orders[k].amount)>>
  <2>1. back = Due(k, o)
    BY <1>2 DEF Due, Order
  <2>2. Settle(k, "Refunded", back)
    BY <1>4 DEF RefundOrder, TimeoutRefund, SettleRefund
  <2> QED BY <1>1, <2>1, <2>2, SettleKeeps
<1> QED BY <1>3, <1>4

----------------------------------------------------------------------------
(* The inductive invariant.                                                  *)

LEMMA InitHolds == Init => IndInv
<1> SUFFICES ASSUME Init PROVE IndInv
  OBVIOUS
<1>1. settings \in Setting
  <2>1. /\ settings.tokens = {Native} /\ settings.paused = FALSE
        /\ settings \in [owner: OneOf(Owners), pending: {{}},
                         signer: Signers, treasury: Treasuries, window: Windows,
                         paused: {FALSE}, tokens: {{Native}},
                         merchants: {[s \in Sellers |-> [payout |-> p, active |-> FALSE]] :
                                     p \in Payouts}]
    BY DEF Init
  <2>2. PICK p \in Payouts :
          settings.merchants = [s \in Sellers |-> [payout |-> p, active |-> FALSE]]
    BY <2>1
  <2>3. settings.merchants \in [Sellers -> [payout: Payouts, active: BOOLEAN]]
    BY <2>2
  <2>4. {Native} \subseteq Assets
    BY DEF Assets
  <2> QED BY <2>1, <2>3, <2>4 DEF Setting
<1>2. TypeOK
  <2>1. \A k \in Keys : orders[k] = NoOrder
    BY DEF Init
  <2>2. paid \in [Keys -> Seq(Payments)]
    BY EmptySeq DEF Init
  <2>3. orders \in [Keys -> {NoOrder} \cup Order]
    BY DEF Init
  <2>4. escrow \in [Assets -> Nat] /\ held \in [Assets -> Nat]
    BY DEF Init
  <2>5. now \in Nat /\ changes \in Nat /\ call \in {NoCall} \cup Pull \cup Pay
    BY DEF Init
  <2> QED BY <1>1, <2>1, <2>2, <2>3, <2>4, <2>5, Pack
<1>3. StorageOK(orders, paid)
  BY DEF Init, StorageOK
<1>4. CallOK
  BY DEF Init, CallOK, Idle
<1>5. Solvent
  BY DEF Init, Solvent, Outgoing, NoCall
<1> QED BY <1>2, <1>3, <1>4, <1>5 DEF IndInv

LEMMA StepKeeps == IndInv /\ [Next]_vars => IndInv'
<1> SUFFICES ASSUME IndInv, [Next]_vars PROVE IndInv'
  OBVIOUS
<1>1. ASSUME NEW q \in Quotes, CreateOrder(q) PROVE IndInv'
  BY <1>1, CreateKeeps
<1>2. ASSUME NEW q \in Quotes, CreateOrderERC20(q) PROVE IndInv'
  BY <1>2, PullStarts
<1>3. ASSUME NEW k \in Keys, NEW sender \in Senders, ConfirmOrder(k, sender) PROVE IndInv'
  BY <1>3, ConfirmKeeps
<1>4. ASSUME NEW k \in Keys, NEW sender \in Senders,
             CompleteOrder(k, sender) \/ RefundOrder(k, sender) \/ TimeoutRefund(k, sender)
      PROVE  IndInv'
  BY <1>4, ExitKeeps
<1>5. CASE PullTokens
  BY <1>5, PullKeeps
<1>6. CASE Payout
  BY <1>6, PayoutKeeps
<1>7. CASE Revert
  BY <1>7, RevertKeeps
<1>8. ASSUME NEW a \in Assets, NEW to \in Treasuries, SweepUnaccounted(a, to) PROVE IndInv'
  BY <1>8, SweepKeeps
<1>9. CASE Governance
  BY <1>9, GovernKeeps
<1>10. ASSUME NEW a \in Assets, Donate(a) PROVE IndInv'
  BY <1>10, DonateKeeps
<1>11. CASE Tick
  BY <1>11, TickKeeps
<1>12. CASE UNCHANGED vars
  BY <1>12 DEF vars, IndInv, TypeOK, Saved, StorageOK, CallOK, PullOK, PayOK, Remaining,
               Idle, Solvent, Outgoing
<1> QED BY <1>1, <1>2, <1>3, <1>4, <1>5, <1>6, <1>7, <1>8, <1>9, <1>10, <1>11, <1>12 DEF Next

(* What the contract's storage and an open call always satisfy, together.    *)
THEOREM Invariant == Spec => []IndInv
  BY InitHolds, StepKeeps, PTL DEF Spec

(* The storage, what an open call remembers and the clock keep their types,  *)
(* and every order's fee leaves the seller something.                        *)
THEOREM Typed == Spec => []TypeOK
  BY Invariant, PTL DEF IndInv

(* The contract never holds less of an asset than its live orders are owed   *)
(* and the payouts already decided, whatever its callees do.                 *)
THEOREM AlwaysSolvent == Spec => []Solvent
  BY Invariant, PTL DEF IndInv

----------------------------------------------------------------------------
(* Sums over finite sets.  The induction is over sets of good subsets.       *)

First(s) == CHOOSE x \in s : TRUE

(* it computes the sums of f over the subsets of T.                          *)
Solves(it, f, T) ==
    it = [s \in SUBSET T |-> IF s = {} THEN 0 ELSE f[First(s)] + it[s \ {First(s)}]]

(* Induction over the subsets of a finite set, for a set of good ones.       *)
LEMMA OnSubsets ==
    ASSUME NEW D, IsFiniteSet(D), NEW Good,
           \A s \in SUBSET D : (\A t \in SUBSET s : t # s => t \in Good) => s \in Good
    PROVE  \A s \in SUBSET D : s \in Good
<1> DEFINE Bad == {s \in SUBSET D : s \notin Good}
<1> SUFFICES ASSUME Bad # {} PROVE FALSE
  OBVIOUS
<1>1. FiniteSubsetsOf(D) = SUBSET D
  BY FS_FiniteSubsetsOfFinite
<1>2. IsWellFoundedOn(StrictSubsetOrdering(D), SUBSET D)
  <2>1. IsWellFoundedOn(StrictSubsetOrdering(D), FiniteSubsetsOf(D))
    BY FS_StrictSubsetOrderingWellFounded
  <2> QED BY <1>1, <2>1, Zenon
<1>3. Bad \subseteq SUBSET D
  OBVIOUS
<1>4. PICK s \in Bad : \A t \in Bad : <<t, s>> \notin StrictSubsetOrdering(D)
  <2> HIDE DEF Bad
  <2> QED BY <1>2, <1>3, WFMin
<1>5. ASSUME NEW t \in SUBSET s, t # s PROVE t \in Good
  <2>1. t \in SUBSET D /\ s \in SUBSET D
    BY <1>3, <1>4
  <2>2. <<t, s>> \in StrictSubsetOrdering(D)
    BY <1>5, <2>1 DEF StrictSubsetOrdering
  <2> QED BY <1>4, <2>1, <2>2
<1> QED BY <1>4, <1>5

LEMMA FirstIn == \A s : s # {} => First(s) \in s
  BY DEF First

LEMMA SolvesAt ==
    ASSUME NEW f, NEW T, NEW it, Solves(it, f, T), NEW s \in SUBSET T
    PROVE  it[s] = IF s = {} THEN 0 ELSE f[First(s)] + it[s \ {First(s)}]
  BY DEF Solves

(* Two solutions agree where their functions do.                             *)
LEMMA OneSolution ==
    ASSUME NEW f, NEW g, NEW T, NEW U, NEW it, NEW jt,
           Solves(it, f, T), Solves(jt, g, U),
           NEW D, IsFiniteSet(D), D \subseteq T, D \subseteq U, \A x \in D : f[x] = g[x]
    PROVE  \A s \in SUBSET D : it[s] = jt[s]
<1> DEFINE Good == {s \in SUBSET D : it[s] = jt[s]}
<1>1. ASSUME NEW s \in SUBSET D, \A t \in SUBSET s : t # s => t \in Good PROVE s \in Good
  <2>1. s \in SUBSET T /\ s \in SUBSET U
    OBVIOUS
  <2>2. CASE s = {}
    <3>1. it[s] = 0 /\ jt[s] = 0
      BY <2>1, <2>2, SolvesAt
    <3> QED BY <3>1
  <2>3. CASE s # {}
    <3> DEFINE x == First(s)
               t == s \ {x}
    <3>1. x \in s /\ t \in SUBSET s /\ t # s
      BY <2>3, FirstIn
    <3>2. it[t] = jt[t] /\ f[x] = g[x]
      BY <1>1, <3>1
    <3>3. it[s] = f[x] + it[t] /\ jt[s] = g[x] + jt[t]
      BY <2>1, <2>3, SolvesAt
    <3> QED BY <3>2, <3>3
  <2> QED BY <2>2, <2>3
<1> HIDE DEF Good
<1>2. \A s \in SUBSET D : s \in Good
  BY <1>1, OnSubsets
<1> QED BY <1>2 DEF Good

LEMMA SolutionType ==
    ASSUME NEW T, IsFiniteSet(T), NEW f \in [T -> Nat], NEW it, Solves(it, f, T)
    PROVE  \A s \in SUBSET T : it[s] \in Nat
<1> DEFINE Good == {s \in SUBSET T : it[s] \in Nat}
<1>1. ASSUME NEW s \in SUBSET T, \A t \in SUBSET s : t # s => t \in Good PROVE s \in Good
  <2>1. CASE s = {}
    <3>1. it[s] = 0
      BY <2>1, SolvesAt
    <3> QED BY <3>1
  <2>2. CASE s # {}
    <3> DEFINE x == First(s)
               t == s \ {x}
    <3>1. x \in s /\ t \in SUBSET s /\ t # s
      BY <2>2, FirstIn
    <3>2. it[t] \in Nat /\ f[x] \in Nat
      BY <1>1, <3>1
    <3>3. it[s] = f[x] + it[t]
      BY <2>2, SolvesAt
    <3> QED BY <3>2, <3>3
  <2> QED BY <2>1, <2>2
<1> HIDE DEF Good
<1>2. \A s \in SUBSET T : s \in Good
  BY <1>1, OnSubsets
<1> QED BY <1>2 DEF Good

LEMMA Solvable ==
    ASSUME NEW T, IsFiniteSet(T), NEW f
    PROVE  \E it : Solves(it, f, T)
<1> DEFINE Good == {s \in SUBSET T : \E it : Solves(it, f, s)}
           Solution(s) == CHOOSE it : Solves(it, f, s)
<1>1. ASSUME NEW s \in SUBSET T, \A t \in SUBSET s : t # s => t \in Good PROVE s \in Good
  <2> DEFINE x == First(s)
             r == s \ {x}
             it == [t \in SUBSET s |->
                      IF t # s THEN Solution(t)[t]
                      ELSE IF s = {} THEN 0 ELSE f[x] + Solution(r)[r]]
  <2>1. \A t \in SUBSET s : t # s => Solves(Solution(t), f, t)
    BY <1>1
  <2>2. ASSUME NEW t \in SUBSET s
        PROVE  it[t] = IF t = {} THEN 0 ELSE f[First(t)] + it[t \ {First(t)}]
    <3> DEFINE y == First(t)
               u == t \ {y}
    <3> HIDE DEF Solution
    <3>1. CASE t = {}
      <4>1. CASE s = {}
        BY <3>1, <4>1
      <4>2. CASE s # {}
        <5>1. it[t] = Solution(t)[t]
          BY <3>1, <4>2
        <5> QED BY <2>1, <3>1, <4>2, <5>1, SolvesAt
      <4> QED BY <4>1, <4>2
    <3>2. CASE t # {}
      <4>1. u \in SUBSET s /\ u # s /\ u \in SUBSET t /\ u # t /\ y \in t
        BY <3>2, FirstIn
      <4>2. it[u] = Solution(u)[u]
        BY <4>1
      <4>3. CASE t = s
        BY <3>2, <4>2, <4>3
      <4>4. CASE t # s
        <5>1. Solves(Solution(t), f, t) /\ Solves(Solution(u), f, u)
          BY <2>1, <4>1, <4>4
        <5>2. Solution(t)[t] = f[y] + Solution(t)[u]
          BY <3>2, <5>1, SolvesAt
        <5>3. IsFiniteSet(u)
          <6>1. u \in SUBSET T
            BY <4>1
          <6> QED BY <6>1, FS_Subset
        <5>4. Solution(t)[u] = Solution(u)[u]
          <6> HIDE DEF u
          <6> QED BY <4>1, <5>1, <5>3, OneSolution
        <5> QED BY <3>2, <4>2, <4>4, <5>2, <5>4
      <4> QED BY <4>3, <4>4
    <3> QED BY <3>1, <3>2
  <2>3. Solves(it, f, s)
    <3>1. it = [t \in SUBSET s |-> it[t]]
      OBVIOUS
    <3> HIDE DEF it
    <3> QED BY <2>2, <3>1 DEF Solves
  <2> HIDE DEF it
  <2> QED BY <2>3
<1> HIDE DEF Good
<1>2. T \in Good
  BY <1>1, OnSubsets
<1> QED BY <1>2 DEF Good

(* The order in which a sum is taken does not matter.                        *)
LEMMA AnyFirst ==
    ASSUME NEW T, IsFiniteSet(T), NEW f \in [T -> Nat], NEW it, Solves(it, f, T)
    PROVE  \A s \in SUBSET T : \A y \in s : it[s] = f[y] + it[s \ {y}]
<1> DEFINE Good == {s \in SUBSET T : \A y \in s : it[s] = f[y] + it[s \ {y}]}
<1>1. ASSUME NEW s \in SUBSET T, \A t \in SUBSET s : t # s => t \in Good PROVE s \in Good
  <2> SUFFICES ASSUME NEW y \in s PROVE it[s] = f[y] + it[s \ {y}]
    OBVIOUS
  <2> DEFINE x == First(s)
             u == s \ {x}
             v == s \ {y}
             w == (s \ {x}) \ {y}
  <2>1. x \in s /\ it[s] = f[x] + it[u]
    BY FirstIn, SolvesAt
  <2>2. CASE x = y
    BY <2>1, <2>2
  <2>3. CASE x # y
    <3>1. u \in SUBSET s /\ u # s /\ v \in SUBSET s /\ v # s /\ y \in u /\ x \in v
      BY <2>1, <2>3
    <3>2. it[u] = f[y] + it[u \ {y}] /\ it[v] = f[x] + it[v \ {x}]
      BY <1>1, <3>1
    <3>3. u \ {y} = w /\ v \ {x} = w
      OBVIOUS
    <3>4. it[w] \in Nat /\ f[x] \in Nat /\ f[y] \in Nat
      <4>1. w \in SUBSET T
        OBVIOUS
      <4> HIDE DEF w
      <4> QED BY <2>1, <4>1, SolutionType
    <3> HIDE DEF w, u, v, x
    <3>5. it[u] = f[y] + it[w] /\ it[v] = f[x] + it[w]
      BY <3>2, <3>3
    <3>6. it[s] = f[y] + it[v]
      BY <2>1, <3>4, <3>5
    <3> QED BY <3>6 DEF v
  <2> QED BY <2>2, <2>3
<1> HIDE DEF Good
<1>2. \A s \in SUBSET T : s \in Good
  BY <1>1, OnSubsets
<1> QED BY <1>2 DEF Good

LEMMA SumIs ==
    ASSUME NEW f
    PROVE  SumFunction(f) = (CHOOSE it : Solves(it, f, DOMAIN f))[DOMAIN f]
  BY DEF SumFunction, SumFunctionOnSet, FoldFunctionOnSet, MapThenFoldSet, Solves, First

LEMMA SumSolves ==
    ASSUME NEW T, IsFiniteSet(T), NEW f \in [T -> Nat]
    PROVE  \E it : Solves(it, f, T) /\ SumFunction(f) = it[T]
<1>1. \E it : Solves(it, f, T)
  BY Solvable
<1>2. DOMAIN f = T
  OBVIOUS
<1> QED BY <1>1, <1>2, SumIs

LEMMA SumType ==
    ASSUME NEW T, IsFiniteSet(T), NEW f \in [T -> Nat] PROVE SumFunction(f) \in Nat
<1>1. PICK it : Solves(it, f, T) /\ SumFunction(f) = it[T]
  BY SumSolves
<1> QED BY <1>1, SolutionType

LEMMA EmptySum == SumFunction([x \in {} |-> 0]) = 0
<1> DEFINE f == [x \in {} |-> 0]
<1>1. IsFiniteSet({}) /\ f \in [{} -> Nat]
  BY FS_EmptySet
<1> HIDE DEF f
<1>2. PICK it : Solves(it, f, {}) /\ SumFunction(f) = it[{}]
  BY <1>1, SumSolves
<1> QED BY <1>2, SolvesAt DEF f

(* One more summand adds what it is.                                         *)
LEMMA SumAdds ==
    ASSUME NEW T, IsFiniteSet(T), NEW f \in [T -> Nat], NEW k, k \notin T,
           NEW g \in [T \cup {k} -> Nat], \A x \in T : g[x] = f[x]
    PROVE  SumFunction(g) = SumFunction(f) + g[k]
<1> DEFINE U == T \cup {k}
<1>1. IsFiniteSet(U)
  BY FS_AddElement
<1>2. PICK it : Solves(it, f, T) /\ SumFunction(f) = it[T]
  BY SumSolves
<1>3. PICK jt : Solves(jt, g, U) /\ SumFunction(g) = jt[U]
  <2>1. g \in [U -> Nat]
    OBVIOUS
  <2> HIDE DEF U
  <2> QED BY <1>1, <2>1, SumSolves
<1>4. U \ {k} = T
  OBVIOUS
<1>5. jt[U] = g[k] + jt[T]
  <2>1. k \in U /\ U \in SUBSET U /\ g \in [U -> Nat]
    OBVIOUS
  <2> HIDE DEF U
  <2>2. jt[U] = g[k] + jt[U \ {k}]
    BY <1>1, <1>3, <2>1, AnyFirst
  <2> QED BY <1>4, <2>2
<1>6. jt[T] = it[T]
  <2>1. T \subseteq U
    OBVIOUS
  <2> HIDE DEF U
  <2> QED BY <1>2, <1>3, <2>1, OneSolution
<1>7. it[T] \in Nat /\ g[k] \in Nat
  BY <1>2, SolutionType
<1> QED BY <1>2, <1>3, <1>5, <1>6, <1>7

----------------------------------------------------------------------------
(* The ledger.  `out` holds the order whose tokens are still being pulled.   *)

Pulling == IF call.kind = "pull" THEN call.order ELSE {}

HeldFor(os, out, a) ==
    {k \in Keys : os[k].status \in Live /\ os[k].token = a /\ k \notin out}

SumOf(os, out, a) == SumFunction([k \in HeldFor(os, out, a) |-> os[k].amount])

Exact(os, es, out) == \A a \in Assets : es[a] = SumOf(os, out, a)

(* A behaviour only ever places finitely many orders.                        *)
Placed(os) == {k \in Keys : os[k].status # "None"}

LedgerInv ==
    /\ IsFiniteSet(Placed(orders)) /\ Exact(orders, escrow, Pulling)
    /\ ~Idle => /\ IsFiniteSet(Placed(call.saved.orders))
                /\ Exact(call.saved.orders, call.saved.escrow, {})

Book == [Keys -> {NoOrder} \cup Order]

LEMMA StillPlaced ==
    ASSUME NEW os, NEW ps, IsFiniteSet(Placed(os)), NEW k \in Keys,
           \A j \in Keys : j # k => ps[j] = os[j]
    PROVE  IsFiniteSet(Placed(ps))
<1> DEFINE S == Placed(os) \cup {k}
<1>1. IsFiniteSet(S)
  BY FS_AddElement
<1>2. Placed(ps) \in SUBSET S
  BY DEF Placed
<1> HIDE DEF S
<1> QED BY <1>1, <1>2, FS_Subset

LEMMA HeldType ==
    ASSUME NEW os \in Book, IsFiniteSet(Placed(os)), NEW out, NEW a
    PROVE  /\ IsFiniteSet(HeldFor(os, out, a))
           /\ [k \in HeldFor(os, out, a) |-> os[k].amount] \in [HeldFor(os, out, a) -> Nat]
<1>1. HeldFor(os, out, a) \in SUBSET Placed(os)
  BY DEF HeldFor, Placed, Live
<1>2. \A k \in HeldFor(os, out, a) : os[k].amount \in Nat
  BY DEF HeldFor, Live, Book, Order, NoOrder
<1> QED BY <1>1, <1>2, FS_Subset

(* What an asset's live orders are does not depend on their other fields.    *)
LEMMA SameSum ==
    ASSUME NEW os, NEW ps, NEW out, NEW pout, NEW a,
           \A k \in Keys : /\ k \in HeldFor(os, out, a) <=> k \in HeldFor(ps, pout, a)
                           /\ k \in HeldFor(os, out, a) => os[k].amount = ps[k].amount
    PROVE  SumOf(ps, pout, a) = SumOf(os, out, a)
<1>1. HeldFor(os, out, a) = HeldFor(ps, pout, a)
  BY DEF HeldFor
<1> DEFINE S == HeldFor(os, out, a)
<1>2. \A k \in S : os[k].amount = ps[k].amount
  BY DEF HeldFor
<1> HIDE DEF S
<1>3. [k \in S |-> os[k].amount] = [k \in S |-> ps[k].amount]
  BY <1>2
<1>4. SumOf(ps, pout, a) = SumFunction([k \in S |-> ps[k].amount])
  BY <1>1 DEF SumOf, S
<1>5. SumOf(os, out, a) = SumFunction([k \in S |-> os[k].amount])
  BY DEF SumOf, S
<1> QED BY <1>3, <1>4, <1>5

(* One order more in the ledger of an asset.                                 *)
LEMMA Joins ==
    ASSUME NEW os \in Book, NEW ps \in Book, IsFiniteSet(Placed(os)), NEW out, NEW pout, NEW a,
           NEW k \in Keys, k \notin HeldFor(os, out, a), k \in HeldFor(ps, pout, a),
           \A j \in Keys : j # k => ps[j] = os[j] /\ (j \in pout <=> j \in out)
    PROVE  /\ SumOf(ps, pout, a) = SumOf(os, out, a) + ps[k].amount
           /\ SumOf(os, out, a) \in Nat /\ ps[k].amount \in Nat
<1> DEFINE S == HeldFor(os, out, a)
           f == [j \in S |-> os[j].amount]
           g == [j \in S \cup {k} |-> ps[j].amount]
<1>1. IsFiniteSet(S) /\ f \in [S -> Nat] /\ k \notin S
  BY HeldType
<1>2. HeldFor(ps, pout, a) = S \cup {k}
  BY DEF HeldFor
<1>3. g \in [S \cup {k} -> Nat] /\ ps[k].amount \in Nat
  <2>1. IsFiniteSet(Placed(ps))
    BY StillPlaced
  <2>2. [j \in HeldFor(ps, pout, a) |-> ps[j].amount] \in [HeldFor(ps, pout, a) -> Nat]
    BY <2>1, HeldType
  <2>3. g \in [S \cup {k} -> Nat]
    BY <1>2, <2>2
  <2>4. ps[k].amount \in Nat
    BY DEF HeldFor, Live, Book, Order, NoOrder
  <2> QED BY <2>3, <2>4
<1>4. \A j \in S : g[j] = f[j]
  BY <1>1 DEF HeldFor
<1>5. g[k] = ps[k].amount
  OBVIOUS
<1>6. SumOf(os, out, a) = SumFunction(f)
  BY DEF SumOf
<1>7. SumOf(ps, pout, a) = SumFunction(g)
  BY <1>2 DEF SumOf
<1> HIDE DEF S, f, g
<1>8. SumFunction(g) = SumFunction(f) + g[k]
  BY <1>1, <1>3, <1>4, SumAdds
<1>9. SumFunction(f) \in Nat
  BY <1>1, SumType
<1> QED BY <1>3, <1>5, <1>6, <1>7, <1>8, <1>9

OnlyAt(k, os, ps, out, pout) ==
    \A j \in Keys : j # k => ps[j] = os[j] /\ (j \in pout <=> j \in out)

Absent(os, out, k) == \A a \in Assets : k \notin HeldFor(os, out, a)

(* The order k joins the ledger of the asset b with what it is worth.        *)
LEMMA ExactWith ==
    ASSUME NEW os \in Book, NEW ps \in Book, IsFiniteSet(Placed(os)), NEW out, NEW pout,
           NEW es \in [Assets -> Nat], Exact(os, es, out),
           NEW b \in Assets, NEW k \in Keys, k \in HeldFor(ps, pout, b),
           Absent(os, out, k),
           OnlyAt(k, os, ps, out, pout),
           NEW fs, fs = [es EXCEPT ![b] = @ + ps[k].amount]
    PROVE  Exact(ps, fs, pout)
<1> SUFFICES ASSUME NEW a \in Assets PROVE fs[a] = SumOf(ps, pout, a)
  BY DEF Exact
<1>1. es[a] = SumOf(os, out, a)
  BY DEF Exact
<1>2. CASE a = b
  BY <1>1, <1>2, Joins DEF OnlyAt, Absent
<1>3. CASE a # b
  <2>1. ps[k].token = b
    BY DEF HeldFor
  <2>2. \A j \in Keys : /\ j \in HeldFor(os, out, a) <=> j \in HeldFor(ps, pout, a)
                        /\ j \in HeldFor(os, out, a) => os[j].amount = ps[j].amount
    BY <1>3, <2>1 DEF HeldFor, OnlyAt, Absent
  <2>3. SumOf(ps, pout, a) = SumOf(os, out, a)
    BY <2>2, SameSum
  <2> QED BY <1>1, <1>3, <2>3
<1> QED BY <1>2, <1>3

(* The order k leaves it.                                                    *)
LEMMA ExactWithout ==
    ASSUME NEW os \in Book, NEW ps \in Book, IsFiniteSet(Placed(os)), NEW out, NEW pout,
           NEW es \in [Assets -> Nat], Exact(os, es, out),
           NEW b \in Assets, NEW k \in Keys, k \in HeldFor(os, out, b),
           Absent(ps, pout, k),
           OnlyAt(k, os, ps, out, pout),
           NEW fs, fs = [es EXCEPT ![b] = @ - os[k].amount]
    PROVE  Exact(ps, fs, pout)
<1> SUFFICES ASSUME NEW a \in Assets PROVE fs[a] = SumOf(ps, pout, a)
  BY DEF Exact
<1>1. es[a] = SumOf(os, out, a)
  BY DEF Exact
<1>2. CASE a = b
  <2>1. IsFiniteSet(Placed(ps))
    BY StillPlaced DEF OnlyAt
  <2>2. /\ SumOf(os, out, a) = SumOf(ps, pout, a) + os[k].amount
        /\ SumOf(ps, pout, a) \in Nat /\ os[k].amount \in Nat
    BY <1>2, <2>1, Joins DEF OnlyAt, Absent
  <2> QED BY <1>1, <1>2, <2>2
<1>3. CASE a # b
  <2>1. os[k].token = b
    BY DEF HeldFor
  <2>2. \A j \in Keys : /\ j \in HeldFor(os, out, a) <=> j \in HeldFor(ps, pout, a)
                        /\ j \in HeldFor(os, out, a) => os[j].amount = ps[j].amount
    BY <1>3, <2>1 DEF HeldFor, OnlyAt, Absent
  <2>3. SumOf(ps, pout, a) = SumOf(os, out, a)
    BY <2>2, SameSum
  <2> QED BY <1>1, <1>3, <2>3
<1> QED BY <1>2, <1>3

LEMMA IdleLedger == Idle => Pulling = {}
  BY DEF Idle, NoCall, Pulling

(* A call that begins from an idle contract can restore an exact ledger.     *)
LEMMA SavesLedger ==
    ASSUME LedgerInv, Idle, call'.saved = Saved
    PROVE  IsFiniteSet(Placed(call'.saved.orders))
           /\ Exact(call'.saved.orders, call'.saved.escrow, {})
<1>1. call'.saved.orders = orders /\ call'.saved.escrow = escrow
  BY DEF Saved
<1> QED BY <1>1, IdleLedger DEF LedgerInv

LEMMA CreateLedger ==
    ASSUME IndInv, LedgerInv, NEW q \in Quotes, CreateOrder(q) PROVE LedgerInv'
<1> DEFINE k == q.key
           o == NewOrder(q)
<1>1. /\ orders \in Book /\ escrow \in [Assets -> Nat]
      /\ o \in Order /\ o.status = "Pending" /\ o.token = Native /\ o.amount = q.amount
      /\ k \in Keys /\ Native \in Assets
  BY Unpack, NewOrderType DEF IndInv, CreateOrder, Book
<1>2. /\ Idle /\ call' = call /\ orders[k].status = "None"
      /\ orders' = [orders EXCEPT ![k] = o]
      /\ escrow' = [escrow EXCEPT ![Native] = @ + q.amount]
  BY DEF CreateOrder, MayOpen
<1> HIDE DEF k, o
<1>3. orders' \in Book /\ orders'[k] = o /\ \A j \in Keys : j # k => orders'[j] = orders[j]
  BY <1>1, <1>2 DEF Book
<1>4. IsFiniteSet(Placed(orders')) /\ Pulling = {} /\ Pulling' = {} /\ Idle'
  <2>1. Pulling = {} /\ Pulling' = {} /\ Idle'
    BY <1>2 DEF Pulling, Idle, NoCall
  <2> QED BY <1>1, <1>3, <2>1, StillPlaced DEF LedgerInv
<1>5. k \in HeldFor(orders', {}, Native) /\ Absent(orders, {}, k)
  BY <1>1, <1>2, <1>3 DEF HeldFor, Live, Absent
<1>6. Exact(orders', escrow', {})
  <2>1. escrow' = [escrow EXCEPT ![Native] = @ + orders'[k].amount]
    BY <1>1, <1>2, <1>3
  <2>2. Exact(orders, escrow, {})
    BY <1>4 DEF LedgerInv
  <2>3. OnlyAt(k, orders, orders', {}, {})
    BY <1>3 DEF OnlyAt
  <2>4. IsFiniteSet(Placed(orders))
    BY DEF LedgerInv
  <2> QED BY <1>1, <1>3, <1>5, <2>1, <2>2, <2>3, <2>4, ExactWith
<1> QED BY <1>4, <1>6 DEF LedgerInv, Exact, SumOf, HeldFor, Placed

LEMMA PullStartsLedger ==
    ASSUME IndInv, LedgerInv, NEW q \in Quotes, CreateOrderERC20(q) PROVE LedgerInv'
<1> DEFINE k == q.key
<1>1. orders \in Book /\ k \in Keys
  BY Unpack, NewOrderType DEF IndInv, CreateOrderERC20, Book
<1>2. /\ Idle /\ orders[k].status = "None" /\ escrow' = escrow
      /\ orders' = [orders EXCEPT ![k] = NewOrder(q)]
      /\ call' = [kind |-> "pull", order |-> {k}, amount |-> q.amount, saved |-> Saved]
  BY DEF CreateOrderERC20, MayOpen
<1> HIDE DEF k
<1>3. \A j \in Keys : j # k => orders'[j] = orders[j]
  BY <1>1, <1>2 DEF Book
<1>4. Pulling = {} /\ Pulling' = {k} /\ call'.saved = Saved
  BY <1>2 DEF Pulling, Idle, NoCall
<1>5. IsFiniteSet(Placed(orders'))
  BY <1>1, <1>3, StillPlaced DEF LedgerInv
<1>6. Exact(orders', escrow', {k})
  <2> SUFFICES ASSUME NEW a \in Assets PROVE escrow'[a] = SumOf(orders', {k}, a)
    BY DEF Exact
  <2>1. escrow[a] = SumOf(orders, {}, a)
    BY <1>4 DEF LedgerInv, Exact
  <2>2. \A j \in Keys : /\ j \in HeldFor(orders, {}, a) <=> j \in HeldFor(orders', {k}, a)
                        /\ j \in HeldFor(orders, {}, a) => orders[j].amount = orders'[j].amount
    BY <1>2, <1>3 DEF HeldFor, Live
  <2>3. SumOf(orders', {k}, a) = SumOf(orders, {}, a)
    BY <2>2, SameSum
  <2> QED BY <1>2, <2>1, <2>3
<1>7. IsFiniteSet(Placed(call'.saved.orders))
      /\ Exact(call'.saved.orders, call'.saved.escrow, {})
  BY <1>2, <1>4, SavesLedger
<1> QED BY <1>4, <1>5, <1>6, <1>7 DEF LedgerInv, Exact, SumOf, HeldFor, Placed

LEMMA PullLedger == ASSUME IndInv, LedgerInv, PullTokens PROVE LedgerInv'
<1>1. call.kind = "pull" /\ call' = NoCall /\ ~Idle
  BY DEF PullTokens, Idle, NoCall
<1>2. PICK k \in call.order, received \in 0 .. call.amount + Drift :
        /\ escrow' = [escrow EXCEPT ![orders[k].token] = @ + received]
        /\ orders' = [orders EXCEPT ![k].amount = received]
  BY DEF PullTokens
<1>3. call.order = {k} /\ k \in Keys /\ received \in Nat
  <2>1. call \in Pull
    BY <1>1, OpenCall DEF IndInv, Pay
  <2>2. call.amount + Drift \in Nat
    <3>1. call.amount \in Nat /\ Drift \in Nat
      BY <2>1, FiguresAssumption DEF Pull
    <3> QED BY <3>1
  <2> QED BY <2>1, <2>2 DEF Pull
<1>4. orders[k].status \in Live
  BY <1>1, <1>2 DEF IndInv, CallOK, PullOK
<1>5. orders \in Book /\ escrow \in [Assets -> Nat] /\ orders[k] \in Order
  BY <1>3, <1>4, Unpack DEF IndInv, Book, NoOrder, Live
<1> DEFINE o == [orders[k] EXCEPT !.amount = received]
           b == orders[k].token
<1>6. /\ o \in Order /\ o.status \in Live /\ o.token = b /\ o.amount = received
      /\ b \in Assets /\ orders' = [orders EXCEPT ![k] = o]
  BY <1>2, <1>3, <1>4, <1>5 DEF Order
<1>7. escrow' = [escrow EXCEPT ![b] = @ + received]
  BY <1>2
<1> HIDE DEF o, b
<1>8. orders' \in Book /\ orders'[k] = o /\ \A j \in Keys : j # k => orders'[j] = orders[j]
  BY <1>3, <1>5, <1>6 DEF Book
<1>9. Pulling = {k} /\ Pulling' = {} /\ Idle'
  BY <1>1, <1>3 DEF Pulling, Idle, NoCall
<1>10. IsFiniteSet(Placed(orders')) /\ IsFiniteSet(Placed(orders)) /\ Exact(orders, escrow, {k})
  BY <1>3, <1>8, <1>9, StillPlaced DEF LedgerInv
<1>11. k \in HeldFor(orders', {}, b) /\ Absent(orders, {k}, k)
  BY <1>3, <1>6, <1>8 DEF HeldFor, Absent
<1>12. escrow' = [escrow EXCEPT ![b] = @ + orders'[k].amount]
  BY <1>6, <1>7, <1>8
<1>13. OnlyAt(k, orders, orders', {k}, {})
  BY <1>8 DEF OnlyAt
<1>14. Exact(orders', escrow', {})
  BY <1>3, <1>5, <1>6, <1>8, <1>10, <1>11, <1>12, <1>13, ExactWith
<1> QED BY <1>9, <1>10, <1>14 DEF LedgerInv, Exact, SumOf, HeldFor, Placed

LEMMA ConfirmLedger ==
    ASSUME IndInv, LedgerInv, NEW k \in Keys, NEW sender \in Senders, ConfirmOrder(k, sender)
    PROVE  LedgerInv'
<1>1. /\ orders[k].status = "Pending" /\ escrow' = escrow /\ call' = call
      /\ orders' = [orders EXCEPT ![k].status = "Confirmed"]
  BY DEF ConfirmOrder
<1>2. orders \in Book /\ orders[k] \in Order
  BY <1>1, Unpack DEF IndInv, Book, NoOrder
<1> DEFINE o == [orders[k] EXCEPT !.status = "Confirmed"]
<1>3. o.status = "Confirmed" /\ o.token = orders[k].token /\ o.amount = orders[k].amount
      /\ orders' = [orders EXCEPT ![k] = o]
  BY <1>1, <1>2 DEF Order
<1> HIDE DEF o
<1>4. orders'[k] = o /\ \A j \in Keys : j # k => orders'[j] = orders[j]
  BY <1>2, <1>3 DEF Book
<1>5. Pulling' = Pulling /\ (Idle' <=> Idle)
  BY <1>1 DEF Pulling, Idle
<1>6. IsFiniteSet(Placed(orders'))
  BY <1>4, StillPlaced DEF LedgerInv
<1>7. Exact(orders', escrow', Pulling)
  <2> SUFFICES ASSUME NEW a \in Assets PROVE escrow'[a] = SumOf(orders', Pulling, a)
    BY DEF Exact
  <2>1. escrow[a] = SumOf(orders, Pulling, a)
    BY DEF LedgerInv, Exact
  <2>2. PICK out : out = Pulling
    OBVIOUS
  <2>3. \A j \in Keys :
          /\ j \in HeldFor(orders, out, a) <=> j \in HeldFor(orders', out, a)
          /\ j \in HeldFor(orders, out, a) => orders[j].amount = orders'[j].amount
    BY <1>1, <1>3, <1>4 DEF HeldFor, Live
  <2>4. SumOf(orders', out, a) = SumOf(orders, out, a)
    BY <2>3, SameSum
  <2> QED BY <1>1, <2>1, <2>2, <2>4
<1> QED BY <1>1, <1>5, <1>6, <1>7 DEF LedgerInv, Exact, SumOf, HeldFor, Placed

LEMMA SettleLedger ==
    ASSUME IndInv, LedgerInv, Idle, NEW k \in Keys, orders[k].status \in Live,
           NEW status \in {"Completed", "Refunded"}, NEW payouts, Settle(k, status, payouts)
    PROVE  LedgerInv'
<1> DEFINE o == [orders[k] EXCEPT !.status = status]
           b == orders[k].token
<1>1. orders \in Book /\ escrow \in [Assets -> Nat] /\ orders[k] \in Order
  BY Unpack DEF IndInv, Book, NoOrder, Live
<1>2. /\ o \in Order /\ o.status = status /\ b \in Assets
  BY <1>1 DEF Order
<1>3. /\ orders' = [orders EXCEPT ![k] = o]
      /\ escrow' = [escrow EXCEPT ![b] = @ - orders[k].amount]
      /\ call' = [kind |-> "pay", order |-> {k}, token |-> b, rest |-> payouts, saved |-> Saved]
  BY DEF Settle
<1>4. k \in HeldFor(orders, {}, b)
  BY DEF HeldFor
<1> HIDE DEF o, b
<1>5. orders' \in Book /\ orders'[k] = o /\ \A j \in Keys : j # k => orders'[j] = orders[j]
  BY <1>1, <1>2, <1>3 DEF Book
<1>6. Pulling = {} /\ Pulling' = {} /\ call'.saved = Saved
  BY <1>3 DEF Pulling, Idle, NoCall
<1>7. IsFiniteSet(Placed(orders')) /\ IsFiniteSet(Placed(orders)) /\ Exact(orders, escrow, {})
  BY <1>5, <1>6, StillPlaced DEF LedgerInv
<1>8. Absent(orders', {}, k)
  BY <1>2, <1>5 DEF HeldFor, Live, Absent
<1>9. OnlyAt(k, orders, orders', {}, {})
  BY <1>5 DEF OnlyAt
<1>10. Exact(orders', escrow', {})
  BY <1>1, <1>2, <1>3, <1>4, <1>5, <1>7, <1>8, <1>9, ExactWithout
<1>11. IsFiniteSet(Placed(call'.saved.orders))
       /\ Exact(call'.saved.orders, call'.saved.escrow, {})
  BY <1>6, SavesLedger
<1> QED BY <1>3, <1>6, <1>7, <1>10, <1>11 DEF LedgerInv, Exact, SumOf, HeldFor, Placed

LEMMA LedgerStep == IndInv /\ LedgerInv /\ [Next]_vars => LedgerInv'
<1> SUFFICES ASSUME IndInv, LedgerInv, [Next]_vars PROVE LedgerInv'
  OBVIOUS
<1>1. ASSUME UNCHANGED <<orders, escrow, call>> PROVE LedgerInv'
  BY <1>1 DEF LedgerInv, Pulling, Idle, Exact, SumOf, HeldFor, Placed
<1>2. ASSUME NEW k \in Keys, NEW sender \in Senders,
             CompleteOrder(k, sender) \/ RefundOrder(k, sender) \/ TimeoutRefund(k, sender)
      PROVE  LedgerInv'
  <2>1. Idle /\ orders[k].status \in Live
    BY <1>2 DEF CompleteOrder, RefundOrder, TimeoutRefund, MayRefund, Live
  <2>2. PICK status \in {"Completed", "Refunded"} : \E payouts : Settle(k, status, payouts)
    BY <1>2 DEF CompleteOrder, RefundOrder, TimeoutRefund, SettleRefund
  <2> QED BY <2>1, <2>2, SettleLedger
<1>3. CASE Payout
  <2>1. call.kind = "pay" /\ orders' = orders /\ escrow' = escrow /\ ~Idle
    BY <1>3 DEF Payout, Idle, NoCall
  <2>2. call' = NoCall \/ (call'.kind = "pay" /\ call'.saved = call.saved)
    <3>1. call \in Pay
      BY <2>1, OpenCall DEF IndInv, Pull
    <3> QED BY <1>3, <3>1 DEF Payout, Pay
  <2>3. Pulling = {} /\ Pulling' = {}
    BY <2>1, <2>2 DEF Pulling, NoCall
  <2>4. IsFiniteSet(Placed(orders')) /\ Exact(orders', escrow', Pulling')
    BY <2>1, <2>3 DEF LedgerInv, Exact, SumOf, HeldFor, Placed
  <2>5. ~Idle' => /\ IsFiniteSet(Placed(call'.saved.orders))
                  /\ Exact(call'.saved.orders, call'.saved.escrow, {})
    BY <2>1, <2>2 DEF LedgerInv, Idle
  <2> QED BY <2>4, <2>5 DEF LedgerInv, Exact, SumOf, HeldFor, Placed
<1>4. CASE Revert
  <2>1. /\ ~Idle /\ call' = NoCall
        /\ orders' = call.saved.orders /\ escrow' = call.saved.escrow
    BY <1>4 DEF Revert
  <2>2. Pulling' = {} /\ Idle'
    BY <2>1 DEF Pulling, Idle, NoCall
  <2> QED BY <2>1, <2>2 DEF LedgerInv, Exact, SumOf, HeldFor, Placed
<1>5. ASSUME NEW a \in Assets, NEW to \in Treasuries, SweepUnaccounted(a, to) PROVE LedgerInv'
  <2>1. /\ Idle /\ orders' = orders /\ escrow' = escrow
        /\ call'.saved = Saved /\ call'.kind = "pay"
    BY <1>5 DEF SweepUnaccounted
  <2>2. Pulling = {} /\ Pulling' = {}
    BY <2>1 DEF Pulling, Idle, NoCall
  <2>3. IsFiniteSet(Placed(call'.saved.orders))
        /\ Exact(call'.saved.orders, call'.saved.escrow, {})
    BY <2>1, SavesLedger
  <2> QED BY <2>1, <2>2, <2>3 DEF LedgerInv, Exact, SumOf, HeldFor, Placed
<1>6. CASE Governance
  <2>1. UNCHANGED <<orders, escrow, call>>
    BY <1>6, Setters DEF IndInv, Govern
  <2> QED BY <1>1, <2>1
<1> QED BY <1>1, <1>2, <1>3, <1>4, <1>5, <1>6, CreateLedger, PullStartsLedger, PullLedger,
           ConfirmLedger DEF Next, Donate, Tick, vars

LEMMA LedgerInit == Init => LedgerInv
<1> SUFFICES ASSUME Init PROVE LedgerInv
  OBVIOUS
<1>1. Placed(orders) = {} /\ Idle
  BY DEF Init, Placed, NoOrder, Idle
<1>2. \A a \in Assets : SumOf(orders, Pulling, a) = 0
  <2> TAKE a \in Assets
  <2>1. HeldFor(orders, Pulling, a) = {}
    BY DEF Init, HeldFor, NoOrder, Live
  <2>2. [k \in HeldFor(orders, Pulling, a) |-> orders[k].amount] = [k \in {} |-> 0]
    BY <2>1
  <2> QED BY <2>2, EmptySum DEF SumOf
<1> QED BY <1>1, <1>2, FS_EmptySet DEF LedgerInv, Exact, Init

(* escrowBalance is the sum of the deposits of the live orders, for any      *)
(* number of orders and assets, whatever runs inside the callbacks and       *)
(* whichever calls revert.                                                   *)
THEOREM LedgerStaysExact == Spec => []LedgerIsExact
<1>1. ASSUME LedgerInv PROVE LedgerIsExact
  <2> SUFFICES ASSUME NEW a \in Assets
               PROVE  escrow[a] = SumFunction([k \in Deposits(a) |-> orders[k].amount])
    BY DEF LedgerIsExact
  <2>1. Deposits(a) = HeldFor(orders, Pulling, a)
    BY DEF Deposits, HeldFor, Pulling
  <2>2. escrow[a] = SumOf(orders, Pulling, a)
    BY <1>1 DEF LedgerInv, Exact
  <2> QED BY <2>1, <2>2 DEF SumOf
<1>2. LedgerInv /\ IndInv /\ [Next]_vars => LedgerInv'
  BY LedgerStep
<1> QED BY <1>1, <1>2, LedgerInit, Invariant, PTL DEF Spec

(* The balance checks before a settlement and before each of its payments    *)
(* never refuse: _debitEscrow finds the order's amount in its escrow, and    *)
(* the contract owns what it is about to pay.                                *)
NeverShort ==
    /\ \A k \in Keys \ Pulling :
         orders[k].status \in Live => escrow[orders[k].token] >= orders[k].amount
    /\ call.kind = "pay" => held[call.token] >= Head(call.rest).amount

(* No live order is stranded by the figures: whatever happened before, a     *)
(* settlement passes every check of balances (what OneExit and AlwaysAWayOut *)
(* need of the ledger).                                                      *)
THEOREM SettlesInFull == Spec => []NeverShort
<1>1. ASSUME IndInv, LedgerInv, NEW k \in Keys \ Pulling, orders[k].status \in Live
      PROVE  escrow[orders[k].token] >= orders[k].amount
  <2> DEFINE a == orders[k].token
             os == [orders EXCEPT ![k] = NoOrder]
  <2>1. orders \in Book /\ orders[k] \in Order /\ a \in Assets
    BY <1>1, Unpack DEF IndInv, Book, NoOrder, Live, Order
  <2>2. os \in Book /\ os[k] = NoOrder /\ \A j \in Keys : j # k => orders[j] = os[j]
    BY <2>1 DEF Book
  <2> HIDE DEF os
  <2>3. IsFiniteSet(Placed(os))
    BY <1>1, <2>2, StillPlaced DEF LedgerInv
  <2>4. k \notin HeldFor(os, Pulling, a) /\ k \in HeldFor(orders, Pulling, a)
    BY <1>1, <2>2 DEF HeldFor, NoOrder, Live
  <2>5. /\ SumOf(orders, Pulling, a) = SumOf(os, Pulling, a) + orders[k].amount
        /\ SumOf(os, Pulling, a) \in Nat /\ orders[k].amount \in Nat
    BY <2>1, <2>2, <2>3, <2>4, Joins
  <2>6. escrow[a] = SumOf(orders, Pulling, a)
    BY <1>1, <2>1 DEF LedgerInv, Exact
  <2> QED BY <2>5, <2>6
<1>2. ASSUME IndInv, call.kind = "pay" PROVE held[call.token] >= Head(call.rest).amount
  <2>1. call \in Pay /\ Len(call.rest) \in {1, 2}
    BY <1>2, OpenCall DEF IndInv, CallOK, PayOK, Idle, NoCall, Pull
  <2> DEFINE a == call.token
             p == Head(call.rest)
  <2>2. a \in Assets /\ p = call.rest[1] /\ call.rest \in Seq(Payments)
    BY <2>1 DEF Pay
  <2>3. \A i \in 1 .. Len(call.rest) : call.rest[i].amount \in Nat
    <3>1. \A i \in 1 .. Len(call.rest) : call.rest[i] \in Payments
      BY <2>2
    <3> QED BY <3>1 DEF Payments
  <2>4. Outgoing(a) \in Nat /\ Outgoing(a) >= p.amount /\ p.amount \in Nat
    <3>1. call.rest[1].amount \in Nat
      BY <2>1, <2>3
    <3>2. Len(call.rest) = 2 => call.rest[2].amount \in Nat
      BY <2>3
    <3> HIDE DEF p
    <3> QED BY <1>2, <2>1, <2>2, <3>1, <3>2 DEF Outgoing
  <2>5. held[a] >= escrow[a] + Outgoing(a) /\ escrow[a] \in Nat /\ held[a] \in Nat
    BY <1>2, <2>2, Unpack DEF IndInv, Solvent
  <2> HIDE DEF a, p
  <2>6. held[a] >= p.amount
    BY <2>4, <2>5
  <2> QED BY <2>6 DEF a, p
<1>3. IndInv /\ LedgerInv => NeverShort
  BY <1>1, <1>2 DEF NeverShort
<1>4. LedgerInv /\ IndInv /\ [Next]_vars => LedgerInv'
  BY LedgerStep
<1> QED BY <1>3, <1>4, LedgerInit, Invariant, PTL DEF Spec

----------------------------------------------------------------------------
(* The contract implements Custody.                                          *)

LEMMA InitRefines == Init => C!Init
  BY DEF Init, C!Init, Deposited, Agreed, ShownOrders, ShownPaid, Idle, Stage, TermsOf,
         NoOrder, Live

(* Whatever changes of an order's record but its stage and its terms, and    *)
(* whatever an open call has not finished, the abstract state does not show. *)
LEMMA Unshown ==
    ASSUME \A k \in Keys : Agrees(k, ShownOrders'[k], ShownOrders[k]),
           ShownPaid' = ShownPaid
    PROVE  UNCHANGED C!vars
  BY DEF C!vars, Deposited, Agreed, Agrees

LEMMA Untouched == UNCHANGED <<orders, paid, call>> => UNCHANGED C!vars
<1> SUFFICES ASSUME UNCHANGED <<orders, paid, call>> PROVE UNCHANGED C!vars
  OBVIOUS
<1>1. ShownOrders' = ShownOrders /\ ShownPaid' = ShownPaid
  BY DEF ShownOrders, ShownPaid, Idle
<1> QED BY <1>1, Unshown DEF Agrees

(* Where one order alone changes, the mapped functions change there only.    *)
LEMMA OneOrder ==
    ASSUME NEW k \in Keys, NEW o,
           \A i \in Keys : i # k => Agrees(i, ShownOrders'[i], ShownOrders[i]),
           Agrees(k, ShownOrders'[k], o)
    PROVE  /\ Deposited' = [Deposited EXCEPT ![k] = Stage(o)]
           /\ Agreed' = [Agreed EXCEPT ![k] = TermsOf(k, o)]
  BY DEF Deposited, Agreed, Agrees

(* A function that calls out has done nothing yet.                           *)
LEMMA Starting == ASSUME Idle, call'.saved = Saved, ~Idle' PROVE UNCHANGED C!vars
<1>1. ShownOrders' = ShownOrders /\ ShownPaid' = ShownPaid
  BY DEF ShownOrders, ShownPaid, Saved
<1> QED BY <1>1, Unshown DEF Agrees

LEMMA TermsKept ==
    ASSUME NEW k \in Keys, NEW o \in Order, o.status \in Live,
           o.amount \in Deposit, o.fee \in Fees, o.fee < o.amount
    PROVE  /\ Stage(o) = "held" /\ TermsOf(k, o) \in TermsSpace
           /\ TermsOf(k, o).fee < TermsOf(k, o).amount
<1>1. TermsOf(k, o) = [buyer |-> BuyerOf(k), payee |-> o.payout, treasury |-> o.treasury,
                       amount |-> o.amount, fee |-> o.fee]
  BY DEF TermsOf, Live
<1>2. Stage(o) = "held"
  BY DEF Stage, Live
<1> QED BY <1>1, <1>2, BuyerType DEF TermsSpace, Deposit, Order

LEMMA CreateRefines ==
    ASSUME IndInv, NEW q \in Quotes, CreateOrder(q) PROVE C!Deposit(q.key)
<1> DEFINE k == q.key
           o == NewOrder(q)
<1>1. /\ o \in Order /\ o.status = "Pending" /\ o.amount \in Deposit /\ o.fee \in Fees
      /\ o.fee < o.amount /\ k \in Keys
  BY NewOrderType DEF CreateOrder
<1>2. /\ Idle /\ orders[k].status = "None" /\ orders' = [orders EXCEPT ![k] = o]
      /\ UNCHANGED <<paid, call>>
  BY DEF CreateOrder, MayOpen
<1> HIDE DEF o, k
<1>3. /\ ShownOrders = orders /\ ShownOrders' = orders' /\ ShownPaid' = ShownPaid
  BY <1>2 DEF ShownOrders, ShownPaid, Idle
<1>4. orders' = [i \in Keys |-> IF i = k THEN o ELSE orders[i]]
  BY <1>1, <1>2, Unpack DEF IndInv
<1>5. /\ Deposited' = [Deposited EXCEPT ![k] = Stage(o)]
      /\ Agreed' = [Agreed EXCEPT ![k] = TermsOf(k, o)]
  BY <1>1, <1>3, <1>4, OneOrder DEF Agrees
<1>6. Deposited[k] = "none"
  BY <1>1, <1>2, <1>3 DEF Deposited, Stage, Live
<1>7. Stage(o) = "held" /\ TermsOf(k, o) \in TermsSpace /\ TermsOf(k, o).fee < TermsOf(k, o).amount
  BY <1>1, TermsKept DEF Live
<1> QED BY <1>3, <1>5, <1>6, <1>7 DEF C!Deposit, k

LEMMA PullRefines == ASSUME IndInv, PullTokens PROVE C!Next
<1>1. PICK k \in call.order, received \in 0 .. call.amount + Drift :
        orders' = [orders EXCEPT ![k].amount = received]
  BY DEF PullTokens
<1>2. call.kind = "pull" /\ call' = NoCall /\ paid' = paid /\ ~Idle /\ Idle'
  BY DEF PullTokens, Idle, NoCall
<1>3. TypeOK /\ IndInv'
  BY PullKeeps DEF IndInv
<1>4. call \in Pull
  BY <1>2, <1>3, OpenCall DEF Pay
<1>5. k \in Keys /\ call.order = {k} /\ call.saved \in Storage
  BY <1>4 DEF Pull
<1>6. /\ call.saved.orders[k] = NoOrder /\ paid[k] = call.saved.paid[k]
      /\ orders[k].status \in Live
      /\ \A i \in Keys : i # k => Agrees(i, orders[i], call.saved.orders[i])
                                  /\ paid[i] = call.saved.paid[i]
  BY <1>2, <1>5 DEF IndInv, CallOK, PullOK
<1>7. /\ ShownOrders = call.saved.orders /\ ShownOrders' = orders'
      /\ ShownPaid = call.saved.paid /\ ShownPaid' = paid
  BY <1>2 DEF ShownOrders, ShownPaid
<1>8. ShownPaid' = ShownPaid
  <2>1. paid \in [Keys -> Seq(Payments)] /\ call.saved.paid \in [Keys -> Seq(Payments)]
    BY <1>3, <1>5, Unpack DEF Storage
  <2>2. \A i \in Keys : paid[i] = call.saved.paid[i]
    BY <1>6
  <2> QED BY <1>7, <2>1, <2>2
<1> DEFINE o == orders'[k]
<1>9. /\ o.status \in Live
      /\ \A i \in Keys : i # k => orders'[i] = orders[i]
  <2>1. orders[k] \in Order
    BY <1>3, <1>5, <1>6, Unpack DEF Live, NoOrder
  <2> QED BY <1>1, <1>3, <1>5, <1>6, <2>1, Unpack DEF Order
<1>10. o \in Order /\ o.amount \in Deposit /\ o.fee \in Fees /\ o.fee < o.amount
  <2>1. orders' \in [Keys -> {NoOrder} \cup Order] /\ StorageOK(orders, paid)'
    BY <1>3 DEF IndInv, TypeOK, Saved, Storage
  <2>2. o # NoOrder
    BY <1>9 DEF Live, NoOrder
  <2> QED BY <1>5, <2>1, <2>2 DEF StorageOK
<1>11. Stage(o) = "held" /\ TermsOf(k, o) \in TermsSpace /\ TermsOf(k, o).fee < TermsOf(k, o).amount
  BY <1>5, <1>9, <1>10, TermsKept
<1>12. /\ Deposited' = [Deposited EXCEPT ![k] = Stage(o)]
       /\ Agreed' = [Agreed EXCEPT ![k] = TermsOf(k, o)]
  <2>1. \A i \in Keys : i # k => Agrees(i, ShownOrders'[i], ShownOrders[i])
    BY <1>6, <1>7, <1>9
  <2>2. Agrees(k, ShownOrders'[k], o)
    BY <1>7 DEF Agrees
  <2> HIDE DEF o
  <2> QED BY <1>5, <2>1, <2>2, OneOrder
<1>13. Deposited[k] = "none"
  BY <1>5, <1>6, <1>7 DEF Deposited, Stage, NoOrder, Live
<1>14. C!Deposit(k)
  BY <1>8, <1>11, <1>12, <1>13 DEF C!Deposit
<1> QED BY <1>5, <1>14 DEF C!Next

LEMMA ConfirmRefines ==
    ASSUME IndInv, NEW k \in Keys, NEW sender \in Senders, ConfirmOrder(k, sender)
    PROVE  UNCHANGED C!vars
<1> DEFINE o == [orders[k] EXCEPT !.status = "Confirmed"]
<1>1. /\ orders[k].status = "Pending" /\ orders' = [orders EXCEPT ![k] = o]
      /\ UNCHANGED <<paid, call>>
  BY DEF ConfirmOrder
<1>2. CASE ~Idle
  <2>1. ShownOrders' = ShownOrders /\ ShownPaid' = ShownPaid
    BY <1>1, <1>2 DEF ShownOrders, ShownPaid, Idle
  <2> QED BY <2>1, Unshown DEF Agrees
<1>3. CASE Idle
  <2>1. ShownOrders = orders /\ ShownOrders' = orders' /\ ShownPaid' = ShownPaid
    BY <1>1, <1>3 DEF ShownOrders, ShownPaid, Idle
  <2>2. orders \in [Keys -> {NoOrder} \cup Order]
    BY Unpack DEF IndInv
  <2>3. orders[k] \in Order
    BY <1>1, <2>2 DEF NoOrder
  <2>4. Stage(o) = Stage(orders[k]) /\ TermsOf(k, o) = TermsOf(k, orders[k])
    BY <1>1, <2>3 DEF Stage, TermsOf, Live, Order
  <2> HIDE DEF o
  <2>5. \A i \in Keys : orders'[i] = IF i = k THEN o ELSE orders[i]
    BY <1>1, <2>2
  <2> QED BY <2>1, <2>4, <2>5, Unshown DEF Agrees
<1> QED BY <1>2, <1>3

LEMMA RevertRefines == ASSUME Revert PROVE UNCHANGED C!vars
<1>1. ShownOrders' = ShownOrders /\ ShownPaid' = ShownPaid
  BY DEF Revert, ShownOrders, ShownPaid, Idle
<1> QED BY <1>1, Unshown DEF Agrees

(* What an order has been paid when the last of its payments goes through.   *)
LEMMA LastPayment ==
    ASSUME IndInv, Payout, Len(call.rest) = 1, NEW k \in call.order
    PROVE  paid'[k] = Due(k, orders[k])
<1>1. call \in Pay /\ call.rest \in Seq(Payments)
      /\ Head(call.rest) = call.rest[1] /\ call.rest[1] \in Payments
  BY NextPayment
<1>2. k \in Keys /\ Remaining(k) /\ orders[k].status \in {"Completed", "Refunded"}
  BY <1>1 DEF IndInv, CallOK, PayOK, Pay, Payout, Idle, NoCall
<1>3. paid'[k] = Append(paid[k], Head(call.rest))
  BY <1>2 DEF Payout
<1> DEFINE due == Due(k, orders[k])
<1>4. orders[k] \in Order /\ orders[k].fee < orders[k].amount
  BY <1>2, Unpack DEF IndInv, NoOrder
<1>5. due \in Seq(Payments) /\ \/ due = <<due[1]>> /\ Len(due) = 1
                               \/ due = <<due[1], due[2]>> /\ Len(due) = 2
  <2>1. due \in Seq(Payments)
    BY <1>2, <1>4, DueShape DEF IndInv
  <2> QED BY <2>1 DEF Due, Proceeds
<1> HIDE DEF due
<1>6. CASE paid[k] = <<>> /\ call.rest = due
  <2>1. due = <<due[1]>> /\ due[1] \in Payments
    BY <1>1, <1>5, <1>6
  <2> QED BY <1>1, <1>3, <1>6, <2>1, Appended DEF due
<1>7. CASE Len(due) = 2 /\ paid[k] = <<due[1]>> /\ call.rest = <<due[2]>>
  <2>1. due = <<due[1], due[2]>> /\ due[1] \in Payments /\ due[2] \in Payments
    <3>1. due = <<due[1], due[2]>> /\ due \in Seq(Payments) /\ Len(due) = 2
      BY <1>5, <1>7
    <3>2. 1 \in 1 .. Len(due) /\ 2 \in 1 .. Len(due)
      BY <3>1
    <3> QED BY <3>1, <3>2, ElementOfSeq
  <2>2. Head(call.rest) = due[2]
    BY <1>1, <1>7
  <2> QED BY <1>3, <1>7, <2>1, <2>2, Appended DEF due
<1> QED BY <1>2, <1>6, <1>7 DEF Remaining, due

LEMMA PayoutRefines == ASSUME IndInv, Payout PROVE C!Next \/ UNCHANGED C!vars
<1>1. /\ call.kind = "pay" /\ ~Idle /\ call \in Pay /\ Len(call.rest) \in {1, 2}
      /\ orders' = orders /\ IndInv'
  BY NextPayment, PayoutKeeps DEF Payout
<1>2. /\ \A k \in Keys : k \notin call.order =>
           Agrees(k, orders[k], call.saved.orders[k]) /\ paid[k] = call.saved.paid[k]
      /\ \A k \in call.order :
           /\ call.saved.orders[k].status \in Live
           /\ orders[k].status \in {"Completed", "Refunded"}
           /\ TermsOf(k, orders[k]) = TermsOf(k, call.saved.orders[k])
  BY <1>1 DEF IndInv, CallOK, PayOK
<1>3. \A k \in Keys : k \notin call.order => paid'[k] = paid[k]
  BY DEF Payout
<1>4. paid' \in [Keys -> Seq(Payments)] /\ call.saved.paid \in [Keys -> Seq(Payments)]
  BY <1>1 DEF IndInv, TypeOK, Saved, Storage, Pay
<1>5. CASE Len(call.rest) = 2
  <2>1. call' = [call EXCEPT !.rest = Tail(@)]
    BY <1>5 DEF Payout
  <2>2. call'.saved = call.saved /\ call'.kind = "pay"
    BY <1>1, <2>1 DEF Pay
  <2>3. ShownOrders' = ShownOrders /\ ShownPaid' = ShownPaid
    BY <1>1, <2>2 DEF ShownOrders, ShownPaid, Idle, NoCall
  <2> QED BY <2>3, Unshown DEF Agrees
<1>6. CASE Len(call.rest) = 1
  <2>1. /\ ShownOrders = call.saved.orders /\ ShownOrders' = orders
        /\ ShownPaid = call.saved.paid /\ ShownPaid' = paid'
    BY <1>1, <1>6 DEF Payout, ShownOrders, ShownPaid, Idle
  <2>2. CASE call.order = {}
    <3>1. ShownPaid' = ShownPaid
      <4>1. \A k \in Keys : paid'[k] = call.saved.paid[k]
        BY <1>2, <1>3, <2>2
      <4> HIDE DEF Payments
      <4> QED BY <1>4, <2>1, <4>1
    <3>2. \A k \in Keys : Agrees(k, ShownOrders'[k], ShownOrders[k])
      BY <1>2, <2>1, <2>2 DEF Agrees
    <3> QED BY <3>1, <3>2, Unshown
  <2>3. ASSUME NEW k \in Keys, call.order = {k} PROVE C!Next
    <3> DEFINE o == orders[k]
               was == call.saved.orders[k]
    <3>1. was.status \in Live /\ o.status \in {"Completed", "Refunded"}
          /\ TermsOf(k, o) = TermsOf(k, was)
      BY <1>2, <2>3
    <3>2. paid'[k] = Due(k, o)
      BY <1>6, <2>3, LastPayment
    <3>3. ShownPaid' = [ShownPaid EXCEPT ![k] = Due(k, o)]
      <4>1. \A i \in Keys : i # k => paid'[i] = call.saved.paid[i]
        BY <1>2, <1>3, <2>3
      <4> QED BY <1>4, <2>1, <3>2, <4>1
    <3>4. /\ Deposited' = [Deposited EXCEPT ![k] = Stage(o)]
          /\ Agreed' = [Agreed EXCEPT ![k] = TermsOf(k, o)]
      <4>1. \A i \in Keys : i # k => Agrees(i, ShownOrders'[i], ShownOrders[i])
        BY <1>2, <2>1, <2>3 DEF Agrees
      <4>2. Agrees(k, ShownOrders'[k], o)
        BY <2>1 DEF Agrees
      <4> HIDE DEF o
      <4> QED BY <4>1, <4>2, OneOrder
    <3>5. Deposited[k] = "held" /\ Agreed[k] = TermsOf(k, o)
      BY <2>1, <3>1 DEF Deposited, Agreed, Stage, Live
    <3>6. UNCHANGED Agreed
      BY <3>4, <3>5 DEF Agreed
    <3>7. /\ TermsOf(k, o).buyer = BuyerOf(k) /\ TermsOf(k, o).payee = o.payout
          /\ TermsOf(k, o).treasury = o.treasury
          /\ TermsOf(k, o).amount = o.amount /\ TermsOf(k, o).fee = o.fee
      BY <3>1 DEF TermsOf
    <3>8. o.amount + 0 = o.amount /\ o.fee + 0 = o.fee
      BY <1>1, <3>1, Unpack DEF IndInv, Order, NoOrder
    <3>9. CASE o.status = "Completed"
      <4>1. Due(k, o) = C!Proceeds(Agreed[k], 0)
        BY <3>5, <3>7, <3>8, <3>9 DEF Due, Proceeds, C!Proceeds, Payment, C!Payment
      <4>2. Stage(o) = "released"
        BY <3>9 DEF Stage, Live
      <4> QED BY <3>3, <3>4, <3>5, <3>6, <4>1, <4>2 DEF C!Release, C!Next
    <3>10. CASE o.status = "Refunded"
      <4>1. Due(k, o) = <<C!Payment(Agreed[k].buyer, Agreed[k].amount + 0)>>
        BY <3>5, <3>7, <3>8, <3>10 DEF Due, Payment, C!Payment
      <4>2. Stage(o) = "returned"
        BY <3>10 DEF Stage, Live
      <4> QED BY <3>3, <3>4, <3>5, <3>6, <4>1, <4>2 DEF C!Return, C!Next
    <3> QED BY <3>1, <3>9, <3>10
  <2> QED BY <1>1, <2>2, <2>3 DEF Pay
<1> QED BY <1>1, <1>5, <1>6

LEMMA StepRefines == IndInv /\ [Next]_vars => [C!Next]_(C!vars)
<1> SUFFICES ASSUME IndInv, [Next]_vars PROVE C!Next \/ UNCHANGED C!vars
  OBVIOUS
<1>1. ASSUME NEW q \in Quotes, CreateOrder(q) PROVE C!Next
  <2>1. q.key \in Keys
    BY DEF Quotes
  <2> QED BY <1>1, <2>1, CreateRefines DEF C!Next
<1>2. ASSUME NEW q \in Quotes, CreateOrderERC20(q) PROVE UNCHANGED C!vars
  <2>1. Idle /\ call'.saved = Saved /\ ~Idle'
    BY <1>2 DEF CreateOrderERC20, Idle, NoCall
  <2> QED BY <2>1, Starting
<1>3. ASSUME NEW k \in Keys, NEW sender \in Senders, ConfirmOrder(k, sender)
      PROVE  UNCHANGED C!vars
  BY <1>3, ConfirmRefines
<1>4. ASSUME NEW k \in Keys, NEW sender \in Senders,
             CompleteOrder(k, sender) \/ RefundOrder(k, sender) \/ TimeoutRefund(k, sender)
      PROVE  UNCHANGED C!vars
  <2>1. Idle /\ call'.saved = Saved /\ ~Idle'
    BY <1>4 DEF CompleteOrder, RefundOrder, TimeoutRefund, SettleRefund, Settle, Idle, NoCall
  <2> QED BY <2>1, Starting
<1>5. CASE PullTokens
  BY <1>5, PullRefines
<1>6. CASE Payout
  BY <1>6, PayoutRefines
<1>7. CASE Revert
  BY <1>7, RevertRefines
<1>8. ASSUME NEW a \in Assets, NEW to \in Treasuries, SweepUnaccounted(a, to)
      PROVE  UNCHANGED C!vars
  <2>1. Idle /\ call'.saved = Saved /\ ~Idle'
    BY <1>8 DEF SweepUnaccounted, Idle, NoCall
  <2> QED BY <2>1, Starting
<1>9. CASE Governance
  <2>1. UNCHANGED <<orders, paid, call>>
    BY <1>9, Setters DEF IndInv, Govern
  <2> QED BY <2>1, Untouched
<1>10. CASE \/ \E a \in Assets : Donate(a)
            \/ Tick
            \/ UNCHANGED vars
  <2>1. UNCHANGED <<orders, paid, call>>
    BY <1>10 DEF Donate, Tick, vars
  <2> QED BY <2>1, Untouched
<1> QED BY <1>1, <1>2, <1>3, <1>4, <1>5, <1>6, <1>7, <1>8, <1>9, <1>10 DEF Next

(* The contract keeps custody of every order, whatever runs inside its calls *)
(* out: one deposit, terms that never change, and one payment of all of it   *)
(* to the wallets of those terms.                                            *)
THEOREM Refinement == Spec => KeepsCustody
  BY InitRefines, StepRefines, Invariant, PTL DEF Spec, KeepsCustody, C!Spec
----------------------------------------------------------------------------
(* The way out of the contract.                                              *)

(* What the two refunds ask for, and what either of them writes: one value   *)
(* for each variable, so that the action can be taken exactly when it is     *)
(* open (OneExit says ENABLED where these say Open).                         *)
RefundOpen(k, sender) ==
    /\ Idle /\ MayRefund(k, sender) /\ now <= orders[k].deadline
    /\ escrow[orders[k].token] >= orders[k].amount

TimeoutOpen(k, sender) ==
    /\ Idle /\ orders[k].status \in Live /\ sender = BuyerOf(k)
    /\ now > orders[k].deadline
    /\ escrow[orders[k].token] >= orders[k].amount

RefundDone(k) ==
    /\ orders' = [orders EXCEPT ![k].status = "Refunded"]
    /\ escrow' = [escrow EXCEPT ![orders[k].token] = @ - orders[k].amount]
    /\ call' = [kind |-> "pay", order |-> {k}, token |-> orders[k].token,
                rest |-> <<Payment(BuyerOf(k), orders[k].amount)>>, saved |-> Saved]
    /\ held' = held /\ paid' = paid /\ settings' = settings
    /\ now' = now /\ changes' = changes

LEMMA ExitsOpen ==
    ASSUME NEW k, NEW sender
    PROVE  /\ RefundOrder(k, sender) <=> RefundOpen(k, sender) /\ RefundDone(k)
           /\ TimeoutRefund(k, sender) <=> TimeoutOpen(k, sender) /\ RefundDone(k)
<1> DEFINE guard == escrow[orders[k].token] >= orders[k].amount
<1>1. SettleRefund(k) <=> guard /\ RefundDone(k)
  BY DEF SettleRefund, Settle, RefundDone
<1> QED BY <1>1 DEF RefundOrder, TimeoutRefund, RefundOpen, TimeoutOpen

(* Between transactions the buyer of an order the seller has not accepted    *)
(* has one way out and never two; the buyer of any live order has the        *)
(* timeout as soon as the deadline is past, and not before.                  *)
OneOpenExit ==
    \A k \in Keys : Idle =>
      /\ orders[k].status = "Pending" =>
           (RefundOpen(k, BuyerOf(k)) <=> ~TimeoutOpen(k, BuyerOf(k)))
      /\ orders[k].status \in Live =>
           (TimeoutOpen(k, BuyerOf(k)) <=> now > orders[k].deadline)

(* No sequence of deposits, callbacks, reverts, pauses, delistings or owners *)
(* closes the buyer's exit or opens a second one: OneExit of the run, with   *)
(* what the two refunds check written out in place of ENABLED.               *)
THEOREM OneWayOut == Spec => []OneOpenExit
<1>1. ASSUME IndInv, NeverShort, NEW k \in Keys, Idle, orders[k].status \in Live
      PROVE  /\ escrow[orders[k].token] >= orders[k].amount
             /\ now \in Nat /\ orders[k].deadline \in Nat
  <2>1. k \notin Pulling
    BY <1>1, IdleLedger
  <2>2. orders[k] \in Order
    BY <1>1, Unpack DEF IndInv, NoOrder, Live
  <2> QED BY <1>1, <2>1, <2>2, Unpack DEF NeverShort, IndInv, Order
<1>2. IndInv /\ NeverShort => OneOpenExit
  <2> SUFFICES ASSUME IndInv, NeverShort, NEW k \in Keys, Idle, orders[k].status \in Live
               PROVE  /\ orders[k].status = "Pending" =>
                           (RefundOpen(k, BuyerOf(k)) <=> ~TimeoutOpen(k, BuyerOf(k)))
                      /\ TimeoutOpen(k, BuyerOf(k)) <=> now > orders[k].deadline
    BY DEF OneOpenExit, Live
  <2>1. /\ escrow[orders[k].token] >= orders[k].amount
        /\ now <= orders[k].deadline <=> ~(now > orders[k].deadline)
    BY <1>1
  <2>2. TimeoutOpen(k, BuyerOf(k)) <=> now > orders[k].deadline
    BY <2>1 DEF TimeoutOpen
  <2>3. orders[k].status = "Pending" =>
          (RefundOpen(k, BuyerOf(k)) <=> now <= orders[k].deadline)
    BY <2>1 DEF RefundOpen, MayRefund
  <2> QED BY <2>1, <2>2, <2>3
<1> QED BY <1>2, Invariant, SettlesInFull, PTL

(* A deadline is written once: inside an open call the order keeps the one   *)
(* it had when the call began.                                               *)
DeadlinesKept ==
    ~Idle => \A k \in Keys : call.saved.orders[k].status # "None" =>
               orders[k].deadline = call.saved.orders[k].deadline

(* A record changes in its status and, while its tokens come in, in its      *)
(* amount, unless a revert puts back the one from before the call.           *)
LEMMA RecordKept ==
    ASSUME IndInv, Next, ~Revert, NEW k \in Keys, orders[k].status # "None"
    PROVE  orders'[k].deadline = orders[k].deadline
<1>0. TypeOK /\ orders \in [Keys -> {NoOrder} \cup Order]
  BY Unpack DEF IndInv
<1>01. orders[k] \in Order
  BY <1>0 DEF NoOrder
<1>1. ASSUME NEW q \in Quotes, CreateOrder(q) \/ CreateOrderERC20(q)
      PROVE  orders'[k].deadline = orders[k].deadline
  BY <1>0, <1>1 DEF CreateOrder, CreateOrderERC20, MayOpen, Quotes
<1>2. ASSUME NEW j \in Keys, NEW sender \in Senders,
             ConfirmOrder(j, sender) \/ CompleteOrder(j, sender)
               \/ RefundOrder(j, sender) \/ TimeoutRefund(j, sender)
      PROVE  orders'[k].deadline = orders[k].deadline
  <2>1. PICK status : orders' = [orders EXCEPT ![j].status = status]
    BY <1>2 DEF ConfirmOrder, CompleteOrder, RefundOrder, TimeoutRefund, SettleRefund, Settle
  <2> QED BY <1>0, <1>01, <2>1 DEF Order
<1>3. CASE PullTokens
  <2>1. PICK j, received : orders' = [orders EXCEPT ![j].amount = received]
    BY <1>3 DEF PullTokens
  <2> QED BY <1>0, <1>01, <2>1 DEF Order
<1>4. CASE \/ Payout \/ Tick
           \/ \E a \in Assets, to \in Treasuries : SweepUnaccounted(a, to)
           \/ \E a \in Assets : Donate(a)
  BY <1>4 DEF Payout, Tick, SweepUnaccounted, Donate
<1>5. CASE Governance
  BY <1>0, <1>5, Setters DEF Govern
<1> QED BY <1>1, <1>2, <1>3, <1>4, <1>5 DEF Next

(* A call that is open keeps what a revert would restore, and one that opens *)
(* saves what is there; time never runs back.                                *)
LEMMA CallKept ==
    ASSUME IndInv, Next
    PROVE  /\ Idle /\ ~Idle' => call'.saved.orders = orders
           /\ ~Idle /\ ~Idle' => call'.saved = call.saved
           /\ now' >= now
<1>0. TypeOK /\ now \in Nat
  BY Unpack DEF IndInv
<1>1. ASSUME NEW q \in Quotes, CreateOrder(q) \/ CreateOrderERC20(q)
      PROVE  Idle /\ (~Idle' => call'.saved.orders = orders) /\ now' = now
  BY <1>1 DEF CreateOrder, CreateOrderERC20, Saved, Idle
<1>2. ASSUME NEW j \in Keys, NEW sender \in Senders, ConfirmOrder(j, sender)
      PROVE  call' = call /\ now' = now
  BY <1>2 DEF ConfirmOrder
<1>3. ASSUME NEW j \in Keys, NEW sender \in Senders,
             CompleteOrder(j, sender) \/ RefundOrder(j, sender) \/ TimeoutRefund(j, sender)
      PROVE  Idle /\ (~Idle' => call'.saved.orders = orders) /\ now' = now
  BY <1>3 DEF CompleteOrder, RefundOrder, TimeoutRefund, SettleRefund, Settle, Saved
<1>4. CASE PullTokens \/ Revert
  <2>1. call' = NoCall /\ now' = now /\ ~Idle
    BY <1>4 DEF PullTokens, Revert, Idle, NoCall
  <2> QED BY <1>0, <2>1 DEF Idle
<1>5. CASE Payout
  <2>1. call \in Pay /\ ~Idle
    BY <1>0, <1>5 DEF Payout, TypeOK, NoCall, Pull, Idle
  <2>2. now' = now /\ (call' = NoCall \/ call' = [call EXCEPT !.rest = Tail(@)])
    BY <1>5 DEF Payout
  <2>3. call' = [call EXCEPT !.rest = Tail(@)] => call'.saved = call.saved
    BY <2>1 DEF Pay
  <2> QED BY <1>0, <2>1, <2>2, <2>3 DEF Idle
<1>6. ASSUME NEW a \in Assets, NEW to \in Treasuries, SweepUnaccounted(a, to)
      PROVE  Idle /\ (~Idle' => call'.saved.orders = orders) /\ now' = now
  BY <1>6 DEF SweepUnaccounted, Saved
<1>7. CASE Governance \/ Tick \/ \E a \in Assets : Donate(a)
  <2>1. call' = call /\ now' >= now
    BY <1>0, <1>7, Setters DEF Govern, Tick, Donate
  <2> QED BY <2>1 DEF Idle
<1>8. now' = now => now' >= now
  BY <1>0
<1>9. call' = call => (Idle' <=> Idle)
  BY DEF Idle
<1> QED BY <1>1, <1>2, <1>3, <1>4, <1>5, <1>6, <1>7, <1>8, <1>9 DEF Next

(* An order that others can see keeps its deadline, and the clock only       *)
(* advances.                                                                 *)
DeadlineKept(k) ==
    ShownOrders[k].status # "None" =>
      ShownOrders'[k].deadline = ShownOrders[k].deadline /\ now' >= now

ShownTyped == \A k \in Keys : ShownOrders[k] \in {NoOrder} \cup Order

LEMMA ShownType == IndInv => ShownTyped
<1> SUFFICES ASSUME IndInv, NEW k \in Keys PROVE ShownOrders[k] \in {NoOrder} \cup Order
  BY DEF ShownTyped
<1>1. CASE Idle
  BY <1>1, Unpack DEF ShownOrders, IndInv
<1>2. CASE ~Idle
  <2>1. call.saved \in Storage
    BY <1>2, OpenCall DEF IndInv, Pull, Pay
  <2>2. call.saved.orders \in [Keys -> {NoOrder} \cup Order]
    BY <2>1 DEF Storage
  <2> QED BY <1>2, <2>2 DEF ShownOrders
<1> QED BY <1>1, <1>2

LEMMA ShownStatus ==
    ASSUME IndInv, NEW k \in Keys, ShownOrders[k].status # "None"
    PROVE  orders[k].status # "None"
<1>1. CASE Idle
  BY <1>1 DEF ShownOrders
<1>2. CASE ~Idle /\ k \notin call.order
  <2>1. Stage(orders[k]) = Stage(ShownOrders[k])
    BY <1>2 DEF ShownOrders, IndInv, CallOK, Agrees
  <2>2. ShownOrders[k] \in Order
    BY ShownType DEF ShownTyped, NoOrder
  <2>3. Stage(ShownOrders[k]) # "none"
    BY <2>2 DEF Stage, Order, Live
  <2> QED BY <2>1, <2>3 DEF Stage, Live
<1>3. CASE ~Idle /\ k \in call.order
  <2>1. call \in Pull \/ call \in Pay
    BY <1>3, OpenCall DEF IndInv
  <2>2. CASE call \in Pull
    BY <1>3, <2>2 DEF ShownOrders, IndInv, CallOK, PullOK, Pull, NoOrder
  <2>3. CASE call \in Pay
    BY <1>3, <2>3 DEF IndInv, CallOK, PayOK, Pay
  <2> QED BY <2>1, <2>2, <2>3
<1> QED BY <1>1, <1>2, <1>3

LEMMA DeadlineStep ==
    IndInv /\ DeadlinesKept /\ [Next]_vars
      => DeadlinesKept' /\ \A k \in Keys : DeadlineKept(k)
<1>1. ASSUME IndInv, DeadlinesKept, Next, NEW k \in Keys
      PROVE  /\ DeadlineKept(k)
             /\ ~Idle' /\ call'.saved.orders[k].status # "None" =>
                  orders'[k].deadline = call'.saved.orders[k].deadline
  <2>1. /\ Idle /\ ~Idle' => call'.saved.orders = orders
        /\ ~Idle /\ ~Idle' => call'.saved = call.saved
        /\ now' >= now
    BY <1>1, CallKept
  <2>2. CASE Revert
    <3>1. ~Idle /\ Idle' /\ orders' = call.saved.orders
      BY <2>2 DEF Revert, Idle
    <3> QED BY <2>1, <3>1 DEF DeadlineKept, ShownOrders
  <2>3. CASE ~Revert
    <3>1. orders[k].status # "None" => orders'[k].deadline = orders[k].deadline
      BY <1>1, <2>3, RecordKept
    <3>2. ShownOrders[k].status # "None" => orders[k].status # "None"
      BY <1>1, ShownStatus
    <3>3. ShownOrders[k].status # "None" => orders[k].deadline = ShownOrders[k].deadline
      BY <1>1 DEF DeadlinesKept, ShownOrders
    <3>4. ~Idle' => call'.saved.orders[k] = ShownOrders[k]
      BY <2>1 DEF ShownOrders
    <3>5. ShownOrders'[k] = IF Idle' THEN orders'[k] ELSE call'.saved.orders[k]
      BY DEF ShownOrders
    <3> QED BY <2>1, <3>1, <3>2, <3>3, <3>4, <3>5 DEF DeadlineKept
  <2> QED BY <2>2, <2>3
<1>2. ASSUME IndInv, DeadlinesKept, UNCHANGED vars, NEW k \in Keys
      PROVE  /\ DeadlineKept(k)
             /\ ~Idle' /\ call'.saved.orders[k].status # "None" =>
                  orders'[k].deadline = call'.saved.orders[k].deadline
  <2>1. now \in Nat /\ now' = now /\ orders' = orders /\ call' = call
    BY <1>2, Unpack DEF IndInv, vars
  <2> QED BY <1>2, <2>1 DEF DeadlineKept, ShownOrders, DeadlinesKept, Idle
<1> QED BY <1>1, <1>2 DEF DeadlinesKept

(* The deposit is there and its deadline has passed: the buyer may take it   *)
(* back as soon as no call is open.                                          *)
Overdue(k) == ShownOrders[k].status \in Live /\ now > ShownOrders[k].deadline

(* The right to a timeout refund is lost in one way, by the deposit leaving: *)
(* no setting, callback, confirmation or revert moves the deadline of an     *)
(* order, and no order goes back to having none.                             *)
StaysOverdue ==
    [][\A k \in Keys : Overdue(k) =>
         Overdue(k)' \/ Deposited[k]' \in {"released", "returned"}]_vars

(* The safety half of AlwaysAWayOut: what fairness has to wait for never     *)
(* goes away.                                                                *)
THEOREM OverdueUntilPaid == Spec => StaysOverdue
<1>1. ASSUME IndInv, IndInv', ShownTyped', DeadlinesKept, [Next]_vars, NEW k \in Keys, Overdue(k)
      PROVE  Overdue(k)' \/ Deposited[k]' \in {"released", "returned"}
  <2>1. Deposited[k] = "held" /\ ShownOrders[k].status # "None"
    BY <1>1 DEF Overdue, Deposited, Stage, Live
  <2>2. Deposited'[k] \in {"held", "released", "returned"}
    <3>1. C!Next \/ UNCHANGED C!vars
      BY <1>1, StepRefines
    <3>2. DOMAIN Deposited = Keys
      BY DEF Deposited
    <3>3. CASE C!Next
      <4>1. PICK j \in Keys : C!Deposit(j) \/ C!Release(j) \/ C!Return(j)
        BY <3>3 DEF C!Next
      <4>2. /\ C!Deposit(j) => j # k /\ Deposited' = [Deposited EXCEPT ![j] = "held"]
            /\ C!Release(j) => Deposited' = [Deposited EXCEPT ![j] = "released"]
            /\ C!Return(j) => Deposited' = [Deposited EXCEPT ![j] = "returned"]
        BY <2>1 DEF C!Deposit, C!Release, C!Return
      <4> QED BY <2>1, <3>2, <4>1, <4>2
    <3>4. CASE UNCHANGED C!vars
      BY <2>1, <3>4 DEF C!vars
    <3> QED BY <3>1, <3>3, <3>4
  <2>3. DeadlineKept(k)
    BY <1>1, DeadlineStep
  <2>4. /\ now \in Nat /\ now' \in Nat /\ now' >= now
        /\ ShownOrders'[k].deadline = ShownOrders[k].deadline
        /\ ShownOrders[k].deadline \in Nat
    <3>1. now \in Nat /\ now' \in Nat
      BY <1>1 DEF IndInv, TypeOK
    <3>2. ShownOrders[k] \in {NoOrder} \cup Order
      BY <1>1, ShownType DEF ShownTyped
    <3>3. ShownOrders[k].deadline \in Nat
      BY <2>1, <3>2 DEF NoOrder, Order
    <3> QED BY <2>1, <2>3, <3>1, <3>3 DEF DeadlineKept
  <2>5. now' > ShownOrders'[k].deadline
    BY <1>1, <2>4 DEF Overdue
  <2>6. Deposited'[k] = "held" => ShownOrders'[k].status \in Live
    <3>1. Deposited'[k] = Stage(ShownOrders'[k])
      BY DEF Deposited
    <3>2. ShownOrders'[k] \in {NoOrder} \cup Order
      BY <1>1 DEF ShownTyped
    <3> QED BY <3>1, <3>2 DEF Stage, NoOrder, Order, Live
  <2>7. Overdue(k)' \/ Deposited'[k] \in {"released", "returned"}
    BY <2>2, <2>5, <2>6 DEF Overdue
  <2> QED BY <2>7
<1>2. Init => DeadlinesKept
  BY DEF Init, DeadlinesKept, Idle
<1>3. IndInv /\ DeadlinesKept /\ [Next]_vars => DeadlinesKept'
  BY DeadlineStep
<1>4. IndInv /\ IndInv' /\ ShownTyped' /\ DeadlinesKept /\ [Next]_vars =>
        [\A k \in Keys : Overdue(k) =>
           Overdue(k)' \/ Deposited[k]' \in {"released", "returned"}]_vars
  BY <1>1
<1> QED BY <1>2, <1>3, <1>4, ShownType, Invariant, PTL DEF Spec, StaysOverdue
----------------------------------------------------------------------------
(* What Custody means for the money.                                         *)

(* Nothing is paid for an order that has not settled; a released one has     *)
(* paid its merchant's wallet and the treasury their parts, a returned one   *)
(* its buyer, and the parts make up the deposit.                             *)
PaidAsAgreed(k) ==
    LET t == Agreed[k]
        p == ShownPaid[k]
    IN  /\ Deposited[k] \in {"none", "held"} => p = <<>>
        /\ Deposited[k] # "none" => t.fee \in Nat /\ t.amount \in Nat /\ t.fee < t.amount
        /\ Deposited[k] = "released" =>
             /\ p[1] = Payment(t.payee, t.amount - t.fee)
             /\ IF t.fee > 0 THEN Len(p) = 2 /\ p[2] = Payment(t.treasury, t.fee)
                ELSE Len(p) = 1
        /\ Deposited[k] = "returned" => p = <<Payment(t.buyer, t.amount)>>

Ledgered == /\ DOMAIN Deposited = Keys /\ DOMAIN Agreed = Keys /\ DOMAIN ShownPaid = Keys
            /\ \A k \in Keys : Deposited[k] \in {"none", "held", "released", "returned"}
            /\ \A k \in Keys : PaidAsAgreed(k)

LEMMA ReleasedParts ==
    ASSUME NEW t, t.fee \in Nat, t.amount \in Nat, t.fee < t.amount,
           NEW p, p = C!Proceeds(t, 0)
    PROVE  /\ p[1] = Payment(t.payee, t.amount - t.fee)
           /\ IF t.fee > 0 THEN Len(p) = 2 /\ p[2] = Payment(t.treasury, t.fee)
              ELSE Len(p) = 1
<1> DEFINE net == Payment(t.payee, t.amount - t.fee)
           cut == Payment(t.treasury, t.fee)
<1>1. t.fee + 0 = t.fee
  OBVIOUS
<1>2. C!Proceeds(t, 0) = IF cut.amount > 0 THEN <<net, cut>> ELSE <<net>>
  BY <1>1 DEF C!Proceeds, C!Payment, Payment
<1>3. cut.amount = t.fee
  BY DEF Payment
<1> HIDE DEF net, cut
<1>4. p = IF t.fee > 0 THEN <<net, cut>> ELSE <<net>>
  BY <1>2, <1>3
<1> QED BY <1>4 DEF net, cut

LEMMA CustodyPays ==
    ASSUME Ledgered, C!Next, NEW k \in Keys
    PROVE  PaidAsAgreed(k)' /\ Deposited'[k] \in {"none", "held", "released", "returned"}
<1>0. PaidAsAgreed(k) /\ Deposited[k] \in {"none", "held", "released", "returned"}
  BY DEF Ledgered
<1>1. PICK j \in Keys : C!Deposit(j) \/ C!Release(j) \/ C!Return(j)
  BY DEF C!Next
<1>2. CASE C!Deposit(j) /\ j = k
  <2>1. /\ Deposited'[k] = "held" /\ ShownPaid'[k] = <<>>
        /\ \E t \in TermsSpace : t.fee < t.amount /\ Agreed'[k] = t
    BY <1>0, <1>2 DEF C!Deposit, Ledgered, PaidAsAgreed
  <2>2. \A t \in TermsSpace : t.fee \in Nat /\ t.amount \in Nat
    <3> SUFFICES ASSUME NEW t \in TermsSpace PROVE t.fee \in Nat /\ t.amount \in Nat
      OBVIOUS
    <3>1. t.fee \in Fees /\ \E a \in Amounts, d \in 0 .. Drift : t.amount = a + d
      BY DEF TermsSpace
    <3>2. \A a \in Amounts, d \in 0 .. Drift : a + d \in Nat
      BY FiguresAssumption
    <3> QED BY <3>1, <3>2, FiguresAssumption
  <2> QED BY <2>1, <2>2 DEF PaidAsAgreed
<1>3. CASE C!Release(j) /\ j = k
  <2>1. /\ Deposited[k] = "held" /\ Deposited'[k] = "released" /\ Agreed'[k] = Agreed[k]
        /\ ShownPaid'[k] = C!Proceeds(Agreed[k], 0)
    BY <1>3 DEF C!Release, Ledgered
  <2>2. /\ Agreed[k].fee \in Nat /\ Agreed[k].amount \in Nat
        /\ Agreed[k].fee < Agreed[k].amount
    BY <1>0, <2>1 DEF PaidAsAgreed
  <2> QED BY <2>1, <2>2, ReleasedParts DEF PaidAsAgreed
<1>4. CASE C!Return(j) /\ j = k
  <2>1. /\ Deposited[k] = "held" /\ Deposited'[k] = "returned" /\ Agreed'[k] = Agreed[k]
        /\ ShownPaid'[k] = <<C!Payment(Agreed[k].buyer, Agreed[k].amount + 0)>>
    BY <1>4 DEF C!Return, Ledgered
  <2>2. /\ Agreed[k].fee \in Nat /\ Agreed[k].amount \in Nat
        /\ Agreed[k].fee < Agreed[k].amount
    BY <1>0, <2>1 DEF PaidAsAgreed
  <2>3. Agreed[k].amount + 0 = Agreed[k].amount
    BY <2>2
  <2> QED BY <2>1, <2>2, <2>3 DEF PaidAsAgreed, C!Payment, Payment
<1>5. CASE j # k
  <2>1. /\ Deposited'[k] = Deposited[k] /\ Agreed'[k] = Agreed[k]
        /\ ShownPaid'[k] = ShownPaid[k]
    BY <1>1, <1>5 DEF C!Deposit, C!Release, C!Return, Ledgered
  <2> QED BY <1>0, <2>1 DEF PaidAsAgreed
<1> QED BY <1>1, <1>2, <1>3, <1>4, <1>5

LEMMA LedgeredStep == Ledgered /\ [C!Next]_(C!vars) => Ledgered'
<1>1. ASSUME Ledgered, C!Next PROVE Ledgered'
  <2>1. DOMAIN Deposited' = Keys /\ DOMAIN Agreed' = Keys /\ DOMAIN ShownPaid' = Keys
    BY <1>1 DEF Ledgered, C!Next, C!Deposit, C!Release, C!Return
  <2> QED BY <1>1, <2>1, CustodyPays DEF Ledgered
<1>2. ASSUME Ledgered, UNCHANGED C!vars PROVE Ledgered'
  BY <1>2 DEF Ledgered, PaidAsAgreed, C!vars
<1> QED BY <1>1, <1>2

(* Every payment is accounted for: at the end of every transaction what has  *)
(* been paid for an order is nothing while its deposit is held and, once it  *)
(* is settled, exactly what completeOrder or _settleRefund promises of the   *)
(* terms it was made on (a consequence of the refinement).                   *)
THEOREM PaidInFull == Spec => [](\A k \in Keys : PaidAsAgreed(k))
<1>1. C!Init => Ledgered
  BY DEF C!Init, Ledgered, PaidAsAgreed
<1>2. Ledgered => \A k \in Keys : PaidAsAgreed(k)
  BY DEF Ledgered
<1> QED BY <1>1, <1>2, LedgeredStep, Refinement, PTL DEF KeepsCustody, C!Spec
==============================================================================
