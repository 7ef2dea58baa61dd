------------------------------ MODULE EvmEscrow ------------------------------
(***************************************************************************)
(* The Solidity escrow, AeroLedgerEscrow.                                  *)
(*                                                                         *)
(* A transaction that only touches storage is one step.  A function that   *)
(* calls out, to a token contract or to the wallet it pays, is several:    *)
(* while the callee runs, `call` holds the open function, and code of the  *)
(* callee may enter the contract again through every function that is not  *)
(* nonReentrant.  The open call then returns and goes on, or it reverts    *)
(* and everything done since it began is undone.                           *)
(***************************************************************************)
EXTENDS Naturals, Sequences, Functions

CONSTANTS
    Buyers, OrderIds, Sellers,
    Owners,       \* accounts that may own the contract or be nominated to
    Signers,      \* keys a quote can be signed with
    Payouts,      \* wallets a merchant may be paid at
    Treasuries,   \* wallets the platform fee may go to
    Native, Tokens,
    Amounts, Fees, Expiries,   \* what a quote may say
    Windows,      \* refund windows governance may set
    Lifetime,     \* MAX_QUOTE_LIFETIME, in clock ticks
    Drift,        \* bound on what a token credits beyond a transfer's amount
    Gift,         \* bound on what is ever sent to the contract by mistake
    MaxTime,      \* bound on the clock
    MaxChanges    \* bound on the governance calls of a behaviour

ASSUME FiguresAssumption ==
    /\ Amounts \subseteq Nat /\ Fees \subseteq Nat /\ Expiries \subseteq Nat
    /\ Windows \subseteq Nat /\ Lifetime \in Nat
    /\ Drift \in Nat /\ Gift \in Nat /\ MaxTime \in Nat /\ MaxChanges \in Nat

ASSUME AssetsAssumption == Native \notin Tokens

VARIABLES
    orders,     \* _orders
    escrow,     \* escrowBalance
    held,       \* what the chain says the contract owns of each asset
    paid,       \* payments made for each order, in order
    settings,   \* owner and nominee, quoteSigner, treasury, refundWindow, paused,
                \* tokens, merchants
    call,       \* the function that is calling out, if one is
    now,        \* block.timestamp
    changes     \* governance calls made so far

vars == <<orders, escrow, held, paid, settings, call, now, changes>>

(* _computeOrderHash: an order is identified by its buyer and backend id.    *)
Keys   == Buyers \X OrderIds
Assets == Tokens \cup {Native}
Senders == Buyers \cup Sellers \cup Owners
OneOf(S) == {{x} : x \in S}
BuyerOf(k) == k[1]

Quotes == [key: Keys, seller: Sellers, token: Assets, amount: Amounts,
           fee: Fees, expiry: Expiries, signer: Signers]

Live == {"Pending", "Confirmed"}
NoOrder == [status |-> "None"]
NoCall  == [kind |-> "none"]
Idle == call = NoCall
Payment(to, amount) == [to |-> to, amount |-> amount]

(* What a revert of the call that starts now would restore.                  *)
Saved == [orders |-> orders, escrow |-> escrow, held |-> held, paid |-> paid,
          settings |-> settings]

Init ==
    /\ orders = [k \in Keys |-> NoOrder]
    /\ escrow = [a \in Assets |-> 0]
    /\ held = [a \in Assets |-> 0]
    /\ paid = [k \in Keys |-> <<>>]
    /\ settings \in [owner: OneOf(Owners), pending: {{}},
                     signer: Signers, treasury: Treasuries, window: Windows,
                     paused: {FALSE}, tokens: {{Native}},
                     merchants: {[s \in Sellers |-> [payout |-> p, active |-> FALSE]] :
                                 p \in Payouts}]
    /\ call = NoCall /\ now = 0 /\ changes = 0

----------------------------------------------------------------------------
(* Creating an order.                                                        *)

(* Mutant: the fee may take the whole amount.                                *)
FaultySound(q) == q.amount > 0 /\ q.fee <= q.amount

Sound(q) == q.amount > 0 /\ q.fee < q.amount

(* _openOrder and _verifyQuote: the terms are sound, the quote is fresh and  *)
(* signed by the current key, the seller active and the slot empty.          *)
MayOpen(q) ==
    /\ Sound(q)
    /\ now <= q.expiry /\ q.expiry - now <= Lifetime
    /\ settings.merchants[q.seller].active
    /\ orders[q.key].status = "None"
    /\ q.signer = settings.signer

NewOrder(q) ==
    [status |-> "Pending", seller |-> q.seller,
     payout |-> settings.merchants[q.seller].payout, treasury |-> settings.treasury,
     token |-> q.token, amount |-> q.amount, fee |-> q.fee,
     deadline |-> now + settings.window]

CreateOrder(q) ==
    /\ Idle /\ ~settings.paused
    /\ q.token = Native /\ MayOpen(q)
    /\ orders' = [orders EXCEPT ![q.key] = NewOrder(q)]
    /\ escrow' = [escrow EXCEPT ![Native] = @ + q.amount]
    /\ held' = [held EXCEPT ![Native] = @ + q.amount]
    /\ UNCHANGED <<paid, settings, call, now, changes>>

(* createOrderERC20 writes the order's slot and then calls the token.        *)
CreateOrderERC20(q) ==
    /\ Idle /\ ~settings.paused
    /\ q.token \in settings.tokens \ {Native} /\ MayOpen(q)
    /\ orders' = [orders EXCEPT ![q.key] = NewOrder(q)]
    /\ call' = [kind |-> "pull", order |-> {q.key}, amount |-> q.amount, saved |-> Saved]
    /\ UNCHANGED <<escrow, held, paid, settings, now, changes>>

(* Mutant: the order keeps the quoted amount when more has arrived.          *)
FaultyPullTokens ==
    /\ call.kind = "pull"
    /\ \E k \in call.order, received \in 0 .. call.amount + Drift :
         LET a == orders[k].token IN
         /\ received >= call.amount
         /\ held' = [held EXCEPT ![a] = @ + received]
         /\ escrow' = [escrow EXCEPT ![a] = @ + received]
    /\ call' = NoCall
    /\ UNCHANGED <<orders, paid, settings, now, changes>>

(* The token returns: what the contract gained while it ran is `received`.   *)
PullTokens ==
    /\ call.kind = "pull"
    /\ \E k \in call.order, received \in 0 .. call.amount + Drift :
         LET a == orders[k].token IN
         /\ received >= call.amount
         /\ held' = [held EXCEPT ![a] = @ + received]
         /\ escrow' = [escrow EXCEPT ![a] = @ + received]
         /\ orders' = [orders EXCEPT ![k].amount = received]
    /\ call' = NoCall
    /\ UNCHANGED <<paid, settings, now, changes>>

----------------------------------------------------------------------------
(* The life of an order.                                                     *)

(* Mutant: the status is not looked at.                                      *)
FaultyConfirmOrder(k, sender) ==
    /\ orders[k].status # "None" /\ sender = orders[k].seller
    /\ orders' = [orders EXCEPT ![k].status = "Confirmed"]
    /\ UNCHANGED <<escrow, held, paid, settings, call, now, changes>>

(* confirmOrder is not nonReentrant: it can run inside an open call.         *)
ConfirmOrder(k, sender) ==
    /\ orders[k].status = "Pending" /\ sender = orders[k].seller
    /\ orders' = [orders EXCEPT ![k].status = "Confirmed"]
    /\ UNCHANGED <<escrow, held, paid, settings, call, now, changes>>

(* _debitEscrow and the start of the payouts, after the status is written.   *)
Settle(k, status, payouts) ==
    /\ escrow[orders[k].token] >= orders[k].amount
    /\ orders' = [orders EXCEPT ![k].status = status]
    /\ escrow' = [escrow EXCEPT ![orders[k].token] = @ - orders[k].amount]
    /\ call' = [kind |-> "pay", order |-> {k}, token |-> orders[k].token,
                rest |-> payouts, saved |-> Saved]
    /\ UNCHANGED <<held, paid, settings, now, changes>>

(* The seller's leg is never empty, because fee < amount.                    *)
Proceeds(o) ==
    LET net == Payment(o.payout, o.amount - o.fee)
        cut == Payment(o.treasury, o.fee)
    IN  IF o.fee > 0 THEN <<net, cut>> ELSE <<net>>

IsOwner(sender) == settings.owner = {sender}

CompleteOrder(k, sender) ==
    /\ Idle /\ orders[k].status = "Confirmed"
    /\ sender = orders[k].seller \/ IsOwner(sender)
    /\ Settle(k, "Completed", Proceeds(orders[k]))

SettleRefund(k) == Settle(k, "Refunded", <<Payment(BuyerOf(k), orders[k].amount)>>)

MayRefund(k, sender) ==
    \/ orders[k].status = "Pending" /\ sender = BuyerOf(k)
    \/ orders[k].status \in Live /\ (sender = orders[k].seller \/ IsOwner(sender))

(* Mutant: the window closes one instant early.                              *)
FaultyRefundOrder(k, sender) ==
    /\ Idle /\ MayRefund(k, sender)
    /\ now < orders[k].deadline
    /\ SettleRefund(k)

RefundOrder(k, sender) ==
    /\ Idle /\ MayRefund(k, sender)
    /\ now <= orders[k].deadline
    /\ SettleRefund(k)

(* Mutant: a pause stops the buyer's exit too.                               *)
FaultyTimeoutRefund(k, sender) ==
    /\ Idle /\ ~settings.paused /\ orders[k].status \in Live
    /\ sender = BuyerOf(k) /\ now > orders[k].deadline
    /\ SettleRefund(k)

TimeoutRefund(k, sender) ==
    /\ Idle /\ orders[k].status \in Live
    /\ sender = BuyerOf(k) /\ now > orders[k].deadline
    /\ SettleRefund(k)

(* _payout: the next payment of the open call goes through.                  *)
Payout ==
    /\ call.kind = "pay"
    /\ LET p == Head(call.rest) IN
       /\ held[call.token] >= p.amount
       /\ held' = [held EXCEPT ![call.token] = @ - p.amount]
       /\ paid' = [k \in Keys |-> IF k \in call.order THEN Append(paid[k], p) ELSE paid[k]]
    /\ call' = IF Len(call.rest) = 1 THEN NoCall ELSE [call EXCEPT !.rest = Tail(@)]
    /\ UNCHANGED <<orders, escrow, settings, now, changes>>

(* The callee fails, or credits less than the quote: the transaction reverts *)
Revert ==
    /\ ~Idle
    /\ orders' = call.saved.orders /\ escrow' = call.saved.escrow
    /\ held' = call.saved.held /\ paid' = call.saved.paid
    /\ settings' = call.saved.settings
    /\ call' = NoCall
    /\ UNCHANGED <<now, changes>>

----------------------------------------------------------------------------
(* Governance.  The setters are not nonReentrant either; without an owner    *)
(* nobody can call them.                                                     *)

HasOwner == settings.owner # {}

(* Mutant: what the live orders are owed is not subtracted.                  *)
FaultyUnaccountedBalance(a) == held[a]

UnaccountedBalance(a) == IF held[a] > escrow[a] THEN held[a] - escrow[a] ELSE 0

SweepUnaccounted(a, to) ==
    /\ Idle /\ HasOwner /\ UnaccountedBalance(a) > 0
    /\ call' = [kind |-> "pay", order |-> {}, token |-> a,
                rest |-> <<Payment(to, UnaccountedBalance(a))>>, saved |-> Saved]
    /\ UNCHANGED <<orders, escrow, held, paid, settings, now, changes>>

Govern(new) ==
    /\ HasOwner /\ changes < MaxChanges /\ changes' = changes + 1
    /\ settings' = new
    /\ UNCHANGED <<orders, escrow, held, paid, call, now>>

SetQuoteSigner == \E s \in Signers : Govern([settings EXCEPT !.signer = s])
SetTreasury == \E t \in Treasuries : Govern([settings EXCEPT !.treasury = t])
SetRefundWindow == \E w \in Windows : Govern([settings EXCEPT !.window = w])
Pause == ~settings.paused /\ Govern([settings EXCEPT !.paused = TRUE])
Unpause == settings.paused /\ Govern([settings EXCEPT !.paused = FALSE])
SetMerchant ==
    \E s \in Sellers, p \in Payouts, active \in BOOLEAN :
      Govern([settings EXCEPT !.merchants[s] = [payout |-> p, active |-> active]])
AddSupportedToken == \E a \in Tokens : Govern([settings EXCEPT !.tokens = @ \cup {a}])
RemoveSupportedToken == \E a \in Tokens : Govern([settings EXCEPT !.tokens = @ \ {a}])

(* Ownable2Step: a nominee accepts, a nomination can be withdrawn, and an    *)
(* owner can leave for good.                                                 *)
TransferOwnership ==
    \E nominee \in {{}} \cup OneOf(Owners) : Govern([settings EXCEPT !.pending = nominee])
AcceptOwnership ==
    /\ settings.pending # {}
    /\ Govern([settings EXCEPT !.owner = settings.pending, !.pending = {}])
RenounceOwnership == Govern([settings EXCEPT !.owner = {}, !.pending = {}])

----------------------------------------------------------------------------
(* The chain: value sent by mistake, and time.                               *)

Donate(a) ==
    /\ Idle /\ UnaccountedBalance(a) < Gift
    /\ held' = [held EXCEPT ![a] = @ + 1]
    /\ UNCHANGED <<orders, escrow, paid, settings, call, now, changes>>

Tick ==
    /\ Idle /\ now < MaxTime
    /\ now' = now + 1
    /\ UNCHANGED <<orders, escrow, held, paid, settings, call, changes>>

----------------------------------------------------------------------------
Governance ==
    \/ SetQuoteSigner \/ SetTreasury \/ SetRefundWindow \/ Pause \/ Unpause
    \/ SetMerchant \/ AddSupportedToken \/ RemoveSupportedToken
    \/ TransferOwnership \/ AcceptOwnership \/ RenounceOwnership

Next ==
    \/ \E q \in Quotes : CreateOrder(q) \/ CreateOrderERC20(q)
    \/ \E k \in Keys, sender \in Senders :
         \/ ConfirmOrder(k, sender) \/ CompleteOrder(k, sender)
         \/ RefundOrder(k, sender) \/ TimeoutRefund(k, sender)
    \/ PullTokens \/ Payout \/ Revert
    \/ \E a \in Assets, to \in Treasuries : SweepUnaccounted(a, to)
    \/ Governance
    \/ \E a \in Assets : Donate(a)
    \/ Tick

Spec == Init /\ [][Next]_vars

(* A buyer who wants the money back keeps asking for it, and the buyer's own *)
(* wallet is not what refuses it for ever.                                   *)
Repay(k) == Payout /\ k \in call.order /\ Head(call.rest).to = BuyerOf(k)

(* Time passes between transactions, and an open call returns or reverts.    *)
FairSpec ==
    /\ Spec
    /\ SF_vars(Tick) /\ WF_vars(PullTokens \/ Payout \/ Revert)
    /\ \A k \in Keys : SF_vars(TimeoutRefund(k, BuyerOf(k))) /\ SF_vars(Repay(k))

----------------------------------------------------------------------------
(* Properties.                                                               *)

Order == [status: {"Pending", "Confirmed", "Completed", "Refunded"},
          seller: Sellers, payout: Payouts, treasury: Treasuries, token: Assets,
          amount: Nat, fee: Nat, deadline: Nat]

Setting == [owner: {{}} \cup OneOf(Owners), pending: {{}} \cup OneOf(Owners),
            signer: Signers, treasury: Treasuries, window: Windows, paused: BOOLEAN,
            tokens: SUBSET Assets,
            merchants: [Sellers -> [payout: Payouts, active: BOOLEAN]]]

Payments == [to: Payouts \cup Treasuries \cup Buyers, amount: Nat]

Storage == [orders: [Keys -> {NoOrder} \cup Order], escrow: [Assets -> Nat],
            held: [Assets -> Nat], paid: [Keys -> Seq(Payments)], settings: Setting]

Pull == [kind: {"pull"}, order: {{k} : k \in Keys}, amount: Amounts, saved: Storage]
Pay  == [kind: {"pay"}, order: {{}} \cup {{k} : k \in Keys}, token: Assets,
         rest: Seq(Payments), saved: Storage]

(* Type correctness of the contract's storage, of an open call and of the    *)
(* chain; an order's fee leaves the seller something, which the subtraction  *)
(* in completeOrder relies on.                                               *)
TypeOK ==
    /\ Saved \in Storage
    /\ \A k \in Keys : orders[k] # NoOrder => orders[k].fee < orders[k].amount
    /\ call \in {NoCall} \cup Pull \cup Pay
    /\ now \in Nat /\ changes \in Nat

(* The orders whose deposit of asset a the contract has: a slot written by a *)
(* createOrderERC20 that is still pulling its tokens is not one of them.     *)
Deposits(a) ==
    {k \in Keys : /\ orders[k].status \in Live /\ orders[k].token = a
                  /\ ~(call.kind = "pull" /\ k \in call.order)}

(* escrowBalance is exactly the deposits of the live orders of that asset    *)
(* (the comment on escrowBalance, the figure sweepUnaccounted subtracts),    *)
(* whatever ran inside a token's or a wallet's callback.                     *)
LedgerIsExact ==
    \A a \in Assets : escrow[a] = SumFunction([k \in Deposits(a) |-> orders[k].amount])

(* What the open call still has to pay in asset a.                           *)
Outgoing(a) ==
    IF ~(call.kind = "pay" /\ call.token = a) THEN 0
    ELSE IF Len(call.rest) = 1 THEN call.rest[1].amount
    ELSE call.rest[1].amount + call.rest[2].amount

(* No sequence of deposits, settlements, reverts, gifts and sweeps leaves    *)
(* the contract with less of an asset than its live orders are owed and the  *)
(* payouts already decided ("balance >= escrowBalance").                     *)
Solvent == \A a \in Assets : held[a] >= escrow[a] + Outgoing(a)

(* At every instant between transactions the buyer of an order the seller    *)
(* has not accepted has one way out, refundOrder up to the deadline and      *)
(* timeoutRefund after it, whatever governance has done.                     *)
OneExit ==
    \A k \in Keys : Idle /\ orders[k].status = "Pending" =>
      (ENABLED RefundOrder(k, BuyerOf(k))) # (ENABLED TimeoutRefund(k, BuyerOf(k)))

----------------------------------------------------------------------------
(* The refinement: a transaction happens when its last call returns, so what *)
(* an open call has done so far is not shown.                                *)

ShownOrders == IF Idle THEN orders ELSE call.saved.orders
ShownPaid   == IF Idle THEN paid ELSE call.saved.paid

Stage(o) == CASE o.status = "None" -> "none"
              [] o.status \in Live -> "held"
              [] o.status = "Completed" -> "released"
              [] o.status = "Refunded" -> "returned"

TermsOf(k, o) ==
    IF o.status = "None" THEN NoOrder
    ELSE [buyer |-> BuyerOf(k), payee |-> o.payout, treasury |-> o.treasury,
          amount |-> o.amount, fee |-> o.fee]

Deposited  == [k \in Keys |-> Stage(ShownOrders[k])]
Agreed == [k \in Keys |-> TermsOf(k, ShownOrders[k])]
TermsSpace == [buyer: Buyers, payee: Payouts, treasury: Treasuries,
               amount: {a + d : a \in Amounts, d \in 0 .. Drift}, fee: Fees]

C == INSTANCE Custody WITH Terms <- TermsSpace, Surpluses <- {0}, NoTerms <- NoOrder,
                           stage <- Deposited, terms <- Agreed, paid <- ShownPaid

(* Whatever callbacks, reverts, settings and clocks do, each order is taken  *)
(* in once, on terms that never change, and is paid out once, whole, to the  *)
(* wallets recorded when it was made.                                        *)
KeepsCustody == C!Spec

(* "A pause can never strand escrowed funds", nor can a silent seller or an  *)
(* owner who changes every setting: a deposit always leaves the contract.    *)
AlwaysAWayOut == \A k \in Keys : Deposited[k] = "held" ~> Deposited[k] # "held"
==============================================================================
