----------------------------- MODULE SolanaEscrow -----------------------------
(***************************************************************************)
(* The Anchor escrow program, aeroledger-escrow.                           *)
(*                                                                         *)
(* One action per instruction.  An instruction is atomic: it either leaves *)
(* every account as the handler wrote it, token transfers included, or it  *)
(* fails and leaves nothing.  Each order has a vault of its own, the token *)
(* account of the order's address for its mint, opened with the order and  *)
(* closed when the order settles; the order's account itself is never      *)
(* closed.  Anyone may open a token account at an address that has none,   *)
(* an order's included, before the order is made and after it has settled. *)
(***************************************************************************)
EXTENDS Naturals, Sequences, FiniteSets

CONSTANTS
    Buyers, Sellers, OrderIds,
    Admins,         \* keys that may hold or be nominated for the admin role
    Authorities,    \* keys a quote can be signed with
    Payouts, Treasuries, Mints,
    Amounts, Fees, Expiries,   \* what a quote may say
    Windows,        \* refund windows between the minimum and the maximum
    Lifetime,       \* MAX_QUOTE_LIFETIME_SECS, in clock ticks
    Gift,           \* bound on the tokens sent to a token account unasked
    MaxTime,        \* bound on the clock
    MaxChanges,     \* bound on the governance instructions of a behaviour
    Absent          \* no token account there

ASSUME FiguresAssumption ==
    /\ Amounts \subseteq Nat /\ Fees \subseteq Nat /\ Expiries \subseteq Nat
    /\ Windows \subseteq Nat /\ Lifetime \in Nat
    /\ Gift \in Nat /\ MaxTime \in Nat /\ MaxChanges \in Nat

ASSUME AbsentAssumption == Absent \notin Nat

VARIABLES
    config,      \* the Config account
    mints,       \* the mints that have a SupportedMint account
    merchants,   \* the Merchant accounts
    orders,      \* the Order accounts
    tokens,      \* tokens at each order's address, of each mint
    paid,        \* transfers made out of each vault, in order
    now,         \* the cluster's unix_timestamp
    changes      \* governance instructions so far

vars == <<config, mints, merchants, orders, tokens, paid, now, changes>>

Senders == Buyers \cup Sellers \cup Admins

Quotes == [id: OrderIds, buyer: Buyers, seller: Sellers, mint: Mints, amount: Amounts,
           fee: Fees, expiry: Expiries, signer: Authorities]

Live == {"Pending", "Confirmed"}
NoOrder == [status |-> "None"]
NoMerchant == [active |-> FALSE]
NoConfig == [admin |-> {}]
Payment(to, amount) == [to |-> to, amount |-> amount]

(* The vault of an order: its address's token account for its mint.          *)
Vault(k) == tokens[k][orders[k].mint]

Init ==
    /\ config = NoConfig
    /\ mints = {}
    /\ merchants = [s \in Sellers |-> NoMerchant]
    /\ orders = [k \in OrderIds |-> NoOrder]
    /\ tokens = [k \in OrderIds |-> [mint \in Mints |-> Absent]]
    /\ paid = [k \in OrderIds |-> <<>>]
    /\ now = 0 /\ changes = 0

----------------------------------------------------------------------------
(* Governance.  Every instruction but the first needs the Config account.    *)

Initialized == config # NoConfig

Initialize ==
    /\ ~Initialized
    /\ \E a \in Admins, q \in Authorities, t \in Treasuries, w \in Windows :
         config' = [admin |-> {a}, pending |-> {}, authority |-> q, treasury |-> t,
                    window |-> w, paused |-> FALSE]
    /\ UNCHANGED <<mints, merchants, orders, tokens, paid, now, changes>>

ByAdmin == Initialized /\ changes < MaxChanges /\ changes' = changes + 1

(* Each of the three settings is given or left as it is.                     *)
SetConfig ==
    /\ ByAdmin
    /\ \E q \in Authorities, t \in Treasuries, w \in Windows :
         config' = [config EXCEPT !.authority = q, !.treasury = t, !.window = w]
    /\ UNCHANGED <<mints, merchants, orders, tokens, paid, now>>

SetPaused ==
    /\ ByAdmin
    /\ \E p \in BOOLEAN : config' = [config EXCEPT !.paused = p]
    /\ UNCHANGED <<mints, merchants, orders, tokens, paid, now>>

TransferAdmin ==
    /\ ByAdmin
    /\ \E a \in Admins : config' = [config EXCEPT !.pending = {a}]
    /\ UNCHANGED <<mints, merchants, orders, tokens, paid, now>>

AcceptAdmin(a) ==
    /\ Initialized /\ config.pending = {a}
    /\ config' = [config EXCEPT !.admin = {a}, !.pending = {}]
    /\ UNCHANGED <<mints, merchants, orders, tokens, paid, now, changes>>

(* Its SupportedMint account is made (`init`), or there to be closed.        *)
RegisterMintAccounts(mint) == ByAdmin /\ mint \notin mints
RevokeMintAccounts(mint) == ByAdmin /\ mint \in mints

RegisterMint(mint) ==
    /\ RegisterMintAccounts(mint)
    /\ mints' = mints \cup {mint}
    /\ UNCHANGED <<config, merchants, orders, tokens, paid, now>>

RevokeMint(mint) ==
    /\ RevokeMintAccounts(mint)
    /\ mints' = mints \ {mint}
    /\ UNCHANGED <<config, merchants, orders, tokens, paid, now>>

RegisterMerchant(s) ==
    /\ ByAdmin /\ merchants[s] = NoMerchant
    /\ \E p \in Payouts :
         merchants' = [merchants EXCEPT ![s] = [payout |-> p, active |-> TRUE]]
    /\ UNCHANGED <<config, mints, orders, tokens, paid, now>>

UpdateMerchant(s) ==
    /\ ByAdmin /\ merchants[s] # NoMerchant
    /\ \E p \in Payouts, active \in BOOLEAN :
         merchants' = [merchants EXCEPT ![s] = [payout |-> p, active |-> active]]
    /\ UNCHANGED <<config, mints, orders, tokens, paid, now>>

----------------------------------------------------------------------------
(* The life of an order.                                                     *)

(* Mutant: the fee may take the whole amount.                                *)
FaultySound(q) == q.amount > 0 /\ q.fee <= q.amount

Sound(q) == q.amount > 0 /\ q.fee < q.amount

(* The mint has its SupportedMint account, the seller a Merchant account,    *)
(* and the order's account and its vault are both new (`init`): an order     *)
(* cannot be made where somebody has opened the token account before.        *)
Accounts(q) ==
    /\ Initialized /\ q.mint \in mints /\ merchants[q.seller] # NoMerchant
    /\ orders[q.id] = NoOrder /\ tokens[q.id][q.mint] = Absent

(* The Ed25519 instruction before this one checked one signature, by the     *)
(* quote authority, over exactly this quote.                                 *)
Attested(q) == q.signer = config.authority

CreateOrder(q) ==
    /\ Accounts(q) /\ ~config.paused
    /\ Sound(q)
    /\ merchants[q.seller].active
    /\ q.expiry > now /\ q.expiry - now <= Lifetime
    /\ Attested(q)
    /\ orders' = [orders EXCEPT ![q.id] =
         [status |-> "Pending", buyer |-> q.buyer, seller |-> q.seller, mint |-> q.mint,
          payout |-> merchants[q.seller].payout, treasury |-> config.treasury,
          amount |-> q.amount, fee |-> q.fee, deadline |-> now + config.window]]
    /\ tokens' = [tokens EXCEPT ![q.id][q.mint] = q.amount]
    /\ UNCHANGED <<config, mints, merchants, paid, now, changes>>

(* Mutant: the status is not looked at.                                      *)
FaultyConfirmOrder(k, sender) ==
    /\ orders[k].status # "None" /\ sender = orders[k].seller
    /\ orders' = [orders EXCEPT ![k].status = "Confirmed"]
    /\ UNCHANGED <<config, mints, merchants, tokens, paid, now, changes>>

ConfirmOrder(k, sender) ==
    /\ orders[k].status = "Pending" /\ sender = orders[k].seller
    /\ orders' = [orders EXCEPT ![k].status = "Confirmed"]
    /\ UNCHANGED <<config, mints, merchants, tokens, paid, now, changes>>

Moved(payments) == IF Len(payments) = 1 THEN payments[1].amount
                   ELSE payments[1].amount + payments[2].amount

(* The handler's transfers, and close_vault, which the token program refuses *)
(* unless they emptied the vault: the instruction then fails as a whole.     *)
Settle(k, status, payments) ==
    /\ Vault(k) # Absent /\ Vault(k) >= orders[k].amount
    /\ Moved(payments) = Vault(k)
    /\ orders' = [orders EXCEPT ![k].status = status]
    /\ paid' = [paid EXCEPT ![k] = @ \o payments]
    /\ tokens' = [tokens EXCEPT ![k][orders[k].mint] = Absent]
    /\ UNCHANGED <<config, mints, merchants, now, changes>>

(* Mutant: the seller is paid where the merchant record now says.            *)
FaultyProceeds(k) ==
    LET o == orders[k]
        net == Payment(merchants[o.seller].payout, o.amount - o.fee)
        cut == Payment(o.treasury, Vault(k) - net.amount)
    IN  IF Vault(k) > net.amount THEN <<net, cut>> ELSE <<net>>

(* The seller gets what was quoted, the treasury the rest of the vault,       *)
(* which is not empty only when a fee or a gift is in it.                    *)
Proceeds(k) ==
    LET o == orders[k]
        net == Payment(o.payout, o.amount - o.fee)
        cut == Payment(o.treasury, Vault(k) - net.amount)
    IN  IF Vault(k) > net.amount THEN <<net, cut>> ELSE <<net>>

IsAdmin(sender) == config.admin = {sender}

CompleteOrder(k, sender) ==
    /\ orders[k].status = "Confirmed"
    /\ sender = orders[k].seller \/ IsAdmin(sender)
    /\ Settle(k, "Completed", Proceeds(k))

(* Mutant: the refund leaves a gift in the vault, which then cannot close.    *)
FaultySettleRefund(k) == Settle(k, "Refunded", <<Payment(orders[k].buyer, orders[k].amount)>>)

SettleRefund(k) == Settle(k, "Refunded", <<Payment(orders[k].buyer, Vault(k))>>)

RefundOrder(k, sender) ==
    /\ \/ orders[k].status = "Pending" /\ sender = orders[k].buyer
       \/ orders[k].status \in Live /\ (sender = orders[k].seller \/ IsAdmin(sender))
    /\ now <= orders[k].deadline
    /\ SettleRefund(k)

(* Mutant: the exit opens while the refund window is still open.             *)
FaultyTimeoutRefund(k, sender) ==
    /\ orders[k].status \in Live /\ sender = orders[k].buyer
    /\ now >= orders[k].deadline
    /\ SettleRefund(k)

TimeoutRefund(k, sender) ==
    /\ orders[k].status \in Live /\ sender = orders[k].buyer
    /\ now > orders[k].deadline
    /\ SettleRefund(k)

----------------------------------------------------------------------------
(* The cluster: token accounts opened at an order's address and tokens sent  *)
(* to them, by anyone and at any time, and time itself.                      *)

OpenAccount(k, mint) ==
    /\ tokens[k][mint] = Absent
    /\ tokens' = [tokens EXCEPT ![k][mint] = 0]
    /\ UNCHANGED <<config, mints, merchants, orders, paid, now, changes>>

(* What an order keeps in a token account of its address.                    *)
Escrowed(k, mint) ==
    IF orders[k].status \in Live /\ orders[k].mint = mint THEN orders[k].amount ELSE 0

Donate(k, mint) ==
    /\ tokens[k][mint] # Absent /\ tokens[k][mint] < Escrowed(k, mint) + Gift
    /\ tokens' = [tokens EXCEPT ![k][mint] = @ + 1]
    /\ UNCHANGED <<config, mints, merchants, orders, paid, now, changes>>

Tick ==
    /\ now < MaxTime
    /\ now' = now + 1
    /\ UNCHANGED <<config, mints, merchants, orders, tokens, paid, changes>>

----------------------------------------------------------------------------
Governance ==
    \/ Initialize \/ SetConfig \/ SetPaused \/ TransferAdmin
    \/ \E a \in Admins : AcceptAdmin(a)
    \/ \E mint \in Mints : RegisterMint(mint) \/ RevokeMint(mint)
    \/ \E s \in Sellers : RegisterMerchant(s) \/ UpdateMerchant(s)

Next ==
    \/ Governance
    \/ \E q \in Quotes : CreateOrder(q)
    \/ \E k \in OrderIds, sender \in Senders :
         \/ ConfirmOrder(k, sender) \/ CompleteOrder(k, sender)
         \/ RefundOrder(k, sender) \/ TimeoutRefund(k, sender)
    \/ \E k \in OrderIds, mint \in Mints : OpenAccount(k, mint) \/ Donate(k, mint)
    \/ Tick

Spec == Init /\ [][Next]_vars

(* Time passes, and a buyer whose deadline is past asks for the money.       *)
FairSpec ==
    /\ Spec /\ WF_vars(Tick)
    /\ \A k \in OrderIds : WF_vars(\E b \in Buyers : TimeoutRefund(k, b))

----------------------------------------------------------------------------
(* Properties.                                                               *)

Order == [status: {"Pending", "Confirmed", "Completed", "Refunded"},
          buyer: Buyers, seller: Sellers, mint: Mints, payout: Payouts,
          treasury: Treasuries, amount: Nat, fee: Nat, deadline: Nat]

Config == [admin: {{a} : a \in Admins}, pending: {{}} \cup {{a} : a \in Admins},
           authority: Authorities, treasury: Treasuries, window: Windows, paused: BOOLEAN]

(* Type correctness of the accounts; an order's fee leaves the seller        *)
(* something, which the subtractions of complete_order rely on.              *)
TypeOK ==
    /\ config \in {NoConfig} \cup Config
    /\ mints \subseteq Mints
    /\ merchants \in [Sellers -> {NoMerchant} \cup [payout: Payouts, active: BOOLEAN]]
    /\ orders \in [OrderIds -> {NoOrder} \cup Order]
    /\ \A k \in OrderIds : orders[k] # NoOrder => orders[k].fee < orders[k].amount
    /\ tokens \in [OrderIds -> [Mints -> Nat \cup {Absent}]]
    /\ paid \in [OrderIds -> Seq([to: Payouts \cup Treasuries \cup Buyers, amount: Nat])]
    /\ now \in Nat /\ changes \in Nat

(* A live order has a vault, which holds at least what the order promises:   *)
(* no instruction finds InsufficientEscrow.  It says nothing of a token      *)
(* account that somebody opened for an order not yet made, or settled since. *)
VaultBacksOrder ==
    \A k \in OrderIds : orders[k].status \in Live =>
      Vault(k) # Absent /\ Vault(k) >= orders[k].amount

(* At every instant the buyer of an order the seller has not accepted has    *)
(* one way out, refund_order up to the deadline and timeout_refund after it, *)
(* whatever has been sent to the vault, paused, revoked or handed over.       *)
OneExit ==
    \A k \in OrderIds : orders[k].status = "Pending" =>
      LET buyer == orders[k].buyer IN
      (ENABLED RefundOrder(k, buyer)) # (ENABLED TimeoutRefund(k, buyer))

Stage(o) == CASE o.status = "None" -> "none"
              [] o.status \in Live -> "held"
              [] o.status = "Completed" -> "released"
              [] o.status = "Refunded" -> "returned"

TermsOf(o) ==
    IF o.status = "None" THEN NoOrder
    ELSE [buyer |-> o.buyer, payee |-> o.payout, treasury |-> o.treasury,
          amount |-> o.amount, fee |-> o.fee]

Deposited == [k \in OrderIds |-> Stage(orders[k])]
Agreed == [k \in OrderIds |-> TermsOf(orders[k])]
TermsSpace == [buyer: Buyers, payee: Payouts, treasury: Treasuries,
               amount: Amounts, fee: Fees]

C == INSTANCE Custody WITH Keys <- OrderIds, Terms <- TermsSpace, Surpluses <- 0 .. Gift,
                           NoTerms <- NoOrder, stage <- Deposited, terms <- Agreed

(* Each order is taken in once, on terms that never change, and leaves its   *)
(* vault once, whole, to the wallets recorded when it was made.              *)
KeepsCustody == C!Spec

(* "A pause must never trap funds", nor may a silent seller or a change of   *)
(* settings or admin: a deposit always leaves its vault.                     *)
AlwaysAWayOut == \A k \in OrderIds : Deposited[k] = "held" ~> Deposited[k] # "held"
==============================================================================
