------------------------------- MODULE Funding -------------------------------
(***************************************************************************)
(* One payment from the configuration of the server to the answer of the   *)
(* gateway: the asset is chosen, a handler prices the booking, the         *)
(* customer accepts and sends a transfer, and verifications read it.       *)
(* Checkout models what the tables make of the same steps.                 *)
(***************************************************************************)
EXTENDS PriceOracle, Gateways

VARIABLE deal   \* the accepted quote

vars == <<config, phase, token, pricing, gateway, deal>>

NoDeal == [units |-> 0, prices |-> {}]

Init == DeploymentInit /\ PricingInit /\ GatewayInit /\ deal = NoDeal

Starts ==
    /\ Boot \/ \E t \in Tokens : Choose(t)
    /\ UNCHANGED <<pricing, gateway, deal>>

Prices ==
    /\ token # "none" /\ deal = NoDeal
    /\ PricingNext
    /\ UNCHANGED <<Deployed, gateway, deal>>

(* The prices the market showed within the maximum age of a quote; "prices"  *)
(* keeps them, and a price that is not the market's as it is.                *)
Window(q) ==
    IF q.rate.source # "coingecko" THEN {q.rate.price}
    ELSE {market[t] : t \in {u \in 0 .. q.issued : q.issued <= u + MaxAge}}

\* The customer accepts.  Later rates price other bookings: from here on the
\* oracle is left alone, in the state it began in, to keep the instance small.
Accept(h) ==
    /\ deal = NoDeal /\ ask[h].pc = "quoted"
    /\ deal' = [units |-> ask[h].units, prices |-> Window(ask[h])]
    /\ clock' = 0 /\ market' = [t \in {0} |-> CHOOSE p \in MarketPrices : TRUE]
    /\ cache' = NoRate /\ row' = NoRate /\ ask' = [g \in Askers |-> Unasked]
    /\ UNCHANGED <<Deployed, gateway>>

\* The customer sends what is owed, or a unit less, to the platform or not.
Pay(x) ==
    /\ deal # NoDeal /\ sent = {}
    /\ Amount[x] \in {deal.units - 1, deal.units}
    /\ Send(x)
    /\ UNCHANGED <<Deployed, pricing, deal>>

\* ConfirmPayment or the reconciliation worker.
Verifies(v) ==
    /\ \E x \in sent : Verify(v, x, deal.units)
    /\ UNCHANGED <<Deployed, pricing, deal>>

Verification ==
    /\ sent # {}
    /\ GatewayNext
    /\ UNCHANGED <<Deployed, pricing, deal>>

Next ==
    \/ Starts \/ Prices \/ Verification
    \/ \E h \in Askers : Accept(h)
    \/ \E x \in Transfers : Pay(x)
    \/ \E v \in Checks : Verifies(v)

Spec == Init /\ [][Next]_vars

----------------------------------------------------------------------------
(* Properties *)

(* Types of the configuration, the oracle, the gateways and the quote.       *)
TypeOK ==
    /\ config \in Setting /\ config.mode # "unset" /\ phase \in {"boot", "serving", "exited"}
    /\ token \in Tokens \cup {"none"}
    /\ clock \in Nat /\ market \in [0 .. clock -> MarketPrices]
    /\ cache \in Rate /\ row \in Rate /\ ask \in [Askers -> Ask]
    /\ tip \in Nat /\ block \in [Transfers -> 0 .. tip] /\ ok \in [Transfers -> BOOLEAN]
    /\ sent \subseteq Transfers /\ check \in [Checks -> Check]
    /\ deal.units \in Nat /\ deal.prices \subseteq Nat

(* Two assets a serving server can quote never settle one on a mainnet and   *)
(* the other elsewhere: the chains validate() compares are those whose       *)
(* assets PaymentQuote::issue accepts.                                       *)
NoMixedRealms ==
    phase = "serving" =>
      \A t, u \in {s \in Tokens : Payable(s)} :
        Realm(config, ChainOf(t)) = "mainnet" => Realm(config, ChainOf(u)) = "mainnet"

(* Outside development a payment is only reported as made when a transfer    *)
(* that is final brought the platform the whole total, at some price the     *)
(* market showed within the maximum age of the quote (or at the peg, or at   *)
(* the row the migration seeded).                                            *)
NeverUnderpaid ==
    \A v \in Checks :
      config.env # "development" /\ check[v].answer = "pays" =>
        LET x == check[v].transfer IN
        /\ Fate(x) = "final" /\ x \in ToPlatform
        /\ \E p \in deal.prices : Amount[x] * p >= TotalOf(Base) * UnitsIn
==============================================================================
