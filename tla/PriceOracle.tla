----------------------------- MODULE PriceOracle -----------------------------
(***************************************************************************)
(* MarketPriceOracle, and the part of CreateQuote that prices a booking    *)
(* with it: several handlers ask for the rate of one token at once, share  *)
(* a cache, and wait for the market and for the database in between.       *)
(***************************************************************************)
EXTENDS Conversion, Deployment

CONSTANTS
    Askers,        \* handlers pricing a booking
    MarketPrices,  \* prices the market may show for the token, in cents
    SeedPrice,     \* the price the migration puts into crypto_prices
    SeedTimes,     \* when it did so
    FloorPrice,    \* static_floor
    CacheTTL,      \* CACHE_TTL_SECONDS
    MaxAge,        \* MAX_RATE_AGE_SECONDS
    MaxClock       \* bound on the clock

ASSUME OracleAssumption ==
    /\ MarketPrices \subseteq Nat \ {0}
    /\ SeedPrice \in Nat \ {0} /\ FloorPrice \in Nat \ {0}
    /\ SeedTimes \subseteq Nat /\ CacheTTL \in Nat /\ MaxAge \in Nat /\ MaxClock \in Nat

VARIABLES
    clock,
    market,   \* market[t] is the market's price at time t, up to the clock
    cache,    \* the token's entry in the cache
    row,      \* the token's row of crypto_prices
    ask       \* the handlers

pricing == <<clock, market, cache, row, ask>>

Peg == 100   \* one dollar

RatePrices == MarketPrices \cup {SeedPrice, FloorPrice, Peg}

(* A Decimal quotient has 28 significant digits, so that the least part of a *)
(* base unit a division by a price can leave over, 1/p, is not rounded away. *)
ASSUME PrecisionAssumption == \A p \in RatePrices : p < 2 * Guard

Sources == {"coingecko", "database", "pegged", "static-floor-dev"}
Rate == [price : Nat, at : Nat, source : Sources]
NoRate == [price |-> 0, at |-> 0, source |-> "database"]

Steps == {"idle", "fetch", "fetched", "table", "read", "priced", "quoted", "refused"}
Ask == [pc : Steps, begun : Nat, rate : Rate, units : Nat, issued : Nat]
Unasked == [pc |-> "idle", begun |-> 0, rate |-> NoRate, units |-> 0, issued |-> 0]

PricingInit ==
    /\ clock = 0
    /\ market \in [{0} -> MarketPrices]
    /\ cache = NoRate
    /\ row \in {NoRate} \cup
               {[price |-> SeedPrice, at |-> t, source |-> "database"] : t \in SeedTimes}
    /\ ask = [h \in Askers |-> Unasked]

\* The market moves with the clock.
Later ==
    /\ clock < MaxClock
    /\ clock' = clock + 1
    /\ \E p \in MarketPrices :
         market' = [t \in 0 .. clock + 1 |-> IF t > clock THEN p ELSE market[t]]
    /\ UNCHANGED <<cache, row, ask>>

----------------------------------------------------------------------------
(* rate *)

Has(h, r) == ask' = [ask EXCEPT ![h].pc = "priced", ![h].rate = r]

\* cached: judged by the age of the price, whoever stored it and whenever.
Cached(t) == cache # NoRate /\ t < cache.at + CacheTTL

\* The time is taken first; a pegged token asks nobody, and only a live server
\* asks the market.
Lookup(h) ==
    /\ ask[h].pc \in {"idle", "quoted", "refused"}
    /\ LET begins == [Unasked EXCEPT !.begun = clock] IN
       ask' = [ask EXCEPT ![h] =
         IF token \in Stablecoins
         THEN [begins EXCEPT !.pc = "priced",
                             !.rate = [price |-> Peg, at |-> clock, source |-> "pegged"]]
         ELSE IF Cached(clock) THEN [begins EXCEPT !.pc = "priced", !.rate = cache]
         ELSE [begins EXCEPT !.pc = IF Live THEN "fetch" ELSE "table"]]
    /\ UNCHANGED <<clock, market, cache, row>>

\* fetch_coingecko: the market is read while the handler waits.
MarketReads(h) ==
    /\ ask[h].pc = "fetch"
    /\ ask' = [ask EXCEPT ![h].pc = "fetched",
                          ![h].rate = [price |-> market[clock], at |-> clock, source |-> "coingecko"]]
    /\ UNCHANGED <<clock, market, cache, row>>

FaultyObserved(h) == [ask[h].rate EXCEPT !.at = clock]

\* The rate is stamped with the time the handler took before it asked.
Observed(h) == [ask[h].rate EXCEPT !.at = ask[h].begun]

Fetched(h) ==
    /\ ask[h].pc = "fetched"
    /\ cache' = Observed(h)
    /\ Has(h, Observed(h))
    /\ UNCHANGED <<clock, market, row>>

\* Refused, timed out, or no positive price: on to the table.
FetchFails(h) ==
    /\ ask[h].pc \in {"fetch", "fetched"}
    /\ ask' = [ask EXCEPT ![h].pc = "table", ![h].rate = NoRate]
    /\ UNCHANGED <<clock, market, cache, row>>

\* fetch_db; without a row or a database it answers nothing.
TableReads(h) ==
    /\ ask[h].pc = "table"
    /\ \E r \in {row, NoRate} : ask' = [ask EXCEPT ![h].pc = "read", ![h].rate = r]
    /\ UNCHANGED <<clock, market, cache, row>>

\* db_rate_is_usable
Usable(h) ==
    /\ ask[h].rate # NoRate
    /\ Live \/ ask[h].begun <= ask[h].rate.at + MaxAge

Refuse(h) == ask' = [ask EXCEPT ![h] = [Unasked EXCEPT !.pc = "refused"]]

\* A stale row is returned in live mode, for the quote to refuse, and never
\* cached.  Without a row only a development server invents a price.
TableAnswers(h) ==
    /\ ask[h].pc = "read"
    /\ \/ /\ Usable(h)
          /\ Has(h, ask[h].rate)
          /\ cache' = IF ask[h].begun < ask[h].rate.at + CacheTTL THEN ask[h].rate ELSE cache
       \/ /\ ~Usable(h) /\ Live
          /\ Refuse(h)
          /\ UNCHANGED cache
       \/ /\ ~Usable(h) /\ ~Live
          /\ Has(h, [price |-> FloorPrice, at |-> ask[h].begun, source |-> "static-floor-dev"])
          /\ UNCHANGED cache
    /\ UNCHANGED <<clock, market, row>>

----------------------------------------------------------------------------
(* CreateQuote, once it has a rate, and PaymentQuote::issue *)

FaultyFresh(r) == r # NoRate

Fresh(r) == clock <= r.at + MaxAge

Issue(h) ==
    /\ ask[h].pc = "priced"
    /\ LET total == TotalOf(Base)
           units == UnitsFor(total, ask[h].rate.price)
       IN  \/ /\ total \in 1 .. MaxCents /\ units # 0
              /\ Payable(token) /\ Fresh(ask[h].rate)
              /\ ask' = [ask EXCEPT ![h].pc = "quoted", ![h].units = units, ![h].issued = clock]
           \/ /\ \/ total \notin 1 .. MaxCents \/ units = 0
                 \/ ~Payable(token) \/ ~Fresh(ask[h].rate)
              /\ Refuse(h)
    /\ UNCHANGED <<clock, market, cache, row>>

PricingNext ==
    \/ Later
    \/ \E h \in Askers :
         \/ Lookup(h) \/ MarketReads(h) \/ Fetched(h) \/ FetchFails(h)
         \/ TableReads(h) \/ TableAnswers(h) \/ Issue(h)

----------------------------------------------------------------------------
(* Properties *)

Quoted == {h \in Askers : ask[h].pc = "quoted"}

\* What the market showed from time s on.
ShownSince(s) == {market[t] : t \in s .. clock}

\* A rate is as old as it says, or younger: wherever it is held, the market
\* showed its price at its time or after it.
Honest(r) == r.source = "coingecko" => r.price \in ShownSince(r.at)

(* No rate is younger than its stamp says: not in the cache, where an older  *)
(* lookup may overwrite a newer one, nor in a handler that waited with it    *)
(* (a cached rate keeps its original observed_at).                           *)
StampsAreHonest ==
    /\ Honest(cache)
    /\ \A h \in Askers : ask[h].pc \in {"priced", "quoted"} => Honest(ask[h].rate)

(* A live server quotes the peg, or a price the market showed within the     *)
(* maximum age of the quote, or the row the migration seeded within that age *)
(* of the seeding: never the floor, and nothing from further back however    *)
(* long the lookup and the cache held it.                                    *)
QuoteIsFresh ==
    \A h \in Quoted :
      LET r == ask[h].rate  oldest == IF ask[h].issued > MaxAge THEN ask[h].issued - MaxAge ELSE 0
      IN  Live => \/ r.source = "pegged"
                  \/ r.source = "coingecko"
                       /\ r.price \in {market[t] : t \in oldest .. ask[h].issued}
                  \/ r.source = "database" /\ row # NoRate /\ oldest <= row.at

(* The customer pays the total at the quoted rate, rounded up by less than   *)
(* one base unit, although the division in between is rounded to even.       *)
QuotePaysTotal ==
    \A h \in Quoted :
      LET r == ask[h].rate  total == TotalOf(Base)  due == total * UnitsIn
      IN  /\ ask[h].units * r.price >= due
          /\ (ask[h].units - 1) * r.price < due
==============================================================================
