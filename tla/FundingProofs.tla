---------------------------- MODULE FundingProofs ----------------------------
(***************************************************************************)
(* Proofs about Funding, for any settings, prices, ages, confirmation      *)
(* depths and reorganisations the assumptions allow.                       *)
(***************************************************************************)
EXTENDS Funding, TLAPS

DeploymentInv ==
    /\ config \in Setting /\ config.mode # "unset"
    /\ phase \in {"boot", "serving", "exited"} /\ token \in Tokens \cup {"none"}
    /\ phase = "serving" => Valid(config)

PricingTypes ==
    /\ clock \in Nat /\ market \in [0 .. clock -> MarketPrices]
    /\ cache \in Rate /\ row \in Rate /\ ask \in [Askers -> Ask]

GatewayTypes ==
    /\ tip \in Nat /\ block \in [Transfers -> 0 .. tip] /\ ok \in [Transfers -> BOOLEAN]
    /\ sent \subseteq Transfers /\ check \in [Checks -> Check]

DealTypes == deal.units \in Nat /\ deal.prices \subseteq Nat

(* A rate of the table is the row's, and only a development server invents   *)
(* one.                                                                      *)
Sourced(r) ==
    /\ r.source = "database" => r = row \/ r = NoRate
    /\ r.source = "static-floor-dev" => ~Live

(* What a handler holds at each step: the market's price is as old as the    *)
(* lookup at most until it is stamped, and honest from then on; a quote      *)
(* stays the age it had.                                                     *)
Keeps(a) ==
    /\ a.begun <= clock /\ a.issued <= clock
    /\ Sourced(a.rate)
    /\ a.pc = "fetched" =>
         a.rate.source = "coingecko" /\ a.rate.price \in ShownSince(a.begun)
    /\ a.pc # "fetched" => Honest(a.rate)
    /\ a.pc \in {"priced", "quoted"} => a.rate # NoRate
    /\ a.pc = "quoted" =>
         /\ a.issued <= a.rate.at + MaxAge
         /\ a.rate.source = "coingecko" =>
              \E t \in a.rate.at .. a.issued : market[t] = a.rate.price

PricingInv ==
    /\ PricingTypes
    /\ row.source = "database" /\ Sourced(cache) /\ Honest(cache)
    /\ \A h \in Askers : Keeps(ask[h])

(* Nothing is quoted or sent before an asset is chosen.                      *)
Begun ==
    token = "none" =>
      /\ deal = NoDeal /\ sent = {} /\ Quoted = {}
      /\ \A v \in Checks : check[v].pc = "idle"

(* A verification that waits for the tip remembers a block that was there;   *)
(* if no reorganisation could reach that block then, none has reached it.    *)
Remembers(c) ==
    /\ c.since <= tip /\ tip <= c.since + Drift
    /\ 0 < c.block /\ c.block <= c.since
    /\ c.block + MaxReorg <= c.since =>
         block[c.transfer] = c.block /\ ok[c.transfer] = c.ok

Watched == \A v \in Reading : Remembers(check[v])

IndInv == DeploymentInv /\ PricingInv /\ GatewayTypes /\ DealTypes /\ Begun /\ Watched

----------------------------------------------------------------------------
LEMMA DeploymentInitOK == DeploymentInit => DeploymentInv
<1> SUFFICES ASSUME DeploymentInit PROVE DeploymentInv
  OBVIOUS
<1>1. PICK s \in Settings : config = FromEnv(s)
  BY DEF DeploymentInit
<1>2. s \in Setting
  BY SettingsAssumption
<1>3. config \in Setting /\ config.mode # "unset"
  BY <1>1, <1>2 DEF FromEnv, DefaultMode, Setting
<1> QED BY <1>3 DEF DeploymentInit, DeploymentInv

LEMMA NoRateType == NoRate \in Rate /\ NoRate.source = "database"
  BY DEF NoRate, Rate, Sources

LEMMA UnaskedType == Unasked \in Ask
  BY NoRateType DEF Unasked, Ask, Steps

LEMMA PricingInitOK == PricingInit => PricingInv
<1> SUFFICES ASSUME PricingInit PROVE PricingInv
  OBVIOUS
<1>1. row \in Rate /\ row.source = "database"
  BY NoRateType, OracleAssumption DEF PricingInit, Rate, Sources
<1>2. market \in [0 .. clock -> MarketPrices] /\ clock = 0
  <2>1. 0 .. 0 = {0}
    OBVIOUS
  <2> QED BY <2>1 DEF PricingInit
<1>3. PricingTypes
  BY <1>1, <1>2, NoRateType, UnaskedType DEF PricingInit, PricingTypes
<1>4. Sourced(NoRate) /\ Honest(NoRate)
  BY NoRateType DEF Sourced, Honest
<1>5. ASSUME NEW h \in Askers PROVE Keeps(ask[h])
  BY <1>2, <1>4 DEF PricingInit, Keeps, Unasked
<1> QED BY <1>1, <1>3, <1>4, <1>5 DEF PricingInit, PricingInv

LEMMA InitOK == Init => IndInv
<1> SUFFICES ASSUME Init PROVE IndInv
  OBVIOUS
<1>1. DeploymentInv /\ PricingInv
  BY DeploymentInitOK, PricingInitOK DEF Init
<1>2. Unchecked \in Check
  <2>1. (CHOOSE x \in Transfers : TRUE) \in Transfers
    BY GatewayAssumption
  <2> QED BY <2>1 DEF Unchecked, Check, Answers
<1>3. GatewayTypes
  BY <1>2 DEF Init, GatewayInit, GatewayTypes
<1>4. DealTypes
  BY DEF Init, NoDeal, DealTypes
<1>5. Begun /\ Watched
  BY DEF Init, GatewayInit, PricingInit, Begun, Watched, Reading, Quoted, Unchecked, Unasked
<1> QED BY <1>1, <1>3, <1>4, <1>5 DEF IndInv

----------------------------------------------------------------------------
(* The oracle *)

Still == UNCHANGED <<clock, market, row, config>>

LEMMA StillKeeps ==
    ASSUME Still, NEW a
    PROVE  (Keeps(a) => Keeps(a)') /\ (Sourced(a) => Sourced(a)') /\ (Honest(a) => Honest(a)')
<1>1. clock' = clock /\ market' = market /\ row' = row /\ config' = config
  BY DEF Still
<1>2. Sourced(a)' <=> Sourced(a)
  BY <1>1 DEF Sourced, Live
<1>3. \A s : ShownSince(s)' = ShownSince(s)
  BY <1>1 DEF ShownSince
<1>4. Honest(a)' <=> Honest(a)
  BY <1>3 DEF Honest
<1>5. Sourced(a.rate)' <=> Sourced(a.rate)
  BY <1>1 DEF Sourced, Live
<1>6. Honest(a.rate)' <=> Honest(a.rate)
  BY <1>3 DEF Honest
<1>7. ShownSince(a.begun)' = ShownSince(a.begun)
  BY <1>3
<1>8. Keeps(a)' <=> Keeps(a)
  BY <1>1, <1>5, <1>6, <1>7 DEF Keeps
<1> QED BY <1>2, <1>4, <1>8

(* A step of one handler leaves the others what they hold.                   *)
LEMMA OneAsks ==
    ASSUME PricingInv, Still, NEW h \in Askers, NEW m \in Ask, Keeps(m),
           ask' = [ask EXCEPT ![h] = m],
           NEW r \in Rate, Sourced(r), Honest(r), cache' = r
    PROVE  PricingInv'
<1>1. PricingTypes
  BY DEF PricingInv
<1>2. clock' = clock /\ market' = market /\ row' = row
  BY DEF Still
<1>3. PricingTypes'
  BY <1>1, <1>2 DEF PricingTypes
<1>4. row'.source = "database"
  BY <1>2 DEF PricingInv
<1>5. Sourced(cache)' /\ Honest(cache)'
  <2>1. Sourced(r)' /\ Honest(r)'
    BY StillKeeps
  <2> QED BY <2>1 DEF Sourced, Honest
<1>6. ASSUME NEW g \in Askers PROVE Keeps(ask[g])'
  <2>1. ask'[g] = m \/ ask'[g] = ask[g]
    BY <1>1 DEF PricingTypes
  <2>2. PICK a : a = ask'[g]
    OBVIOUS
  <2>3. Keeps(a)
    BY <2>1, <2>2 DEF PricingInv
  <2>4. Keeps(a)'
    BY <2>3, StillKeeps
  <2> QED BY <2>2, <2>4 DEF Keeps
<1> QED BY <1>3, <1>4, <1>5, <1>6 DEF PricingInv

(* What is shown stays shown, and what was shown when stays so.              *)
LEMMA LaterStep == ASSUME PricingInv, Later, UNCHANGED config PROVE PricingInv'
<1>1. /\ clock \in Nat /\ market \in [0 .. clock -> MarketPrices]
      /\ cache \in Rate /\ row \in Rate /\ ask \in [Askers -> Ask]
  BY DEF PricingInv, PricingTypes
<1>2. PICK p \in MarketPrices :
        market' = [t \in 0 .. clock + 1 |-> IF t > clock THEN p ELSE market[t]]
  BY DEF Later
<1>3. clock' = clock + 1 /\ UNCHANGED <<cache, row, ask>>
  BY DEF Later
<1>4. market' \in [0 .. clock' -> MarketPrices] /\ clock' \in Nat
  BY <1>1, <1>2, <1>3
<1>5. \A t \in 0 .. clock : market'[t] = market[t]
  BY <1>1, <1>2
<1>6. \A s \in Nat : ShownSince(s) \subseteq ShownSince(s)'
  <2>1. SUFFICES ASSUME NEW s \in Nat, NEW t \in s .. clock PROVE market[t] \in ShownSince(s)'
    BY DEF ShownSince
  <2>2. t \in 0 .. clock /\ t \in s .. clock'
    BY <1>1, <1>3
  <2> QED BY <2>2, <1>5 DEF ShownSince
<1>7. ASSUME NEW r \in Rate PROVE (Honest(r) => Honest(r)') /\ (Sourced(r) => Sourced(r)')
  <2>1. r.at \in Nat
    BY DEF Rate
  <2> QED BY <2>1, <1>3, <1>6 DEF Honest, Sourced, Live
<1>8. ASSUME NEW h \in Askers PROVE Keeps(ask[h])'
  <2>1. PICK a \in Ask : a = ask[h]
    BY <1>1
  <2>2. Keeps(a) /\ a = ask'[h]
    BY <2>1, <1>3 DEF PricingInv
  <2>3. a.rate \in Rate /\ a.begun \in Nat /\ a.issued \in Nat /\ a.rate.at \in Nat
    BY DEF Ask, Rate
  <2>4. a.begun <= clock' /\ a.issued <= clock'
    BY <2>2, <2>3, <1>1, <1>3 DEF Keeps
  <2>5. PICK r \in Rate : r = a.rate
    BY <2>3
  <2>6. (Honest(a.rate) => Honest(a.rate)') /\ (Sourced(a.rate) => Sourced(a.rate)')
    BY <2>5, <1>7 DEF Honest, Sourced
  <2>7. ASSUME NEW t \in a.rate.at .. a.issued PROVE market'[t] = market[t]
    BY <1>1, <1>5, <2>2, <2>3 DEF Keeps
  <2>8. ShownSince(a.begun) \subseteq ShownSince(a.begun)'
    BY <1>6, <2>3
  <2>9. Keeps(a)'
    BY <2>2, <2>4, <2>6, <2>7, <2>8 DEF Keeps
  <2> QED BY <2>2, <2>9 DEF Keeps
<1>9. PricingTypes' /\ row'.source = "database"
  BY <1>1, <1>3, <1>4 DEF PricingTypes, PricingInv
<1>10. Honest(cache)' /\ Sourced(cache)'
  <2>1. PICK r \in Rate : r = cache
    BY <1>1
  <2> QED BY <2>1, <1>3, <1>7 DEF PricingInv, Honest, Sourced
<1> QED BY <1>8, <1>9, <1>10 DEF PricingInv

LEMMA TotalType == \A n \in Nat : TotalOf(n) \in Nat
<1>1. \A n \in Nat : Within(n) \in Nat
  BY ConversionAssumption DEF Within, Overflow
<1>2. \A n, b \in Nat : ApplyBps(n, b) \in Nat
  <2> TAKE n, b \in Nat
  <2>1. n * b \in Nat
    BY SMT
  <2>2. (n * b) \div 10000 \in Nat
    <3> DEFINE x == n * b
    <3>1. x \in Nat
      BY <2>1
    <3> HIDE DEF x
    <3>2. x \div 10000 \in Nat
      BY <3>1
    <3> QED BY <3>2 DEF x
  <2> QED BY <2>2, ConversionAssumption DEF ApplyBps, Overflow
<1>3. ASSUME NEW n \in Nat PROVE TotalOf(n) \in Nat
  <2>1. ASSUME NEW b \in Nat PROVE ApplyBps(n, b) \in Nat
    BY <1>2
  <2>2. ApplyBps(n, 1000) \in Nat
    BY <2>1
  <2>3. ApplyBps(n, 500) \in Nat
    BY <2>1
  <2>4. n + ApplyBps(n, 1000) + ApplyBps(n, 500) \in Nat
    BY <2>2, <2>3
  <2> QED BY <1>1, <2>4 DEF TotalOf
<1> QED BY <1>3

LEMMA QuotientType == \A n \in Nat, d \in Nat \ {0} : n \div d \in Nat
  OBVIOUS

LEMMA UnitsType ==
    ASSUME NEW n \in Nat, NEW p \in Nat PROVE UnitsFor(n, p) \in Nat
<1> CASE p = 0
  BY DEF UnitsFor
<1> CASE p # 0
  <2> DEFINE due == n * UnitsIn * Guard
             q == HalfEven(due, p)
  <2>1. due \in Nat
    <3>1. n * UnitsIn \in Nat
      BY ConversionAssumption, SMT
    <3>2. \A a, b \in Nat : a * b \in Nat
      BY SMT
    <3> QED BY <3>1, <3>2, ConversionAssumption
  <2> HIDE DEF due
  <2>2. q \in Nat
    <3>1. due \div p \in Nat
      BY <2>1, QuotientType
    <3> QED BY <3>1 DEF HalfEven
  <2> HIDE DEF q
  <2>3. Up(q, Guard) \in Nat
    <3>1. q + Guard - 1 \in Nat
      BY <2>2, ConversionAssumption
    <3> QED BY <3>1, QuotientType, ConversionAssumption DEF Up
  <2>4. UnitsFor(n, p) = IF p = 0 \/ Up(q, Guard) > MaxUnits THEN 0 ELSE Up(q, Guard)
    BY DEF UnitsFor, q, due
  <2> QED BY <2>3, <2>4
<1> QED OBVIOUS

LEMMA CurrentShown ==
    ASSUME PricingInv
    PROVE  /\ market[clock] \in Nat /\ clock \in Nat
           /\ \A s \in Nat : s <= clock => market[clock] \in ShownSince(s)
<1>1. clock \in Nat /\ clock \in 0 .. clock /\ market \in [0 .. clock -> MarketPrices]
  BY DEF PricingInv, PricingTypes
<1>2. market[clock] \in Nat
  BY <1>1, OracleAssumption
<1> QED BY <1>1, <1>2 DEF ShownSince

LEMMA LookupStep ==
    ASSUME PricingInv, NEW h \in Askers, Lookup(h), UNCHANGED config PROVE PricingInv'
<1> DEFINE begins == [Unasked EXCEPT !.begun = clock]
           m == IF token \in Stablecoins
                THEN [begins EXCEPT !.pc = "priced",
                        !.rate = [price |-> Peg, at |-> clock, source |-> "pegged"]]
                ELSE IF Cached(clock) THEN [begins EXCEPT !.pc = "priced", !.rate = cache]
                ELSE [begins EXCEPT !.pc = IF Live THEN "fetch" ELSE "table"]
<1>1. clock \in Nat /\ cache \in Rate /\ Sourced(cache) /\ Honest(cache)
  BY DEF PricingInv, PricingTypes
<1>2. m \in Ask
  BY <1>1, NoRateType DEF Ask, Steps, Rate, Sources, Unasked, Peg
<1>3. Keeps(m)
  <2>1. Sourced(NoRate) /\ Honest(NoRate)
    BY NoRateType DEF Sourced, Honest
  <2>2. CASE token \in Stablecoins
    BY <2>2, <1>1 DEF Keeps, Sourced, Honest, Unasked, NoRate
  <2>3. CASE token \notin Stablecoins /\ Cached(clock)
    BY <2>3, <1>1 DEF Keeps, Unasked, Cached
  <2>4. CASE token \notin Stablecoins /\ ~Cached(clock)
    BY <2>4, <2>1, <1>1 DEF Keeps, Unasked
  <2> QED BY <2>2, <2>3, <2>4
<1>4. ask' = [ask EXCEPT ![h] = m] /\ cache' = cache /\ Still
  BY DEF Lookup, Still
<1> HIDE DEF m
<1> QED BY <1>1, <1>2, <1>3, <1>4, OneAsks

LEMMA MarketReadsStep ==
    ASSUME PricingInv, NEW h \in Askers, MarketReads(h), UNCHANGED config PROVE PricingInv'
<1> DEFINE r == [price |-> market[clock], at |-> clock, source |-> "coingecko"]
           m == [ask[h] EXCEPT !.pc = "fetched", !.rate = r]
<1>1. ask[h] \in Ask /\ Keeps(ask[h]) /\ cache \in Rate /\ Sourced(cache) /\ Honest(cache)
  BY DEF PricingInv, PricingTypes
<1>2. market[clock] \in Nat /\ clock \in Nat /\ market[clock] \in ShownSince(ask[h].begun)
  BY <1>1, CurrentShown DEF Ask, Keeps
<1>3. m \in Ask
  BY <1>1, <1>2 DEF Ask, Steps, Rate, Sources
<1>4. Sourced(r)
  BY DEF Sourced
<1>5. Keeps(m)
  BY <1>1, <1>2, <1>4 DEF Keeps, Ask
<1>6. ask' = [ask EXCEPT ![h] = m] /\ cache' = cache /\ Still
  BY <1>1 DEF MarketReads, Still, PricingInv, PricingTypes
<1> HIDE DEF m
<1> QED BY <1>1, <1>3, <1>5, <1>6, OneAsks

LEMMA FetchedStep ==
    ASSUME PricingInv, NEW h \in Askers, Fetched(h), UNCHANGED config PROVE PricingInv'
<1> DEFINE r == Observed(h)
           m == [ask[h] EXCEPT !.pc = "priced", !.rate = r]
<1>1. ask[h] \in Ask /\ Keeps(ask[h]) /\ ask[h].pc = "fetched"
  BY DEF PricingInv, PricingTypes, Fetched
<1>2. /\ r \in Rate /\ r.source = "coingecko" /\ r.at = ask[h].begun
      /\ r.price \in ShownSince(ask[h].begun) /\ r # NoRate
  BY <1>1 DEF Observed, Keeps, Ask, Rate, NoRate
<1>3. Sourced(r) /\ Honest(r)
  BY <1>2 DEF Sourced, Honest
<1> HIDE DEF r
<1>4. m \in Ask
  BY <1>1, <1>2 DEF Ask, Steps
<1>5. Keeps(m)
  BY <1>1, <1>2, <1>3 DEF Keeps, Ask
<1>6. ask' = [ask EXCEPT ![h] = m] /\ cache' = r /\ Still
  BY <1>1 DEF Fetched, Has, Still, PricingInv, PricingTypes, r
<1> HIDE DEF m
<1> QED BY <1>2, <1>3, <1>4, <1>5, <1>6, OneAsks

LEMMA FetchFailsStep ==
    ASSUME PricingInv, NEW h \in Askers, FetchFails(h), UNCHANGED config PROVE PricingInv'
<1> DEFINE m == [ask[h] EXCEPT !.pc = "table", !.rate = NoRate]
<1>1. ask[h] \in Ask /\ Keeps(ask[h]) /\ cache \in Rate /\ Sourced(cache) /\ Honest(cache)
  BY DEF PricingInv, PricingTypes
<1>2. m \in Ask
  BY <1>1, NoRateType DEF Ask, Steps
<1>3. Keeps(m)
  <2>1. Sourced(NoRate) /\ Honest(NoRate)
    BY NoRateType DEF Sourced, Honest
  <2> QED BY <1>1, <2>1 DEF Keeps, Ask
<1>4. ask' = [ask EXCEPT ![h] = m] /\ cache' = cache /\ Still
  BY <1>1 DEF FetchFails, Still, PricingInv, PricingTypes
<1> HIDE DEF m
<1> QED BY <1>1, <1>2, <1>3, <1>4, OneAsks

LEMMA TableReadsStep ==
    ASSUME PricingInv, NEW h \in Askers, TableReads(h), UNCHANGED config PROVE PricingInv'
<1>1. PICK r \in {row, NoRate} : ask' = [ask EXCEPT ![h].pc = "read", ![h].rate = r]
  BY DEF TableReads
<1> DEFINE m == [ask[h] EXCEPT !.pc = "read", !.rate = r]
<1>2. /\ ask[h] \in Ask /\ Keeps(ask[h]) /\ cache \in Rate /\ Sourced(cache) /\ Honest(cache)
      /\ r \in Rate /\ r.source = "database"
  BY NoRateType DEF PricingInv, PricingTypes
<1>3. m \in Ask
  BY <1>2 DEF Ask, Steps
<1>4. Sourced(r) /\ Honest(r)
  BY <1>2 DEF Sourced, Honest
<1>5. Keeps(m)
  BY <1>2, <1>4 DEF Keeps, Ask
<1>6. ask' = [ask EXCEPT ![h] = m] /\ cache' = cache /\ Still
  BY <1>1 DEF TableReads, Still, PricingInv, PricingTypes
<1> HIDE DEF m
<1> QED BY <1>2, <1>3, <1>5, <1>6, OneAsks

LEMMA RefusedKeeps ==
    ASSUME PricingInv
    PROVE  /\ [Unasked EXCEPT !.pc = "refused"] \in Ask
           /\ Keeps([Unasked EXCEPT !.pc = "refused"])
<1>1. clock \in Nat
  BY DEF PricingInv, PricingTypes
<1>2. Sourced(NoRate) /\ Honest(NoRate)
  BY NoRateType DEF Sourced, Honest
<1> QED BY <1>1, <1>2, NoRateType DEF Keeps, Unasked, Ask, Steps

LEMMA TableAnswersStep ==
    ASSUME PricingInv, NEW h \in Askers, TableAnswers(h), UNCHANGED config PROVE PricingInv'
<1>1. /\ ask[h] \in Ask /\ Keeps(ask[h]) /\ ask[h].pc = "read"
      /\ cache \in Rate /\ Sourced(cache) /\ Honest(cache) /\ ask \in [Askers -> Ask]
  BY DEF PricingInv, PricingTypes, TableAnswers
<1>2. Still
  BY DEF TableAnswers, Still
<1>3. CASE Usable(h)
  <2> DEFINE m == [ask[h] EXCEPT !.pc = "priced", !.rate = ask[h].rate]
             r == IF ask[h].begun < ask[h].rate.at + CacheTTL THEN ask[h].rate ELSE cache
  <2>1. m \in Ask /\ r \in Rate
    BY <1>1 DEF Ask, Steps
  <2>2. Keeps(m)
    BY <1>1, <1>3 DEF Keeps, Ask, Usable
  <2>3. Sourced(r) /\ Honest(r)
    BY <1>1 DEF Keeps
  <2>4. ask' = [ask EXCEPT ![h] = m] /\ cache' = r
    BY <1>1, <1>3 DEF TableAnswers, Has
  <2> HIDE DEF m, r
  <2> QED BY <1>2, <2>1, <2>2, <2>3, <2>4, OneAsks
<1>4. CASE ~Usable(h) /\ Live
  <2> DEFINE m == [Unasked EXCEPT !.pc = "refused"]
  <2>1. m \in Ask /\ Keeps(m)
    BY RefusedKeeps
  <2>2. ask' = [ask EXCEPT ![h] = m] /\ cache' = cache
    BY <1>4 DEF TableAnswers, Refuse
  <2> HIDE DEF m
  <2> QED BY <1>1, <1>2, <2>1, <2>2, OneAsks
<1>5. CASE ~Usable(h) /\ ~Live
  <2> DEFINE r == [price |-> FloorPrice, at |-> ask[h].begun, source |-> "static-floor-dev"]
             m == [ask[h] EXCEPT !.pc = "priced", !.rate = r]
  <2>1. r \in Rate /\ r # NoRate
    BY <1>1, OracleAssumption DEF Ask, Rate, Sources, NoRate
  <2>2. Sourced(r) /\ Honest(r)
    BY <1>5 DEF Sourced, Honest
  <2>3. ask' = [ask EXCEPT ![h] = m] /\ cache' = cache
    BY <1>1, <1>5 DEF TableAnswers, Has
  <2> HIDE DEF r
  <2>4. m \in Ask
    BY <1>1, <2>1 DEF Ask, Steps
  <2>5. Keeps(m)
    BY <1>1, <2>1, <2>2 DEF Keeps, Ask
  <2> HIDE DEF m
  <2> QED BY <1>1, <1>2, <2>3, <2>4, <2>5, OneAsks
<1> QED BY <1>3, <1>4, <1>5

LEMMA IssueStep ==
    ASSUME PricingInv, NEW h \in Askers, Issue(h), UNCHANGED config PROVE PricingInv'
<1> DEFINE units == UnitsFor(TotalOf(Base), ask[h].rate.price)
           m == [ask[h] EXCEPT !.pc = "quoted", !.units = units, !.issued = clock]
           n == [Unasked EXCEPT !.pc = "refused"]
<1>1. /\ ask[h] \in Ask /\ Keeps(ask[h]) /\ ask[h].pc = "priced" /\ clock \in Nat
      /\ cache \in Rate /\ Sourced(cache) /\ Honest(cache) /\ ask \in [Askers -> Ask]
  BY DEF PricingInv, PricingTypes, Issue
<1>2. Still /\ cache' = cache
  BY DEF Issue, Still
<1>3. ask[h].rate \in Rate /\ ask[h].rate.price \in Nat /\ ask[h].rate.at \in Nat
  BY <1>1 DEF Ask, Rate
<1>4. units \in Nat
  <2>1. TotalOf(Base) \in Nat
    BY TotalType, ConversionAssumption
  <2> QED BY <1>3, <2>1, UnitsType
<1> HIDE DEF units
<1>5. \/ Fresh(ask[h].rate) /\ ask' = [ask EXCEPT ![h] = m]
      \/ ask' = [ask EXCEPT ![h] = n]
  BY <1>1 DEF Issue, Refuse, units
<1>6. CASE Fresh(ask[h].rate) /\ ask' = [ask EXCEPT ![h] = m]
  <2>1. m \in Ask
    BY <1>1, <1>4 DEF Ask, Steps
  <2>2. ask[h].rate.source = "coingecko" =>
          \E t \in ask[h].rate.at .. clock : market[t] = ask[h].rate.price
    BY <1>1 DEF Keeps, Honest, ShownSince
  <2>3. clock <= ask[h].rate.at + MaxAge
    BY <1>6 DEF Fresh
  <2>4. Keeps(m)
    BY <1>1, <2>2, <2>3 DEF Keeps, Ask
  <2> HIDE DEF m
  <2> QED BY <1>1, <1>2, <1>6, <2>1, <2>4, OneAsks
<1>7. CASE ask' = [ask EXCEPT ![h] = n]
  <2>1. n \in Ask /\ Keeps(n)
    BY RefusedKeeps
  <2> HIDE DEF n
  <2> QED BY <1>1, <1>2, <1>7, <2>1, OneAsks
<1> QED BY <1>5, <1>6, <1>7

LEMMA PricingStep ==
    ASSUME PricingInv, PricingNext, UNCHANGED config PROVE PricingInv'
<1>1. CASE Later
  BY <1>1, LaterStep
<1>2. ASSUME NEW h \in Askers,
             \/ Lookup(h) \/ MarketReads(h) \/ Fetched(h) \/ FetchFails(h)
             \/ TableReads(h) \/ TableAnswers(h) \/ Issue(h)
      PROVE  PricingInv'
  BY <1>2, LookupStep, MarketReadsStep, FetchedStep, FetchFailsStep, TableReadsStep,
     TableAnswersStep, IssueStep
<1> QED BY <1>1, <1>2 DEF PricingNext

LEMMA AcceptPricing ==
    ASSUME PricingInv, NEW h \in Askers, Accept(h) PROVE PricingInv'
<1> DEFINE p == CHOOSE p \in MarketPrices : TRUE
<1>1. p \in MarketPrices
  <2>1. 0 \in 0 .. clock
    BY DEF PricingInv, PricingTypes
  <2>2. market[0] \in MarketPrices
    BY <2>1 DEF PricingInv, PricingTypes
  <2> QED BY <2>2
<1>2. /\ clock' = 0 /\ market' = [t \in {0} |-> p]
      /\ cache' = NoRate /\ row' = NoRate /\ ask' = [g \in Askers |-> Unasked]
  BY DEF Accept
<1> HIDE DEF p
<1>3. market' \in [0 .. clock' -> MarketPrices] /\ clock' \in Nat
  <2>1. 0 .. 0 = {0}
    OBVIOUS
  <2> QED BY <1>1, <1>2, <2>1
<1>4. PricingTypes'
  BY <1>2, <1>3, NoRateType, UnaskedType DEF PricingTypes
<1>5. cache'.source = "database" /\ cache' = NoRate
  BY <1>2, NoRateType
<1>6. Sourced(cache)' /\ Honest(cache)'
  BY <1>5 DEF Sourced, Honest
<1>7. ASSUME NEW g \in Askers PROVE Keeps(ask[g])'
  <2>1. ask'[g] = Unasked
    BY <1>2
  <2>2. Unasked.rate = NoRate /\ Unasked.pc = "idle" /\ Unasked.begun = 0 /\ Unasked.issued = 0
    BY DEF Unasked
  <2>3. Sourced(NoRate)' /\ Honest(NoRate)'
    BY NoRateType DEF Sourced, Honest
  <2>4. Keeps(Unasked)'
    BY <1>2, <2>2, <2>3 DEF Keeps
  <2> QED BY <2>1, <2>4 DEF Keeps
<1> QED BY <1>2, <1>4, <1>5, <1>6, <1>7 DEF PricingInv

----------------------------------------------------------------------------
(* The gateways *)

(* What a verification may say next: as the port has it.                     *)
Allowed(v, m) ==
    \/ /\ m.transfer = check[v].transfer
       /\ m.owed = check[v].owed /\ m.answer = check[v].answer
    \/ m.answer \in {"none", "error"}
    \/ ~Live /\ m.answer = "pays"
    \/ m.answer \in Port!Outcomes(m.transfer, m.owed)

(* A request of one verification: what it may remember and say.              *)
Moves(v) ==
    \E m \in Check :
      /\ check' = [check EXCEPT ![v] = m] /\ UNCHANGED blocks
      /\ m.pc \in {"body", "tip"} => Remembers(m)
      /\ Allowed(v, m)

LEMMA UnobservedAllowed == \A x, n : "unobserved" \in Port!Outcomes(x, n)
  BY DEF Port!Outcomes

LEMMA AnsweredMoves ==
    ASSUME GatewayTypes, NEW v \in Checks, NEW a \in Answers, UNCHANGED blocks, Answered(v, a),
           \/ a \in {"error", "unobserved"}
           \/ a \in Port!Outcomes(check[v].transfer, check[v].owed)
    PROVE  Moves(v)
<1> DEFINE m == [check[v] EXCEPT !.pc = "idle", !.answer = a]
<1>1. check[v] \in Check /\ check' = [check EXCEPT ![v] = m]
  BY DEF GatewayTypes, Answered
<1>2. m \in Check /\ m.pc = "idle" /\ m.answer = a
      /\ m.transfer = check[v].transfer /\ m.owed = check[v].owed
  BY <1>1 DEF Check
<1> HIDE DEF m
<1>3. Allowed(v, m)
  BY <1>2, UnobservedAllowed DEF Allowed
<1> QED BY <1>1, <1>2, <1>3 DEF Moves

(* What is reported of a transfer no reorganisation can reach is final.      *)
LEMMA SettledFinal ==
    ASSUME GatewayTypes, NEW v \in Checks, NEW deep \in BOOLEAN,
           deep => Buried(check[v].transfer)
    PROVE  /\ Settled(v, ok[check[v].transfer], deep) \in Answers
           /\ Settled(v, ok[check[v].transfer], deep)
                \in Port!Outcomes(check[v].transfer, check[v].owed)
<1> DEFINE x == check[v].transfer
<1>1. x \in Transfers
  BY DEF GatewayTypes, Check
<1>2. CASE ~(ok[x] /\ deep)
  BY <1>2, UnobservedAllowed DEF Settled, Answers
<1>3. CASE ok[x] /\ deep
  <2>1. [y \in Transfers |-> Fate(y)][x] = "final"
    BY <1>1, <1>3 DEF Fate
  <2> QED BY <1>3, <2>1 DEF Settled, Pays, Port!Outcomes, Answers
<1> QED BY <1>2, <1>3

LEMMA FoundMoves ==
    ASSUME GatewayTypes, NEW v \in Checks, NEW next \in {"body", "tip"},
           block[check[v].transfer] # 0, Found(v, next), UNCHANGED blocks
    PROVE  Moves(v)
<1> DEFINE x == check[v].transfer
           m == [check[v] EXCEPT !.pc = next, !.block = block[x], !.ok = ok[x], !.since = tip]
<1>1. /\ check[v] \in Check /\ x \in Transfers /\ tip \in Nat
      /\ block[x] \in 0 .. tip /\ ok[x] \in BOOLEAN
  BY DEF GatewayTypes, Check
<1>2. check' = [check EXCEPT ![v] = m]
  BY DEF Found, GatewayTypes
<1>3. m \in Check /\ m.pc = next /\ m.block = block[x] /\ m.ok = ok[x] /\ m.since = tip
      /\ m.transfer = x /\ m.owed = check[v].owed /\ m.answer = check[v].answer
  <2> DEFINE b == block[x]
             k == ok[x]
  <2>1. b \in Nat /\ k \in BOOLEAN /\ next \in {"idle", "look", "body", "tip"}
    BY <1>1
  <2> HIDE DEF b, k, x
  <2>2. [check[v] EXCEPT !.pc = next, !.block = b, !.ok = k, !.since = tip] \in Check
    BY <1>1, <2>1 DEF Check
  <2>3. m = [check[v] EXCEPT !.pc = next, !.block = b, !.ok = k, !.since = tip]
    BY DEF b, k
  <2> HIDE DEF m
  <2>4. m \in Check /\ m.pc = next /\ m.block = b /\ m.ok = k /\ m.since = tip
        /\ m.transfer = check[v].transfer /\ m.owed = check[v].owed
        /\ m.answer = check[v].answer
    BY <1>1, <2>2, <2>3 DEF Check
  <2> QED BY <2>4 DEF b, k, x
<1> HIDE DEF m
<1>4. Remembers(m)
  BY <1>1, <1>3, GatewayAssumption DEF Remembers
<1> QED BY <1>2, <1>3, <1>4 DEF Moves, Allowed

LEMMA LooksMove ==
    ASSUME IndInv, NEW v \in Checks,
           EvmLooks(v) \/ BitcoinLooks(v) \/ SolanaLooks(v) \/ ProviderFails(v)
    PROVE  Moves(v)
<1>1. GatewayTypes /\ UNCHANGED blocks
  BY DEF IndInv, EvmLooks, BitcoinLooks, SolanaLooks, ProviderFails
<1>2. {"error", "unobserved"} \subseteq Answers
  BY DEF Answers
<1>3. CASE Answered(v, "error") \/ Answered(v, "unobserved")
  BY <1>1, <1>2, <1>3, AnsweredMoves
<1>4. CASE /\ block[check[v].transfer] # 0
           /\ Found(v, "tip") \/ Found(v, "body")
  BY <1>1, <1>4, FoundMoves
<1>5. CASE /\ Buried(check[v].transfer)
           /\ Answered(v, Settled(v, ok[check[v].transfer], TRUE))
  BY <1>1, <1>5, SettledFinal, AnsweredMoves
<1> QED BY <1>3, <1>4, <1>5 DEF EvmLooks, BitcoinLooks, SolanaLooks, ProviderFails, Committed

LEMMA ReadsBodyMoves ==
    ASSUME IndInv, NEW v \in Checks, EvmReadsBody(v) PROVE Moves(v)
<1>1. /\ GatewayTypes /\ UNCHANGED blocks /\ check[v] \in Check
      /\ check[v].pc = "body" /\ Remembers(check[v])
  BY DEF IndInv, EvmReadsBody, GatewayTypes, Watched, Reading
<1>2. CASE Answered(v, "error")
  BY <1>1, <1>2, AnsweredMoves DEF Answers
<1>3. CASE check' = [check EXCEPT ![v].pc = "tip"]
  <2> DEFINE m == [check[v] EXCEPT !.pc = "tip"]
  <2>1. /\ m \in Check /\ check' = [check EXCEPT ![v] = m]
        /\ m.block = check[v].block /\ m.ok = check[v].ok /\ m.since = check[v].since
        /\ m.transfer = check[v].transfer /\ m.owed = check[v].owed
        /\ m.answer = check[v].answer
    BY <1>1, <1>3 DEF Check, GatewayTypes
  <2> HIDE DEF m
  <2>2. Remembers(m)
    BY <1>1, <2>1 DEF Remembers
  <2> QED BY <1>1, <2>1, <2>2 DEF Moves, Allowed
<1> QED BY <1>2, <1>3 DEF EvmReadsBody

(* Enough confirmations put the transfer out of reach of what the chain can  *)
(* have replaced since, even as counted by a node that lags.                 *)
LEMMA DeepIsBuried ==
    ASSUME IndInv, NEW v \in Checks, check[v].pc = "tip", NEW t \in 0 .. tip,
           DeepEnough(Confirmations(t, check[v].block))
    PROVE  Buried(check[v].transfer) /\ ok[check[v].transfer] = check[v].ok
<1> DEFINE c == check[v]
           b == c.block
<1>1. /\ c \in Check /\ c.transfer \in Transfers /\ tip \in Nat
      /\ b \in Nat /\ c.since \in Nat /\ Remembers(c)
  BY DEF IndInv, GatewayTypes, Watched, Reading, Check
<1>2. ChainOf(token) \in Chains
  BY DEF IndInv, DeploymentInv, Begun, Tokens, ChainOf, Chains, Stablecoins
<1>3. PICK n \in Nat : n = MinConf[ChainOf(token)] /\ n > MaxReorg + Drift
  BY <1>2, GatewayAssumption
<1>4. Confirmations(t, b) >= n
  BY <1>3 DEF DeepEnough
<1> HIDE DEF b
<1>5. b + MaxReorg <= c.since
  <2>1. CASE t >= b
    BY <1>1, <1>3, <1>4, <2>1, GatewayAssumption DEF Confirmations, Remembers, b
  <2>2. CASE t < b
    <3>1. n <= 1
      BY <1>1, <1>3, <1>4, <2>2 DEF Confirmations
    <3>2. MaxReorg = 0
      BY <1>3, <3>1, GatewayAssumption
    <3> QED BY <1>1, <3>2 DEF Remembers, b
  <2> QED BY <1>1, <2>1, <2>2
<1>6. block[c.transfer] = b /\ ok[c.transfer] = c.ok /\ 0 < b /\ c.since <= tip
  BY <1>1, <1>5 DEF Remembers, b
<1> QED BY <1>1, <1>5, <1>6, GatewayAssumption DEF Buried

LEMMA ReadsTipMoves ==
    ASSUME IndInv, NEW v \in Checks, ReadsTip(v) PROVE Moves(v)
<1> DEFINE x == check[v].transfer
<1>1. GatewayTypes /\ UNCHANGED blocks /\ check[v].pc = "tip"
  BY DEF IndInv, ReadsTip
<1>2. PICK t \in 0 .. tip :
        Answered(v, Settled(v, check[v].ok, DeepEnough(Confirmations(t, check[v].block))))
  BY DEF ReadsTip
<1> DEFINE deep == DeepEnough(Confirmations(t, check[v].block))
<1>3. deep \in BOOLEAN
  BY DEF DeepEnough
<1>4. deep => Buried(x) /\ ok[x] = check[v].ok
  BY <1>1, DeepIsBuried
<1>5. Answered(v, Settled(v, check[v].ok, deep))
  BY <1>2
<1> HIDE DEF deep
<1>6. Settled(v, check[v].ok, deep) = Settled(v, ok[x], deep)
  BY <1>3, <1>4 DEF Settled
<1> QED BY <1>1, <1>3, <1>4, <1>5, <1>6, SettledFinal, AnsweredMoves

LEMMA VerifyMoves ==
    ASSUME IndInv, NEW v \in Checks, NEW x \in Transfers, NEW n \in Nat, Verify(v, x, n)
    PROVE  Moves(v)
<1> DEFINE pc == IF Live THEN "look" ELSE "idle"
           a == IF Live THEN "none" ELSE "pays"
           m == [check[v] EXCEPT !.transfer = x, !.owed = n, !.pc = pc, !.answer = a]
<1>1. check[v] \in Check /\ check' = [check EXCEPT ![v] = m] /\ UNCHANGED blocks
  BY DEF IndInv, GatewayTypes, Verify
<1>2. pc \in {"idle", "look"} /\ a \in {"none", "pays"} /\ (a = "pays" => ~Live)
  OBVIOUS
<1> HIDE DEF pc, a
<1>3. m \in Check /\ m.pc = pc /\ m.answer = a
  BY <1>1, <1>2 DEF Check, Answers
<1> HIDE DEF m
<1> QED BY <1>1, <1>2, <1>3 DEF Moves, Allowed

LEMMA MovesKeep ==
    ASSUME IndInv, NEW v \in Checks, Moves(v) PROVE GatewayTypes' /\ Watched'
<1>1. PICK m \in Check :
        /\ check' = [check EXCEPT ![v] = m] /\ UNCHANGED blocks
        /\ m.pc \in {"body", "tip"} => Remembers(m)
  BY DEF Moves
<1>2. GatewayTypes /\ Watched
  BY DEF IndInv
<1>3. GatewayTypes'
  BY <1>1, <1>2 DEF GatewayTypes, blocks
<1>4. ASSUME NEW w \in Checks, check'[w].pc \in {"body", "tip"} PROVE Remembers(check[w])'
  <2>1. PICK c : c = check'[w]
    OBVIOUS
  <2>2. Remembers(c)
    BY <1>1, <1>2, <1>4, <2>1 DEF Watched, Reading, GatewayTypes
  <2>3. Remembers(c)'
    BY <1>1, <2>2 DEF Remembers, blocks
  <2> QED BY <2>1, <2>3 DEF Remembers
<1> QED BY <1>3, <1>4 DEF Watched, Reading

LEMMA GrowKeeps ==
    ASSUME IndInv, NEW d \in 0 .. MaxReorg, Grow(d) PROVE GatewayTypes' /\ Watched'
<1>1. GatewayTypes /\ Watched /\ MaxReorg \in Nat /\ Drift \in Nat
  BY GatewayAssumption DEF IndInv
<1>2. /\ tip' = tip + 1 /\ UNCHANGED <<sent, check>>
      /\ block' \in [Transfers -> 0 .. tip + 1] /\ ok' \in [Transfers -> BOOLEAN]
  BY DEF Grow
<1>3. GatewayTypes'
  BY <1>1, <1>2 DEF GatewayTypes
<1>4. ASSUME NEW v \in Checks, check[v].pc \in {"body", "tip"} PROVE Remembers(check[v])'
  <2> DEFINE c == check[v]
  <2>1. /\ c \in Check /\ c.transfer \in Transfers /\ tip \in Nat
        /\ c.block \in Nat /\ c.since \in Nat /\ block[c.transfer] \in Nat
    BY <1>1 DEF GatewayTypes, Check
  <2>2. Remembers(c) /\ tip < c.since + Drift
    BY <1>1, <1>4 DEF Watched, Reading, Grow
  <2>3. c.since <= tip + 1 /\ tip + 1 <= c.since + Drift
    BY <1>1, <2>1, <2>2 DEF Remembers
  <2>4. ASSUME c.block + MaxReorg <= c.since
        PROVE  block'[c.transfer] = c.block /\ ok'[c.transfer] = c.ok
    <3>1. block[c.transfer] = c.block /\ ok[c.transfer] = c.ok /\ 0 < c.block
      BY <2>2, <2>4 DEF Remembers
    <3>2. c.block <= tip - d
      BY <1>1, <2>1, <2>2, <2>4 DEF Remembers
    <3> QED BY <2>1, <3>1, <3>2 DEF Grow
  <2> QED BY <1>2, <2>2, <2>3, <2>4 DEF Remembers
<1> QED BY <1>2, <1>3, <1>4 DEF Watched, Reading

LEMMA GatewayStep ==
    ASSUME IndInv, GatewayNext
    PROVE  (\E d \in 0 .. MaxReorg : Grow(d)) \/ (\E v \in Checks : Moves(v))
BY LooksMove, ReadsBodyMoves, ReadsTipMoves DEF GatewayNext

LEMMA SendKeeps ==
    ASSUME IndInv, NEW x \in Transfers, Send(x) PROVE GatewayTypes' /\ Watched'
<1>1. GatewayTypes /\ Watched
  BY DEF IndInv
<1>2. sent' = sent \cup {x} /\ UNCHANGED <<tip, block, ok, check>>
  BY DEF Send
<1>3. GatewayTypes'
  BY <1>1, <1>2 DEF GatewayTypes
<1>4. Watched'
  BY <1>1, <1>2 DEF Watched, Reading, Remembers
<1> QED BY <1>3, <1>4

----------------------------------------------------------------------------
(* The whole of a payment *)

LEMMA StillGateway ==
    ASSUME IndInv, UNCHANGED gateway PROVE GatewayTypes' /\ Watched'
<1>1. GatewayTypes /\ Watched /\ UNCHANGED <<tip, block, ok, sent, check>>
  BY DEF IndInv, gateway
<1>2. GatewayTypes' <=> GatewayTypes
  BY <1>1 DEF GatewayTypes
<1>3. Watched' <=> Watched
  BY <1>1 DEF Watched, Reading, Remembers
<1> QED BY <1>1, <1>2, <1>3

LEMMA StillPricing ==
    ASSUME IndInv, UNCHANGED pricing, UNCHANGED config PROVE PricingInv'
<1>1. PricingInv /\ UNCHANGED <<clock, market, cache, row, ask, config>>
  BY DEF IndInv, pricing
<1>2. Still
  BY <1>1 DEF Still
<1>3. PricingTypes' /\ row'.source = "database"
  BY <1>1 DEF PricingInv, PricingTypes
<1>4. Sourced(cache)' /\ Honest(cache)'
  <2>1. PICK r : r = cache
    OBVIOUS
  <2>2. Sourced(r)' /\ Honest(r)'
    BY <1>1, <1>2, <2>1, StillKeeps DEF PricingInv
  <2> QED BY <1>1, <2>1, <2>2 DEF Sourced, Honest
<1>5. ASSUME NEW h \in Askers PROVE Keeps(ask[h])'
  <2>1. PICK a : a = ask[h]
    OBVIOUS
  <2>2. Keeps(a)'
    BY <1>1, <1>2, <2>1, StillKeeps DEF PricingInv
  <2> QED BY <1>1, <2>1, <2>2 DEF Keeps
<1> QED BY <1>3, <1>4, <1>5 DEF PricingInv

LEMMA StepOK == IndInv /\ [Next]_vars => IndInv'
<1> SUFFICES ASSUME IndInv, [Next]_vars PROVE IndInv'
  OBVIOUS
<1>0. /\ DeploymentInv /\ PricingInv /\ GatewayTypes /\ DealTypes /\ Begun /\ Watched
  BY DEF IndInv
<1>1. CASE Starts
  <2>1. UNCHANGED <<pricing, gateway, deal, config>>
    BY <1>1 DEF Starts, Boot, Choose
  <2>2. DeploymentInv'
    BY <1>0, <1>1 DEF DeploymentInv, Starts, Boot, Choose, Valid, RealmsAgree, ConfiguredChains, Realm
  <2>3. PricingInv' /\ GatewayTypes' /\ Watched' /\ DealTypes'
    BY <1>0, <2>1, StillPricing, StillGateway DEF DealTypes
  <2>4. Begun'
    BY <1>0, <1>1, <2>1 DEF Begun, Starts, Boot, Choose, pricing, gateway, Quoted, Tokens
  <2> QED BY <2>2, <2>3, <2>4 DEF IndInv
<1>2. CASE Prices
  <2>1. UNCHANGED <<config, phase, token>> /\ UNCHANGED gateway /\ UNCHANGED deal
        /\ token # "none" /\ PricingNext
    BY <1>2 DEF Prices, Deployed
  <2>2. DeploymentInv' /\ DealTypes'
    BY <1>0, <2>1 DEF DeploymentInv, DealTypes, Valid, RealmsAgree, ConfiguredChains, Realm
  <2>3. PricingInv' /\ GatewayTypes' /\ Watched'
    BY <1>0, <2>1, PricingStep, StillGateway
  <2>4. Begun'
    BY <2>1 DEF Begun
  <2> QED BY <2>2, <2>3, <2>4 DEF IndInv
<1>3. ASSUME NEW h \in Askers, Accept(h) PROVE IndInv'
  <2>1. UNCHANGED <<config, phase, token>> /\ UNCHANGED gateway
        /\ ask[h].pc = "quoted" /\ deal' = [units |-> ask[h].units, prices |-> Window(ask[h])]
    BY <1>3 DEF Accept, Deployed
  <2>2. DeploymentInv'
    BY <1>0, <2>1 DEF DeploymentInv, Valid, RealmsAgree, ConfiguredChains, Realm
  <2>3. PricingInv' /\ GatewayTypes' /\ Watched'
    BY <1>0, <1>3, <2>1, AcceptPricing, StillGateway
  <2>4. DealTypes'
    <3>1. ask[h] \in Ask /\ clock \in Nat /\ Keeps(ask[h])
      BY <1>0 DEF PricingInv, PricingTypes
    <3>2. ask[h].units \in Nat /\ ask[h].rate.price \in Nat /\ ask[h].issued \in Nat
          /\ ask[h].issued <= clock
      BY <3>1 DEF Ask, Rate, Keeps
    <3>3. Window(ask[h]) \subseteq Nat
      <4>1. \A t \in 0 .. clock : market[t] \in Nat
        BY <1>0, OracleAssumption DEF PricingInv, PricingTypes
      <4>2. \A t \in 0 .. ask[h].issued : market[t] \in Nat
        BY <3>1, <3>2, <4>1
      <4>3. {market[t] : t \in {u \in 0 .. ask[h].issued : ask[h].issued <= u + MaxAge}}
              \subseteq Nat
        BY <4>2
      <4> QED BY <3>2, <4>3 DEF Window
    <3> QED BY <2>1, <3>2, <3>3 DEF DealTypes
  <2>5. Begun'
    BY <1>0, <2>1 DEF Begun, Quoted
  <2> QED BY <2>2, <2>3, <2>4, <2>5 DEF IndInv
<1>4. ASSUME UNCHANGED <<config, phase, token>>, UNCHANGED pricing, UNCHANGED deal,
             GatewayTypes', Watched', token # "none"
      PROVE  IndInv'
  <2>1. DeploymentInv' /\ DealTypes'
    BY <1>0, <1>4 DEF DeploymentInv, DealTypes, Valid, RealmsAgree, ConfiguredChains, Realm
  <2>2. PricingInv'
    BY <1>4, StillPricing
  <2> QED BY <1>4, <2>1, <2>2 DEF IndInv, Begun
<1>5. ASSUME NEW x \in Transfers, Pay(x) PROVE IndInv'
  <2>1. token # "none" /\ Send(x)
    BY <1>0, <1>5 DEF Pay, Begun
  <2> QED BY <1>4, <1>5, <2>1, SendKeeps DEF Pay, Deployed
<1>6. ASSUME NEW v \in Checks, Verifies(v) PROVE IndInv'
  <2>1. PICK x \in sent : Verify(v, x, deal.units)
    BY <1>6 DEF Verifies
  <2>2. x \in Transfers /\ deal.units \in Nat /\ token # "none"
    BY <1>0, <2>1 DEF GatewayTypes, DealTypes, Begun
  <2> QED BY <1>4, <1>6, <2>1, <2>2, VerifyMoves, MovesKeep DEF Verifies, Deployed
<1>7. CASE Verification
  <2>1. token # "none" /\ GatewayNext
    BY <1>0, <1>7 DEF Verification, Begun
  <2>2. GatewayTypes' /\ Watched'
    BY <2>1, GatewayStep, GrowKeeps, MovesKeep
  <2> QED BY <1>4, <1>7, <2>1, <2>2 DEF Verification, Deployed
<1>8. CASE UNCHANGED vars
  <2>1. UNCHANGED <<config, phase, token>> /\ UNCHANGED pricing /\ UNCHANGED gateway
        /\ UNCHANGED deal
    BY <1>8 DEF vars
  <2>2. DeploymentInv' /\ DealTypes'
    BY <1>0, <2>1 DEF DeploymentInv, DealTypes, Valid, RealmsAgree, ConfiguredChains, Realm
  <2>3. Begun'
    BY <1>0, <2>1 DEF Begun, Quoted, pricing, gateway
  <2> QED BY <2>1, <2>2, <2>3, StillPricing, StillGateway DEF IndInv
<1> QED BY <1>1, <1>2, <1>3, <1>5, <1>6, <1>7, <1>8 DEF Next

LEMMA Invariant == Spec => []IndInv
  BY InitOK, StepOK, PTL DEF Spec

(* Types of the configuration, the oracle, the gateways and the quote.       *)
THEOREM Typed == Spec => []TypeOK
<1>1. IndInv => TypeOK
  BY DEF IndInv, DeploymentInv, PricingInv, PricingTypes, GatewayTypes, DealTypes, TypeOK
<1> QED BY <1>1, Invariant, PTL

(* No rate the cache or a handler holds is younger than its stamp says, in   *)
(* whatever order lookups, answers of the market and cache writes come.      *)
THEOREM StampsStayHonest == Spec => []StampsAreHonest
<1>1. IndInv => StampsAreHonest
  BY DEF IndInv, PricingInv, Keeps, StampsAreHonest
<1> QED BY <1>1, Invariant, PTL

LEMMA FreshOK == IndInv => QuoteIsFresh
<1> SUFFICES ASSUME IndInv, NEW h \in Quoted, Live
             PROVE  LET r == ask[h].rate
                        oldest == IF ask[h].issued > MaxAge THEN ask[h].issued - MaxAge ELSE 0
                    IN  \/ r.source = "pegged"
                        \/ r.source = "coingecko"
                             /\ r.price \in {market[t] : t \in oldest .. ask[h].issued}
                        \/ r.source = "database" /\ row # NoRate /\ oldest <= row.at
  BY DEF QuoteIsFresh
<1> DEFINE r == ask[h].rate
           oldest == IF ask[h].issued > MaxAge THEN ask[h].issued - MaxAge ELSE 0
<1>1. /\ h \in Askers /\ ask[h].pc = "quoted" /\ ask[h] \in Ask /\ Keeps(ask[h])
  BY DEF Quoted, IndInv, PricingInv, PricingTypes
<1>2. /\ r \in Rate /\ r.at \in Nat /\ ask[h].issued \in Nat /\ MaxAge \in Nat
      /\ r.source \in Sources
  BY <1>1, OracleAssumption DEF Ask, Rate
<1>3. ask[h].issued <= r.at + MaxAge /\ r # NoRate /\ Sourced(r)
  BY <1>1 DEF Keeps
<1>4. oldest <= r.at /\ oldest \in Nat
  BY <1>2, <1>3
<1> HIDE DEF oldest
<1>5. CASE r.source = "coingecko"
  <2>1. PICK t \in r.at .. ask[h].issued : market[t] = r.price
    BY <1>1, <1>5 DEF Keeps
  <2>2. t \in oldest .. ask[h].issued
    BY <1>2, <1>4, <2>1
  <2> QED BY <1>5, <2>1, <2>2 DEF oldest
<1>6. CASE r.source = "database"
  <2>1. r = row
    BY <1>3, <1>6 DEF Sourced
  <2> QED BY <1>3, <1>4, <1>6, <2>1 DEF oldest
<1> QED BY <1>2, <1>3, <1>5, <1>6 DEF Sources, Sourced

(* What a live server quotes was a price of the market within the maximum    *)
(* age of the quote, the peg, or a row no older than that.                   *)
THEOREM QuotesStayFresh == Spec => []QuoteIsFresh
  BY FreshOK, Invariant, PTL

(* A serving server cannot settle one asset on a mainnet and another on a    *)
(* test network.                                                             *)
THEOREM RealmsNeverMix == Spec => []NoMixedRealms
<1>1. IndInv => NoMixedRealms
  <2> SUFFICES ASSUME IndInv, phase = "serving",
                      NEW t \in Tokens, NEW u \in Tokens, Payable(t), Payable(u),
                      Realm(config, ChainOf(t)) = "mainnet"
               PROVE  Realm(config, ChainOf(u)) = "mainnet"
    BY DEF NoMixedRealms
  <2> DEFINE realms == {Realm(config, ch) : ch \in ConfiguredChains(config)}
  <2>1. ChainOf(t) \in ConfiguredChains(config) /\ ChainOf(u) \in ConfiguredChains(config)
    BY DEF Payable, ConfiguredChains
  <2>2. Realm(config, ChainOf(t)) \in realms /\ Realm(config, ChainOf(u)) \in realms
    BY <2>1
  <2>3. "mainnet" \in realms => realms = {"mainnet"}
    BY DEF IndInv, DeploymentInv, Valid, RealmsAgree
  <2> HIDE DEF realms
  <2> QED BY <2>2, <2>3
<1> QED BY <1>1, Invariant, PTL

----------------------------------------------------------------------------
(* Units: what the rounded division of a total makes of it *)

LEMMA DivMod ==
    ASSUME NEW n \in Nat, NEW d \in Nat \ {0}
    PROVE  n \div d \in Nat /\ n % d \in 0 .. d - 1 /\ n = (n \div d) * d + (n % d)
  OBVIOUS

LEMMA TimesMonotone ==
    ASSUME NEW a \in Int, NEW b \in Int, NEW c \in Nat, a <= b PROVE a * c <= b * c
  OBVIOUS

LEMMA Products == \A a, b \in Nat : a * b \in Nat
  OBVIOUS


(* Rounding up: the least multiple that is not below.                        *)
LEMMA UpIs ==
    ASSUME NEW h \in Nat, NEW k \in Nat, k * Guard <= h + Guard - 1, h <= k * Guard
    PROVE  Up(h, Guard) = k
<1> DEFINE N == h + Guard - 1
           m == N \div Guard
           r == N % Guard
<1>1. Guard \in Nat /\ Guard >= 1 /\ k * Guard \in Nat
  BY ConversionAssumption, Products
<1>2. N \in Nat
  BY <1>1
<1>3. m \in Nat /\ r \in 0 .. Guard - 1 /\ N = m * Guard + r
  <2> HIDE DEF N
  <2> QED BY <1>1, <1>2, DivMod
<1> HIDE DEF m, r
<1>4. h + Guard - 1 = m * Guard + r
  BY <1>3
<1>5. ~(m <= k - 1)
  <2> SUFFICES ASSUME m <= k - 1 PROVE FALSE
    OBVIOUS
  <2>1. m * Guard <= (k - 1) * Guard
    BY <1>1, <1>3, TimesMonotone
  <2>2. (k - 1) * Guard = k * Guard - Guard
    BY <1>1
  <2> QED BY <1>1, <1>3, <1>4, <2>1, <2>2
<1>6. ~(m >= k + 1)
  <2> SUFFICES ASSUME m >= k + 1 PROVE FALSE
    OBVIOUS
  <2>1. (k + 1) * Guard <= m * Guard
    BY <1>1, <1>3, TimesMonotone
  <2>2. (k + 1) * Guard = k * Guard + Guard
    BY <1>1
  <2> QED BY <1>1, <1>3, <1>4, <2>1, <2>2
<1> QED BY <1>3, <1>5, <1>6 DEF Up, m

(* The guard digits of the quotient keep its rounding away from whole base   *)
(* units: what is left over stays above them, what is exact stays exact.     *)
LEMMA QuotientBetween ==
    ASSUME NEW n \in Nat, NEW p \in Nat \ {0}, p < 2 * Guard
    PROVE  \E k \in Nat :
             /\ HalfEven(n * Guard, p) \in Nat
             /\ k * Guard <= HalfEven(n * Guard, p) + Guard - 1
             /\ HalfEven(n * Guard, p) <= k * Guard
             /\ k * p >= n /\ (k - 1) * p < n
<1> DEFINE k == n \div p
           j == n % p
           N == n * Guard
           q == N \div p
           r == N % p
           kG == k * Guard
           jG == j * Guard
           h == HalfEven(N, p)
<1>1. Guard \in Nat /\ Guard >= 1 /\ p >= 1
  BY ConversionAssumption
<1>2. k \in Nat /\ j \in 0 .. p - 1 /\ n = k * p + j
  BY DivMod
<1>3. N \in Nat
  BY <1>1, Products
<1>4. q \in Nat /\ r \in 0 .. p - 1 /\ N = q * p + r
  <2> HIDE DEF N
  <2> QED BY <1>3, DivMod
<1>5. h = IF 2 * r > p \/ (2 * r = p /\ q % 2 = 1) THEN q + 1 ELSE q
  BY DEF HalfEven
<1> HIDE DEF k, j, q, r, h
<1>6. kG \in Nat /\ jG \in Nat /\ N = kG * p + jG
  <2>1. N = (k * p + j) * Guard
    BY <1>2
  <2>2. k * p \in Nat
    BY <1>2, Products
  <2>3. (k * p + j) * Guard = (k * p) * Guard + j * Guard
    BY <1>1, <1>2, <2>2
  <2>4. (k * p) * Guard = (k * Guard) * p
    BY <1>1, <1>2
  <2>5. kG \in Nat /\ jG \in Nat
    BY <1>1, <1>2, Products
  <2> QED BY <2>1, <2>3, <2>4, <2>5
<1> DEFINE e == q - kG
<1>7. e \in Int /\ q = kG + e
  BY <1>4, <1>6
<1> HIDE DEF e
<1>8. e * p + r = jG
  <2>1. q * p + r = kG * p + jG
    BY <1>4, <1>6
  <2> HIDE DEF kG, jG, N
  <2>2. (kG + e) * p = kG * p + e * p
    BY <1>6, <1>7
  <2>3. kG * p \in Nat /\ e * p \in Int
    BY <1>6, <1>7, Products
  <2> QED BY <1>4, <1>6, <1>7, <2>1, <2>2, <2>3
<1> HIDE DEF N, kG
<1>9. e >= 0
  <2> SUFFICES ASSUME e <= 0 - 1 PROVE FALSE
    BY <1>7
  <2>1. e * p <= (0 - 1) * p
    BY <1>7, TimesMonotone
  <2>2. e * p \in Int
    BY <1>7
  <2> HIDE DEF jG
  <2> QED BY <1>4, <1>6, <1>8, <2>1, <2>2
<1>10. CASE j = 0
  <2>1. jG = 0
    BY <1>1, <1>10
  <2>2. e = 0
    <3> SUFFICES ASSUME e >= 1 PROVE FALSE
      BY <1>7, <1>9
    <3>1. 1 * p <= e * p
      BY <1>7, TimesMonotone
    <3>2. e * p \in Int
      BY <1>7
    <3> QED BY <1>4, <1>8, <2>1, <3>1, <3>2
  <2>3. r = 0 /\ q = kG
    BY <1>4, <1>6, <1>7, <1>8, <2>1, <2>2
  <2>4. h = kG
    BY <1>1, <1>5, <2>3
  <2>5. k * p >= n /\ (k - 1) * p < n
    <3>1. n = k * p /\ k * p \in Nat
      BY <1>2, <1>10, Products
    <3>2. (k - 1) * p = k * p - p
      BY <1>2
    <3> QED BY <1>1, <3>1, <3>2
  <2> QED BY <1>1, <1>2, <1>6, <2>4, <2>5 DEF h, N, kG
<1>11. CASE j >= 1
  <2>1. jG >= Guard
    <3>1. 1 * Guard <= j * Guard
      BY <1>1, <1>2, <1>11, TimesMonotone
    <3> QED BY <1>1, <3>1
  <2>2. jG <= (p - 1) * Guard
    BY <1>1, <1>2, TimesMonotone
  <2>3. (p - 1) * Guard = Guard * p - Guard
    BY <1>1
  <2>4. Guard * p \in Nat
    BY <1>1, Products
  <2> HIDE DEF jG
  <2>5. e <= Guard - 1
    <3> SUFFICES ASSUME e >= Guard PROVE FALSE
      BY <1>1, <1>7
    <3>1. Guard * p <= e * p
      BY <1>1, <1>7, TimesMonotone
    <3>2. e * p \in Int
      BY <1>7
    <3> QED BY <1>1, <1>4, <1>6, <1>8, <2>2, <2>3, <2>4, <3>1, <3>2
  <2>6. h <= kG + Guard
    BY <1>1, <1>4, <1>5, <1>6, <1>7, <2>5
  <2>7. h >= kG + 1
    <3>1. CASE e >= 1
      BY <1>4, <1>5, <1>6, <1>7, <3>1
    <3>2. CASE e = 0
      <4>1. r = jG
        BY <1>4, <1>6, <1>8, <3>2
      <4>2. 2 * r > p
        BY <1>1, <1>4, <2>1, <4>1
      <4> QED BY <1>4, <1>5, <1>6, <1>7, <3>2, <4>2
    <3> QED BY <1>7, <1>9, <3>1, <3>2
  <2>8. (k + 1) * Guard = kG + Guard
    BY <1>1, <1>2 DEF kG
  <2>9. (k + 1) * p >= n /\ (k + 1 - 1) * p < n
    <3>1. (k + 1) * p = k * p + p /\ k * p \in Nat
      BY <1>2, Products
    <3>2. (k + 1 - 1) * p = k * p
      BY <1>2
    <3> QED BY <1>1, <1>2, <1>11, <3>1, <3>2
  <2>10. h \in Nat
    BY <1>4, <1>5
  <2> DEFINE l == k + 1
  <2>11. l \in Nat /\ l * Guard <= h + Guard - 1 /\ h <= l * Guard /\ l * p >= n /\ (l - 1) * p < n
    BY <1>1, <1>2, <1>6, <2>6, <2>7, <2>8, <2>9, <2>10
  <2> HIDE DEF l
  <2> QED BY <2>10, <2>11 DEF h, N
<1> QED BY <1>2, <1>10, <1>11

(* The customer pays the total, and less than a base unit more.              *)
LEMMA UnitsPay ==
    ASSUME NEW cents \in Nat, NEW p \in Nat \ {0}, p < 2 * Guard, UnitsFor(cents, p) # 0
    PROVE  /\ UnitsFor(cents, p) * p >= cents * UnitsIn
           /\ (UnitsFor(cents, p) - 1) * p < cents * UnitsIn
<1> DEFINE n == cents * UnitsIn
           h == HalfEven(n * Guard, p)
<1>1. n \in Nat
  BY ConversionAssumption, Products
<1>2. UnitsFor(cents, p) = Up(h, Guard)
  BY DEF UnitsFor
<1> HIDE DEF n
<1>3. PICK k \in Nat :
        /\ h \in Nat /\ k * Guard <= h + Guard - 1 /\ h <= k * Guard
        /\ k * p >= n /\ (k - 1) * p < n
  BY <1>1, QuotientBetween
<1> HIDE DEF h
<1>4. UnitsFor(cents, p) = k
  BY <1>2, <1>3, UpIs
<1> QED BY <1>3, <1>4 DEF n

----------------------------------------------------------------------------
(* What a quote is worth *)

Total == TotalOf(Base) * UnitsIn

(* Every rate held anywhere has a price the oracle can give, and a quote     *)
(* pays the total at it.                                                     *)
Known(r) == r = NoRate \/ r.price \in RatePrices

Priced(a) ==
    /\ Known(a.rate)
    /\ a.pc = "quoted" => /\ a.units * a.rate.price >= Total
                          /\ (a.units - 1) * a.rate.price < Total

RatesInv == Known(cache) /\ Known(row) /\ \A h \in Askers : Priced(ask[h])

LEMMA OneAskPriced ==
    ASSUME IndInv, RatesInv, NEW h \in Askers, NEW m, Priced(m),
           ask' = [ask EXCEPT ![h] = m], Known(cache'), row' = row
    PROVE  RatesInv'
<1>1. ask \in [Askers -> Ask]
  BY DEF IndInv, PricingInv, PricingTypes
<1>2. \A g \in Askers : ask'[g] = m \/ ask'[g] = ask[g]
  BY <1>1
<1> HIDE DEF Known, Priced
<1>3. \A g \in Askers : Priced(ask'[g])
  BY <1>2 DEF RatesInv
<1>4. Known(row')
  BY DEF RatesInv
<1> QED BY <1>3, <1>4 DEF RatesInv, Priced, Known

LEMMA PricesOK == \A p \in RatePrices : p \in Nat \ {0} /\ p < 2 * Guard
<1>1. ASSUME NEW p \in RatePrices PROVE p \in Nat \ {0}
  BY OracleAssumption DEF RatePrices, Peg
<1> QED BY <1>1, PrecisionAssumption

LEMMA UnaskedPriced == Priced(Unasked) /\ Priced([Unasked EXCEPT !.pc = "refused"])
  BY DEF Priced, Known, Unasked

LEMMA AskRates ==
    ASSUME IndInv, RatesInv, PricingNext
    PROVE  RatesInv'
<1>0. /\ ask \in [Askers -> Ask] /\ clock \in Nat /\ market \in [0 .. clock -> MarketPrices]
      /\ Known(cache) /\ Known(row)
  BY DEF IndInv, PricingInv, PricingTypes, RatesInv
<1>1. CASE Later
  BY <1>1 DEF Later, RatesInv, Known, Priced
<1> SUFFICES ASSUME NEW h \in Askers,
                    \/ Lookup(h) \/ MarketReads(h) \/ Fetched(h) \/ FetchFails(h)
                    \/ TableReads(h) \/ TableAnswers(h) \/ Issue(h)
             PROVE  RatesInv'
  BY <1>1 DEF PricingNext
<1>2. ask[h] \in Ask /\ Keeps(ask[h]) /\ Priced(ask[h]) /\ Known(ask[h].rate)
  BY DEF IndInv, PricingInv, PricingTypes, RatesInv, Priced
<1>3. CASE Lookup(h)
  <2> DEFINE begins == [Unasked EXCEPT !.begun = clock]
             m == IF token \in Stablecoins
                  THEN [begins EXCEPT !.pc = "priced",
                          !.rate = [price |-> Peg, at |-> clock, source |-> "pegged"]]
                  ELSE IF Cached(clock) THEN [begins EXCEPT !.pc = "priced", !.rate = cache]
                  ELSE [begins EXCEPT !.pc = IF Live THEN "fetch" ELSE "table"]
  <2>1. /\ ask' = [ask EXCEPT ![h] = m]
        /\ m.pc \in {"priced", "fetch", "table"}
        /\ m.rate \in {cache, NoRate} \/ m.rate.price = Peg
    BY <1>3 DEF Lookup, Unasked
  <2> HIDE DEF m
  <2>2. Priced(m)
    BY <1>0, <2>1 DEF Priced, Known, RatePrices
  <2> QED BY <1>0, <1>3, <2>1, <2>2, OneAskPriced DEF Lookup
<1>4. CASE MarketReads(h)
  <2> DEFINE m == [ask[h] EXCEPT !.pc = "fetched",
                     !.rate = [price |-> market[clock], at |-> clock, source |-> "coingecko"]]
  <2>1. market[clock] \in MarketPrices
    <3>1. clock \in 0 .. clock
      BY <1>0
    <3> QED BY <1>0, <3>1
  <2>2. ask' = [ask EXCEPT ![h] = m] /\ cache' = cache /\ row' = row
    BY <1>0, <1>2, <1>4 DEF MarketReads
  <2>3. Priced(m)
    BY <1>2, <2>1 DEF Priced, Known, RatePrices, Ask
  <2> HIDE DEF m
  <2> QED BY <1>0, <2>2, <2>3, OneAskPriced
<1>5. CASE Fetched(h)
  <2> DEFINE r == Observed(h)
             m == [ask[h] EXCEPT !.pc = "priced", !.rate = r]
  <2>1. ask[h].rate.source = "coingecko" /\ ask[h].rate \in Rate
    BY <1>2, <1>5 DEF Fetched, Keeps, Ask
  <2>2. ask[h].rate.price \in RatePrices
    BY <1>2, <2>1 DEF Known, NoRate
  <2>3. Known(r)
    BY <2>1, <2>2 DEF Observed, Known, Rate
  <2>4. ask' = [ask EXCEPT ![h] = m] /\ cache' = r /\ row' = row
    BY <1>0, <1>2, <1>5 DEF Fetched, Has
  <2> HIDE DEF r
  <2>5. Priced(m)
    BY <1>2, <2>3 DEF Priced, Ask
  <2> HIDE DEF m
  <2> QED BY <2>3, <2>4, <2>5, OneAskPriced
<1>6. CASE FetchFails(h) \/ TableReads(h)
  <2>1. PICK pc, r : /\ pc \in {"table", "read"} /\ r \in {row, NoRate}
                     /\ ask' = [ask EXCEPT ![h].pc = pc, ![h].rate = r]
    BY <1>6 DEF FetchFails, TableReads
  <2> DEFINE m == [ask[h] EXCEPT !.pc = pc, !.rate = r]
  <2>2. ask' = [ask EXCEPT ![h] = m] /\ cache' = cache /\ row' = row
    BY <1>0, <1>2, <1>6, <2>1 DEF FetchFails, TableReads
  <2>3. Priced(m)
    BY <1>0, <1>2, <2>1 DEF Priced, Ask, Known
  <2> HIDE DEF m
  <2> QED BY <1>0, <2>2, <2>3, OneAskPriced
<1>7. CASE TableAnswers(h)
  <2>1. CASE Refuse(h) /\ UNCHANGED cache
    BY <1>0, <1>7, <2>1, UnaskedPriced, OneAskPriced DEF Refuse, TableAnswers
  <2>2. ASSUME NEW r, Known(r), Has(h, r), cache' \in {ask[h].rate, cache} PROVE RatesInv'
    <3> DEFINE m == [ask[h] EXCEPT !.pc = "priced", !.rate = r]
    <3>1. ask' = [ask EXCEPT ![h] = m] /\ row' = row
      BY <1>0, <1>2, <1>7, <2>2 DEF Has, TableAnswers
    <3>2. Priced(m)
      BY <1>2, <2>2 DEF Priced, Ask
    <3>3. Known(cache')
      BY <1>0, <1>2, <2>2
    <3> HIDE DEF m
    <3> QED BY <3>1, <3>2, <3>3, OneAskPriced
  <2> DEFINE floor == [price |-> FloorPrice, at |-> ask[h].begun, source |-> "static-floor-dev"]
  <2>3. Known(floor)
    BY DEF Known, RatePrices
  <2>4. \/ Refuse(h) /\ UNCHANGED cache
        \/ Has(h, ask[h].rate) /\ cache' \in {ask[h].rate, cache}
        \/ Has(h, floor) /\ UNCHANGED cache
    BY <1>7 DEF TableAnswers
  <2> HIDE DEF floor
  <2> QED BY <1>2, <2>1, <2>2, <2>3, <2>4
<1>8. CASE Issue(h)
  <2>1. CASE Refuse(h)
    BY <1>0, <1>8, <2>1, UnaskedPriced, OneAskPriced DEF Refuse, Issue
  <2>2. CASE ~Refuse(h)
    <3> DEFINE total == TotalOf(Base)
               price == ask[h].rate.price
               units == UnitsFor(total, price)
               m == [ask[h] EXCEPT !.pc = "quoted", !.units = units, !.issued = clock]
    <3>1. units # 0 /\ ask' = [ask EXCEPT ![h] = m] /\ cache' = cache /\ row' = row
      BY <1>0, <1>2, <1>8, <2>2 DEF Issue
    <3>2. price \in RatePrices
      BY <1>2, <1>8 DEF Issue, Keeps, Known
    <3>3. price \in Nat \ {0} /\ price < 2 * Guard
      BY <3>2, PricesOK
    <3>4. total \in Nat
      BY TotalType, ConversionAssumption
    <3>5. units * price >= total * UnitsIn /\ (units - 1) * price < total * UnitsIn
      <4> HIDE DEF price, total
      <4> QED BY <3>1, <3>3, <3>4, UnitsPay
    <3> HIDE DEF units
    <3>6. m.pc = "quoted" /\ m.units = units /\ m.rate = ask[h].rate
      BY <1>2 DEF Ask
    <3> HIDE DEF m
    <3>7. Priced(m)
      BY <1>2, <3>5, <3>6 DEF Priced, Total
    <3> QED BY <1>0, <3>1, <3>7, OneAskPriced
  <2> QED BY <2>1, <2>2
<1> QED BY <1>3, <1>4, <1>5, <1>6, <1>7, <1>8

LEMMA RatesStep == IndInv /\ RatesInv /\ [Next]_vars => RatesInv'
<1> SUFFICES ASSUME IndInv, RatesInv, [Next]_vars PROVE RatesInv'
  OBVIOUS
<1>1. ASSUME UNCHANGED pricing PROVE RatesInv'
  BY <1>1 DEF pricing, RatesInv, Known, Priced
<1>2. CASE Prices
  BY <1>2, AskRates DEF Prices
<1>3. ASSUME NEW h \in Askers, Accept(h) PROVE RatesInv'
  <2>1. cache' = NoRate /\ row' = NoRate /\ \A g \in Askers : ask'[g] = Unasked
    BY <1>3 DEF Accept
  <2> QED BY <2>1, UnaskedPriced DEF RatesInv, Known, Priced
<1> QED BY <1>1, <1>2, <1>3 DEF Next, Starts, Pay, Verifies, Verification, vars

LEMMA RatesInit == Init => RatesInv
<1> SUFFICES ASSUME Init PROVE RatesInv
  OBVIOUS
<1>1. Known(NoRate) /\ Known(row)
  BY DEF Init, PricingInit, Known, RatePrices
<1> QED BY <1>1, UnaskedPriced DEF Init, PricingInit, RatesInv

LEMMA RatesInvariant == Spec => []RatesInv
  BY RatesInit, RatesStep, Invariant, PTL DEF Spec

(* A quote pays the total at its rate and less than a base unit more, for    *)
(* every price the oracle can give.                                          *)
THEOREM QuotesPayTotal == Spec => []QuotePaysTotal
<1>1. RatesInv => QuotePaysTotal
  BY DEF RatesInv, Priced, Total, QuotePaysTotal, Quoted
<1> QED BY <1>1, RatesInvariant, PTL

----------------------------------------------------------------------------
(* The gateways implement the port *)

Chain == [x \in Transfers |-> Fate(x)]
Said == [v \in Checks |-> Asked(v)]

LEMMA InitRefines == Init => Port!Init
<1> SUFFICES ASSUME Init PROVE Port!Init
  OBVIOUS
<1>1. \A x \in Transfers : Fate(x) = "unseen"
  BY DEF Init, GatewayInit, Fate, Buried
<1>2. \A v \in Checks : Asked(v).answer = "none"
  BY DEF Init, GatewayInit, Asked, Unchecked
<1> QED BY <1>1, <1>2 DEF Port!Init, Port!ChainInit

LEMMA FatesOK == \A x : Fate(x) \in Port!Fates
  BY DEF Fate, Port!Fates

(* No block that comes or goes changes what has been decided.                *)
LEMMA GrowRefines ==
    ASSUME IndInv, NEW d \in 0 .. MaxReorg, Grow(d), UNCHANGED config PROVE Port!Next
<1>1. GatewayTypes /\ MaxReorg \in Nat
  BY GatewayAssumption DEF IndInv
<1>2. ASSUME NEW x \in Transfers, Fate(x) # "unseen" PROVE Fate(x)' = Fate(x)
  <2>1. block[x] \in Nat /\ tip \in Nat /\ block[x] # 0 /\ block[x] + MaxReorg <= tip
    BY <1>1, <1>2 DEF Fate, Buried, GatewayTypes
  <2>2. 0 < block[x] /\ block[x] <= tip - d
    BY <1>1, <2>1
  <2>3. block'[x] = block[x] /\ ok'[x] = ok[x] /\ tip' = tip + 1
    BY <2>2 DEF Grow
  <2>4. block[x] + MaxReorg <= tip + 1
    BY <1>1, <2>1
  <2>5. Buried(x) /\ Buried(x)'
    BY <2>1, <2>3, <2>4 DEF Buried
  <2> QED BY <2>3, <2>5 DEF Fate
<1>3. /\ Chain' \in [Transfers -> Port!Fates]
      /\ \A x \in Transfers : Chain[x] # "unseen" => Chain'[x] = Chain[x]
  <2>1. \A x : Fate(x)' \in Port!Fates
    BY DEF Fate, Port!Fates
  <2>2. Chain' = [x \in Transfers |-> Fate(x)'] /\ Chain = [x \in Transfers |-> Fate(x)]
    BY DEF Chain
  <2> QED BY <1>2, <2>1, <2>2
<1>4. Port!ChainNext
  BY <1>3 DEF Port!ChainNext, Chain
<1>5. \A v \in Checks : Said'[v] = Said[v]
  BY DEF Said, Asked, Grow
<1>6. \A v \in Checks : Port!Answers(v)
  BY <1>5 DEF Port!Answers, Said
<1> QED BY <1>4, <1>6 DEF Port!Next, Live

(* A verification moves alone and says what the port allows.                 *)
LEMMA MovesRefine ==
    ASSUME IndInv, NEW v \in Checks, Moves(v), UNCHANGED config PROVE Port!Next
<1>1. PICK m \in Check :
        check' = [check EXCEPT ![v] = m] /\ UNCHANGED blocks /\ Allowed(v, m)
  BY DEF Moves
<1>2. GatewayTypes /\ UNCHANGED <<tip, block, ok, sent>>
  BY <1>1 DEF IndInv, blocks
<1>3. \A x \in Transfers : Fate(x)' = Fate(x)
  BY <1>2 DEF Fate, Buried
<1>4. Chain' = Chain /\ Chain \in [Transfers -> Port!Fates]
  BY <1>3, FatesOK DEF Chain
<1>5. Port!ChainNext
  BY <1>4 DEF Port!ChainNext, Chain
<1>6. Said'[v] = [transfer |-> m.transfer, owed |-> m.owed, answer |-> m.answer]
      /\ Said[v] = Asked(v)
  BY <1>1, <1>2 DEF Said, Asked, GatewayTypes
<1>7. Port!Answers(v)
  <2>1. \/ Said'[v] = Said[v]
        \/ Said'[v].answer \in {"none", "error"}
        \/ ~Live /\ Said'[v].answer = "pays"
        \/ Said'[v].answer \in Port!Outcomes(Said'[v].transfer, Said'[v].owed)
    BY <1>1, <1>6 DEF Allowed, Asked
  <2> QED BY <2>1 DEF Port!Answers, Port!NoAnswer, Said
<1>8. ASSUME NEW w \in Checks, w # v PROVE Port!Answers(w)
  <2>1. Said'[w] = Said[w]
    BY <1>1, <1>2, <1>8 DEF Said, Asked, GatewayTypes
  <2> QED BY <2>1 DEF Port!Answers, Said
<1> QED BY <1>5, <1>7, <1>8 DEF Port!Next, Live

Shown == <<Chain, Said, ~Live>>

LEMMA StepRefines == IndInv /\ [Next]_vars => Port!Next \/ UNCHANGED Shown
<1> SUFFICES ASSUME IndInv, [Next]_vars PROVE Port!Next \/ UNCHANGED Shown
  OBVIOUS
<1>1. UNCHANGED config
  BY DEF Next, Starts, Boot, Choose, Prices, Accept, Pay, Verifies, Verification, Deployed, vars
<1>2. ASSUME UNCHANGED <<tip, block, ok, check>> PROVE UNCHANGED Shown
  BY <1>1, <1>2 DEF Shown, Chain, Said, Fate, Buried, Asked, Live
<1>3. CASE Starts \/ Prices \/ (\E h \in Askers : Accept(h)) \/ UNCHANGED vars
  BY <1>2, <1>3 DEF Starts, Prices, Accept, vars, gateway
<1>4. ASSUME NEW x \in Transfers, Pay(x) PROVE UNCHANGED Shown
  BY <1>2, <1>4 DEF Pay, Send
<1>5. ASSUME NEW v \in Checks, Verifies(v) PROVE Port!Next
  <2>1. PICK x \in sent : Verify(v, x, deal.units)
    BY <1>5 DEF Verifies
  <2>2. x \in Transfers /\ deal.units \in Nat
    BY DEF IndInv, GatewayTypes, DealTypes
  <2> QED BY <1>1, <2>1, <2>2, VerifyMoves, MovesRefine
<1>6. CASE Verification
  <2>1. GatewayNext
    BY <1>6 DEF Verification
  <2> QED BY <1>1, <2>1, GatewayStep, GrowRefines, MovesRefine
<1> QED BY <1>3, <1>4, <1>5, <1>6 DEF Next

(* The gateways keep what the port promises the checkout: a transfer is      *)
(* decided once, and no live verification says more of it than that, for any *)
(* depth of reorganisation the confirmations cover.                          *)
THEOREM Refinement == Spec => KeepsPort
<1>1. IndInv /\ [Next]_vars =>
        [Port!Next]_<<[x \in Transfers |-> Fate(x)], [v \in Checks |-> Asked(v)], ~Live>>
  BY StepRefines DEF Shown, Chain, Said
<1> QED BY <1>1, InitRefines, Invariant, PTL DEF Spec, KeepsPort, Port!Spec
----------------------------------------------------------------------------
(* From the quote to the wallet of the platform *)

(* A verification that may still answer, or has said "pays", was asked for   *)
(* what the quote owes.                                                      *)
AsksWhatIsOwed(c) ==
    c.pc # "idle" \/ c.answer = "pays" => deal # NoDeal /\ c.owed = deal.units

Covered == \E p \in deal.prices : deal.units * p >= Total

(* What a live verification says "pays" of is settled on the chain.          *)
Backed ==
    \A v \in Checks : Live /\ Said[v].answer = "pays" =>
      /\ Chain[Said[v].transfer] = "final" /\ Said[v].transfer \in ToPlatform
      /\ Amount[Said[v].transfer] >= Said[v].owed

PaidInv ==
    /\ token # "none" => phase = "serving"
    /\ deal # NoDeal => Covered
    /\ deal = NoDeal => sent = {}
    /\ \A v \in Checks : AsksWhatIsOwed(check[v])

(* The price a quote was made at is one the market showed in its window.     *)
LEMMA AcceptCovers ==
    ASSUME IndInv, RatesInv, NEW h \in Askers, Accept(h)
    PROVE  deal' # NoDeal /\ Covered'
<1> DEFINE q == ask[h]
           price == q.rate.price
<1>1. /\ q \in Ask /\ Keeps(q) /\ Priced(q) /\ q.pc = "quoted"
      /\ clock \in Nat /\ market \in [0 .. clock -> MarketPrices]
  BY DEF IndInv, PricingInv, PricingTypes, RatesInv, Accept
<1>2. deal' = [units |-> q.units, prices |-> Window(q)]
  BY DEF Accept
<1>3. price \in Window(q)
  <2>1. CASE q.rate.source # "coingecko"
    BY <2>1 DEF Window
  <2>2. CASE q.rate.source = "coingecko"
    <3>1. q.rate.at \in Nat /\ q.issued \in Nat /\ q.issued <= q.rate.at + MaxAge
      BY <1>1 DEF Keeps, Ask, Rate
    <3>2. PICK t \in q.rate.at .. q.issued : market[t] = price
      BY <1>1, <2>2 DEF Keeps
    <3>3. t \in 0 .. q.issued /\ q.issued <= t + MaxAge
      BY <3>1, OracleAssumption
    <3> QED BY <2>2, <3>2, <3>3 DEF Window
  <2> QED BY <2>1, <2>2
<1>4. q.units * price >= Total
  BY <1>1 DEF Priced
<1> HIDE DEF q, price
<1>5. deal'.units = q.units /\ deal'.prices = Window(q)
  BY <1>2
<1>6. deal'.units * price >= Total
  BY <1>4, <1>5
<1>7. Total' = Total
  BY DEF Total
<1> QED BY <1>3, <1>5, <1>6, <1>7 DEF Covered, NoDeal

(* A gateway never forgets what a verification was asked, and an idle one    *)
(* says nothing new.                                                         *)
LEMMA OwedStays ==
    ASSUME GatewayTypes, GatewayNext, NEW w \in Checks
    PROVE  /\ check'[w].owed = check[w].owed
           /\ check[w].pc = "idle" => check'[w] = check[w]
<1>1. check \in [Checks -> Check] /\ check[w] \in Check
  BY DEF GatewayTypes
<1>2. ASSUME NEW v \in Checks, check[v].pc # "idle",
             \/ \E a : Answered(v, a)
             \/ \E next : Found(v, next)
             \/ check' = [check EXCEPT ![v].pc = "tip"]
      PROVE  check'[w].owed = check[w].owed /\ (check[w].pc = "idle" => check'[w] = check[w])
  <2>1. w # v => check'[w] = check[w]
    BY <1>1, <1>2 DEF Answered, Found
  <2>2. CASE \E a : Answered(v, a)
    <3>1. PICK a : Answered(v, a)
      BY <2>2
    <3>2. check'[v] = [check[v] EXCEPT !.pc = "idle", !.answer = a]
      BY <1>1, <3>1 DEF Answered
    <3>3. check[v] \in Check
      BY <1>1
    <3>4. check'[v].owed = check[v].owed
      BY <3>2, <3>3 DEF Check
    <3> QED BY <1>2, <2>1, <3>4
  <2>3. CASE check' = [check EXCEPT ![v].pc = "tip"]
    BY <1>1, <1>2, <2>1, <2>3 DEF Check
  <2>4. CASE \E next : Found(v, next)
    <3>1. PICK next : Found(v, next)
      BY <2>4
    <3>2. PICK b, k, t :
            check'[v] = [check[v] EXCEPT !.pc = next, !.block = b, !.ok = k, !.since = t]
      BY <1>1, <3>1 DEF Found
    <3>3. check[v] \in Check
      BY <1>1
    <3>4. check'[v].owed = check[v].owed
      BY <3>2, <3>3 DEF Check
    <3> QED BY <1>2, <2>1, <3>4
  <2> QED BY <1>2, <2>2, <2>3, <2>4
<1>3. ASSUME NEW d \in 0 .. MaxReorg, Grow(d) PROVE check' = check
  BY <1>3 DEF Grow
<1>4. ASSUME NEW v \in Checks,
             \/ EvmLooks(v) \/ EvmReadsBody(v) \/ BitcoinLooks(v) \/ SolanaLooks(v)
             \/ ReadsTip(v) \/ ProviderFails(v)
      PROVE  check'[w].owed = check[w].owed /\ (check[w].pc = "idle" => check'[w] = check[w])
  BY <1>2, <1>4
     DEF EvmLooks, EvmReadsBody, BitcoinLooks, SolanaLooks, ReadsTip, ProviderFails
<1> QED BY <1>3, <1>4 DEF GatewayNext

LEMMA PaidStep ==
    IndInv /\ RatesInv /\ PaidInv /\ [Next]_vars => PaidInv'
<1> SUFFICES ASSUME IndInv, RatesInv, PaidInv, [Next]_vars PROVE PaidInv'
  OBVIOUS
<1>0. /\ token # "none" => phase = "serving"
      /\ deal # NoDeal => Covered
      /\ deal = NoDeal => sent = {}
      /\ \A v \in Checks : AsksWhatIsOwed(check[v])
      /\ GatewayTypes
  BY DEF PaidInv, IndInv
<1>1. ASSUME UNCHANGED deal PROVE (deal # NoDeal => Covered)'
  BY <1>0, <1>1 DEF Covered, Total
<1>2. ASSUME UNCHANGED <<deal, sent, check>>, (token # "none" => phase = "serving")'
      PROVE  PaidInv'
  BY <1>0, <1>1, <1>2 DEF PaidInv, AsksWhatIsOwed
<1>3. CASE Starts \/ Prices \/ UNCHANGED vars
  BY <1>0, <1>2, <1>3 DEF Starts, Boot, Choose, Prices, Deployed, gateway, vars
<1>4. ASSUME NEW h \in Askers, Accept(h) PROVE PaidInv'
  <2>1. /\ deal = NoDeal /\ UNCHANGED <<config, phase, token, tip, block, ok, sent, check>>
    BY <1>4 DEF Accept, Deployed, gateway
  <2>2. \A v \in Checks : check[v].pc = "idle" /\ check[v].answer # "pays"
    BY <1>0, <2>1 DEF AsksWhatIsOwed
  <2> QED BY <1>0, <1>4, <2>1, <2>2, AcceptCovers DEF PaidInv, AsksWhatIsOwed
<1>5. ASSUME NEW x \in Transfers, Pay(x) PROVE PaidInv'
  <2>1. UNCHANGED <<config, phase, token, check, deal>> /\ deal # NoDeal
    BY <1>5 DEF Pay, Send, Deployed
  <2> QED BY <1>0, <1>1, <2>1 DEF PaidInv, AsksWhatIsOwed
<1>6. ASSUME NEW v \in Checks, Verifies(v) PROVE PaidInv'
  <2>1. PICK x \in sent : Verify(v, x, deal.units)
    BY <1>6 DEF Verifies
  <2>2. deal # NoDeal /\ UNCHANGED <<config, phase, token, deal, sent>>
    BY <1>0, <1>6, <2>1 DEF Verifies, Verify, Deployed, blocks
  <2>3. \A w \in Checks : check'[w] = check[w] \/ check'[w].owed = deal.units
    BY <1>0, <2>1 DEF Verify, GatewayTypes, Check
  <2> QED BY <1>0, <1>1, <2>2, <2>3 DEF PaidInv, AsksWhatIsOwed
<1>7. CASE Verification
  <2>1. deal # NoDeal /\ UNCHANGED <<config, phase, token, deal>>
    BY <1>0, <1>7 DEF Verification, Deployed
  <2>2. ASSUME NEW w \in Checks PROVE AsksWhatIsOwed(check[w])'
    <3>1. CASE check[w].pc = "idle"
      BY <1>0, <1>7, <2>1, <3>1, OwedStays DEF Verification, AsksWhatIsOwed
    <3>2. CASE check[w].pc # "idle"
      BY <1>0, <1>7, <2>1, <3>2, OwedStays DEF Verification, AsksWhatIsOwed
    <3> QED BY <3>1, <3>2
  <2> QED BY <1>0, <1>1, <2>1, <2>2 DEF PaidInv
<1> QED BY <1>3, <1>4, <1>5, <1>6, <1>7 DEF Next

(* A step keeps what the port would: "pays" is said of final transfers, and  *)
(* final transfers stay final.                                               *)
LEMMA BackedStep == IndInv /\ IndInv' /\ Backed /\ [Next]_vars => Backed'
<1> SUFFICES ASSUME IndInv, IndInv', Backed, [Next]_vars,
                    NEW v \in Checks, Live', Said'[v].answer = "pays"
             PROVE  /\ Chain'[Said'[v].transfer] = "final" /\ Said'[v].transfer \in ToPlatform
                    /\ Amount[Said'[v].transfer] >= Said'[v].owed
  BY DEF Backed
<1> DEFINE x == Said'[v].transfer
<1>1. CASE UNCHANGED Shown
  BY <1>1 DEF Shown, Backed
<1>2. CASE Port!Next
  <2>1. Port!ChainNext /\ Port!Answers(v) /\ Live
    BY <1>2 DEF Port!Next, Live
  <2>2. x \in Transfers
    BY DEF IndInv, GatewayTypes, Check, Said, Asked
  <2>3. Chain[x] # "unseen" => Chain'[x] = Chain[x]
    BY <2>1, <2>2 DEF Port!ChainNext, Chain
  <2>4. CASE Said'[v] = Said[v]
    BY <2>1, <2>3, <2>4 DEF Backed
  <2>5. CASE Said'[v].answer \in Port!Outcomes(x, Said'[v].owed)
    <3>1. Chain[x] = "final" /\ x \in ToPlatform /\ Amount[x] >= Said'[v].owed
      BY <2>5 DEF Port!Outcomes, Chain
    <3> QED BY <2>3, <3>1
  <2> QED BY <2>1, <2>4, <2>5 DEF Port!Answers, Port!NoAnswer, Said
<1> QED BY <1>1, <1>2, StepRefines

LEMMA PaidInit == Init => PaidInv /\ Backed
<1> SUFFICES ASSUME Init PROVE PaidInv /\ Backed
  OBVIOUS
<1>1. \A v \in Checks : check[v].pc = "idle" /\ check[v].answer = "none"
  BY DEF Init, GatewayInit, Unchecked
<1>2. PaidInv
  BY <1>1 DEF Init, DeploymentInit, GatewayInit, PaidInv, AsksWhatIsOwed
<1> QED BY <1>1, <1>2 DEF Backed, Said, Asked

LEMMA PaidInvariant == Spec => [](PaidInv /\ Backed)
  BY PaidInit, PaidStep, BackedStep, RatesInvariant, Invariant, PTL DEF Spec

(* Outside development a payment is only reported as made when a final       *)
(* transfer brought the platform the whole total, at a price the market      *)
(* showed within the maximum age of the quote: configuration, oracle,        *)
(* conversion and gateways taken together.                                   *)
THEOREM PlatformIsPaid == Spec => []NeverUnderpaid
<1>1. ASSUME IndInv, PaidInv, Backed PROVE NeverUnderpaid
  <2> SUFFICES ASSUME NEW v \in Checks, config.env # "development", check[v].answer = "pays"
               PROVE  /\ Fate(check[v].transfer) = "final" /\ check[v].transfer \in ToPlatform
                      /\ \E p \in deal.prices :
                           Amount[check[v].transfer] * p >= TotalOf(Base) * UnitsIn
    BY DEF NeverUnderpaid
  <2> DEFINE x == check[v].transfer
  <2>1. check[v].owed = deal.units /\ deal # NoDeal /\ Covered
    BY <1>1 DEF PaidInv, AsksWhatIsOwed
  <2>2. phase = "serving"
    BY <1>1, <2>1 DEF IndInv, Begun, PaidInv
  <2>3. Live
    BY <1>1, <2>2 DEF IndInv, DeploymentInv, Valid, Live
  <2>4. x \in Transfers /\ deal.units \in Nat /\ deal.prices \subseteq Nat
    BY <1>1 DEF IndInv, GatewayTypes, DealTypes, Check
  <2>5. Fate(x) = "final" /\ x \in ToPlatform /\ Amount[x] >= deal.units
    BY <1>1, <2>1, <2>3, <2>4 DEF Backed, Said, Asked, Chain
  <2>6. PICK p \in deal.prices : deal.units * p >= Total
    BY <2>1 DEF Covered
  <2>7. Amount[x] \in Nat /\ p \in Nat
    BY <2>4, <2>6, GatewayAssumption
  <2>8. deal.units * p <= Amount[x] * p
    BY <2>4, <2>5, <2>7, TimesMonotone
  <2>9. Total \in Nat /\ deal.units * p \in Nat /\ Amount[x] * p \in Nat
    <3>1. TotalOf(Base) \in Nat
      BY TotalType, ConversionAssumption
    <3> QED BY <3>1, <2>4, <2>7, Products, ConversionAssumption DEF Total
  <2>10. Amount[x] * p >= Total
    BY <2>6, <2>8, <2>9
  <2> QED BY <2>5, <2>6, <2>10 DEF Total
<1> QED BY <1>1, PaidInvariant, Invariant, PTL
----------------------------------------------------------------------------
(* What a verdict rests on stays *)

Settles(x, units) == x \in ToPlatform /\ Amount[x] >= units

(* What a live verification says it has observed is settled on the chain, of *)
(* another amount or to somebody else.                                       *)
ObservedIsFinal ==
    \A v \in Checks : Live /\ Said[v].answer = "observed" =>
      Chain[Said[v].transfer] = "final" /\ ~Settles(Said[v].transfer, Said[v].owed)

LEMMA ObservedStep == IndInv /\ IndInv' /\ ObservedIsFinal /\ [Next]_vars => ObservedIsFinal'
<1> SUFFICES ASSUME IndInv, IndInv', ObservedIsFinal, [Next]_vars,
                    NEW v \in Checks, Live', Said'[v].answer = "observed"
             PROVE  Chain'[Said'[v].transfer] = "final"
                    /\ ~Settles(Said'[v].transfer, Said'[v].owed)
  BY DEF ObservedIsFinal
<1> DEFINE x == Said'[v].transfer
<1>1. CASE UNCHANGED Shown
  BY <1>1 DEF Shown, ObservedIsFinal
<1>2. CASE Port!Next
  <2>1. Port!ChainNext /\ Port!Answers(v) /\ Live
    BY <1>2 DEF Port!Next, Live
  <2>2. x \in Transfers
    BY DEF IndInv, GatewayTypes, Check, Said, Asked
  <2>3. Chain[x] # "unseen" => Chain'[x] = Chain[x]
    BY <2>1, <2>2 DEF Port!ChainNext, Chain
  <2>4. CASE Said'[v] = Said[v]
    BY <2>1, <2>3, <2>4 DEF ObservedIsFinal
  <2>5. CASE Said'[v].answer \in Port!Outcomes(x, Said'[v].owed)
    <3>1. Chain[x] = "final" /\ ~Settles(x, Said'[v].owed)
      BY <2>5 DEF Port!Outcomes, Chain, Settles
    <3> QED BY <2>3, <3>1
  <2> QED BY <2>1, <2>4, <2>5 DEF Port!Answers, Port!NoAnswer, Said
<1> QED BY <1>1, <1>2, StepRefines

LEMMA ObservedInit == Init => ObservedIsFinal
<1> SUFFICES ASSUME Init, NEW v \in Checks PROVE Said[v].answer # "observed"
  BY DEF ObservedIsFinal
<1>1. check[v].answer = "none"
  BY DEF Init, GatewayInit, Unchecked
<1> QED BY <1>1 DEF Said, Asked

Verdict(v) == check[v].answer \in {"pays", "observed"}

(* A transfer a live verification has decided about is out of reach of every *)
(* reorganisation there is still to come: it stays in the block it was found *)
(* in, and successful.                                                       *)
VerdictsStand ==
    [][\A v \in Checks, x \in Transfers :
         Live /\ Verdict(v) /\ check[v].transfer = x =>
           /\ Fate(x) = "final" /\ Fate(x)' = "final"
           /\ block'[x] = block[x] /\ ok'[x] = ok[x]]_vars

(* Neither "paid" nor "never" is said of a transfer that can still be        *)
(* replaced, dropped or turned into a failure: not by a gateway that reads   *)
(* the transfer first and the tip later, from nodes that lag, while blocks   *)
(* come and go in between.                                                   *)
THEOREM NoVerdictIsRevised == Spec => VerdictsStand
<1>1. ASSUME IndInv, Backed, ObservedIsFinal, NEW v \in Checks, Live, Verdict(v)
      PROVE  Fate(check[v].transfer) = "final"
  <2>1. check[v].transfer \in Transfers
    BY <1>1 DEF IndInv, GatewayTypes, Check
  <2> QED BY <1>1, <2>1 DEF Backed, ObservedIsFinal, Verdict, Said, Asked, Chain
<1>2. ASSUME IndInv, [Next]_vars, NEW x \in Transfers, Fate(x) = "final"
      PROVE  Fate(x)' = "final" /\ block'[x] = block[x] /\ ok'[x] = ok[x]
  <2>0. /\ block[x] \in Nat /\ tip \in Nat /\ MaxReorg \in Nat /\ ok[x]
        /\ block[x] # 0 /\ block[x] + MaxReorg <= tip
    BY <1>2, GatewayAssumption DEF IndInv, GatewayTypes, Fate, Buried
  <2>1. CASE UNCHANGED <<tip, block, ok>>
    BY <1>2, <2>1 DEF Fate, Buried
  <2>2. ASSUME NEW d \in 0 .. MaxReorg, Grow(d)
        PROVE  Fate(x)' = "final" /\ block'[x] = block[x] /\ ok'[x] = ok[x]
    <3>1. 0 < block[x] /\ block[x] <= tip - d
      BY <2>0
    <3>2. block'[x] = block[x] /\ ok'[x] = ok[x] /\ tip' = tip + 1
      BY <2>2, <3>1 DEF Grow
    <3>3. block[x] + MaxReorg <= tip + 1
      BY <2>0
    <3> QED BY <2>0, <3>2, <3>3 DEF Fate, Buried
  <2>3. UNCHANGED <<tip, block, ok>> \/ \E d \in 0 .. MaxReorg : Grow(d)
    BY <1>2 DEF Next, Starts, Prices, Accept, Pay, Send, Verifies, Verify, Verification,
                GatewayNext, EvmLooks, EvmReadsBody, BitcoinLooks, SolanaLooks, ReadsTip,
                ProviderFails, blocks, gateway, vars
  <2> QED BY <2>1, <2>2, <2>3
<1>3. IndInv /\ Backed /\ ObservedIsFinal /\ [Next]_vars =>
        [\A v \in Checks, x \in Transfers :
           Live /\ Verdict(v) /\ check[v].transfer = x =>
             /\ Fate(x) = "final" /\ Fate(x)' = "final"
             /\ block'[x] = block[x] /\ ok'[x] = ok[x]]_vars
  BY <1>1, <1>2
<1> QED BY <1>3, ObservedInit, ObservedStep, PaidInvariant, Invariant, PTL
        DEF Spec, VerdictsStand
==============================================================================
