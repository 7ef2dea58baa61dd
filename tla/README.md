# Areo Ledger: a TLA+ verification project

Areo Ledger sells flights and assets for cryptocurrency. A Rust backend (Actix,
Postgres) quotes a price in a token, locks it when the user accepts, records a
debt, and settles the booking when it has seen the on-chain transfer. Two escrow
contracts (Solidity, Anchor) are an alternative way to pay, and a React client
drives both. This directory models the parts of it that are hard to test,
model-checks them with TLC, and proves the most important properties with TLAPS.

Paths below are relative to the repository.

## 1. Inventory

| Component | Code | State | Operations | Modelled |
|---|---|---|---|---|
| Bookings and quotes | `src/application/use_cases/{create_booking,create_quote,accept_quote}.rs`, `src/domain/entities/{booking,quote}.rs`, `pg_booking_repository.rs`, `pg_quote_repository.rs` | tables `bookings`, `payment_quotes` | create a booking, quote it (re-price, convert, issue), accept a quote, expire quotes | `Quoting` |
| Payments | `init_payment.rs`, `confirm_payment.rs`, `src/domain/entities/payment.rs`, `pg_payment_repository.rs` | table `payments` | turn the accepted quote into a debt, submit a hash, record a failed verification | `Quoting`, `Settlement` |
| Settlement transaction | `pg_settlement_repository.rs` | `payments`, `bookings`, `transactions` in one transaction | lock, check, confirm payment and booking, insert a ledger row | `Settlement` |
| Reconciliation worker | `src/infrastructure/workers/payment_reconciliation.rs` | a batch of payment rows in memory | sweep, load, verify, settle; sleep and repeat | `Settlement` |
| Chain gateways | `src/infrastructure/blockchain/{evm,bitcoin,solana,router}_gateway.rs` | none | verify one hash against one amount: find the transfer, read the tip, decide | `Gateways`; `Finality` is what the checkout uses of it |
| Retrying gateway | `src/infrastructure/blockchain/retry.rs` | failure count, time the breaker opened | call with retries, trip, cool down, trial | `RetryGateway` |
| Price oracle | `src/infrastructure/pricing/market_price_oracle.rs` | in-memory rate cache, table `crypto_prices` | serve a rate from cache, provider, table or floor | `PriceOracle` |
| Money and tokens | `src/domain/value_objects/{money,network}.rs` | none | totals, fees, conversion to base units | `Conversion`, and `Deployment` for chains and networks |
| Ethereum escrow | `contracts/ethereum/contracts/AeroLedgerEscrow.sol` | orders, escrow balances, merchants, settings, owner | create, confirm, complete, refund, time out, sweep, administer | `EvmEscrow` |
| Solana escrow | `contracts/solana/programs/aeroledger-escrow/src/` | order, vault, merchant, mint and config accounts | the same, on accounts | `SolanaEscrow` |
| Users, authentication | `authenticate_user.rs`, `jwt_service.rs`, `auth_middleware.rs`, `access.rs` | table `users` | sign in, check a token, check who owns a booking | no |
| Catalogue, history, audit | `pg_catalog_repository.rs`, `pg_transaction_repository.rs`, `pg_audit_log_repository.rs` | their tables | single statements | no, save the catalogue price |
| Proof upload | `handlers/payment_handler/proof.rs` | files | store an image beside a payment | no |
| Configuration, start-up | `main.rs`, `config.rs`, `domain/value_objects/network.rs` | `AppConfig` | read the environment, default, validate, exit or serve | `Deployment` |
| HTTP, schema | `db.rs`, `http.rs`, `migrations/complete_schema.sql` | none | route, limit, migrate | the unique indexes and the seeded prices |
| Web client | `Frontend/src` | React state | call the endpoints | as requests |

**How they interact.** A handler is an async function that awaits one SQL
statement or one provider call after another on a pooled connection; nothing holds
a transaction across those calls, except `PgQuoteRepository::issue`,
`PgBookingRepository` inserts and `PgSettlementRepository::confirm_payment`, each
of which is one transaction. Handlers of different requests, and the reconciliation
worker started in `main.rs`, run concurrently and meet only in the tables: through
conditional updates (`WHERE .. AND status = 'active'`), unconditional ones
(`bookings.update`, `payments.update`), row locks (`FOR UPDATE`) and four unique
indexes. The gateways read the chain; they write nothing. `CreateQuote` awaits the
oracle, whose handlers meet in one cache behind a mutex and otherwise in the table
`crypto_prices`, which only the migration fills. `ConfirmPayment` and the worker await
the gateway of the payment's chain, two or three requests to a provider each.
`AppConfig` decides at start-up which assets can be quoted, on which networks, and
whether a hash is verified or taken on trust. `RetryingBlockchainGateway` is exported
and tested, but `main.rs` wraps no gateway in it.

**What is hard.** Every value a handler holds across an `.await` may be stale when
it is used or written back; two tabs of one user overlap; the client retries a
confirm; the worker races both; any call may fail and leave the earlier ones done;
the process may restart between two steps; the clock may pass an expiry between a
check and an update; the catalogue may move; a provider may lag, so that the same
transfer is observed by one call and not by the next, and its last blocks may be
replaced between two requests of one verification. A price ages in the request, in the
cache and in the handler. The breaker's count and its time are written one after the
other while other callers read them. The Solidity escrow calls
tokens and wallets whose code may call it back, or fail after the first of two
payments; its settings change while orders are live; both contracts can be sent
value nobody asked for; and each has one instant, the refund deadline, where one
way out for the buyer closes and another opens.

**What makes it correct.**

* Quotes: one open offer and one locked price per booking; a quote runs one way
  (`active` to one of `accepted`, `superseded`, `expired`) with fixed figures; it
  is accepted only in time.
* Payments: a debt is exactly the accepted quote; a hash is on one payment.
* Settlement: nothing is confirmed that the chain has not paid in full; payment
  and booking are confirmed together, once, by one hash, and stay confirmed; a
  transfer settles one booking.
* Answers: what a client was told stays true.
* Worker: a good payment is settled in the end.
* Escrow: an order is paid out once, to its snapshot; the balance covers the live
  orders; the buyer always has a way out.
* Oracle: a rate is never younger than it says, no quote is made at an older one, and
  the customer owes the total at that rate to within one base unit.
* Gateways: what a verification says of a transfer is final.
* Configuration: no two assets on networks of different worth; no hash on trust
  outside development.
* Retries: an open breaker counts what opened it, it is never stuck, and an outage
  always trips it again.

`PROJECT.json` lists the hazards line by line.

## 2. Plan

1. **Checkout core** (done): `CheckoutState`, `Quoting`, `Settlement`, `Checkout`.
2. **What it promises** (done): `Promise`, and the refinement.
3. **Proofs of the core** (done): `CheckoutTypes`, `CheckoutProofs`, `CheckoutRefines`,
   `CheckoutExclusive`.
4. **Ethereum escrow** (done): `Custody`, `EvmEscrow`, and `EvmProofs`.
5. **Solana escrow** (done): `SolanaEscrow` implements the same `Custody`; `SolanaProofs`.
6. **Retrying gateway** (done): `RetryGateway`, and `RetryProofs`.
7. **From the configuration to the answer** (done): `Deployment`, `Conversion`,
   `PriceOracle`, `Gateways`, composed in `Funding`; `BlockchainGateway` is the port
   the gateways implement, `Finality` what the checkout takes from it; `FundingProofs`.
8. **What a transfer is worth when it settles, and the ledger's sum** (done):
   `FundingProofs`, `EvmProofs`.
9. **What liveness and `ENABLED` leave provable, and how little exclusion is needed**
   (done): the safety halves of the five liveness properties, `OneExit` with its guards
   written out, and the properties of `exclusive` from a lock per booking.

Every safety property a passing run checks is stated by a theorem: `OneExit` with its
guards written out, since the prover does not reason about `ENABLED`.

## 3. The modules

```
Finality        what becomes of a transfer, and what a gateway may say of it
CheckoutState   tables, handlers in flight, worker, world      EXTENDS Finality
  Quoting       CreateBooking, CreateQuote, AcceptQuote, InitPayment
  Settlement    ConfirmPayment, the settlement transaction, the worker
    Checkout    Next, Spec, properties       INSTANCE Promise
      MCCheckout      small instances for TLC
      CheckoutTypes   -> CheckoutProofs -> CheckoutRefines -> CheckoutExclusive

Custody         what an escrow promises about one order
  EvmEscrow     AeroLedgerEscrow.sol                   EvmProofs
  SolanaEscrow  aeroledger-escrow                      SolanaProofs

Deployment      environment, validation, networks, assets
  PriceOracle   rates, cache, table, quote     EXTENDS Conversion
  Gateways      verifications, chain           INSTANCE BlockchainGateway
    Funding     one payment through all of them        FundingProofs
      MCFunding       an instance for TLC
BlockchainGateway   the port, abstractly       EXTENDS Finality

RetryGateway    retries and the circuit breaker        RetryProofs
```

The checkout and the escrows share no state: the backend settles transfers made to
the platform's own wallets, and the contracts are called by the client directly.

### The checkout

**State.** `bookings`, `quotes`, `payments` are one row per id; a row whose status
is `"none"` is not there. `ledger[b][t]` counts the rows of `transactions` for a
booking and a hash; the booking of a ledger row is kept in the model though the
table stores only payment and user, so that properties can speak of it. `req[r]` is
the handler in slot `r`: the place it has reached (`pc`) and its locals (`row`,
`quote`, `pay`, `id`, `tx`), which is what the Rust function holds between two
`.await`s. An idle slot keeps its last answer and which booking and hash that was
about. `worker` is the reconciliation loop: asleep, or at a place, with its batch.
`catalog`, `now` and `chain` are the world.

**Steps.** One action is one awaited call. `CreateBooking` is the exception: its
catalogue read and its insert are one step, because nobody can know the id before.
A handler's guard clauses are the disjuncts of the step that makes the read.

| Code | Actions |
|---|---|
| `CreateQuote::execute` | `QuoteReadBooking`, `QuoteCheckPayment`, `QuoteCheckAccepted`, `QuoteReadCatalog`, `QuoteWriteBack`, `QuoteConvert`, `QuoteIssue` |
| `AcceptQuote::execute` | `AcceptRead`, `AcceptMark` |
| `InitPayment::execute` | `InitReadBooking`, `InitCheckPayment`, `InitReadQuote`, `InitSave` |
| `ConfirmPayment::execute` | `ConfirmRead`, `ConfirmGuard`, `ConfirmVerify`, `ConfirmRecord`, `ConfirmSettle` |
| `run_once`, `reconcile_one` | `WorkerSweep`, `WorkerLoad`, `WorkerDefers`, `WorkerFinds`, `WorkerSettles`, `WorkerAborts` |
| any `?` on a failed call, and a crash | `Abort` |

**Abstractions.**

* A hash is a string; `TransferOf` says which transfer the provider resolves it to,
  so that two spellings of one hash can be told from two hashes. An amount is a small
  number of base units; the price stands for the total computed from it.
* `Verdicts` is what a gateway may answer about a hash (`Outcomes` of `Finality`, which
  `Gateways` is shown to keep): a transfer that is final,
  to the platform and large enough may be verified; a final one of the wrong
  recipient or amount may be observed; either may look unconfirmed, because the node
  asked may lag; a reverted transfer is never observed (`evm_gateway.rs:365`,
  `solana_gateway.rs:227`). A provider error is an `Abort`.
* `find_by_booking_id(..).await.is_ok()` treats a failed read as "no payment", so
  `QuoteCheckPayment` and `InitCheckPayment` may go on in any state.
* A Postgres statement or transaction is atomic. A unique index that refuses a write
  is part of the action (`AcceptMark`, `InitSave`, `ConfirmRecord`).
* `CanSettle` and `Settle` are the settlement transaction. It locks the payment row
  first and every other settlement of the booking waits for that lock, so it is one step.
* The rows a worker cycle loads are processed in any order, which includes theirs.
* `Exclusive = TRUE` restricts a run to one request or worker cycle at a time; steps
  may still fail half way. Properties that hold only there are listed apart.
* `PricingSpec` and `PayingSpec` are parts of `Spec`: before anything is paid, and
  from `Owed`, the states in which every booking has accepted one quote and owes it.
  `Owed` is reachable by creating, quoting, accepting and initialising each booking, and
  satisfies the inductive invariant of `Spec` (`OwedHolds`), so its theorems cover it.

Left out of the checkout: who owns a booking (requests are taken as authorised), the
manual verification mode, the sender address, the proof image, the audit log and
the counters of `metrics`; `cancelled` and `failed` statuses, which no code path sets;
and the text of answers, of which only the kind is kept.

### The escrow contracts

`Custody` is the abstract specification: an order is `Deposit`ed once, on terms
(buyer, payee, treasury, amount, fee) that never change, and leaves once, by a
`Release` to payee and treasury or a `Return` to the buyer, in full. A surplus may
come with it: on Solana what was sent to the vault unasked.

| Code | `EvmEscrow` |
|---|---|
| `_orders`, `escrowBalance`, the contract's balances | `orders`, `escrow`, `held` |
| owner, signer, treasury, window, pause, tokens, merchants | `settings` |
| `createOrder`, `confirmOrder`, every setter | one action each |
| `createOrderERC20` with `_pullTokens` | `CreateOrderERC20`, then `PullTokens` or `Revert` |
| `completeOrder`, `refundOrder`, `timeoutRefund`, `sweepUnaccounted` | the action, then `Payout` for each payment, or `Revert` |
| `transferOwnership`, `acceptOwnership`, `renounceOwnership` (library) | the same names |

A function that calls out stays open in `call`, with the state its revert would
restore. While it is open every function that is not `nonReentrant` may run:
`ConfirmOrder` and the setters. The others need `Idle`. `received` is what the
contract gained during a pull, whatever made it grow. A payment can fail for any
reason at any time (`Revert`), and the refinement shows an order only as of the
last finished transaction, which is what the chain shows.

| Code | `SolanaEscrow` |
|---|---|
| `Config`, `SupportedMint`, `Merchant`, `Order` accounts | `config`, `mints`, `merchants`, `orders` |
| the token accounts of an order's address, one for each mint | `tokens`, `Absent` when there is none |
| the vault, the one of them for the order's mint | `Vault` |
| the associated token program, the token program (external) | `OpenAccount`, `Donate` |
| each `pub fn` of the program | the action of that name |
| `#[derive(Accounts)]` constraints | guards (`Accounts`, `ByAdmin`, `Settle`) |
| `verify_quote_attestation`, `verify_quote_signature_data` | `Attested` |

An instruction is atomic, so it is one action; `close_vault` fails, and with it the
instruction, unless the transfers emptied the vault (`Moved`). The vault is an associated
token account, and anyone may open one for an order's address (`OpenAccount`) and send
tokens to it (`Donate`). Opened before the order is made, it makes the `init` of
`create_order` fail, so that no order can be made of that id and mint; opened after the
order has settled, it keeps what is sent to it, since the program settles an order once.
Neither is excluded from the model. A live order's vault is open, so nobody can open it.

Assumed of the surroundings: a token's transfer takes exactly what it says from the
Solidity contract, and balances do not shrink by themselves (the code's comment on
`createOrderERC20` leaves such tokens to the allow-list; one that delivers too
little makes the pull revert); on Solana the payees' token accounts exist, and the
deployer's upgrade authority calls `initialize`. Signatures are unforgeable: a quote carries its signer. Widths
are left out, since amounts are bounded by what exists of the asset.

### One payment, from the configuration to the gateway

`Funding` follows one payment in one asset through four modules that share state. A
server boots with a setting, and exits if it is not `Valid`; a method is chosen; two
handlers price the booking; a quote is accepted; a transfer is sent; verifications
read it. What the tables make of these steps is the checkout's model, so here they
are one variable, `deal`. When the quote is accepted the oracle is reset to the
state it began in: later rates price other bookings, and the instance stays small.

| Code | Actions and operators |
|---|---|
| `AppConfig::from_env`, `validate`, `configured_chains` | `FromEnv`, `Valid`, `ConfiguredChains` |
| `evm_network`, `solana_network`, `bitcoin_network`, `check_realm_consistency` | `Realm`, `RealmsAgree` |
| `main` up to the gateways | `Boot`, `Live` |
| `apply_bps`, `PriceBreakdown::calculate` | `ApplyBps`, `TotalOf` |
| `usd_to_crypto_amount`, `crypto_base_units` | `UnitsFor` |
| `MarketPriceOracle::rate` | `Lookup`, `MarketReads`, `Fetched`, `FetchFails`, `TableReads`, `TableAnswers` |
| `PaymentQuote::issue` | `Issue`, `Fresh` |
| `MultiChainGateway::verify_transaction` | `Verify` |
| `EvmGateway` | `EvmLooks` (the receipt), `EvmReadsBody` (native assets), `ReadsTip` |
| `BitcoinGateway` | `BitcoinLooks`, `ReadsTip` |
| `SolanaGateway` | `SolanaLooks` |
| `fetch_json`, `reject_api_error`, `rpc` | `ProviderFails` |

* One action is one request or one visit to the cache. `rate` takes its time once,
  before it asks anybody, and stamps what it fetched with it (`Observed`); the market
  is read when the request reaches it, at `MarketReads`, and the answer is used later.
* A price is what one token costs in cents, a rate also says when and where it is from.
  `market` remembers what the market showed at each instant, so that properties can
  ask whether a stamp is honest. A Decimal quotient has 28 digits; `Guard` says how many
  steps of it a base unit is, and `HalfEven` rounds it as the library does. A division by
  a price of p leaves over 1/p of a base unit at least, or nothing; `PrecisionAssumption`
  (`p < 2 * Guard`) says that the quotient has digits enough to see that, so that the
  rounding up which follows is never of a number already rounded down to a whole unit. With 8
  decimals, as for Bitcoin, 28 digits leave far more than any price needs; with the 18
  of ether and a total of less than a thousand tokens they leave ten million steps to a
  base unit, for prices up to 200 000 dollars in cents. That is also its limit: a price
  quoted in finer steps than cents needs as many more digits, and for an 18-decimal
  token so cheap that the quotient has many whole digits the model says nothing.
* The chain (`Grow`) adds a block and may replace up to `MaxReorg` of the last, with
  any of the transfers sent, wherever they were, in any of the new ones or in none,
  succeeding or failing. A node may lag: it reports any earlier tip. The depth of a
  transfer that the gateways wait for is `MinConf`.
* `GatewayAssumption` says when depth means finality: `MinConf > MaxReorg + Drift`,
  where `Drift` is what the chain grows between the first and the last request of one
  verification. The code's depths are 12 (Ethereum), 15 (BSC) and 3 (Bitcoin), its
  requests time out after ten seconds each: a few blocks at most on Ethereum, and
  rather more on BSC, where the margin left for a reorganisation is smaller.
* An address, a log, an output or an account is abstracted to whether the transfer
  credits the platform, and how much. Recipients behind a Solana lookup table, and
  transfers made inside a call of another EVM contract, are not seen by the code and
  not in the model. Solana's finality does not come from a depth; `Committed` takes
  a block that cannot be replaced as what `finalized` means.
* `KeepsPort` is the refinement of `BlockchainGateway`: a transfer is decided when it
  is buried below `MaxReorg` blocks, and a live verification answers from `Outcomes`
  of that fate, or not at all. The checkout is built on the same `Outcomes`.

### The retrying gateway

`failures` and `open`/`cooling` are the two words of the breaker; `on_success` and
`on_failure` write one and then the other, so they are two actions each (`Succeeds`,
`Close`; `Fails`, `Trip`). `breaker_is_blocking` holds the mutex throughout and is one
action (`Enter`), asked once per call and not between its attempts. The count is kept
up to `Threshold`, since more of it acts alike. `Abandon` is a request whose client went
away: actix drops the handler where it awaits. `raced` is a history variable for what
`OpenIsCounted` has to except.

## 4. What each run checks

| Run | Instance | Properties |
|---|---|---|
| `checkout` | one booking, two quotes, two overlapping handlers, five requests, one transfer, two prices, the clock, the worker | `TypeOK`, `PaymentIsTheLockedQuote`, `OneOfferOneLock`, `AcceptedInTime`, `ReadsStand`, `QuoteLifecycle`, `KeepsPromise` |
| `paying` | two owed bookings, a transfer that pays and one that is a unit short, two handlers, two confirms, the worker, fairness | `ConfirmedIsPaid`, `HashOnOnePayment`, `AnswersHold`, `GoodPaymentSettles` |
| `exclusive` | two bookings, two hashes, eight requests, no overlap | `SettledOnce`, `TransferSettlesOneBooking`, `ConfirmedTogether`, `NoOfferBesideLock`, `SettlementStands`, `KeepsPromiseOnce` |
| `funding` | a sound production and a development server and what an operator may get wrong, six assets, two handlers, two market prices, three instants, transfers that pay, are short, go elsewhere, one verification, five blocks | `TypeOK`, `StampsAreHonest`, `QuoteIsFresh`, `QuotePaysTotal`, `NoMixedRealms`, `NeverUnderpaid`, `KeepsPort` |
| `breaker` | three callers of two attempts, a threshold of two, a cooldown of one tick, a provider that comes and goes, fairness | `TypeOK`, `OpenIsCounted`, `NeverBricked`, `StaysArmed`, `EveryCallEnds` |
| `evm_escrow` | two orders of one buyer, coin and one token, three governance calls, two ticks, a unit of surplus and of gift, fairness | `TypeOK`, `LedgerIsExact`, `Solvent`, `OneExit`, `KeepsCustody`, `AlwaysAWayOut` |
| `solana_escrow` | two orders of one buyer, two admins, two payees, two treasuries, four governance instructions, two ticks, token accounts opened by anyone, a unit of gift, fairness | `TypeOK`, `VaultBacksOrder`, `OneExit`, `KeepsCustody`, `AlwaysAWayOut` |

`LedgerIsExact` and `Solvent` are the invariant the contract states on
`escrowBalance`, through callbacks and half-finished payouts; `VaultBacksOrder` is
its counterpart on Solana: a live order has a vault that covers it, whatever token accounts
others open at the addresses of orders. `OneExit` says that at every instant the buyer of an
order the seller has not accepted has exactly one of the two refunds. `KeepsCustody`
is the refinement. `AlwaysAWayOut` is the promise that a pause can never strand funds.

In `exclusive` nothing overlaps, so its properties are about sequences of requests and
cycles: retries, re-submissions, one hash for two bookings, reads that fail and handlers
that fail half way. What overlap does to one booking is shown by `settled_twice` and
`requoted_paid`, and how little of it has to be excluded by the theorems about `Apart`
(section 5).

`StampsAreHonest` and `QuoteIsFresh` bound the age of a price through the waits of a
lookup and the cache: a live server quotes what the market showed at most
`MAX_RATE_AGE_SECONDS` before. They also show the one exception. The migration seeds
`crypto_prices` with round figures stamped with its own time
(`complete_schema.sql:356`) and nothing updates them, so for that long after it a live
server that cannot reach CoinGecko quotes a figure nobody observed, although
`price_oracle.rs:28` asks implementations to fail "rather than invent a price in
production". `NeverUnderpaid` composes it all: outside development, a payment is only
reported as made when a final transfer brought the platform the total at such a price.

`NeverBricked`, `StaysArmed` and `EveryCallEnds` are what the breaker is for; between
them a provider may fail and recover at any moment, under calls that are under way.
`OpenIsCounted` is what the comment on `breaker_is_blocking` relies on ("the failure
count is still above the threshold and only a success clears it"); it holds except
while a reset and a trip cross, and `StaysArmed` shows that this heals.

Five runs show that the code does not keep what its documentation says. Each is a
short counterexample that a reader can follow in the trace.

| Run | What happens |
|---|---|
| `settled_twice` | A confirm reads the payment as pending, waits for the provider, is told "not final", and writes the row back with the status it read. A settlement by another confirm or by the worker in between is undone; the next one settles again, with a second row in `transactions`. |
| `two_spellings` | `TxHash::new` does not canonicalise, so two spellings of one EVM hash are two hashes to the unique index and one transaction to the provider. |
| `requoted_paid` | A quote request that passed its guards before the payment writes the booking back after the settlement: pending again, no hash, a new price. |
| `locked_out` | A quote request fails between the re-price and the issue. The older offer can still be accepted, `InitPayment` refuses it because the booking's price moved, and `CreateQuote` refuses a new one because a price is locked. |
| `starved` | Payments whose hash names a transfer that never settles are the oldest for ever; once they fill `LIMIT 200` (one row here) no later payment is verified. |

One disagreement is recorded here and not run: `confirm_payment.rs:121` answers
that a payment "will settle automatically once it is final on-chain" when the
gateway has not observed the transfer, which the port documents as genuinely
"not yet" (`blockchain_gateway.rs:21`); the gateways say the same of a reverted
transfer, which never will.

**Bounds, and why they are enough.** Two handlers at a time give every pair of
overlapping requests, and each property relates at most two of them to the worker. Five
requests are what a booking needs from its first quote to a confirm (quote, accept,
init, confirm) plus one that overlaps any of them; eight in `exclusive` are two
bookings paid and one confirm each. Two quote ids give an offer and the one that
supersedes it. Two prices and one tick give a move of the catalogue and an expiry
between any two steps. In `paying` a debt is 2 units and the transfers carry 2 and 1. `checkout` reaches about 830 000 states under the symmetry of slots and
quote ids, `exclusive` about 150 000 under that of bookings and quote ids; liveness
runs use no symmetry. Two orders in an escrow are what one needs to be paid from the
other's deposit, and with a call open on one of them a callback can reach both; a
window of one tick puts an instant before, at and after the deadline; fees of 1 and 2
against an amount of 2 are a sound one and one that would take everything. An ERC20
order takes two governance calls, and the third pauses, delists, suspends or renounces
while it is live; rotations of wallets and keys and handovers between two owners are, on
Ethereum, left to the refinement theorem, which holds for any number of them. On Solana
payout wallet, treasury and admin change in the run. In `funding` a
depth of three is the least for a reorganisation and a drift of one, and five blocks
are enough to bury a transfer after it has moved twice; a cache and a rate of one tick
each on a clock of three instants give every order of fetch, store, expiry and quote.
Three callers of the breaker are one that resets, one that trips and one that enters
between them. What the bounds leave open, the theorems close.

**Deadlock.** It is checked in every run of the checkout, whose worker never stops.
A contract acts only when it is called, and orders that are settled at the clock's
bound leave nothing to do, so the escrow runs do not check it; a server with an invalid configuration exits, so
`funding` does not either.

**Fairness** (`PayingFairly`). The loop of `spawn` always comes round
(`WF` of `WorkerSweep`) and reads its batch. A cycle may fail at any time, even
over and over, but not for ever at the same point: `SF` of the load, of the
settlement and of finding a good transfer, since a provider asked again and again
about a final transfer answers in the end. A row that is deferred is only weakly
fair: the loop moves on. Nothing is assumed of clients, handlers or the chain.

**Fairness of the escrows** (`FairSpec`). Time passes (in the Solidity model between
transactions, hence `SF`), an open call returns or reverts, and a buyer past the
deadline keeps asking. On Ethereum the payment to the buyer may be refused over and
over, but not for ever (`SF` of `Repay`): a wallet that always reverts cannot be paid
by any code. Sellers, owners and admins may do anything or nothing.

**Fairness of the breaker** (`FairSpec`). Verifications keep being asked for, as the
worker does in every cycle, time passes, and the steps of a call that wait for nobody
are taken. `SF` of `Answer` says that of the calls made again and again one is
answered, if only by its timeout, before its client is gone. Nothing is assumed of the
provider: `NeverBricked` and `StaysArmed` name the outages they are about.

## 5. What is proved

### The checkout

For every set of bookings, quotes, hashes, transfers and handlers, every rate and
every bound, from the assumptions named in `CheckoutState` (`SetsAssumption`: the
ids are sets without the null values; `FiguresAssumption`: prices and amounts are
numbers, every hash names a transfer; `BoundsAssumption`):

| Theorem | Says |
|---|---|
| `Typed` | `Spec => []TypeOK` |
| `Invariant` | `Spec => []IndInv` |
| `ReadsKeepStanding` | `Spec => []ReadsStand` |
| `LockedQuoteIsOwed` | `Spec => []PaymentIsTheLockedQuote` |
| `OneOfferAndLock` | `Spec => []OneOfferOneLock` |
| `AcceptanceInTime` | `Spec => []AcceptedInTime` |
| `ConfirmedWasPaid` | `Spec => []ConfirmedIsPaid` |
| `HashOnOne` | `Spec => []HashOnOnePayment` |
| `QuotesRunOneWay` | `Spec => QuoteLifecycle` |
| `ToldForGood` | `Spec => []AnswersHold` |
| `PayingKeeps` | `PayingSpec => [](ConfirmedIsPaid /\ HashOnOnePayment /\ AnswersHold)` |
| `Refinement` | `Spec => KeepsPromise`, that is `P!Spec` |
| `GoodKeepsItsClaim` | `(Spec \/ PayingSpec) => []GoodCanSettle /\ GoodUntilSettled` |
| `ApartSettlesOnce` | `Spec /\ []Apart => [](SettledOnce /\ ConfirmedTogether /\ NoOfferBesideLock)` |
| `ApartSettlesForGood` | `Spec /\ []Apart => SettlementStands /\ PaidPriceIsFixed` |
| `ApartRefinesOnce` | `OneSpelling => (Spec /\ []Apart => KeepsPromiseOnce)` |
| `SettlesOnce` | `Exclusive => (Spec => []SettledOnce)` |
| `ConfirmsTogether` | `Exclusive => (Spec => []ConfirmedTogether)` |
| `OffersEndWithLock` | `Exclusive => (Spec => []NoOfferBesideLock)` |
| `SettledForGood` | `Exclusive => (Spec => SettlementStands)` |
| `TransferSettlesOne` | `Exclusive /\ OneSpelling => (Spec => []TransferSettlesOneBooking)` |
| `RefinesOnce` | `Exclusive /\ OneSpelling => (Spec => KeepsPromiseOnce)`, that is `P!OnceSpec` |

**The argument.** None of the safety invariants is inductive: `InitSave` inserts
what a handler read two calls ago, `ConfirmSettle` and `WorkerSettles` act on a
verdict about an amount read earlier. `IndInv` adds `ReadsStand`: for each place a
handler or the worker can be at, what it must still be able to rely on when it
writes. It is preserved because what was read does not change: a quote that was
accepted is final and its figures fixed (`QuotesKept`), a payment's quote and
amount are fixed (`PaymentsKept`), a final transfer stays final (`PaysKept`), a ledger
row stays (`BookedKept`). The two reads `ReadsStand` deliberately does not cover, the
booking row `CreateQuote` writes back and the status `ConfirmPayment` writes back, are
those behind `requoted_paid` and `settled_twice`.

`CheckoutProofs` first shows what a step can do to each table (`QuotesFootprint`,
`PaymentsFootprint`, `BookingsFootprint`, `ChainFootprint`); the invariants are then
preserved by those footprints and no proof looks at an action twice. `AnswersHold` rests
on `Vouched`: an answer of "never" is decided by `ConfirmVerify` one call before it is
given, so it has to be true of the payment from then on, and it is because the debt's
figures no longer change (`ToldStays`).
`CheckoutRefines` shows that no step touches two of quotes, payments and chain at
once, and maps each to `Lock`, `Owe`, `Receive`, `Finalise` or a stutter.

`GoodKeepsItsClaim` is about a pending payment whose recorded hash names a transfer that
pays what is owed. `GoodCanSettle` says that the gateway may confirm it and the
settlement transaction would not refuse it, `GoodUntilSettled` that no handler, settlement
or failed cycle ends that but its confirmation or another hash recorded on it. What
`GoodPaymentSettles` adds is that its turn comes.

The theorems of `CheckoutExclusive` are what overlapping requests break (`settled_twice`,
`requoted_paid`) and two spellings of one hash (`two_spellings`); they show that nothing
else does, for handlers may still fail between any two of their steps, and how little
would repair it. `Apart` says that no two handlers in flight are about one booking and
that the worker settles none of theirs: a lock per booking, held by a handler from its
first read to its answer, and by the worker from a good verdict to the end of the
settlement. Handlers of different bookings overlap freely. `OneSpelling` says that no two hash strings name one transfer. `Exclusive`,
the constant that lets a request or a cycle begin only when nothing else runs, implies
`Apart` (`ExclusiveIsApart`, from `Alone`), so that the properties of the run `exclusive`
are corollaries. Under `Apart` the property that `requoted_paid` refutes holds
(`PaidPriceIsFixed`).

`OnceInv`, inductive beside `IndInv` under `Apart`, says that a handler finds at its write
what it found at its read (`HandlerFinds`: also of the two reads `ReadsStand` leaves out), and
that the ledger has one row for each confirmed payment, under its hash, and no other
(`OneRowEach`). A settlement needs a pending payment, so it books a row where there was
none, and the unique index on hashes keeps it from being booked for two. Before it was
proved, TLC checked all of this with `Apart` as a constraint on the steps, on instances of
256 000 and 962 000 states in which handlers of two bookings overlap.

### The escrow contracts

For every set of buyers, sellers, keys, wallets and assets, every amount, fee, window
and bound, from `FiguresAssumption` (they are numbers), `AssetsAssumption` (the coin is
not a token) and, on Solana, `AbsentAssumption` (no token account is not a balance):

| Theorem | Says |
|---|---|
| `EvmProofs!Typed`, `SolanaProofs!Typed` | `Spec => []TypeOK` |
| `EvmProofs!AlwaysSolvent` | `Spec => []Solvent` |
| `EvmProofs!LedgerStaysExact` | `Spec => []LedgerIsExact` |
| `EvmProofs!SettlesInFull` | `Spec => []NeverShort` |
| `SolanaProofs!VaultsBacked` | `Spec => []VaultBacksOrder` |
| `SolanaProofs!SettlesInFull` | `Spec => []VaultEmpties` |
| `EvmProofs!Refinement`, `SolanaProofs!Refinement` | `Spec => KeepsCustody`, that is `C!Spec` |
| `EvmProofs!OneWayOut`, `SolanaProofs!OneWayOut` | `Spec => []OneOpenExit` |
| `EvmProofs!OverdueUntilPaid`, `SolanaProofs!OverdueUntilPaid` | `Spec => StaysOverdue` |
| `EvmProofs!PaidInFull`, `SolanaProofs!PaidInFull` | `Spec => []PaidAsAgreed(k)`, for every order `k` |

**The argument.** On Solana `IndInv` adds to types and vaults that a live order's
amount is the quoted one, that its vault holds no more than a gift above it, and that
nothing is paid before settlement; each instruction then maps to one step of
`Custody`. In the Solidity contract a revert can restore the state of an earlier
moment, and payments are made one call at a time. `IndInv` therefore says of an open
call (`CallOK`) that what it saved is itself sound, that every order it is not about
agrees with its saved record up to a confirmation, and how its own order's due is
divided into what is paid and what is left (`Remaining`). `Solvent` counts the latter
(`Outgoing`), which is what makes it inductive. The last `Payout` of a call is the
step of `Custody`; all others are stutters.

`LedgerIsExact` is about a sum over the orders. `EvmProofs` first shows what its proof
needs of `SumFunction`: over a finite set it is a number, an element added adds its
value, and the empty sum is none (`SumAdds`, `EmptySum`), for any set of keys. The
induction is over the subsets of a finite set under strict inclusion and is done with a
set of good subsets, not with a predicate, from the library's facts about well-founded
orders. `LedgerInv` then says that finitely many orders have been placed, which no
constant has to promise, that the ledger is exact, and that the one an open call would
restore was exact too. `NeverShort` follows: a live order's amount is never more than
the ledger has of its asset, so `_debitEscrow` never refuses, and the contract owns what
it is about to pay. `VaultEmpties` is its counterpart on Solana: either settlement moves
the whole vault, gifts included, so `close_vault` never refuses. Together they say that no
live order is stranded by the figures, which is what `OneExit` and `AlwaysAWayOut` need
of them.

`OneWayOut` is `OneExit` without `ENABLED`. Each refund is shown to be a condition on the
state it starts in (`RefundOpen`, `TimeoutOpen`) and one value for each variable
(`RefundDone`; `ExitsOpen`), so it can be taken exactly when the condition holds; TLC
confirmed `RefundOpen <=> ENABLED RefundOrder` and `TimeoutOpen <=> ENABLED TimeoutRefund`
in every state of both runs. Exactly one of the two is open to the buyer of an order the
seller has not accepted, and for any live order the timeout is open once its deadline is
past and not before (on Ethereum between transactions: an open call blocks both).
`SettlesInFull` is what keeps the figures from closing either.

`OverdueUntilPaid` says that a live deposit past its deadline stays one until it leaves:
no setting moves a deadline, and a revert brings back the one there was (`DeadlinesKept`,
of what an open call saved). With `OneWayOut`, a buyer who keeps asking finds the exit
open every time; `AlwaysAWayOut` adds that one of the calls succeeds.

`PaidInFull` reads the refinement in money. `Custody` says which steps there are;
`PaidAsAgreed` says what has been paid after any number of them: nothing while a deposit
is held, to payee and treasury amount less fee and fee once released, to the buyer the
whole amount once returned, and on Solana the gifts in the vault with the treasury's or
the buyer's part.

### The retrying gateway

`RetryProofs` proves `Spec => []TypeOK` (`TypesHold`) and `Spec => []OpenIsCounted`
(`OpenStaysCounted`) for any number of callers and attempts, any threshold and any
cooldown, from `RetryAssumption`. `OpenIsCounted` is not inductive; `IndInv` adds
(`Uncrossed`) that, until a reset and a trip cross, nobody closes while another trips and
the count stands at the threshold while anyone trips, and `Busy` that only a caller at
rest has no attempt left.

Two theorems are about what the liveness properties of the breaker rest on.
`EveryCallRunsOut` (`Spec => CallsRunOut /\ []Bounded`) gives the variant of `EveryCallEnds`:
`StepsLeft(c)` is four for each attempt left less what is taken of the present one, every
step of the caller itself lowers it, and no step of the breaker, the provider or another
caller touches it, so a call ends within `4 * Attempts - 1` steps of its own.
`LateAnswersOnly` (`Spec => OutageArms /\ RecoveryCloses`) says what can work against an
outage's count and against a recovery. While the provider stays down, nobody hears a
success that was not on its way already, and when those have been heard the count never falls; while it stays up, nobody
begins to fail or to open the breaker, and when the late failures are done the breaker
only closes. `StaysArmed` and `NeverBricked` add that the answers come.

### From the configuration to the answer

`FundingProofs`, for every set of settings and prices, every age, confirmation depth,
reorganisation and drift, from `SettingsAssumption`, `ConversionAssumption`,
`OracleAssumption`, `PrecisionAssumption` (a quotient has digits enough for the price it
is divided by, see above) and `GatewayAssumption` (the depth of every chain exceeds the
deepest reorganisation plus what the chain grows during one verification):

| Theorem | Says |
|---|---|
| `Typed` | `Spec => []TypeOK` |
| `StampsStayHonest` | `Spec => []StampsAreHonest` |
| `QuotesStayFresh` | `Spec => []QuoteIsFresh` |
| `RealmsNeverMix` | `Spec => []NoMixedRealms` |
| `QuotesPayTotal` | `Spec => []QuotePaysTotal` |
| `PlatformIsPaid` | `Spec => []NeverUnderpaid` |
| `Refinement` | `Spec => KeepsPort`, that is `Port!Spec` |
| `NoVerdictIsRevised` | `Spec => VerdictsStand` |

**The argument.** `IndInv` says what each place of a handler may rely on (`Keeps`): a
price the market has answered with is one it showed since the lookup began, and once it
is stamped with that beginning it is honest; a rate read from the table is the row's;
what was quoted is within the maximum age of its stamp, and stays so because the past of
the market does not change (`LaterStep`). Of a verification that waits for the tip it says (`Remembers`)
that the chain has grown by the drift at most since the block was read, and that a
block too deep to be replaced then has not been. `DeepIsBuried` is the heart of the
refinement: enough confirmations, counted with any tip a lagging node reports, and with
the one confirmation the Bitcoin gateway counts when the tip is behind, mean that the
block was out of reach when it was read, so what is reported of it is final.

`QuotesPayTotal` is arithmetic: `UnitsPay` shows that rounding the quotient half to even
and then up to a whole base unit gives the least number of base units worth the total,
as long as `p < 2 * Guard`, and `RatesInv` that every rate held anywhere has a price
the oracle can give. `PlatformIsPaid` joins all four modules. `PaidInv` says that an
accepted quote asks for the total at one of the prices its window showed, and that each
verification still asks for that when it is answered; what the answer is worth comes from
the port and not from the gateways' steps: a transfer said to pay is final, to the
platform and large enough when it is said (`Backed`), and `BlockchainGateway` never takes
that back.

`NoVerdictIsRevised` is the same of the chain itself: once a live verification has said
"pays" or "observed" of a transfer, every later reorganisation leaves it in its block and
successful. `Backed` says so of what pays and `ObservedIsFinal` of what was observed to be
something else; both come from the port, the block's being out of reach from the gateways.

### Only model-checked

`GoodPaymentSettles`, `AlwaysAWayOut`, `NeverBricked`, `StaysArmed` and `EveryCallEnds`
are liveness under fairness, which is out of the prover's reach. Their safety halves are
proved (`GoodKeepsItsClaim`, `OverdueUntilPaid` with `OneWayOut`, `LateAnswersOnly`,
`EveryCallRunsOut`): what has to happen stays possible, or stays bounded, until it happens.
That it does happen, from the fairness of section 4, is TLC's. `OneExit` speaks of
`ENABLED` and is checked as it stands; `OneWayOut` proves it with the guards written out,
and the one step from there, that a condition and one value for each variable make an
action enabled, is left to TLC.

## 6. Not modelled

Authentication, the catalogue's own endpoints, transaction history, audit and
metrics are single statements or stateless. The proof image is beside the checkout. The user interface calls the endpoints
and holds no state the server trusts. Of the configuration, ports, addresses of the
server and reconciliation intervals are left out, as no property depends on them. A
production server accepts a deployment that is on test networks throughout, and
`erc20_contract` names mainnet contracts on any network, so USDT and USDC cannot be
verified on a test network: the model leaves that difference out.
Decimal strings of `Money` are parsed at the boundary only.
