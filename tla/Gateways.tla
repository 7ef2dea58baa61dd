------------------------------ MODULE Gateways -------------------------------
(***************************************************************************)
(* MultiChainGateway and the gateways behind it: a verification reads a    *)
(* transfer and the tip of its chain in separate requests, while blocks    *)
(* are added and the last few of them replaced by others.                  *)
(***************************************************************************)
EXTENDS Deployment, Integers

CONSTANTS
    Transfers,   \* transactions sent to the chain of the token chosen
    Amount,      \* base units a transfer credits to its recipient
    ToPlatform,  \* the transfers whose recipient is the platform's wallet
    Checks,      \* verifications that may be in flight
    MinConf,     \* min_confirmations of each chain
    MaxReorg,    \* blocks a reorganisation may replace
    Drift,       \* blocks that may be added between the requests of one verification
    MaxTip       \* bound on the chain

(* A confirmation depth has to cover the deepest reorganisation, and what    *)
(* the chain grows while a verification waits for the tip.                   *)
ASSUME GatewayAssumption ==
    /\ Amount \in [Transfers -> Nat] /\ ToPlatform \subseteq Transfers
    /\ Transfers # {}
    /\ MaxReorg \in Nat /\ Drift \in Nat /\ MaxTip \in Nat
    /\ MinConf \in [Chains -> Nat] /\ \A c \in Chains : MinConf[c] > MaxReorg + Drift

VARIABLES
    tip,     \* height of the chain
    block,   \* the block each transfer is in, 0 while it is in none
    ok,      \* whether it succeeded there
    sent,    \* the transfers broadcast so far
    check    \* the verifications

blocks == <<tip, block, ok, sent>>
gateway == <<tip, block, ok, sent, check>>

Answers == {"none", "error", "unobserved", "observed", "pays"}

Check ==
    [pc : {"idle", "look", "body", "tip"}, transfer : Transfers, owed : Nat,
     block : Nat, ok : BOOLEAN, since : Nat, answer : Answers]

Unchecked ==
    [pc |-> "idle", transfer |-> CHOOSE x \in Transfers : TRUE, owed |-> 0, block |-> 0,
     ok |-> TRUE, since |-> 0, answer |-> "none"]

GatewayInit ==
    /\ tip = 0
    /\ block = [x \in Transfers |-> 0] /\ ok = [x \in Transfers |-> TRUE]
    /\ sent = {}
    /\ check = [v \in Checks |-> Unchecked]

----------------------------------------------------------------------------
(* The chain.  A step adds a block and may replace the last d: a transfer in *)
(* them, or in none, ends up in one of the new blocks or in none, and may    *)
(* fare differently there.  A Bitcoin transaction in a block cannot fail.    *)

Reading == {v \in Checks : check[v].pc \in {"body", "tip"}}

Send(x) ==
    /\ x \notin sent
    /\ sent' = sent \cup {x}
    /\ UNCHANGED <<tip, block, ok, check>>

Grow(d) ==
    /\ tip < MaxTip /\ d <= tip
    /\ \A v \in Reading : tip < check[v].since + Drift
    /\ tip' = tip + 1
    /\ block' \in [Transfers -> 0 .. tip + 1] /\ ok' \in [Transfers -> BOOLEAN]
    /\ \A x \in Transfers :
         IF 0 < block[x] /\ block[x] <= tip - d
         THEN block'[x] = block[x] /\ ok'[x] = ok[x]
         ELSE \/ block'[x] = 0 /\ ok'[x]
              \/ /\ x \in sent /\ block'[x] > tip - d
                 /\ ChainOf(token) = "Bitcoin" => ok'[x]
    /\ UNCHANGED <<sent, check>>

(* No reorganisation reaches it any more.                                    *)
Buried(x) == block[x] # 0 /\ block[x] + MaxReorg <= tip

----------------------------------------------------------------------------
(* verify_transaction *)

Answered(v, a) == check' = [check EXCEPT ![v].pc = "idle", ![v].answer = a]

\* What settles a payment of a transfer that succeeded and is deep enough.
Pays(v) ==
    check[v].transfer \in ToPlatform /\ Amount[check[v].transfer] >= check[v].owed

\* decide, and its like in the other two gateways
Settled(v, succeeded, deep) ==
    IF ~(succeeded /\ deep) THEN "unobserved" ELSE IF Pays(v) THEN "pays" ELSE "observed"

\* MultiChainGateway: in manual mode nobody is asked.
Verify(v, x, n) ==
    /\ check[v].pc = "idle" /\ x \in sent
    /\ check' = [check EXCEPT ![v] =
         [@ EXCEPT !.transfer = x, !.owed = n,
                   !.pc = IF Live THEN "look" ELSE "idle",
                   !.answer = IF Live THEN "none" ELSE "pays"]]
    /\ UNCHANGED blocks

\* The first request found the transfer in a block: remember what it said.
Found(v, next) ==
    LET x == check[v].transfer IN
    check' = [check EXCEPT ![v] =
      [@ EXCEPT !.pc = next, !.block = block[x], !.ok = ok[x], !.since = tip]]

\* receipt_status, or the receipt of verify_erc20: none for a pending transfer.
EvmLooks(v) ==
    /\ check[v].pc = "look" /\ ChainOf(token) \in {"Ethereum", "BSC"}
    /\ IF block[check[v].transfer] = 0 THEN Answered(v, "error")
       ELSE Found(v, IF token \in Stablecoins THEN "tip" ELSE "body")
    /\ UNCHANGED blocks

\* eth_getTransactionByHash of verify_native; a dropped transfer may be gone.
EvmReadsBody(v) ==
    /\ check[v].pc = "body"
    /\ \/ check' = [check EXCEPT ![v].pc = "tip"]
       \/ block[check[v].transfer] = 0 /\ Answered(v, "error")
    /\ UNCHANGED blocks

\* A transaction in the mempool has no confirmations; one in no pool is a 404.
BitcoinLooks(v) ==
    /\ check[v].pc = "look" /\ ChainOf(token) = "Bitcoin"
    /\ IF block[check[v].transfer] = 0
       THEN Answered(v, "unobserved") \/ Answered(v, "error")
       ELSE Found(v, "tip")
    /\ UNCHANGED blocks

\* getTransaction at commitment "finalized"
Committed(x) == Buried(x)

\* One request: its answer is final, or it is not there yet.
SolanaLooks(v) ==
    /\ check[v].pc = "look" /\ ChainOf(token) = "Solana"
    /\ LET x == check[v].transfer IN
       \/ Answered(v, "unobserved")
       \/ Committed(x) /\ Answered(v, Settled(v, ok[x], TRUE))
    /\ UNCHANGED blocks

\* confirmations_for: none if the tip is behind the transfer.  The Bitcoin
\* gateway counts one in that case.
Confirmations(t, b) ==
    IF t >= b THEN t - b + 1 ELSE IF ChainOf(token) = "Bitcoin" THEN 1 ELSE 0

FaultyDeepEnough(confirmations) == confirmations > 0

DeepEnough(confirmations) == confirmations >= MinConf[ChainOf(token)]

\* current_block, or /blocks/tip/height: from a node that may lag.
ReadsTip(v) ==
    /\ check[v].pc = "tip"
    /\ \E t \in 0 .. tip :
         Answered(v, Settled(v, check[v].ok, DeepEnough(Confirmations(t, check[v].block))))
    /\ UNCHANGED blocks

\* A timeout, an HTTP error, or an error in the body of a response (fetch_json,
\* reject_api_error, rpc): no answer at all.
ProviderFails(v) ==
    /\ check[v].pc # "idle"
    /\ Answered(v, "error")
    /\ UNCHANGED blocks

GatewayNext ==
    \/ \E d \in 0 .. MaxReorg : Grow(d)
    \/ \E v \in Checks :
         \/ EvmLooks(v) \/ EvmReadsBody(v) \/ BitcoinLooks(v) \/ SolanaLooks(v)
         \/ ReadsTip(v) \/ ProviderFails(v)

----------------------------------------------------------------------------
(* Properties *)

Fate(x) ==
    IF ~Buried(x) THEN "unseen" ELSE IF ok[x] THEN "final" ELSE "reverted"

Asked(v) ==
    [transfer |-> check[v].transfer, owed |-> check[v].owed, answer |-> check[v].answer]

Port == INSTANCE BlockchainGateway WITH
    chain <- [x \in Transfers |-> Fate(x)],
    said <- [v \in Checks |-> Asked(v)],
    trusting <- ~Live

(* The gateways keep what the port promises and the checkout takes for       *)
(* granted: whatever blocks come and go, a transfer is decided once, and no  *)
(* live verification says more of it than what is decided by then.           *)
KeepsPort == Port!Spec
==============================================================================
