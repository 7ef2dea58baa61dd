----------------------------- MODULE Deployment ------------------------------
(***************************************************************************)
(* AppConfig: what the server is told by its environment, what it accepts  *)
(* of that before it serves a request, and the chains it then serves.      *)
(***************************************************************************)
EXTENDS Naturals

CONSTANT Settings   \* the environments a server may be started in

Tokens == {"BTC", "ETH", "USDT", "USDC", "SOL", "BNB"}
Chains == {"Bitcoin", "Ethereum", "BSC", "Solana"}
Stablecoins == {"USDT", "USDC"}

(* resolve_chain_token: the two stablecoins are contracts on Ethereum.       *)
ChainOf(t) ==
    CASE t = "BTC" -> "Bitcoin"
      [] t \in {"ETH"} \cup Stablecoins -> "Ethereum"
      [] t = "SOL" -> "Solana"
      [] t = "BNB" -> "BSC"

(* A setting names its mode or leaves it unset.  A network is what the chain *)
(* id or the endpoint of a chain names; "faults" is what else is wrong.      *)
Setting ==
    [env : {"development", "staging", "production"},
     mode : {"live", "manual", "unset", "mistyped"},
     wallets : SUBSET Tokens,
     network : [Chains -> {"mainnet", "test", "unnamed"}],
     faults : SUBSET {"secret", "endpoint", "migrates", "localhost", "address", "keys"}]

ASSUME SettingsAssumption == Settings \subseteq Setting

VARIABLES
    config,   \* AppConfig
    phase,    \* "boot", "serving" or "exited"
    token     \* the asset the customer chose to pay in

Deployed == <<config, phase, token>>

----------------------------------------------------------------------------
(* from_env: only development takes client-submitted hashes on trust unless  *)
(* told not to.                                                              *)
DefaultMode(env) == IF env = "development" THEN "manual" ELSE "live"

FaultyFromEnv(s) == s

FromEnv(s) == [s EXCEPT !.mode = IF @ = "unset" THEN DefaultMode(s.env) ELSE @]

FaultyConfiguredChains(c) == {ChainOf(t) : t \in c.wallets \ Stablecoins}

\* One wallet is enough to serve a chain.
ConfiguredChains(c) == {ChainOf(t) : t \in c.wallets}

\* evm_network, solana_network, bitcoin_network: an EVM chain id nobody knows
\* counts as a test network, an endpoint that names none as unknown.
Realm(c, ch) ==
    IF ch \in {"Ethereum", "BSC"} /\ c.network[ch] = "unnamed" THEN "test"
    ELSE c.network[ch]

\* check_realm_consistency
RealmsAgree(c) ==
    LET realms == {Realm(c, ch) : ch \in ConfiguredChains(c)}
    IN  "mainnet" \in realms => realms = {"mainnet"}

FaultyValid(c) ==
    /\ c.faults \cap {"secret", "endpoint"} = {}
    /\ c.mode \in {"live", "manual"}
    /\ RealmsAgree(c)
    /\ c.env = "production" => c.mode = "live" /\ c.faults = {} /\ c.wallets = Tokens

\* validate
Valid(c) ==
    /\ c.faults \cap {"secret", "endpoint"} = {}
    /\ c.mode \in {"live", "manual"}
    /\ c.mode = "manual" => c.env = "development"
    /\ RealmsAgree(c)
    /\ c.env = "production" => c.mode = "live" /\ c.faults = {} /\ c.wallets = Tokens

DeploymentInit ==
    /\ config \in {FromEnv(s) : s \in Settings}
    /\ phase = "boot" /\ token = "none"

\* main: an invalid configuration ends the process before it listens.
Boot ==
    /\ phase = "boot"
    /\ phase' = IF Valid(config) THEN "serving" ELSE "exited"
    /\ UNCHANGED <<config, token>>

\* A checkout may name any method; a token without a wallet is refused later,
\* by PaymentQuote::issue.
Choose(t) ==
    /\ phase = "serving" /\ token = "none"
    /\ token' = t
    /\ UNCHANGED <<config, phase>>

Live == config.mode = "live"
Payable(t) == t \in config.wallets
==============================================================================
