------------------------------ MODULE MCFunding ------------------------------
(* One payment on an instance for TLC.                                       *)
EXTENDS Funding, TLC

On(main, test) ==
    [c \in Chains |-> IF c \in main THEN "mainnet" ELSE IF c \in test THEN "test" ELSE "unnamed"]

Started(env, mode, wallets, network) ==
    [env |-> env, mode |-> mode, wallets |-> wallets, network |-> network, faults |-> {}]

(* Two sound deployments and a development server, and what an operator may  *)
(* get wrong: a trusting mode, a chain on another network, another fault.    *)
Sound ==
    {Started("production", "unset", Tokens, On(Chains, {})),
     Started("development", "unset", {"ETH"}, On({}, Chains))}

Wrong ==
    {Started(env, "manual", {"ETH", "SOL"}, On({}, Chains)) : env \in {"staging", "production"}}
      \cup {Started("staging", mode, wallets, On(main, {"Solana"})) :
              mode \in {"live", "mistyped"}, main \in {{"Ethereum"}, {"Bitcoin"}},
              wallets \in {{"USDT", "SOL"}, {"USDC", "BTC"}, {"BTC", "BNB"}}}
      \cup {[s EXCEPT !.faults = {f}] : s \in Sound,
              f \in {"secret", "endpoint", "migrates", "localhost", "address", "keys"}}

TheSettings == Sound \cup Wrong

(* The handlers are interchangeable.                                        *)
Symmetry == Permutations(Askers)

\* A transfer is short by a unit, in full, or in full to somebody else.
TheAmounts == (1 :> 2) @@ (2 :> 3) @@ (3 :> 3)

Depths == [c \in Chains |-> 3]
==============================================================================
