------------------------------- MODULE Finality ------------------------------
(***************************************************************************)
(* What the checkout takes for granted of a chain and of the gateway that  *)
(* reads it: a transfer is undecided until it has succeeded or failed for  *)
(* good, and a gateway says "pays" or "observed" of final transfers only.  *)
(* Gateways shows that the gateways keep this, on chains that reorganise.  *)
(***************************************************************************)
EXTENDS Naturals

CONSTANTS
    Transfers,   \* on-chain transactions
    Amount,      \* base units a transfer credits to its recipient
    ToPlatform   \* the transfers whose recipient is the platform's wallet

VARIABLE chain   \* what has become of each transfer

Fates == {"unseen", "final", "reverted"}

ChainInit == chain = [x \in Transfers |-> "unseen"]

Decided(x) ==
    /\ chain[x] = "unseen"
    /\ \E fate \in {"final", "reverted"} : chain' = [chain EXCEPT ![x] = fate]

(* A block may decide several transfers at once.                             *)
ChainNext ==
    /\ chain' \in [Transfers -> Fates]
    /\ \A x \in Transfers : chain[x] # "unseen" => chain'[x] = chain[x]

ChainSpec == ChainInit /\ [][ChainNext]_chain

(* What a gateway can answer, a provider error apart.  A final transfer can  *)
(* still look unconfirmed: a lagging node reports a tip behind it.  One that *)
(* failed is never observed.                                                 *)
Outcomes(x, units) ==
    {"unobserved"} \cup
    (IF chain[x] # "final" THEN {}
     ELSE IF x \in ToPlatform /\ Amount[x] >= units THEN {"pays"}
     ELSE {"observed"})
==============================================================================
