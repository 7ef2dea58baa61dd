-------------------------- MODULE BlockchainGateway --------------------------
(***************************************************************************)
(* What the port promises its callers: a chain that decides transfers for  *)
(* good, and verifications that tell of a transfer only what is final,     *)
(* unless the server takes hashes on trust.                                *)
(***************************************************************************)
EXTENDS Finality

CONSTANT Checks

VARIABLES
    said,      \* what each verification was asked, and its last answer
    trusting   \* verification mode "manual"

NoAnswer == {"none", "error"}

Init == ChainInit /\ \A v \in Checks : said[v].answer = "none"

Answers(v) ==
    \/ said'[v] = said[v]
    \/ said'[v].answer \in NoAnswer
    \/ trusting /\ said'[v].answer = "pays"
    \/ said'[v].answer \in Outcomes(said'[v].transfer, said'[v].owed)

Next == ChainNext /\ UNCHANGED trusting /\ \A v \in Checks : Answers(v)

Spec == Init /\ [][Next]_<<chain, said, trusting>>
==============================================================================
