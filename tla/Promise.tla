------------------------------- MODULE Promise -------------------------------
(***************************************************************************)
(* What the checkout promises, without tables, handlers or retries: a      *)
(* booking's price is locked once, a debt is the locked price, and money   *)
(* is received for a booking only through a final transfer of what is due. *)
(***************************************************************************)
EXTENDS Naturals

CONSTANTS Bookings, Hashes, Transfers, TransferOf, Amount, ToPlatform, Prices, Units

VARIABLES
    locked,    \* {} or the one pair <<total, base units>> the user approved
    due,       \* {} or the one pair the booking owes
    receipts,  \* hashes that settled the booking
    final      \* transfers the chains have finalised

promises == <<locked, due, receipts, final>>

Init ==
    /\ locked = [b \in Bookings |-> {}]
    /\ due = [b \in Bookings |-> {}]
    /\ receipts = [b \in Bookings |-> {}]
    /\ final = {}

Lock(b) ==
    /\ locked[b] = {}
    /\ \E f \in Prices \X Units : locked' = [locked EXCEPT ![b] = {f}]
    /\ UNCHANGED <<due, receipts, final>>

Owe(b) ==
    /\ due[b] = {} /\ locked[b] # {}
    /\ due' = [due EXCEPT ![b] = locked[b]]
    /\ UNCHANGED <<locked, receipts, final>>

Finalise(x) ==
    /\ x \notin final
    /\ final' = final \cup {x}
    /\ UNCHANGED <<locked, due, receipts>>

Receive(b, t) ==
    /\ TransferOf[t] \in final \cap ToPlatform
    /\ \E f \in due[b] : Amount[TransferOf[t]] >= f[2]
    /\ receipts' = [receipts EXCEPT ![b] = @ \cup {t}]
    /\ UNCHANGED <<locked, due, final>>

\* Neither this booking nor this transfer has been settled with before.
Fresh(b, t) ==
    /\ receipts[b] = {}
    /\ \A c \in Bookings : \A h \in receipts[c] : TransferOf[h] # TransferOf[t]

Owing ==
    \/ \E b \in Bookings : Lock(b) \/ Owe(b)
    \/ \E x \in Transfers : Finalise(x)

Next == Owing \/ \E b \in Bookings, t \in Hashes : Receive(b, t)

OnceNext == Owing \/ \E b \in Bookings, t \in Hashes : Fresh(b, t) /\ Receive(b, t)

Spec == Init /\ [][Next]_promises
OnceSpec == Init /\ [][OnceNext]_promises
=============================================================================
