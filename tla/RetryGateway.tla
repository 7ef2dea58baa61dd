----------------------------- MODULE RetryGateway ----------------------------
(***************************************************************************)
(* RetryingBlockchainGateway: calls to a provider that are retried, behind *)
(* a circuit breaker all callers share.  The breaker is two words, an      *)
(* atomic counter and a time under a mutex, and a success or a failure     *)
(* writes them one after the other: another caller may come in between.    *)
(***************************************************************************)
EXTENDS Integers

CONSTANTS
    Callers,      \* verifications that may be in flight at once
    MaxAttempts,  \* RetryConfig.max_attempts
    Threshold,    \* RetryConfig.circuit_open_after
    Cooldown      \* RetryConfig.circuit_cooldown, in ticks

ASSUME RetryAssumption ==
    /\ MaxAttempts \in Nat
    /\ Threshold \in Nat \ {0} /\ Cooldown \in Nat \ {0}

VARIABLES
    failures,   \* failure_count, counted up to Threshold: beyond it all counts act alike
    open,       \* opened_at is Some
    cooling,    \* what is left of the cooldown of an open breaker
    call,       \* where each caller is, and its remaining attempts
    up,         \* the provider is answering
    raced       \* history: a reset and a trip have crossed, and no later one made up for it

breaker == <<failures, open, cooling>>
vars == <<failures, open, cooling, call, up, raced>>

(* RetryConfig::attempts: zero is read as one.                               *)
Attempts == IF MaxAttempts = 0 THEN 1 ELSE MaxAttempts

States == {"idle", "calling", "ok", "err", "closing", "tripping", "sleeping"}

Calls == [pc : States, left : 0 .. Attempts]
Resting == [pc |-> "idle", left |-> 0]

At(s) == \E c \in Callers : call[c].pc = s
Move(c, s) == call' = [call EXCEPT ![c].pc = s]

Init ==
    /\ failures = 0 /\ open = FALSE /\ cooling = 0
    /\ call = [c \in Callers |-> Resting]
    /\ up \in BOOLEAN
    /\ raced = FALSE

----------------------------------------------------------------------------
(* breaker_is_blocking *)

Blocking == open /\ cooling > 0

FaultyElapsed == UNCHANGED cooling

\* Instant::elapsed of the time the breaker opened at.
Elapsed == cooling' = cooling - 1

Tick ==
    /\ Blocking
    /\ Elapsed
    /\ UNCHANGED <<failures, open, call, up, raced>>

\* with_retry asks the breaker once, before its loop.  A blocked call returns
\* at once and changes nothing.  After the cooldown the time is cleared and the
\* call goes through; so does every later one.
Enter(c) ==
    /\ call[c].pc = "idle"
    /\ ~Blocking
    /\ open' = FALSE
    /\ call' = [call EXCEPT ![c] = [pc |-> "calling", left |-> Attempts]]
    /\ UNCHANGED <<failures, cooling, up, raced>>

----------------------------------------------------------------------------
(* The provider.  An answer tells how it was when it answered, and the       *)
(* caller hears it later.                                                    *)

Answer(c) ==
    /\ call[c].pc = "calling"
    /\ Move(c, IF up THEN "ok" ELSE "err")
    /\ UNCHANGED <<breaker, up, raced>>

GoesUpOrDown ==
    /\ up' = ~up
    /\ UNCHANGED <<breaker, call, raced>>

----------------------------------------------------------------------------
(* on_success *)

Succeeds(c) ==
    /\ call[c].pc = "ok"
    /\ failures' = 0
    /\ Move(c, "closing")
    /\ raced' = (raced \/ At("tripping"))
    /\ UNCHANGED <<open, cooling, up>>

FaultyClosed == UNCHANGED <<open, cooling>>

Closed == open' = FALSE /\ cooling' = 0

Close(c) ==
    /\ call[c].pc = "closing"
    /\ Closed
    /\ call' = [call EXCEPT ![c] = Resting]
    /\ raced' = (raced /\ At("tripping"))
    /\ UNCHANGED <<failures, up>>

----------------------------------------------------------------------------
(* on_failure, and the rest of the loop of with_retry *)

\* fetch_add(1) + 1
Counted == IF failures < Threshold THEN failures + 1 ELSE Threshold

FaultyReturnOrSleep(c) == [call[c] EXCEPT !.pc = "sleeping"]

UnreturnedOrSleep(c) == [pc |-> "sleeping", left |-> call[c].left - 1]

\* remaining -= 1: the last attempt's error is returned, any other slept on.
ReturnOrSleep(c) ==
    IF call[c].left = 1 THEN Resting
    ELSE [pc |-> "sleeping", left |-> call[c].left - 1]

Fails(c) ==
    /\ call[c].pc = "err"
    /\ failures' = Counted
    /\ IF Counted = Threshold
       THEN /\ Move(c, "tripping")
            /\ raced' = (raced \/ At("closing"))
       ELSE /\ call' = [call EXCEPT ![c] = ReturnOrSleep(c)]
            /\ UNCHANGED raced
    /\ UNCHANGED <<open, cooling, up>>

FaultyCountAfterTrip == failures' = 0

\* Tripping leaves the count alone: only a success clears it.
CountAfterTrip == UNCHANGED failures

Trip(c) ==
    /\ call[c].pc = "tripping"
    /\ open' = TRUE /\ cooling' = Cooldown
    /\ call' = [call EXCEPT ![c] = ReturnOrSleep(c)]
    /\ raced' = (raced /\ (failures < Threshold \/ At("closing")))
    /\ CountAfterTrip
    /\ UNCHANGED up

\* After the backoff the loop calls the provider again without asking the
\* breaker, even while it is open.
Wake(c) ==
    /\ call[c].pc = "sleeping"
    /\ Move(c, "calling")
    /\ UNCHANGED <<breaker, up, raced>>

\* The client of the request is gone: its handler is dropped where it awaits.
\* What on_success or on_failure would have noted is lost.
Abandon(c) ==
    /\ call[c].pc \in {"calling", "ok", "err", "sleeping"}
    /\ call' = [call EXCEPT ![c] = Resting]
    /\ UNCHANGED <<breaker, up, raced>>

----------------------------------------------------------------------------
Step(c) ==
    \/ Enter(c) \/ Answer(c) \/ Succeeds(c) \/ Close(c) \/ Fails(c) \/ Trip(c)
    \/ Wake(c) \/ Abandon(c)

Next == Tick \/ GoesUpOrDown \/ \E c \in Callers : Step(c)

Spec == Init /\ [][Next]_vars

(* Verifications keep being asked for, as the reconciliation worker does in  *)
(* every pass; time passes; a call asked again and again is answered, if     *)
(* only by its timeout, and its answer heard.  Nothing is promised of the    *)
(* provider.                                                                 *)
Fairness ==
    /\ WF_vars(Tick)
    /\ \A c \in Callers :
         /\ WF_vars(Enter(c)) /\ WF_vars(Wake(c)) /\ WF_vars(Close(c)) /\ WF_vars(Trip(c))
         /\ SF_vars(Answer(c)) /\ SF_vars(Succeeds(c) \/ Fails(c))

FairSpec == Spec /\ Fairness

----------------------------------------------------------------------------
(* Properties *)

(* Types of the breaker and of the callers (retry.rs, RetryConfig and        *)
(* RetryingBlockchainGateway).                                               *)
TypeOK ==
    /\ failures \in 0 .. Threshold /\ open \in BOOLEAN /\ cooling \in 0 .. Cooldown
    /\ call \in [Callers -> Calls]
    /\ up \in BOOLEAN /\ raced \in BOOLEAN

(* An open breaker still counts the failures that opened it, so a failed     *)
(* trial opens it again, unless a success is in the middle of closing it or  *)
(* a success and a trip wrote their two words across each other; the next    *)
(* success or trip that nobody crosses puts that right.                      *)
OpenIsCounted == open /\ failures < Threshold => raced \/ At("closing")

(* A breaker that has opened is never stuck: once the provider is up for     *)
(* good, calls end up let through for good (the defect the cooldown fixed).  *)
NeverBricked == (<>[]up) => <>[]~Blocking

(* While the provider is down for good, the count ends at the threshold for  *)
(* good, so each failed trial opens the breaker at once: late answers of     *)
(* calls from before the outage reset it, but only so often.                 *)
StaysArmed == (<>[]~up) => <>[](failures = Threshold)

(* Every call returns, whatever the provider does.                           *)
EveryCallEnds == \A c \in Callers : call[c].pc # "idle" ~> call[c].pc = "idle"
==============================================================================
