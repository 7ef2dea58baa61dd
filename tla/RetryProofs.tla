----------------------------- MODULE RetryProofs -----------------------------
(***************************************************************************)
(* Proofs about RetryGateway, for any number of callers and any retry and  *)
(* breaker settings.                                                       *)
(***************************************************************************)
EXTENDS RetryGateway, TLAPS

(* Until a reset and a trip cross, nobody is tripping while another is       *)
(* closing, and the count stands at the threshold while anyone is tripping.  *)
Uncrossed ==
    ~raced => /\ open => failures = Threshold \/ At("closing")
              /\ At("tripping") => failures = Threshold /\ ~At("closing")

IndInv == TypeOK /\ Uncrossed

----------------------------------------------------------------------------
LEMMA AttemptsType == Attempts \in Nat \ {0}
  BY RetryAssumption DEF Attempts

LEMMA LeftType ==
    ASSUME TypeOK, NEW c \in Callers, call[c].pc \in {"err", "tripping"}, call[c].left # 0
    PROVE  ReturnOrSleep(c) \in Calls /\ ReturnOrSleep(c).pc \in {"idle", "sleeping"}
<1>1. call[c].left \in 0 .. Attempts /\ Attempts \in Nat
  BY AttemptsType DEF TypeOK, Calls
<1>2. call[c].left - 1 \in 0 .. Attempts /\ 0 \in 0 .. Attempts
  BY <1>1
<1> QED
  BY <1>2 DEF ReturnOrSleep, Resting, Calls, States

(* Only a caller at rest has no attempt left.                                *)
Busy == \A c \in Callers : call[c].pc # "idle" => call[c].left # 0

LEMMA InitOK == Init => IndInv /\ Busy
<1> SUFFICES ASSUME Init PROVE IndInv /\ Busy
  OBVIOUS
<1>1. Resting \in Calls
  BY AttemptsType DEF Resting, Calls, States
<1>2. TypeOK
  <2>1. 0 \in 0 .. Threshold /\ 0 \in 0 .. Cooldown
    BY RetryAssumption
  <2>2. call \in [Callers -> Calls]
    BY <1>1 DEF Init
  <2> QED BY <2>1, <2>2 DEF Init, TypeOK
<1>3. ~At("tripping") /\ ~At("closing") /\ Busy
  BY DEF Init, At, Busy, Resting
<1> QED
  BY <1>2, <1>3 DEF Init, IndInv, Uncrossed

(* A step of one caller leaves every other caller where it is.               *)
LEMMA OneMoves ==
    ASSUME TypeOK, NEW c \in Callers, NEW m \in Calls, call' = [call EXCEPT ![c] = m],
           NEW s
    PROVE  /\ call' \in [Callers -> Calls]
           /\ At(s)' <=> m.pc = s \/ \E d \in Callers \ {c} : call[d].pc = s
  BY DEF TypeOK, At

LEMMA EnterStep ==
    ASSUME IndInv, Busy, NEW c \in Callers, Enter(c) PROVE IndInv' /\ Busy'
<1> DEFINE m == [pc |-> "calling", left |-> Attempts]
<1>1. m \in Calls /\ m.left # 0
  BY AttemptsType DEF Calls, States
<1>2. TypeOK
  BY DEF IndInv
<1>3. call' = [call EXCEPT ![c] = m]
  BY DEF Enter
<1>4. call' \in [Callers -> Calls]
  BY <1>1, <1>2, <1>3, OneMoves
<1>5. TypeOK'
  BY <1>2, <1>4 DEF TypeOK, Enter
<1>6. Busy'
  BY <1>1, <1>2, <1>3 DEF Busy, TypeOK
<1>7. /\ At("tripping")' <=> At("tripping")
      /\ At("closing")' <=> At("closing")
  BY <1>2, <1>3 DEF At, Enter, TypeOK
<1> QED
  BY <1>5, <1>6, <1>7 DEF IndInv, Uncrossed, Enter

(* Steps that only move a caller between the states the breaker ignores.     *)
LEMMA QuietMove ==
    ASSUME IndInv, Busy, NEW c \in Callers, NEW m \in Calls,
           call' = [call EXCEPT ![c] = m], UNCHANGED <<failures, open, cooling, raced>>,
           up' \in BOOLEAN, m.pc # "idle" => m.left # 0,
           call[c].pc \notin {"closing", "tripping"}, m.pc \notin {"closing", "tripping"}
    PROVE  IndInv' /\ Busy'
<1>1. TypeOK
  BY DEF IndInv
<1>2. TypeOK'
  BY <1>1, OneMoves DEF TypeOK
<1>3. Busy'
  BY <1>1 DEF Busy, TypeOK
<1>4. /\ At("tripping")' <=> At("tripping")
      /\ At("closing")' <=> At("closing")
  BY <1>1 DEF At, TypeOK
<1> QED
  BY <1>2, <1>3, <1>4 DEF IndInv, Uncrossed

LEMMA QuietSteps ==
    ASSUME IndInv, Busy, NEW c \in Callers, Answer(c) \/ Wake(c) \/ Abandon(c)
    PROVE  IndInv' /\ Busy'
<1>1. call[c] \in Calls /\ up \in BOOLEAN
  BY DEF IndInv, TypeOK
<1>2. ASSUME NEW s \in {"ok", "err", "calling"}, Move(c, s), call[c].pc \in {"calling", "sleeping"},
             UNCHANGED <<failures, open, cooling, up, raced>>
      PROVE  IndInv' /\ Busy'
  <2> DEFINE m == [call[c] EXCEPT !.pc = s]
  <2>1. m \in Calls /\ m.pc = s /\ m.left = call[c].left /\ m.left # 0
    BY <1>1, <1>2 DEF Calls, States, Busy
  <2>2. call' = [call EXCEPT ![c] = m]
    BY <1>2 DEF Move
  <2> HIDE DEF m
  <2> QED BY <1>1, <1>2, <2>1, <2>2, QuietMove
<1>3. CASE Answer(c)
  BY <1>2, <1>3 DEF Answer, breaker
<1>4. CASE Wake(c)
  BY <1>2, <1>4 DEF Wake, breaker
<1>5. CASE Abandon(c)
  <2>1. Resting \in Calls /\ Resting.pc = "idle"
    BY AttemptsType DEF Resting, Calls, States
  <2>2. /\ call' = [call EXCEPT ![c] = Resting] /\ UNCHANGED <<failures, open, cooling, up, raced>>
        /\ call[c].pc \notin {"closing", "tripping"}
    BY <1>5 DEF Abandon, breaker
  <2> HIDE DEF Resting
  <2> QED BY <1>1, <2>1, <2>2, QuietMove
<1> QED BY <1>3, <1>4, <1>5

LEMMA SucceedsStep ==
    ASSUME IndInv, Busy, NEW c \in Callers, Succeeds(c) PROVE IndInv' /\ Busy'
<1> DEFINE m == [call[c] EXCEPT !.pc = "closing"]
<1>1. TypeOK /\ call[c] \in Calls
  BY DEF IndInv, TypeOK
<1>2. m \in Calls /\ m.pc = "closing" /\ m.left = call[c].left /\ m.left # 0
  BY <1>1 DEF Calls, States, Busy, Succeeds
<1>3. call' = [call EXCEPT ![c] = m]
  BY DEF Succeeds, Move
<1> HIDE DEF m
<1>4. TypeOK'
  BY <1>1, <1>2, <1>3, OneMoves, RetryAssumption DEF TypeOK, Succeeds
<1>5. Busy'
  BY <1>1, <1>2, <1>3 DEF Busy, TypeOK
<1>6. At("closing")'
  BY <1>1, <1>2, <1>3 DEF At, TypeOK
<1>7. At("tripping")' => At("tripping")
  BY <1>1, <1>2, <1>3 DEF At, TypeOK
<1> QED
  BY <1>4, <1>5, <1>6, <1>7 DEF IndInv, Uncrossed, Succeeds

LEMMA CloseStep ==
    ASSUME IndInv, Busy, NEW c \in Callers, Close(c) PROVE IndInv' /\ Busy'
<1>1. TypeOK
  BY DEF IndInv
<1>2. Resting \in Calls /\ Resting.pc = "idle"
  BY AttemptsType DEF Resting, Calls, States
<1>3. call' = [call EXCEPT ![c] = Resting] /\ call[c].pc = "closing"
  BY DEF Close
<1> HIDE DEF Resting
<1>4. TypeOK'
  <2>1. raced' \in BOOLEAN
    BY <1>1 DEF Close, TypeOK, At
  <2>2. call' \in [Callers -> Calls]
    BY <1>1, <1>2, <1>3, OneMoves
  <2>3. 0 \in 0 .. Cooldown
    BY RetryAssumption
  <2> QED BY <1>1, <2>1, <2>2, <2>3 DEF TypeOK, Close, Closed
<1>5. Busy'
  BY <1>1, <1>2, <1>3 DEF Busy, TypeOK
<1>6. At("tripping")' <=> At("tripping")
  BY <1>1, <1>2, <1>3 DEF At, TypeOK
<1>7. At("closing")
  BY <1>3 DEF At
<1> QED
  BY <1>1, <1>4, <1>5, <1>6, <1>7 DEF IndInv, Uncrossed, Close, Closed, TypeOK

LEMMA FailsStep ==
    ASSUME IndInv, Busy, NEW c \in Callers, Fails(c) PROVE IndInv' /\ Busy'
<1>1. TypeOK /\ call[c] \in Calls /\ failures \in 0 .. Threshold /\ call[c].left # 0
  BY DEF IndInv, TypeOK, Busy, Fails
<1>2. Counted \in 0 .. Threshold /\ (failures = Threshold => Counted = Threshold)
  BY <1>1, RetryAssumption DEF Counted
<1>3. CASE Counted = Threshold
  <2> DEFINE m == [call[c] EXCEPT !.pc = "tripping"]
  <2>1. m \in Calls /\ m.pc = "tripping" /\ m.left # 0
    BY <1>1 DEF Calls, States
  <2>2. call' = [call EXCEPT ![c] = m] /\ call[c].pc = "err"
    BY <1>3 DEF Fails, Move
  <2> HIDE DEF m
  <2>3. TypeOK'
    BY <1>1, <1>2, <1>3, <2>1, <2>2, OneMoves DEF TypeOK, Fails
  <2>4. Busy'
    BY <1>1, <2>1, <2>2 DEF Busy, TypeOK
  <2>5. At("closing")' <=> At("closing")
    BY <1>1, <2>1, <2>2 DEF At, TypeOK
  <2> QED
    BY <1>3, <2>3, <2>4, <2>5 DEF IndInv, Uncrossed, Fails
<1>4. CASE Counted # Threshold
  <2> DEFINE m == ReturnOrSleep(c)
  <2>1. m \in Calls /\ m.pc \in {"idle", "sleeping"}
    BY <1>1, LeftType DEF Fails
  <2>2. m.pc # "idle" => m.left # 0
    BY <1>1 DEF ReturnOrSleep, Resting, Calls
  <2>3. call' = [call EXCEPT ![c] = m] /\ call[c].pc = "err"
    BY <1>4 DEF Fails
  <2> HIDE DEF m
  <2>4. TypeOK'
    BY <1>1, <1>2, <1>4, <2>1, <2>3, OneMoves DEF TypeOK, Fails
  <2>5. Busy'
    BY <1>1, <2>1, <2>2, <2>3 DEF Busy, TypeOK
  <2>6. /\ At("tripping")' <=> At("tripping")
        /\ At("closing")' <=> At("closing")
    BY <1>1, <2>1, <2>3 DEF At, TypeOK
  <2> QED
    BY <1>2, <1>4, <2>4, <2>5, <2>6 DEF IndInv, Uncrossed, Fails
<1> QED BY <1>3, <1>4

LEMMA TripStep ==
    ASSUME IndInv, Busy, NEW c \in Callers, Trip(c) PROVE IndInv' /\ Busy'
<1> DEFINE m == ReturnOrSleep(c)
<1>1. TypeOK /\ call[c] \in Calls /\ failures \in 0 .. Threshold /\ call[c].left # 0
  BY DEF IndInv, TypeOK, Busy, Trip
<1>2. m \in Calls /\ m.pc \in {"idle", "sleeping"}
  BY <1>1, LeftType DEF Trip
<1>3. m.pc # "idle" => m.left # 0
  BY <1>1 DEF ReturnOrSleep, Resting, Calls
<1>4. call' = [call EXCEPT ![c] = m] /\ call[c].pc = "tripping" /\ At("tripping")
  BY DEF Trip, At
<1> HIDE DEF m
<1>5. TypeOK'
  BY <1>1, <1>2, <1>4, OneMoves, RetryAssumption DEF TypeOK, Trip, CountAfterTrip
<1>6. Busy'
  BY <1>1, <1>2, <1>3, <1>4 DEF Busy, TypeOK
<1>7. At("closing")' <=> At("closing")
  BY <1>1, <1>2, <1>4 DEF At, TypeOK
<1>8. raced' \/ (failures = Threshold /\ ~At("closing"))
  BY <1>1, <1>4, RetryAssumption DEF IndInv, Uncrossed, Trip, TypeOK
<1> QED
  BY <1>5, <1>6, <1>7, <1>8 DEF IndInv, Uncrossed, Trip, CountAfterTrip

LEMMA NextOK == IndInv /\ Busy /\ [Next]_vars => IndInv' /\ Busy'
<1> SUFFICES ASSUME IndInv, Busy, [Next]_vars PROVE IndInv' /\ Busy'
  OBVIOUS
<1>1. CASE Tick
  BY <1>1, RetryAssumption DEF Tick, Elapsed, Blocking, IndInv, Uncrossed, TypeOK, Busy, At
<1>2. CASE GoesUpOrDown
  BY <1>2 DEF GoesUpOrDown, breaker, IndInv, Uncrossed, TypeOK, Busy, At
<1>3. ASSUME NEW c \in Callers, Step(c) PROVE IndInv' /\ Busy'
  BY <1>3, EnterStep, QuietSteps, SucceedsStep, CloseStep, FailsStep, TripStep DEF Step
<1>4. CASE UNCHANGED vars
  BY <1>4 DEF vars, IndInv, Uncrossed, TypeOK, Busy, At
<1> QED
  BY <1>1, <1>2, <1>3, <1>4 DEF Next

LEMMA Inductive == Spec => [](IndInv /\ Busy)
<1> QED BY InitOK, NextOK, PTL DEF Spec

----------------------------------------------------------------------------
(* The breaker's words and the callers keep their types (retry.rs).          *)
THEOREM TypesHold == Spec => []TypeOK
<1>1. IndInv => TypeOK
  BY DEF IndInv
<1> QED BY <1>1, Inductive, PTL

(* An open breaker counts the failures that opened it, but for a reset and a *)
(* trip that cross (on_success and on_failure).                              *)
THEOREM OpenStaysCounted == Spec => []OpenIsCounted
<1>1. IndInv => OpenIsCounted
  BY RetryAssumption DEF IndInv, Uncrossed, OpenIsCounted, TypeOK
<1> QED BY <1>1, Inductive, PTL
----------------------------------------------------------------------------
(* Every call runs out.                                                      *)

(* The steps a caller can still take before it rests: four to an attempt,    *)
(* less those it has taken of the present one.                               *)
Taken == [sleeping |-> 0, calling |-> 1, ok |-> 2, err |-> 2, closing |-> 3, tripping |-> 3]

StepsLeft(c) == IF call[c].pc = "idle" THEN 0 ELSE 4 * call[c].left - Taken[call[c].pc]

(* No step of a call, of another caller, of the breaker or of the provider   *)
(* gives a call that has begun more to do, and each step of its own leaves   *)
(* it less: a call takes at most 4 * Attempts - 1 steps.                     *)
CallsRunOut ==
    [][\A c \in Callers :
         IF call[c].pc = "idle" THEN StepsLeft(c)' \in {0, 4 * Attempts - 1}
         ELSE call'[c] = call[c] \/ StepsLeft(c)' < StepsLeft(c)]_vars

Bounded == \A c \in Callers : StepsLeft(c) \in Nat
                              /\ (StepsLeft(c) = 0 => call[c].pc = "idle")

LEMMA StepsAre ==
    ASSUME NEW m \in Calls, m.pc # "idle"
    PROVE  /\ Taken[m.pc] \in 0 .. 3 /\ m.left \in Nat /\ m.left <= Attempts
           /\ m.pc = "sleeping" => Taken[m.pc] = 0
           /\ m.pc = "calling" => Taken[m.pc] = 1
           /\ m.pc \in {"ok", "err"} => Taken[m.pc] = 2
           /\ m.pc \in {"closing", "tripping"} => Taken[m.pc] = 3
<1>1. m.left \in 0 .. Attempts /\ Attempts \in Nat
  BY AttemptsType DEF Calls
<1>2. m.pc \in States \ {"idle"}
  BY DEF Calls
<1>3. /\ Taken["sleeping"] = 0 /\ Taken["calling"] = 1 /\ Taken["ok"] = 2
      /\ Taken["err"] = 2 /\ Taken["closing"] = 3 /\ Taken["tripping"] = 3
  BY DEF Taken
<1> QED BY <1>1, <1>2, <1>3 DEF States

LEMMA Shrinks ==
    ASSUME NEW m \in Calls, NEW n \in Calls, m.pc # "idle", m.left # 0,
           \/ n.pc = "idle"
           \/ n.left = m.left /\ n.pc # "idle" /\ Taken[n.pc] > Taken[m.pc]
           \/ n.left = m.left - 1 /\ n.pc = "sleeping"
    PROVE  (IF n.pc = "idle" THEN 0 ELSE 4 * n.left - Taken[n.pc])
             < 4 * m.left - Taken[m.pc]
<1>1. /\ Taken[m.pc] \in 0 .. 3 /\ m.left \in Nat /\ m.left >= 1
  BY StepsAre
<1>2. n.pc # "idle" => Taken[n.pc] \in 0 .. 3 /\ n.left \in Nat
  BY StepsAre
<1> QED BY <1>1, <1>2

LEMMA CallerAdvances ==
    ASSUME IndInv, Busy, NEW c \in Callers, Step(c), call[c].pc # "idle"
    PROVE  /\ \A d \in Callers : d # c => call'[d] = call[d]
           /\ \/ call'[c].pc = "idle"
              \/ /\ call'[c].left = call[c].left /\ call'[c].pc # "idle"
                 /\ Taken[call'[c].pc] > Taken[call[c].pc]
              \/ call'[c].left = call[c].left - 1 /\ call'[c].pc = "sleeping"
<1>1. call \in [Callers -> Calls] /\ call[c] \in Calls /\ ~Enter(c)
  BY DEF IndInv, TypeOK, Enter
<1>2. ASSUME NEW s \in States \ {"idle"}, Move(c, s), Taken[s] > Taken[call[c].pc]
      PROVE  /\ \A d \in Callers : d # c => call'[d] = call[d]
             /\ call'[c].left = call[c].left /\ call'[c].pc = s
             /\ Taken[call'[c].pc] > Taken[call[c].pc]
  BY <1>1, <1>2 DEF Move, Calls
<1>3. /\ Taken["sleeping"] = 0 /\ Taken["calling"] = 1 /\ Taken["ok"] = 2
      /\ Taken["err"] = 2 /\ Taken["closing"] = 3 /\ Taken["tripping"] = 3
  BY DEF Taken
<1>4. CASE Answer(c)
  BY <1>2, <1>3, <1>4 DEF Answer, States
<1>5. CASE Wake(c)
  BY <1>2, <1>3, <1>5 DEF Wake, States
<1>6. CASE Succeeds(c)
  BY <1>2, <1>3, <1>6 DEF Succeeds, States
<1>7. ASSUME call' = [call EXCEPT ![c] = ReturnOrSleep(c)]
      PROVE  /\ \A d \in Callers : d # c => call'[d] = call[d]
             /\ \/ call'[c].pc = "idle"
                \/ call'[c].left = call[c].left - 1 /\ call'[c].pc = "sleeping"
  BY <1>1, <1>7 DEF ReturnOrSleep, Resting
<1>8. CASE Fails(c)
  BY <1>2, <1>3, <1>7, <1>8 DEF Fails, States
<1>9. CASE Trip(c)
  BY <1>7, <1>9 DEF Trip
<1>10. CASE Close(c) \/ Abandon(c)
  BY <1>1, <1>10 DEF Close, Abandon, Resting
<1> QED BY <1>1, <1>4, <1>5, <1>6, <1>8, <1>9, <1>10 DEF Step

(* The variant of EveryCallEnds: a call is bounded by its own steps, however *)
(* the provider, the breaker and the other callers behave (with_retry).      *)
THEOREM EveryCallRunsOut == Spec => CallsRunOut /\ []Bounded
<1>1. ASSUME IndInv, Busy, [Next]_vars, IndInv', NEW c \in Callers, call[c].pc # "idle"
      PROVE  call'[c] = call[c] \/ StepsLeft(c)' < StepsLeft(c)
  <2>1. CASE Tick \/ GoesUpOrDown \/ UNCHANGED vars
    BY <2>1 DEF Tick, GoesUpOrDown, vars
  <2>2. ASSUME NEW d \in Callers, Step(d), d # c PROVE call'[c] = call[c]
    BY <1>1, <2>2 DEF IndInv, TypeOK, Step, Enter, Answer, Succeeds, Close, Fails, Trip,
                      Wake, Abandon, Move
  <2>3. ASSUME Step(c) PROVE StepsLeft(c)' < StepsLeft(c)
    <3>1. \/ call'[c].pc = "idle"
          \/ /\ call'[c].left = call[c].left /\ call'[c].pc # "idle"
             /\ Taken[call'[c].pc] > Taken[call[c].pc]
          \/ call'[c].left = call[c].left - 1 /\ call'[c].pc = "sleeping"
      BY <1>1, <2>3, CallerAdvances
    <3>2. call[c] \in Calls /\ call'[c] \in Calls /\ call[c].left # 0
      BY <1>1 DEF IndInv, TypeOK, Busy
    <3>3. (IF call'[c].pc = "idle" THEN 0 ELSE 4 * call'[c].left - Taken[call'[c].pc])
            < 4 * call[c].left - Taken[call[c].pc]
      BY <1>1, <3>1, <3>2, Shrinks
    <3> QED BY <1>1, <3>3 DEF StepsLeft
  <2> QED BY <1>1, <2>1, <2>2, <2>3 DEF Next
<1>2. ASSUME IndInv, Busy PROVE Bounded
  <2> SUFFICES ASSUME NEW c \in Callers
               PROVE  StepsLeft(c) \in Nat
                      /\ (StepsLeft(c) = 0 => call[c].pc = "idle")
    BY DEF Bounded
  <2>1. call[c] \in Calls /\ Attempts \in Nat \ {0}
    BY <1>2, AttemptsType DEF IndInv, TypeOK
  <2>2. CASE call[c].pc = "idle"
    BY <2>1, <2>2 DEF StepsLeft
  <2>3. CASE call[c].pc # "idle"
    <3> DEFINE l == call[c].left
               p == Taken[call[c].pc]
    <3>1. l \in Nat /\ l >= 1 /\ p \in 0 .. 3
      BY <1>2, <2>1, <2>3, StepsAre DEF Busy
    <3>4. StepsLeft(c) = 4 * l - p
      BY <2>3 DEF StepsLeft
    <3> HIDE DEF l, p
    <3>5. 4 * l - p \in Nat \ {0}
      BY <3>1
    <3> QED BY <3>4, <3>5
  <2> QED BY <2>2, <2>3
<1>3. ASSUME IndInv, [Next]_vars, NEW c \in Callers, call[c].pc = "idle"
      PROVE  StepsLeft(c)' \in {0, 4 * Attempts - 1}
  <2>1. CASE call'[c] = call[c]
    BY <1>3, <2>1 DEF StepsLeft
  <2>2. CASE Enter(c)
    <3>1. call'[c] = [pc |-> "calling", left |-> Attempts]
      BY <1>3, <2>2 DEF Enter, IndInv, TypeOK
    <3> QED BY <3>1 DEF StepsLeft, Taken
  <2>3. call'[c] = call[c] \/ Enter(c)
    BY <1>3 DEF Next, vars, Tick, GoesUpOrDown, IndInv, TypeOK, Step, Enter, Answer, Succeeds,
                Close, Fails, Trip, Wake, Abandon, Move
  <2> QED BY <2>1, <2>2, <2>3
<1>4. IndInv /\ Busy /\ IndInv' /\ [Next]_vars =>
        [\A c \in Callers :
           IF call[c].pc = "idle" THEN StepsLeft(c)' \in {0, 4 * Attempts - 1}
           ELSE call'[c] = call[c] \/ StepsLeft(c)' < StepsLeft(c)]_vars
  BY <1>1, <1>3
<1> QED BY <1>2, <1>4, Inductive, PTL DEF Spec, CallsRunOut
----------------------------------------------------------------------------
(* What an outage, and its end, leave to happen.                             *)

LateSuccesses == {c \in Callers : call[c].pc = "ok"}
LateFailures == {c \in Callers : call[c].pc \in {"err", "tripping"}}

(* While the provider stays down no caller hears a success that was not on   *)
(* its way already, and once those are heard the count only grows.           *)
OutageArms ==
    [][~up /\ ~up' =>
         /\ LateSuccesses' \subseteq LateSuccesses
         /\ LateSuccesses = {} => failures' >= failures]_vars

(* While it stays up no caller fails, or goes on to open the breaker, that   *)
(* was not about to, and once those are done the breaker only closes.        *)
RecoveryCloses ==
    [][up /\ up' =>
         /\ LateFailures' \subseteq LateFailures
         /\ LateFailures = {} => (open' => open) /\ cooling' <= cooling]_vars

(* The safety halves of StaysArmed and NeverBricked: what undoes an outage's *)
(* count, or opens the breaker after one, is a call that was answered        *)
(* before, never one answered since (on_success, on_failure).                *)
THEOREM LateAnswersOnly == Spec => OutageArms /\ RecoveryCloses
<1>1. ASSUME IndInv, NEW c \in Callers, Step(c), NEW d \in Callers
      PROVE  /\ call'[d].pc = "ok" /\ ~up => call[d].pc = "ok"
             /\ call'[d].pc \in {"err", "tripping"} /\ up =>
                  call[d].pc \in {"err", "tripping"}
  <2>0. call \in [Callers -> Calls]
    BY <1>1 DEF IndInv, TypeOK
  <2>1. \A x \in Callers : call[x].pc \in {"err", "tripping"} =>
          ReturnOrSleep(x).pc \in {"idle", "sleeping"}
    BY DEF ReturnOrSleep, Resting
  <2>2. ASSUME NEW s, Move(c, s) PROVE call'[d] = call[d] \/ (d = c /\ call'[d].pc = s)
    BY <2>0, <2>2 DEF Move, Calls
  <2>3. CASE Answer(c)
    BY <2>0, <2>2, <2>3 DEF Answer
  <2>4. CASE Succeeds(c) \/ Wake(c)
    BY <2>0, <2>2, <2>4 DEF Succeeds, Wake
  <2>5. CASE Fails(c)
    <3>1. CASE Counted = Threshold
      BY <2>0, <2>2, <2>5, <3>1 DEF Fails
    <3>2. CASE Counted # Threshold
      BY <2>0, <2>1, <2>5, <3>2 DEF Fails
    <3> QED BY <3>1, <3>2
  <2>6. CASE Trip(c)
    BY <2>0, <2>1, <2>6 DEF Trip
  <2>7. CASE Enter(c) \/ Close(c) \/ Abandon(c)
    BY <2>0, <2>7 DEF Enter, Close, Abandon, Resting
  <2> QED BY <1>1, <2>3, <2>4, <2>5, <2>6, <2>7 DEF Step
<1>2. ASSUME IndInv, [Next]_vars
      PROVE  /\ ~up => LateSuccesses' \subseteq LateSuccesses
             /\ up => LateFailures' \subseteq LateFailures
  <2>1. Tick \/ GoesUpOrDown \/ UNCHANGED vars => call' = call
    BY DEF Tick, GoesUpOrDown, vars
  <2> QED BY <1>1, <1>2, <2>1 DEF Next, LateSuccesses, LateFailures
<1>3. ASSUME IndInv, [Next]_vars, LateSuccesses = {} PROVE failures' >= failures
  <2>1. failures \in 0 .. Threshold /\ Counted >= failures /\ failures >= failures
    BY <1>3, RetryAssumption DEF IndInv, TypeOK, Counted
  <2>2. \A c \in Callers : ~Succeeds(c)
    BY <1>3 DEF Succeeds, LateSuccesses
  <2> QED BY <1>3, <2>1, <2>2 DEF Next, vars, Tick, GoesUpOrDown, breaker, Step, Enter,
             Answer, Close, Fails, Trip, CountAfterTrip, Wake, Abandon
<1>4. ASSUME IndInv, [Next]_vars, LateFailures = {}
      PROVE  (open' => open) /\ cooling' <= cooling
  <2>1. cooling \in Nat /\ cooling <= cooling
    BY <1>4, RetryAssumption DEF IndInv, TypeOK
  <2>2. \A c \in Callers : ~Trip(c)
    BY <1>4 DEF Trip, LateFailures
  <2>3. CASE UNCHANGED <<open, cooling>>
    BY <2>1, <2>3
  <2>4. CASE Tick
    BY <2>1, <2>4 DEF Tick, Elapsed
  <2>5. ASSUME NEW c \in Callers, Enter(c) \/ Close(c)
        PROVE  (open' => open) /\ cooling' <= cooling
    BY <2>1, <2>5 DEF Enter, Close, Closed
  <2>6. \/ UNCHANGED <<open, cooling>> \/ Tick
        \/ \E c \in Callers : Enter(c) \/ Close(c)
    BY <1>4, <2>2 DEF Next, vars, GoesUpOrDown, breaker, Step, Answer, Succeeds, Fails,
                      Wake, Abandon
  <2> QED BY <2>3, <2>4, <2>5, <2>6
<1>5. IndInv /\ [Next]_vars =>
        [~up /\ ~up' =>
           /\ LateSuccesses' \subseteq LateSuccesses
           /\ LateSuccesses = {} => failures' >= failures]_vars
  BY <1>2, <1>3
<1>6. IndInv /\ [Next]_vars =>
        [up /\ up' =>
           /\ LateFailures' \subseteq LateFailures
           /\ LateFailures = {} => (open' => open) /\ cooling' <= cooling]_vars
  BY <1>2, <1>4
<1> QED BY <1>5, <1>6, Inductive, PTL DEF Spec, OutageArms, RecoveryCloses
==============================================================================
