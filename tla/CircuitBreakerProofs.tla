------------------------ MODULE CircuitBreakerProofs ------------------------
(***************************************************************************)
(* Proofs about CircuitBreaker, for any callers, threshold, reset time and *)
(* number of attempts.                                                     *)
(***************************************************************************)
EXTENDS CircuitBreaker, TLAPS

-----------------------------------------------------------------------------
\* A breaker that is not closed has been at rest as long as its clock says,
\* and a half-open one has rested the whole reset time.
RestInv ==
  /\ state = "OPEN" => since = quiet
  /\ state = "HALF_OPEN" => quiet = Reset

\* Every probe is a running call.
ProbesRun == \A c \in probes : pc[c] # "out"

\* A call sleeps only when an attempt is left.
SleepersMayRetry == \A c \in Calls : pc[c] = "sleeping" => ~LastAttempt(c)

Inv == TypeOK /\ CountDecides /\ SlotIsHeld /\ RestInv /\ ProbesRun
         /\ SleepersMayRetry

-----------------------------------------------------------------------------
\* A new breaker is closed, with nothing counted and nobody in it.
LEMMA InitInv == Init => Inv
<1> SUFFICES ASSUME Init
             PROVE  Inv
  OBVIOUS
<1>1. 0 \in 0 .. Threshold /\ 0 \in 0 .. Reset /\ Reset \in 0 .. Reset
        /\ 0 \in 0 .. MaxAttempts - 1 /\ 0 < Threshold
  BY BreakerAssumption DEF BreakerAssumption
<1>2. TypeOK
  BY <1>1 DEF Init, TypeOK, States
<1>3. CountDecides
  BY <1>1 DEF Init, CountDecides
<1>4. SlotIsHeld /\ RestInv /\ ProbesRun /\ SleepersMayRetry
  BY DEF Init, SlotIsHeld, RestInv, ProbesRun, SleepersMayRetry
<1>5. QED
  BY <1>2, <1>3, <1>4 DEF Inv

\* Leaving touches only the call that leaves.
LEMMA LeaveInv ==
  ASSUME TypeOK, ProbesRun, SleepersMayRetry, NEW c \in Calls, Leave(c)
  PROVE  /\ pc' \in [Calls -> {"out", "trying", "sleeping"}]
         /\ attempt' \in [Calls -> 0 .. MaxAttempts - 1]
         /\ prober' \in Calls \cup {Nobody}
         /\ probes' \subseteq Calls
         /\ ProbesRun'
         /\ SleepersMayRetry'
BY DEF TypeOK, ProbesRun, SleepersMayRetry, LastAttempt, Leave

\* Every step of the breaker and of its callers keeps the invariant.
LEMMA StepInv == Inv /\ [Next]_vars => Inv'
<1> SUFFICES ASSUME Inv, [Next]_vars
             PROVE  Inv'
  OBVIOUS
<1> USE BreakerAssumption DEF BreakerAssumption
<1>1. ASSUME NEW c \in Calls, Enter(c)
      PROVE  Inv'
  <2>1. TypeOK'
    <3>1. 0 \in 0 .. MaxAttempts - 1
      OBVIOUS
    <3>2. QED
      BY <1>1, <3>1 DEF Inv, TypeOK, States, Enter
  <2>2. CountDecides'
    BY <1>1 DEF Inv, TypeOK, States, CountDecides, Enter
  <2>3. SlotIsHeld' /\ ProbesRun'
    <3>1. CASE state = "CLOSED"
      BY <1>1, <3>1 DEF Inv, TypeOK, SlotIsHeld, ProbesRun, Enter
    <3>2. CASE state # "CLOSED"
      BY <1>1, <3>2 DEF Inv, TypeOK, SlotIsHeld, ProbesRun, Enter
    <3>3. QED
      BY <3>1, <3>2
  <2>4. RestInv'
    BY <1>1 DEF Inv, TypeOK, States, RestInv, Enter, Admits, Rested
  <2>5. SleepersMayRetry'
    BY <1>1 DEF Inv, TypeOK, SleepersMayRetry, LastAttempt, Enter
  <2>6. QED
    BY <2>1, <2>2, <2>3, <2>4, <2>5 DEF Inv
<1>2. ASSUME NEW c \in Calls, Succeeds(c)
      PROVE  Inv'
  <2>1. Leave(c) /\ state' = "CLOSED" /\ failures' = 0 /\ since' = 0
          /\ probing' = FALSE /\ quiet' = quiet
    BY <1>2 DEF Succeeds
  <2>2. TypeOK' /\ ProbesRun' /\ SleepersMayRetry'
    <3>1. 0 \in 0 .. Threshold /\ 0 \in 0 .. Reset
      OBVIOUS
    <3>2. QED
      BY <2>1, <3>1, LeaveInv DEF Inv, TypeOK, States
  <2>3. CountDecides' /\ SlotIsHeld' /\ RestInv'
    BY <2>1 DEF CountDecides, SlotIsHeld, RestInv
  <2>4. QED
    BY <2>2, <2>3 DEF Inv
<1>3. ASSUME NEW c \in Calls, Backoff(c)
      PROVE  Inv'
  BY <1>3 DEF Inv, TypeOK, CountDecides, SlotIsHeld, RestInv, ProbesRun,
       SleepersMayRetry, LastAttempt, Backoff
<1>4. ASSUME NEW c \in Calls, Retry(c)
      PROVE  Inv'
  <2>1. attempt[c] + 1 \in 0 .. MaxAttempts - 1
    BY <1>4 DEF Inv, TypeOK, SleepersMayRetry, LastAttempt, Retry
  <2>2. TypeOK' /\ ProbesRun' /\ SleepersMayRetry'
    BY <1>4, <2>1 DEF Inv, TypeOK, ProbesRun, SleepersMayRetry, LastAttempt, Retry
  <2>3. QED
    BY <1>4, <2>2 DEF Inv, TypeOK, CountDecides, SlotIsHeld, RestInv, Retry
<1>5. ASSUME NEW c \in Calls, Fails(c)
      PROVE  Inv'
  <2>1. Counted \in 1 .. Threshold /\ (Counted = Threshold \/ Counted = failures + 1)
    BY DEF Inv, TypeOK, Counted
  <2>2. 0 \in 0 .. Reset /\ Leave(c) /\ probing' = FALSE /\ failures' = Counted
    BY <1>5 DEF Fails
  <2>3. TypeOK' /\ ProbesRun' /\ SleepersMayRetry'
    <3>1. state' \in States /\ since' \in 0 .. Reset /\ quiet' \in 0 .. Reset
      BY <1>5, <2>2 DEF Inv, TypeOK, States, Fails
    <3>2. failures' \in 0 .. Threshold
      BY <2>1, <2>2
    <3>3. probing' \in BOOLEAN
      BY <2>2
    <3>4. QED
      BY <2>2, <3>1, <3>2, <3>3, LeaveInv DEF Inv, TypeOK
  <2>4. CountDecides' /\ RestInv'
    BY <1>5, <2>1, <2>2 DEF Inv, TypeOK, States, CountDecides, RestInv, Fails
  <2>5. QED
    BY <2>2, <2>3, <2>4 DEF Inv, SlotIsHeld
<1>6. ASSUME NEW c \in Calls, GivesUp(c)
      PROVE  Inv'
  BY <1>6, LeaveInv
     DEF Inv, TypeOK, CountDecides, SlotIsHeld, RestInv, GivesUp
<1>7. ASSUME Tick
      PROVE  Inv'
  BY <1>7 DEF Inv, TypeOK, States, CountDecides, SlotIsHeld, RestInv, ProbesRun,
       SleepersMayRetry, LastAttempt, Tick
<1>8. ASSUME UNCHANGED vars
      PROVE  Inv'
  BY <1>8 DEF Inv, TypeOK, CountDecides, SlotIsHeld, RestInv, ProbesRun,
       SleepersMayRetry, LastAttempt, vars
<1>9. QED
  BY <1>1, <1>2, <1>3, <1>4, <1>5, <1>6, <1>7, <1>8 DEF Next, Proceed

\* The invariant holds of every reachable state.
LEMMA Invariance == Spec => []Inv
BY InitInv, StepInv, PTL DEF Spec

-----------------------------------------------------------------------------
\* The breaker's variables keep their types: no call makes more attempts than
\* the retry policy allows (retry.py:33).
THEOREM BreakerTypes == Spec => []TypeOK
BY Invariance, PTL DEF Inv

\* Closed means fewer failures than the threshold (circuit_breaker.py:70).
THEOREM ClosedByCount == Spec => []CountDecides
BY Invariance, PTL DEF Inv

\* The probe slot is held by a running call (circuit_breaker.py:43).
THEOREM SlotNeverLost == Spec => []SlotIsHeld
BY Invariance, PTL DEF Inv

\* No call is let in before the breaker has rested (circuit_breaker.py:37).
THEOREM RestsBeforeProbe == Spec => CoolsDown
<1> DEFINE Cool == \A c \in Calls : pc[c] = "out" /\ pc'[c] # "out" =>
                     state = "CLOSED" \/ quiet = Reset
<1>1. Inv /\ [Next]_vars => Cool
  <2> SUFFICES ASSUME Inv, [Next]_vars, NEW c \in Calls,
                      pc[c] = "out", pc'[c] # "out"
               PROVE  state = "CLOSED" \/ quiet = Reset
    OBVIOUS
  <2>1. \E d \in Calls : Enter(d)
    <3>1. ~UNCHANGED vars /\ ~Tick
      BY DEF Tick, vars
    <3>2. ASSUME NEW d \in Calls, Proceed(d)
          PROVE  FALSE
      <4>1. pc[d] # "out"
        BY <3>2 DEF Proceed, Succeeds, Backoff, Retry, Fails, GivesUp
      <4>2. pc' = [pc EXCEPT ![d] = pc'[d]]
        BY <3>2 DEF Inv, TypeOK, Proceed, Succeeds, Backoff, Retry, Fails, GivesUp, Leave
      <4>3. QED
        BY <4>1, <4>2 DEF Inv, TypeOK
    <3>3. QED
      BY <3>1, <3>2 DEF Next
  <2>2. QED
    BY <2>1 DEF Enter, Admits, Rested, Inv, TypeOK, States, RestInv
<1>2. Spec => [][Cool]_vars
  BY Invariance, <1>1, PTL DEF Spec
<1>3. QED
  BY <1>2 DEF CoolsDown

-----------------------------------------------------------------------------
(* How far the calls are, and that a refusal comes to an end.              *)

\* How far a call is: it is trying or sleeping in one of its attempts, or out.
Stage(c) ==
  CASE pc[c] = "trying"   -> 2 * attempt[c]
    [] pc[c] = "sleeping" -> 2 * attempt[c] + 1
    [] OTHER              -> 2 * MaxAttempts

Goes(c) == Stage(c)' > Stage(c) /\ \A d \in Calls \ {c} : Stage(d)' = Stage(d)
Waits == UNCHANGED <<pc, attempt>>

\* Why a breaker lets nobody in: its time is not over, or its probe is running.
RefusedForCause ==
  /\ \A c \in Calls : Stage(c) \in 0 .. 2 * MaxAttempts
  /\ ~Admits => \/ state = "OPEN" /\ since < Reset
                \/ probing /\ prober \in Calls /\ Stage(prober) < 2 * MaxAttempts

\* Until a call that was let in leaves it only goes on, and no other call with it.
CallsAdvance ==
  [][\A c \in Calls : pc[c] # "out" =>
       /\ Stage(c)' >= Stage(c)
       /\ Proceed(c) => Goes(c)]_vars

\* While the breaker refuses, nobody comes in, and every step brings the end of
\* a call nearer, or, the calls staying where they are, the end of the reset
\* time.  A late failure starts that time anew, but there are only so many.
RefusalAdvances ==
  [][~Admits => \/ \E c \in Calls : pc[c] # "out" /\ Goes(c)
                \/ Waits /\ since' >= since /\ quiet' >= quiet
                     /\ since' + quiet' > since + quiet]_vars

LEMMA StageFacts ==
  ASSUME TypeOK, NEW c \in Calls
  PROVE  /\ Stage(c) \in 0 .. 2 * MaxAttempts
         /\ Stage(c) < 2 * MaxAttempts <=> pc[c] # "out"
<1>1. pc[c] \in {"out", "trying", "sleeping"} /\ attempt[c] \in 0 .. MaxAttempts - 1
  BY DEF TypeOK
<1>2. MaxAttempts \in Nat
  BY BreakerAssumption DEF BreakerAssumption
<1>3. QED
  BY <1>1, <1>2 DEF Stage

\* A call that was let in goes on alone.
LEMMA ProceedAdvances ==
  ASSUME Inv, NEW c \in Calls, Proceed(c)
  PROVE  pc[c] # "out" /\ Goes(c)
<1>1. /\ attempt[c] \in 0 .. MaxAttempts - 1 /\ MaxAttempts \in Nat
      /\ pc \in [Calls -> {"out", "trying", "sleeping"}]
      /\ attempt \in [Calls -> 0 .. MaxAttempts - 1]
  BY BreakerAssumption DEF BreakerAssumption, Inv, TypeOK
<1>2. CASE Succeeds(c) \/ Fails(c) \/ GivesUp(c)
  BY <1>1, <1>2 DEF Succeeds, Fails, GivesUp, Leave, Goes, Stage
<1>3. CASE Backoff(c)
  BY <1>1, <1>3 DEF Backoff, Goes, Stage
<1>4. CASE Retry(c)
  BY <1>1, <1>4 DEF Retry, Goes, Stage
<1>5. QED
  BY <1>2, <1>3, <1>4 DEF Proceed

\* Nobody comes into a breaker that refuses.
LEMMA RefusalStep ==
  ASSUME Inv, Next, ~Admits
  PROVE  \/ \E c \in Calls : Proceed(c)
         \/ Tick
BY DEF Next, Enter

\* A call that was let in comes to its end in at most 2 * MaxAttempts steps of
\* its own, and no step of another call throws it back (retry.py, call).
THEOREM CallsEnd == Spec => CallsAdvance
<1> DEFINE Advance == \A c \in Calls : pc[c] # "out" =>
                        /\ Stage(c)' >= Stage(c)
                        /\ Proceed(c) => Goes(c)
<1>1. Inv /\ [Next]_vars => Advance
  <2> SUFFICES ASSUME Inv, [Next]_vars, NEW c \in Calls, pc[c] # "out"
               PROVE  Stage(c)' >= Stage(c) /\ (Proceed(c) => Goes(c))
    OBVIOUS
  <2>1. Stage(c) \in Nat
    BY StageFacts, BreakerAssumption DEF Inv, BreakerAssumption
  <2>2. ASSUME NEW d \in Calls, Proceed(d)
        PROVE  Stage(c)' >= Stage(c)
    <3>1. Goes(d) /\ Stage(d) \in Nat /\ Inv' /\ MaxAttempts \in Nat
      BY <2>2, ProceedAdvances, StageFacts, StepInv, BreakerAssumption
         DEF Inv, Next, BreakerAssumption
    <3>2. Stage(c)' \in Nat
      BY <3>1 DEF Inv, TypeOK, Stage
    <3>3. Stage(c)' > Stage(c) \/ Stage(c)' = Stage(c)
      BY <3>1 DEF Goes
    <3>4. QED
      BY <2>1, <3>2, <3>3
  <2>3. ASSUME NEW d \in Calls, Enter(d)
        PROVE  Stage(c)' = Stage(c)
    BY <2>3 DEF Enter, Stage, Inv, TypeOK
  <2>4. ASSUME Tick \/ UNCHANGED vars
        PROVE  Stage(c)' = Stage(c)
    BY <2>4 DEF Tick, vars, Stage
  <2>5. QED
    BY <2>1, <2>2, <2>3, <2>4, ProceedAdvances DEF Next
<1>2. Spec => [][Advance]_vars
  BY Invariance, <1>1, PTL DEF Spec
<1>3. QED
  BY <1>2 DEF CallsAdvance

\* A refusal has a cause that ends by itself: the reset time, or a probe that is
\* running.
THEOREM RefusalHasCause == Spec => []RefusedForCause
<1>1. Inv => RefusedForCause
  <2> SUFFICES ASSUME Inv
               PROVE  RefusedForCause
    OBVIOUS
  <2>1. \A c \in Calls : Stage(c) \in 0 .. 2 * MaxAttempts
    BY StageFacts DEF Inv
  <2>2. ASSUME ~Admits, ~(state = "OPEN" /\ since < Reset)
        PROVE  probing /\ prober \in Calls /\ Stage(prober) < 2 * MaxAttempts
    <3>1. probing
      BY <2>2, BreakerAssumption DEF Admits, Rested, Inv, TypeOK, BreakerAssumption
    <3>2. prober \in Calls /\ pc[prober] # "out"
      BY <3>1 DEF Inv, TypeOK, SlotIsHeld
    <3>3. QED
      BY <3>1, <3>2, StageFacts DEF Inv
  <2>3. QED
    BY <2>1, <2>2 DEF RefusedForCause
<1>2. QED
  BY <1>1, Invariance, PTL

\* While the breaker refuses, every step brings the end of the refusal nearer
\* (_allow): what AdmitsAgain needs besides fairness.
THEOREM RefusalEnds == Spec => RefusalAdvances
<1> DEFINE Nearer == ~Admits => \/ \E c \in Calls : pc[c] # "out" /\ Goes(c)
                                \/ Waits /\ since' >= since /\ quiet' >= quiet
                                     /\ since' + quiet' > since + quiet
<1>1. Inv /\ [Next]_vars => [Nearer]_vars
  <2> SUFFICES ASSUME Inv, Next
               PROVE  Nearer
    OBVIOUS
  <2>1. ASSUME Tick
        PROVE  Waits /\ since' >= since /\ quiet' >= quiet
                 /\ since' + quiet' > since + quiet
    BY <2>1, BreakerAssumption DEF Tick, Waits, Inv, TypeOK, BreakerAssumption
  <2>2. QED
    BY <2>1, RefusalStep, ProceedAdvances
<1>2. Spec => [][Nearer]_vars
  BY Invariance, <1>1, PTL DEF Spec
<1>3. QED
  BY <1>2 DEF RefusalAdvances
=============================================================================
