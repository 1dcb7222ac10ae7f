--------------------------- MODULE CircuitBreaker ---------------------------
(***************************************************************************)
(* One CircuitBreaker (platform/resilience/circuit_breaker.py) and the     *)
(* calls that go through it.  Each call runs the retry policy of the LLM   *)
(* client (platform/resilience/retry.py, core/llm/http.py) inside the      *)
(* breaker, as provider.chat does; with MaxAttempts = 1 it is the call of  *)
(* the Taobao skill.                                                       *)
(*                                                                         *)
(* No critical section of the breaker's asyncio.Lock contains an await, so *)
(* each of _allow, _record_failure, _record_success and _finish_probe is   *)
(* one step.  Between them the call is trying or sleeping, and the other   *)
(* calls move.  Time passes in ticks; the breaker compares the time since  *)
(* opened_at with reset_seconds and nothing else.                          *)
(***************************************************************************)
EXTENDS Naturals

CONSTANTS
  Calls,        \* concurrent callers, each of which may call again
  Threshold,    \* failure_threshold
  Reset,        \* reset_seconds, in ticks
  MaxAttempts,  \* max_attempts of the retry policy
  Nobody        \* nobody has been admitted as a probe

ASSUME BreakerAssumption ==
  /\ Threshold \in Nat \ {0}
  /\ Reset \in Nat \ {0}
  /\ MaxAttempts \in Nat \ {0}
  /\ Nobody \notin Calls

VARIABLES
  state,     \* CircuitBreaker.state
  failures,  \* failure_count, which only matters up to the threshold
  since,     \* ticks since opened_at, which only matter up to Reset
  probing,   \* _probe_in_flight
  pc,        \* pc[c]: where call c is
  attempt,   \* attempt[c]: the attempt of the retry policy c is at
  prober,    \* history: the call that last took the probe slot
  probes,    \* history: the running calls that were admitted as probes
  quiet      \* history: ticks since a failure was recorded, up to Reset

vars == <<state, failures, since, probing, pc, attempt, prober, probes, quiet>>
breaker == <<state, failures, since, probing>>

-----------------------------------------------------------------------------
States == {"CLOSED", "OPEN", "HALF_OPEN"}

TypeOK ==
  /\ state \in States
  /\ failures \in 0 .. Threshold
  /\ since \in 0 .. Reset
  /\ probing \in BOOLEAN
  /\ pc \in [Calls -> {"out", "trying", "sleeping"}]
  /\ attempt \in [Calls -> 0 .. MaxAttempts - 1]
  /\ prober \in Calls \cup {Nobody}
  /\ probes \subseteq Calls
  /\ quiet \in 0 .. Reset

Init ==
  /\ state = "CLOSED"
  /\ failures = 0
  /\ since = 0
  /\ probing = FALSE
  /\ pc = [c \in Calls |-> "out"]
  /\ attempt = [c \in Calls |-> 0]
  /\ prober = Nobody
  /\ probes = {}
  /\ quiet = Reset

-----------------------------------------------------------------------------
(* CircuitBreaker.call.                                                    *)

Rested == state = "OPEN" => since = Reset

Admits == Rested /\ (state = "HALF_OPEN" => ~probing)

\* _allow lets the call in: as one of many, or as the probe.
Enter(c) ==
  /\ pc[c] = "out"
  /\ Admits
  /\ pc' = [pc EXCEPT ![c] = "trying"]
  /\ attempt' = [attempt EXCEPT ![c] = 0]
  /\ \/ /\ state = "CLOSED"
        /\ UNCHANGED <<state, probing, prober, probes>>
     \/ /\ state # "CLOSED"
        /\ state' = "HALF_OPEN"
        /\ probing' = TRUE
        /\ prober' = c
        /\ probes' = probes \cup {c}
  /\ UNCHANGED <<failures, since, quiet>>

Leave(c) ==
  /\ pc' = [pc EXCEPT ![c] = "out"]
  /\ probes' = probes \ {c}
  /\ UNCHANGED <<attempt, prober>>

\* Fault: _record_success forgets the count.
SucceedsKeepingCount(c) ==
  /\ pc[c] = "trying"
  /\ state' = "CLOSED"
  /\ since' = 0
  /\ probing' = FALSE
  /\ Leave(c)
  /\ UNCHANGED <<failures, quiet>>

Succeeds(c) ==
  /\ pc[c] = "trying"
  /\ state' = "CLOSED"
  /\ failures' = 0
  /\ since' = 0
  /\ probing' = FALSE
  /\ Leave(c)
  /\ UNCHANGED quiet

\* Fault: one attempt too many.
LastAttemptOffByOne(c) == attempt[c] = MaxAttempts

LastAttempt(c) == attempt[c] = MaxAttempts - 1

\* A transient error with attempts left: the policy sleeps, the breaker hears
\* nothing of it.
Backoff(c) ==
  /\ pc[c] = "trying"
  /\ ~LastAttempt(c)
  /\ pc' = [pc EXCEPT ![c] = "sleeping"]
  /\ UNCHANGED <<state, failures, since, probing, attempt, prober, probes, quiet>>

Retry(c) ==
  /\ pc[c] = "sleeping"
  /\ pc' = [pc EXCEPT ![c] = "trying"]
  /\ attempt' = [attempt EXCEPT ![c] = @ + 1]
  /\ UNCHANGED <<state, failures, since, probing, prober, probes, quiet>>

Counted == IF failures < Threshold THEN failures + 1 ELSE Threshold

\* Fault: opened_at is set only when the breaker opens.
FailsWithoutRestart(c) ==
  /\ pc[c] = "trying"
  /\ LastAttempt(c)
  /\ probing' = FALSE
  /\ failures' = Counted
  /\ \/ /\ state = "HALF_OPEN" \/ Counted = Threshold
        /\ state' = "OPEN"
        /\ since' = IF state = "OPEN" THEN since ELSE 0
     \/ /\ state # "HALF_OPEN" /\ Counted < Threshold
        /\ UNCHANGED <<state, since>>
  /\ quiet' = 0
  /\ Leave(c)

\* The last attempt ends in a transient error: _record_failure.
Fails(c) ==
  /\ pc[c] = "trying"
  /\ LastAttempt(c)
  /\ probing' = FALSE
  /\ failures' = Counted
  /\ \/ /\ state = "HALF_OPEN" \/ Counted = Threshold
        /\ state' = "OPEN"
        /\ since' = 0
     \/ /\ state # "HALF_OPEN" /\ Counted < Threshold
        /\ UNCHANGED <<state, since>>
  /\ quiet' = 0
  /\ Leave(c)

\* Fault: a permanent error or a cancellation keeps the probe slot.
GivesUpKeepingSlot(c) ==
  /\ pc[c] # "out"
  /\ Leave(c)
  /\ UNCHANGED <<breaker, quiet>>

\* A permanent error, or a cancellation at any await: _finish_probe.
GivesUp(c) ==
  /\ pc[c] # "out"
  /\ probing' = FALSE
  /\ Leave(c)
  /\ UNCHANGED <<state, failures, since, quiet>>

Tick ==
  /\ since < Reset \/ quiet < Reset
  /\ since' = IF since < Reset THEN since + 1 ELSE since
  /\ quiet' = IF quiet < Reset THEN quiet + 1 ELSE quiet
  /\ UNCHANGED <<state, failures, probing, pc, attempt, prober, probes>>

-----------------------------------------------------------------------------
\* What a call that was let in does until it leaves.
Proceed(c) == Succeeds(c) \/ Backoff(c) \/ Retry(c) \/ Fails(c) \/ GivesUp(c)

Next ==
  \/ \E c \in Calls : Enter(c) \/ Proceed(c)
  \/ Tick

Spec == Init /\ [][Next]_vars

\* Every request has a timeout and the policy a bounded number of attempts.
FairSpec == Spec /\ WF_vars(Tick) /\ \A c \in Calls : WF_vars(Proceed(c))

-----------------------------------------------------------------------------
(* Correctness.                                                            *)

\* The breaker is closed exactly while it has counted fewer failures than the
\* threshold since the last success, however late the outcomes of calls
\* admitted earlier arrive (circuit_breaker.py:66 and :74).
CountDecides == state = "CLOSED" <=> failures < Threshold

\* The probe slot is never lost: while it is taken, the breaker is half open
\* and the call that took it is still running, so that its end frees the slot
\* (circuit_breaker.py:43, :55 and :61).
SlotIsHeld ==
  probing => /\ state = "HALF_OPEN"
             /\ prober \in probes
             /\ pc[prober] # "out"

\* A call is let into a breaker that is not closed only when no failure was
\* recorded for Reset ticks, the late failures of old calls included
\* (circuit_breaker.py:37 and :72).
CoolsDown ==
  [][\A c \in Calls : pc[c] = "out" /\ pc'[c] # "out" =>
       state = "CLOSED" \/ quiet = Reset]_vars

\* The breaker never locks callers out for good: again and again it would let
\* one in (circuit_breaker.py:39).
AdmitsAgain == []<>Admits

\* A half-open breaker has at most one probe under way.
SingleProbe == \A c, d \in probes : c = d
=============================================================================
