------------------------ MODULE PlanExecutionProofs -------------------------
(***************************************************************************)
(* Proofs about PlanExecution, for any steps, plans, agents, failures and  *)
(* limits.                                                                 *)
(***************************************************************************)
EXTENDS PlanExecution, FiniteSetTheorems, SequenceTheorems, WellFoundedInduction, TLAPS

-----------------------------------------------------------------------------
(* The inductive invariant.                                                *)

\* A plan is executed only when it is valid, and the results are those of its
\* steps.
PlanInv ==
  /\ phase = "planning" => plan = <<>>
  /\ phase \in {"scheduling", "running", "deciding"} => Valid(plan)
  /\ \A s \in StepIds : Status(s) = "NONE" <=> s \notin Ids(plan)

\* A step is in flight exactly while it is running, which is during a wave,
\* and its message is sent once per flight.
FlightInv ==
  /\ phase \in {"planning", "scheduling", "deciding"} =>
       \A s \in StepIds : Status(s) # "RUNNING"
  /\ \A s \in StepIds : flight[s] # "idle" <=> Status(s) = "RUNNING"
  /\ \A s \in StepIds : flight[s] = "queued" => sends[s] = 0

Inv == /\ TypeOK /\ PlanInv /\ FlightInv /\ NeverStuck /\ ExecOnce
       /\ RunsAfterDependencies /\ SkippedForCause /\ SkipsWhenOrdered

-----------------------------------------------------------------------------
(* Sets of natural numbers.                                                *)

\* A nonempty set of natural numbers has a least element.
LEMMA NatMin ==
  ASSUME NEW T \in SUBSET Nat, T # {}
  PROVE  \E n \in T : \A m \in T : n <= m
<1>. DEFINE less == OpToRel(<, Nat)
<1>1. PICK n \in T : \A m \in T : ~ (<<m, n>> \in less)
  <2>1. IsWellFoundedOn(less, Nat)
    BY NatLessThanWellFounded
  <2>. HIDE DEF less
  <2>. QED  BY <2>1, WFMin
<1>2. \A m \in Nat, k \in Nat : m < k => <<m, k>> \in less
  BY Zenon DEF OpToRel
<1>3. \A m \in T : ~ (m < n)
  <2>. HIDE DEF less
  <2>. QED  BY <1>1, <1>2
<1>4. \A m \in T : n <= m
  BY <1>3
<1>. QED  BY <1>4

\* A nonempty set of natural numbers with a bound has a greatest element.
LEMMA NatMax ==
  ASSUME NEW N \in Nat, NEW T \in SUBSET (0 .. N), T # {}
  PROVE  \E n \in T : \A m \in T : m <= n
<1>. DEFINE D == {k \in 0 .. N : N - k \in T}
<1>1. D \in SUBSET Nat /\ D # {}
  <2>1. PICK n \in T : TRUE
    OBVIOUS
  <2>2. n \in 0 .. N /\ N - n \in 0 .. N /\ N - (N - n) = n
    OBVIOUS
  <2>3. N - n \in D
    BY <2>1, <2>2
  <2>4. D \in SUBSET Nat
    OBVIOUS
  <2>. HIDE DEF D
  <2>. QED  BY <2>3, <2>4
<1>2. PICK k \in D : \A m \in D : k <= m
  <2>. HIDE DEF D
  <2>. QED  BY <1>1, NatMin
<1>3. \A m \in T : N - m \in D
  <2>. SUFFICES ASSUME NEW m \in T PROVE N - m \in D
    OBVIOUS
  <2>1. m \in 0 .. N /\ N - m \in 0 .. N /\ N - (N - m) = m
    OBVIOUS
  <2>. QED  BY <2>1
<1>4. ASSUME NEW m \in T PROVE m <= N - k
  <2>1. k <= N - m
    <3>. HIDE DEF D
    <3>. QED  BY <1>2, <1>3
  <2>. QED  BY <2>1
<1>. QED  BY <1>2, <1>4

-----------------------------------------------------------------------------
(* Plans.                                                                  *)

\* What a model may return is a sequence of steps.
LEMMA DraftTypes == \A p \in Drafts : p \in Seq(PlanSteps)
BY PlanAssumption

\* The ids of a plan are ids, and each is the id of a step of the plan.
LEMMA PlanIds ==
  ASSUME NEW p \in Seq(PlanSteps)
  PROVE  /\ Ids(p) \subseteq StepIds
         /\ \A s \in Ids(p) : /\ StepOf(p, s) \in PlanSteps
                              /\ \E n \in 1 .. Len(p) : StepOf(p, s) = p[n] /\ p[n].id = s
<1>1. \A n \in 1 .. Len(p) : p[n] \in PlanSteps
  OBVIOUS
<1>2. Ids(p) \subseteq StepIds
  BY <1>1 DEF Ids, PlanSteps
<1>3. ASSUME NEW s \in Ids(p)
      PROVE  \E n \in 1 .. Len(p) : StepOf(p, s) = p[n] /\ p[n].id = s
  <2>1. \E n \in 1 .. Len(p) : p[n].id = s
    BY DEF Ids
  <2>. QED  BY <2>1 DEF StepOf
<1>. QED  BY <1>1, <1>2, <1>3

\* The fields of a step of a plan have their types.
LEMMA StepTypes ==
  ASSUME NEW p \in Seq(PlanSteps), NEW s \in Ids(p)
  PROVE  /\ s \in StepIds
         /\ StepOf(p, s).kind \in Kinds
         /\ StepOf(p, s).deps \subseteq StepIds
         /\ StepOf(p, s).required \in BOOLEAN
BY PlanIds DEF PlanSteps

\* In a well-formed plan a step depends on steps of the plan.
LEMMA DepsInPlan ==
  ASSUME NEW p \in Seq(PlanSteps), WellFormed(p), NEW s \in Ids(p)
  PROVE  StepOf(p, s).deps \subseteq Ids(p)
BY PlanIds DEF WellFormed

-----------------------------------------------------------------------------
(* Steps that change no result, and steps that leave none running or       *)
(* skipped.                                                                *)

\* A step that keeps the plan and the results keeps what is said of them.
LEMMA SameResults ==
  ASSUME Inv, UNCHANGED <<plan, result>>
  PROVE  /\ \A s \in StepIds : Status(s)' = Status(s)
         /\ Ids(plan)' = Ids(plan)
         /\ RunsAfterDependencies' /\ SkippedForCause' /\ SkipsWhenOrdered'
BY DEF Inv, RunsAfterDependencies, SkippedForCause, SkipsWhenOrdered, Ordered,
       RequiredSucceeded, Batch, Status, Deps, Required, Ids

\* With nothing running and nothing skipped, three properties say nothing.
LEMMA AllReset ==
  ASSUME \A s \in Ids(plan') : result'[s].status \notin {"RUNNING", "SKIPPED"}
  PROVE  RunsAfterDependencies' /\ SkippedForCause' /\ SkipsWhenOrdered'
BY DEF RunsAfterDependencies, SkippedForCause, SkipsWhenOrdered, Batch, Status, Ids

\* A reset result, and the absence of one, are results.
LEMMA FreshType ==
  /\ \A k \in Kinds : Fresh(k) \in StepResults
  /\ NoResult \in StepResults
BY DEF Fresh, NoResult, StepResults, Terminal

\* What resume makes of the results, when nothing is running.
LEMMA ResumedFacts ==
  ASSUME Inv, phase = "deciding", NEW p \in Seq(PlanSteps), NEW retry \in SUBSET Ids(p)
  PROVE  /\ Resumed(p, retry) \in [StepIds -> StepResults]
         /\ \A s \in StepIds :
              /\ Resumed(p, retry)[s].status \notin {"RUNNING", "SKIPPED"}
              /\ Resumed(p, retry)[s].status = "NONE" <=> s \notin Ids(p)
              /\ \/ s \notin Ids(p)
                 \/ s \in retry
                 \/ Status(s) \in {"NONE", "PENDING", "SKIPPED"}
                 \/ Resumed(p, retry)[s] = result[s]
<1>1. result \in [StepIds -> StepResults]
  BY DEF Inv, TypeOK
<1>2. \A s \in StepIds :
        Resumed(p, retry)[s] =
          IF s \notin Ids(p) THEN NoResult
          ELSE IF s \in retry \/ Status(s) \in {"NONE", "PENDING", "SKIPPED"}
            THEN Fresh(StepOf(p, s).kind)
          ELSE result[s]
  BY DEF Resumed
<1>3. \A s \in StepIds : Resumed(p, retry)[s] \in StepResults
  BY <1>1, <1>2, FreshType, StepTypes
<1>4. Resumed(p, retry) \in [StepIds -> StepResults]
  BY <1>3 DEF Resumed
<1>5. \A s \in StepIds : Status(s) # "RUNNING"
  BY DEF Inv, FlightInv
<1>6. \A s \in StepIds :
        /\ Resumed(p, retry)[s].status \notin {"RUNNING", "SKIPPED"}
        /\ Resumed(p, retry)[s].status = "NONE" <=> s \notin Ids(p)
  <2>1. \A k : Fresh(k).status = "PENDING"
    BY DEF Fresh
  <2>2. NoResult.status = "NONE"
    BY DEF NoResult
  <2>. QED  BY <1>2, <1>5, <2>1, <2>2 DEF Status
<1>. QED  BY <1>2, <1>4, <1>6

-----------------------------------------------------------------------------
(* Every action keeps the invariant.                                       *)

\* A new request has no plan, no result and no message sent.
LEMMA InitInv == Init => Inv
<1>. SUFFICES ASSUME Init PROVE Inv
  OBVIOUS
<1>1. Ids(plan) = {}
  BY DEF Init, Ids
<1>2. TypeOK
  BY FreshType, PlanAssumption DEF Init, TypeOK, Ended
<1>3. PlanInv
  BY <1>1 DEF Init, PlanInv, Status, NoResult
<1>4. FlightInv
  BY DEF Init, FlightInv, Status, NoResult
<1>5. NeverStuck /\ ExecOnce
  BY DEF Init, NeverStuck, ExecOnce
<1>6. RunsAfterDependencies /\ SkippedForCause /\ SkipsWhenOrdered
  BY <1>1 DEF RunsAfterDependencies, SkippedForCause, SkipsWhenOrdered, Batch
<1>. QED  BY <1>2, <1>3, <1>4, <1>5, <1>6 DEF Inv

\* Planning: nothing was sent before, and only a valid plan is executed.
LEMMA PlanStep == Inv /\ (\E p \in Drafts : Plan(p)) => Inv'
<1>. SUFFICES ASSUME Inv, NEW p \in Drafts, Plan(p) PROVE Inv'
  OBVIOUS
<1>p. p \in Seq(PlanSteps)
  BY DraftTypes
<1>1. phase = "planning" /\ plan = <<>> /\ Ids(plan) = {}
  BY DEF Inv, PlanInv, Plan, Ids
<1>2. \A s \in StepIds : sends[s] = 0 /\ flight[s] = "idle"
  BY <1>1 DEF Inv, TypeOK, ExecOnce, FlightInv, PlanInv
<1>3. calls' \in 0 .. MaxCalls
  BY PlanAssumption DEF Inv, TypeOK, Plan
<1>4. CASE UNCHANGED <<plan, result>>
  <2>1. phase' \in {"clarified", "denied"}
    BY <1>4, <1>1, PlanIds, <1>p DEF Plan, Valid, WellFormed, Ids
  <2>2. TypeOK'
    BY <1>3, <1>4, <2>1 DEF Inv, TypeOK, Plan, Ended
  <2>. QED  BY <1>2, <1>4, <2>1, <2>2, SameResults
            DEF Inv, PlanInv, FlightInv, NeverStuck, ExecOnce, Plan
<1>5. CASE /\ Valid(p)
           /\ phase' = "scheduling"
           /\ plan' = p
           /\ result' = [s \in StepIds |->
                IF s \in Ids(p) THEN Fresh(StepOf(p, s).kind) ELSE NoResult]
  <2>1. result' \in [StepIds -> StepResults]
    BY <1>5, <1>p, FreshType, StepTypes
  <2>2. TypeOK'
    BY <1>3, <1>5, <1>p, <2>1 DEF Inv, TypeOK, Plan
  <2>3. \A s \in StepIds : result'[s].status = IF s \in Ids(p) THEN "PENDING" ELSE "NONE"
    BY <1>5 DEF Fresh, NoResult
  <2>4. PlanInv'
    BY <1>5, <2>3 DEF PlanInv, Status
  <2>5. FlightInv'
    BY <1>2, <1>5, <2>3 DEF FlightInv, Status, Plan
  <2>6. NeverStuck' /\ ExecOnce'
    BY <1>2, <1>5 DEF NeverStuck, ExecOnce, Plan
  <2>7. \A s \in Ids(plan') : result'[s].status \notin {"RUNNING", "SKIPPED"}
    BY <1>5, <1>p, <2>3, PlanIds
  <2>. QED  BY <2>2, <2>4, <2>5, <2>6, <2>7, AllReset DEF Inv
<1>. QED  BY <1>4, <1>5 DEF Plan

\* A request to clarify ends the request with nothing done.
LEMMA ClarifyStep == Inv /\ Clarify => Inv'
<1>. SUFFICES ASSUME Inv, Clarify PROVE Inv'
  OBVIOUS
<1>1. UNCHANGED <<plan, result>>
  BY DEF Clarify
<1>2. calls' \in 0 .. MaxCalls
  BY PlanAssumption DEF Inv, TypeOK, Clarify
<1>3. TypeOK'
  BY <1>2 DEF Inv, TypeOK, Clarify, Ended
<1>. QED  BY <1>1, <1>3, SameResults DEF Inv, PlanInv, FlightInv, NeverStuck, ExecOnce, Clarify

\* One turn of the loop.  The steps of the wave were pending, so nothing was
\* sent for them; what they depend on is settled; and a valid plan always has
\* a step that is ready.
LEMMA ScheduleStep == Inv /\ Schedule => Inv'
<1>. SUFFICES ASSUME Inv, Schedule PROVE Inv'
  OBVIOUS
<1>1. PICK skipped \in SUBSET StepIds : SkippedByPass(skipped) /\ Wave(skipped, Ready(skipped))
  BY DEF Schedule
<1>. DEFINE ready == Ready(skipped)
<1>2. /\ phase = "scheduling" /\ plan \in Seq(PlanSteps) /\ Valid(plan)
      /\ UNCHANGED <<plan, rules, rounds, calls, sends>>
  BY DEF Inv, TypeOK, PlanInv, Schedule
<1>3. /\ skipped \subseteq Pending /\ ready \subseteq Pending \ skipped
      /\ Pending \subseteq Ids(plan) /\ Ids(plan) \subseteq StepIds
  BY <1>1, <1>2, PlanIds DEF SkippedByPass, Ready, Pending
<1>4. /\ \A s \in StepIds : Status(s) # "RUNNING"
      /\ \A s \in StepIds : result[s] \in StepResults
  BY <1>2 DEF Inv, FlightInv, TypeOK
<1>5. /\ \A s \in StepIds : result'[s] =
           IF s \in skipped
             THEN [result[s] EXCEPT !.status = "SKIPPED", !.error = "DEPENDENCY_FAILED"]
           ELSE IF s \in ready THEN [result[s] EXCEPT !.status = "RUNNING"]
           ELSE result[s]
      /\ result' \in [StepIds -> StepResults]
  BY <1>1, <1>4 DEF Wave, StepResults, Terminal
<1>6. \A s \in StepIds : result'[s].status =
        IF s \in skipped THEN "SKIPPED" ELSE IF s \in ready THEN "RUNNING" ELSE Status(s)
  BY <1>4, <1>5 DEF Status, StepResults
<1>7. \A s \in StepIds : result'[s].kind = result[s].kind
  BY <1>4, <1>5 DEF StepResults
<1>8. \A s \in StepIds : flight'[s] = IF s \in ready THEN "queued" ELSE "idle"
  BY <1>1 DEF Wave
<1>9. \A s \in Pending : Status(s) = "PENDING" /\ sends[s] = 0
  BY <1>3 DEF Inv, TypeOK, ExecOnce, Pending
<1>10. /\ phase' \in {"running", "deciding", "scheduling", "stuck"}
       /\ phase' # "running" => ready = {}
       /\ phase' = "stuck" => ready = {} /\ ~(Pending \subseteq skipped)
  BY <1>1 DEF Wave
<1>11. TypeOK'
  <2>1. flight' \in [StepIds -> {"idle", "queued", "waiting", "ok"} \cup Failures]
    BY <1>1 DEF Wave
  <2>. QED  BY <1>2, <1>5, <1>10, <2>1 DEF Inv, TypeOK, Ended
<1>12. PlanInv'
  BY <1>2, <1>3, <1>6, <1>9, <1>10 DEF Inv, PlanInv, Status
<1>13. FlightInv'
  BY <1>2, <1>3, <1>4, <1>6, <1>8, <1>9, <1>10 DEF FlightInv, Status
<1>14. NeverStuck'
  <2>. SUFFICES ASSUME phase' = "stuck" PROVE FALSE
    BY DEF NeverStuck
  <2>. DEFINE S == Pending \ skipped
  <2>1. S \in (SUBSET Ids(plan)) \ {{}}
    BY <1>3, <1>10
  <2>2. PICK s \in S : StepOf(plan, s).deps \cap S = {}
    BY <1>2, <2>1 DEF Valid
  <2>3. StepOf(plan, s).deps \subseteq Ids(plan)
    BY <1>2, <1>3, DepsInPlan DEF Valid
  <2>4. \A d \in Ids(plan) \ Pending : Status(d) \in Terminal
    BY <1>3, <1>4 DEF Inv, PlanInv, Pending, Status, StepResults
  <2>5. \A d \in Deps(s) : Settled(d, skipped)
    BY <2>2, <2>3, <2>4 DEF Deps, Settled
  <2>6. s \in ready
    BY <2>5 DEF Ready
  <2>. QED  BY <1>10, <2>6
<1>15. ExecOnce'
  BY <1>2, <1>3, <1>6, <1>7, <1>9 DEF Inv, ExecOnce, Status
<1>16. ASSUME NEW s \in Ids(plan)
       PROVE  /\ s \in StepIds /\ Deps(s) \subseteq StepIds
              /\ Deps(s)' = Deps(s)
              /\ \A d \in StepIds : Required(d)' = Required(d)
  BY <1>2, <1>3, StepTypes DEF Deps, Required
<1>17. \A s \in Batch' : s \in ready /\ s \in Ids(plan) /\ s \in StepIds
  BY <1>2, <1>3, <1>4, <1>6 DEF Batch, Status, Ids
<1>18. \A s \in ready : \A d \in Deps(s) :
         d \in skipped \/ (d \notin Pending /\ Status(d) \in Terminal)
  BY DEF Ready, Settled, Pending, Terminal
<1>19. RunsAfterDependencies'
  BY <1>3, <1>6, <1>16, <1>17, <1>18 DEF RunsAfterDependencies, Status, Terminal
<1>20. SkippedForCause'
  <2>. SUFFICES ASSUME NEW s \in Ids(plan), result'[s].status = "SKIPPED"
               PROVE  \E d \in Deps(s) : Required(d) /\ result'[d].status \in {"FAILED", "SKIPPED"}
    BY <1>2, <1>16 DEF SkippedForCause, Status, Ids
  <2>1. \A d \in StepIds : Status(d) \in {"FAILED", "SKIPPED"} \/ d \in skipped
          => result'[d].status \in {"FAILED", "SKIPPED"}
    BY <1>3, <1>6, <1>9
  <2>2. CASE s \in skipped
    <3>1. PICK n \in 1 .. Len(plan) : plan[n].id = s
      BY DEF Ids
    <3>2. Blocking(s, skipped \cap Before(n)) # {}
      BY <1>1, <2>2, <3>1 DEF SkippedByPass
    <3>. QED  BY <1>16, <2>1, <3>2 DEF Blocking
  <2>3. CASE s \notin skipped
    <3>1. Status(s) = "SKIPPED"
      BY <1>6, <1>16, <2>3
    <3>. QED  BY <1>16, <2>1, <3>1 DEF Inv, SkippedForCause
  <2>. QED  BY <2>2, <2>3
<1>21. SkipsWhenOrdered'
  <2>. SUFFICES ASSUME Ordered', NEW s \in Batch', NEW d \in Deps(s), Required(d)
               PROVE  result'[d].status = "SUCCESS"
    BY <1>16, <1>17 DEF SkipsWhenOrdered, RequiredSucceeded, Status
  <2>1. s \in ready /\ s \in Pending \ skipped /\ s \in Ids(plan)
    BY <1>3, <1>17
  <2>2. PICK n \in 1 .. Len(plan) : plan[n].id = s /\ StepOf(plan, s) = plan[n]
    BY <1>2, <2>1, PlanIds
  <2>3. Blocking(s, skipped \cap Before(n)) = {}
    BY <1>1, <2>1, <2>2 DEF SkippedByPass
  <2>4. d \notin skipped
    <3>. SUFFICES ASSUME d \in skipped PROVE FALSE
      OBVIOUS
    <3>1. PICK m \in 1 .. Len(plan) : plan[m].id = d
      BY <1>3 DEF Ids
    <3>2. m < n
      BY <1>2, <2>2, <3>1 DEF Ordered, Deps
    <3>3. d \in Before(n)
      BY <1>2, <2>2, <3>1, <3>2 DEF Before
    <3>. QED  BY <2>3, <3>3 DEF Blocking
  <2>5. Status(d) = "SUCCESS" /\ d \notin Pending /\ d \in StepIds
    BY <1>16, <1>18, <2>1, <2>3, <2>4 DEF Blocking, Terminal
  <2>. QED  BY <1>3, <1>6, <2>4, <2>5
<1>. QED  BY <1>11, <1>12, <1>13, <1>14, <1>15, <1>19, <1>20, <1>21 DEF Inv

\* The message of a queued step is its first.
LEMMA DispatchStep == Inv /\ (\E s \in StepIds : Dispatch(s)) => Inv'
<1>. SUFFICES ASSUME Inv, NEW s \in StepIds, Dispatch(s) PROVE Inv'
  OBVIOUS
<1>1. /\ UNCHANGED <<phase, plan, rules, result, rounds, calls>>
      /\ flight[s] = "queued"
      /\ flight' = [flight EXCEPT ![s] = "waiting"]
      /\ sends' = [sends EXCEPT ![s] = IF result[s].kind \in ExecKinds THEN @ + 1 ELSE @]
  BY DEF Dispatch
<1>2. /\ flight \in [StepIds -> {"idle", "queued", "waiting", "ok"} \cup Failures]
      /\ sends \in [StepIds -> Nat]
  BY DEF Inv, TypeOK
<1>3. sends[s] = 0 /\ Status(s) = "RUNNING"
  BY <1>1 DEF Inv, FlightInv
<1>4. s \in Ids(plan)
  BY <1>3 DEF Inv, PlanInv
<1>5. \A r \in StepIds : /\ r # s => sends'[r] = sends[r] /\ flight'[r] = flight[r]
                         /\ r = s => /\ flight'[r] = "waiting"
                                     /\ sends'[r] > 0 => sends'[r] = 1 /\ result[r].kind \in ExecKinds
  BY <1>1, <1>2, <1>3
<1>6. TypeOK'
  <2>1. sends' \in [StepIds -> Nat]
    BY <1>1, <1>2
  <2>2. flight' \in [StepIds -> {"idle", "queued", "waiting", "ok"} \cup Failures]
    BY <1>1, <1>2
  <2>. QED  BY <1>1, <2>1, <2>2 DEF Inv, TypeOK
<1>7. FlightInv'
  BY <1>1, <1>3, <1>5 DEF Inv, FlightInv, Status
<1>8. ExecOnce'
  BY <1>1, <1>3, <1>4, <1>5 DEF Inv, ExecOnce, Status, Ids
<1>9. PlanInv' /\ NeverStuck'
  BY <1>1, SameResults DEF Inv, PlanInv, NeverStuck
<1>. QED  BY <1>1, <1>6, <1>7, <1>8, <1>9, SameResults DEF Inv

\* A message that is not delivered changes the flight of its step only.
LEMMA UndeliveredStep == Inv /\ (\E s \in StepIds : Undelivered(s)) => Inv'
<1>. SUFFICES ASSUME Inv, NEW s \in StepIds, Undelivered(s) PROVE Inv'
  OBVIOUS
<1>1. /\ UNCHANGED <<phase, plan, rules, result, rounds, calls, sends>>
      /\ flight[s] = "queued"
      /\ flight' = [flight EXCEPT ![s] = "AGENT_UNAVAILABLE"]
      /\ "AGENT_UNAVAILABLE" \in Failures
  BY DEF Undelivered
<1>2. flight \in [StepIds -> {"idle", "queued", "waiting", "ok"} \cup Failures]
  BY DEF Inv, TypeOK
<1>3. TypeOK'
  <2>1. flight' \in [StepIds -> {"idle", "queued", "waiting", "ok"} \cup Failures]
    BY <1>1, <1>2
  <2>. QED  BY <1>1, <2>1 DEF Inv, TypeOK
<1>4. FlightInv'
  BY <1>1, <1>2 DEF Inv, FlightInv, Status
<1>5. PlanInv' /\ NeverStuck' /\ ExecOnce'
  BY <1>1, SameResults DEF Inv, PlanInv, NeverStuck, ExecOnce
<1>. QED  BY <1>1, <1>3, <1>4, <1>5, SameResults DEF Inv

\* A reply changes the flight of its step only.
LEMMA ReturnStep == Inv /\ (\E s \in StepIds : Return(s)) => Inv'
<1>. SUFFICES ASSUME Inv, NEW s \in StepIds, Return(s) PROVE Inv'
  OBVIOUS
<1>1. PICK reply \in {"ok"} \cup Failures : flight' = [flight EXCEPT ![s] = reply]
  BY DEF Return
<1>2. /\ UNCHANGED <<phase, plan, rules, result, rounds, calls, sends>>
      /\ flight[s] = "waiting"
      /\ reply # "idle" /\ reply # "queued"
  BY PlanAssumption DEF Return
<1>3. flight \in [StepIds -> {"idle", "queued", "waiting", "ok"} \cup Failures]
  BY DEF Inv, TypeOK
<1>4. TypeOK'
  <2>1. flight' \in [StepIds -> {"idle", "queued", "waiting", "ok"} \cup Failures]
    BY <1>1, <1>3
  <2>. QED  BY <1>2, <2>1 DEF Inv, TypeOK
<1>5. FlightInv'
  BY <1>1, <1>2, <1>3 DEF Inv, FlightInv, Status
<1>6. PlanInv' /\ NeverStuck' /\ ExecOnce'
  BY <1>2, SameResults DEF Inv, PlanInv, NeverStuck, ExecOnce
<1>. QED  BY <1>2, <1>4, <1>5, <1>6, SameResults DEF Inv

\* The end of a wave: what was running has succeeded or failed.
LEMMA GatherStep == Inv /\ Gather => Inv'
<1>. SUFFICES ASSUME Inv, Gather PROVE Inv'
  OBVIOUS
<1>1. /\ phase = "running" /\ phase' = "scheduling"
      /\ UNCHANGED <<plan, rules, rounds, calls, sends>>
      /\ flight' = [s \in StepIds |-> "idle"]
      /\ \A s \in Batch : flight[s] \notin {"queued", "waiting"}
  BY DEF Gather
<1>2. /\ plan \in Seq(PlanSteps) /\ Ids(plan) \subseteq StepIds
      /\ \A s \in StepIds : result[s] \in StepResults
      /\ flight \in [StepIds -> {"idle", "queued", "waiting", "ok"} \cup Failures]
  BY PlanIds DEF Inv, TypeOK
<1>3. \A s \in StepIds : s \in Batch <=> Status(s) = "RUNNING"
  BY <1>2 DEF Inv, PlanInv, Batch
<1>4. /\ \A s \in StepIds : result'[s] =
           IF s \notin Batch THEN result[s]
           ELSE IF flight[s] = "ok" THEN [result[s] EXCEPT !.status = "SUCCESS"]
           ELSE [result[s] EXCEPT !.status = "FAILED", !.error = flight[s]]
      /\ result' = [s \in StepIds |-> result'[s]]
  BY DEF Gather
<1>5. \A s \in Batch : s \in StepIds /\ flight[s] \in {"ok"} \cup Failures
  BY <1>1, <1>2, <1>3 DEF Inv, FlightInv, Batch
<1>6. result' \in [StepIds -> StepResults]
  <2>. SUFFICES ASSUME NEW s \in StepIds PROVE result'[s] \in StepResults
    BY <1>4
  <2>1. CASE s \notin Batch
    BY <1>2, <1>4, <2>1
  <2>2. CASE s \in Batch /\ flight[s] = "ok"
    <3>1. result'[s] = [result[s] EXCEPT !.status = "SUCCESS"]
      BY <1>4, <2>2
    <3>. QED  BY <1>2, <3>1 DEF StepResults, Terminal
  <2>3. CASE s \in Batch /\ flight[s] # "ok"
    <3>1. result'[s] = [result[s] EXCEPT !.status = "FAILED", !.error = flight[s]]
      BY <1>4, <2>3
    <3>2. flight[s] \in Failures
      BY <1>5, <2>3
    <3>. QED  BY <1>2, <3>1, <3>2 DEF StepResults, Terminal
  <2>. QED  BY <2>1, <2>2, <2>3
<1>7. \A s \in StepIds :
        /\ result'[s].kind = result[s].kind
        /\ s \notin Batch => result'[s].status = Status(s)
        /\ s \in Batch => result'[s].status \in {"SUCCESS", "FAILED"}
  BY <1>2, <1>4 DEF Status, StepResults
<1>8. TypeOK'
  <2>1. flight' \in [StepIds -> {"idle", "queued", "waiting", "ok"} \cup Failures]
    BY <1>1
  <2>. QED  BY <1>1, <1>6, <2>1 DEF Inv, TypeOK
<1>9. PlanInv'
  BY <1>1, <1>3, <1>7 DEF Inv, PlanInv, Status
<1>10. FlightInv'
  BY <1>1, <1>3, <1>7 DEF FlightInv, Status
<1>11. NeverStuck' /\ ExecOnce'
  BY <1>1, <1>2, <1>3, <1>7 DEF Inv, NeverStuck, ExecOnce, Status, Ids
<1>12. Batch' = {}
  BY <1>1, <1>2, <1>3, <1>7 DEF Batch, Status, Ids
<1>13. RunsAfterDependencies' /\ SkipsWhenOrdered'
  BY <1>12 DEF RunsAfterDependencies, SkipsWhenOrdered
<1>14. SkippedForCause'
  <2>. SUFFICES ASSUME NEW s \in Ids(plan), result'[s].status = "SKIPPED"
               PROVE  \E d \in Deps(s) : Required(d) /\ result'[d].status \in {"FAILED", "SKIPPED"}
    BY <1>1 DEF SkippedForCause, Status, Ids, Deps, Required
  <2>1. Status(s) = "SKIPPED"
    BY <1>2, <1>7
  <2>2. PICK d \in Deps(s) : Required(d) /\ Status(d) \in {"FAILED", "SKIPPED"}
    BY <2>1 DEF Inv, SkippedForCause
  <2>3. d \in StepIds
    BY <1>2, StepTypes DEF Deps
  <2>. QED  BY <1>3, <1>7, <2>2, <2>3
<1>. QED  BY <1>8, <1>9, <1>10, <1>11, <1>13, <1>14 DEF Inv

\* A round of recovery: the plan may change, but a step for which a message to
\* Exec was sent keeps its place and its result.
LEMMA ResumeStep ==
  ASSUME Inv, phase = "deciding", phase' = "scheduling",
         NEW p \in Seq(PlanSteps), NEW retry \in SUBSET Ids(p), Valid(p),
         plan' = p, result' = Resumed(p, retry),
         UNCHANGED <<rules, flight, sends>>,
         rounds' \in 0 .. MaxRounds, calls' \in 0 .. MaxCalls,
         \A s \in StepIds : sends[s] > 0 => s \in Ids(p) /\ s \notin retry
  PROVE  Inv'
<1>1. TypeOK'
  BY ResumedFacts DEF Inv, TypeOK
<1>2. PlanInv'
  BY ResumedFacts DEF PlanInv, Status
<1>3. FlightInv'
  <2>1. \A s \in StepIds : Status(s) # "RUNNING" /\ flight[s] = "idle"
    BY DEF Inv, FlightInv
  <2>. QED  BY <2>1, ResumedFacts DEF FlightInv, Status
<1>4. NeverStuck'
  BY DEF NeverStuck
<1>5. ExecOnce'
  <2>. SUFFICES ASSUME NEW s \in StepIds, sends[s] > 0
               PROVE  /\ sends[s] = 1
                      /\ s \in Ids(p)
                      /\ result'[s] = result[s]
                      /\ result[s].kind \in ExecKinds
                      /\ Status(s) \in {"RUNNING", "SUCCESS", "FAILED"}
    BY DEF ExecOnce, Status
  <2>1. /\ sends[s] = 1 /\ result[s].kind \in ExecKinds
        /\ Status(s) \in {"RUNNING", "SUCCESS", "FAILED"}
    BY DEF Inv, ExecOnce
  <2>. QED  BY <2>1, ResumedFacts
<1>6. RunsAfterDependencies' /\ SkippedForCause' /\ SkipsWhenOrdered'
  <2>1. \A s \in Ids(plan') : result'[s].status \notin {"RUNNING", "SKIPPED"}
    BY ResumedFacts, PlanIds
  <2>. QED  BY <2>1, AllReset
<1>. QED  BY <1>1, <1>2, <1>3, <1>4, <1>5, <1>6 DEF Inv

\* The step that is retried is not of Exec, so nothing was sent for it.
LEMMA RetryStep == Inv /\ (\E s \in StepIds : Retry(s)) => Inv'
<1>. SUFFICES ASSUME Inv, NEW s \in StepIds, Retry(s) PROVE Inv'
  OBVIOUS
<1>1. /\ phase = "deciding" /\ phase' = "scheduling"
      /\ plan' = plan /\ result' = Resumed(plan, {s})
      /\ UNCHANGED <<rules, flight, sends>>
      /\ s \in Ids(plan) /\ result[s].kind \notin ExecKinds
  BY DEF Retry, MayRecover
<1>2. plan \in Seq(PlanSteps) /\ Valid(plan) /\ {s} \in SUBSET Ids(plan)
  BY <1>1 DEF Inv, TypeOK, PlanInv
<1>3. rounds' \in 0 .. MaxRounds /\ calls' \in 0 .. MaxCalls
  BY PlanAssumption DEF Inv, TypeOK, Retry, MayRecover
<1>4. \A r \in StepIds : sends[r] > 0 => r \in Ids(plan) /\ r \notin {s}
  BY <1>1 DEF Inv, ExecOnce
<1>. QED  BY <1>1, <1>2, <1>3, <1>4, ResumeStep

\* A new plan is taken only when no message to Exec was sent at all.
LEMMA ReplanStep == Inv /\ (\E p \in Drafts : Replan(p)) => Inv'
<1>. SUFFICES ASSUME Inv, NEW p \in Drafts, Replan(p) PROVE Inv'
  OBVIOUS
<1>. DEFINE retry == {s \in Ids(p) : ~Reusable(p, s)}
<1>1. /\ phase = "deciding" /\ phase' = "scheduling"
      /\ plan' = p /\ result' = Resumed(p, retry)
      /\ UNCHANGED <<rules, flight, sends>>
      /\ ~ExecMayHaveRun /\ Valid(p)
  BY DEF Replan, MayRecover
<1>2. p \in Seq(PlanSteps) /\ retry \in SUBSET Ids(p)
  BY DraftTypes
<1>3. rounds' \in 0 .. MaxRounds /\ calls' \in 0 .. MaxCalls
  BY PlanAssumption DEF Inv, TypeOK, Replan, MayRecover
<1>4. \A s \in StepIds : ~(sends[s] > 0)
  BY <1>1 DEF Inv, ExecOnce, ExecMayHaveRun
<1>. HIDE DEF retry
<1>. QED  BY <1>1, <1>2, <1>3, <1>4, ResumeStep

\* The end of the recovery loop changes no result.
LEMMA FinishStep == Inv /\ Finish => Inv'
<1>. SUFFICES ASSUME Inv, Finish PROVE Inv'
  OBVIOUS
<1>1. /\ phase' = "done"
      /\ UNCHANGED <<plan, rules, result, flight, rounds, sends>>
  BY DEF Finish
<1>2. calls' \in 0 .. MaxCalls
  <2>1. PICK spent \in 0 .. 2 : /\ spent > 0 => calls + spent <= MaxCalls
                               /\ calls' = calls + spent
    BY DEF Finish
  <2>. QED  BY <2>1, PlanAssumption DEF Inv, TypeOK
<1>3. TypeOK'
  BY <1>1, <1>2 DEF Inv, TypeOK, Ended
<1>. QED  BY <1>1, <1>3, SameResults DEF Inv, PlanInv, FlightInv, NeverStuck, ExecOnce

\* A cancellation changes no result.
LEMMA CancelStep == Inv /\ Cancel => Inv'
<1>. SUFFICES ASSUME Inv, Cancel PROVE Inv'
  OBVIOUS
<1>1. /\ phase' = "cancelled"
      /\ UNCHANGED <<plan, rules, result, flight, rounds, calls, sends>>
  BY DEF Cancel
<1>2. TypeOK'
  BY <1>1 DEF Inv, TypeOK, Ended
<1>. QED  BY <1>1, <1>2, SameResults DEF Inv, PlanInv, FlightInv, NeverStuck, ExecOnce

\* A stuttering step changes nothing.
LEMMA StutterStep == Inv /\ UNCHANGED vars => Inv'
<1>. SUFFICES ASSUME Inv, UNCHANGED vars PROVE Inv'
  OBVIOUS
<1>1. UNCHANGED <<phase, plan, rules, result, flight, rounds, calls, sends>>
  BY DEF vars
<1>2. TypeOK'
  BY <1>1 DEF Inv, TypeOK
<1>. QED  BY <1>1, <1>2, SameResults DEF Inv, PlanInv, FlightInv, NeverStuck, ExecOnce

\* The invariant holds of every reachable state.
LEMMA Invariance == Spec => []Inv
<1>1. Inv /\ [Next]_vars => Inv'
  BY PlanStep, ClarifyStep, ScheduleStep, DispatchStep, UndeliveredStep,
     ReturnStep, GatherStep, RetryStep, ReplanStep, FinishStep, CancelStep,
     StutterStep
  DEF Next, Advance
<1>. QED  BY InitInv, <1>1, PTL DEF Spec

-----------------------------------------------------------------------------
(* What the answer tells.                                                  *)

\* A message to Exec went out for every Exec step that is on its way, that
\* succeeded or that asks for an approval; a step that failed has a code of a
\* failure, and only one that failed asks for an approval.
SentInv ==
  /\ phase = "done" => \A s \in StepIds : Status(s) # "RUNNING"
  /\ \A s \in StepIds :
       /\ flight[s] \in {"waiting", "ok", "APPROVAL_REQUIRED"} /\ result[s].kind \in ExecKinds
            => sends[s] = 1
       /\ flight[s] = "APPROVAL_REQUIRED" => result[s].kind \in ExecKinds
       /\ Status(s) = "SUCCESS" /\ result[s].kind \in ExecKinds => sends[s] = 1
       /\ Status(s) = "FAILED" => result[s].error \in Failures
       /\ result[s].error = "APPROVAL_REQUIRED" => Status(s) = "FAILED" /\ sends[s] = 1

\* A step of the request that changes no result, flight or message.
LEMMA SentKept ==
  ASSUME Inv, SentInv, UNCHANGED <<result, flight, sends>>,
         phase' = "done" => phase = "deciding" \/ phase' = phase
  PROVE  SentInv'
BY DEF Inv, FlightInv, SentInv, Status

LEMMA InitSent == Init => SentInv
BY DEF Init, SentInv, Status, NoResult

\* Results that are reset say nothing.
LEMMA PlanSent == Inv /\ SentInv /\ (\E p \in Drafts : Plan(p)) => SentInv'
<1>. SUFFICES ASSUME Inv, SentInv, NEW p \in Drafts, Plan(p) PROVE SentInv'
  OBVIOUS
<1>1. phase' # "done" /\ UNCHANGED <<flight, sends>>
  BY DEF Plan
<1>2. CASE result' = result
  BY <1>1, <1>2, SentKept
<1>3. CASE result' = [s \in StepIds |->
             IF s \in Ids(p) THEN Fresh(StepOf(p, s).kind) ELSE NoResult]
  <2>1. \A s \in StepIds : /\ result'[s].status \in {"PENDING", "NONE"}
                           /\ result'[s].error = "none"
    BY <1>3 DEF Fresh, NoResult
  <2>2. \A s \in StepIds : flight[s] = "idle"
    BY DEF Inv, FlightInv, Plan
  <2>. QED  BY <1>1, <2>1, <2>2 DEF SentInv, Status
<1>. QED  BY <1>2, <1>3 DEF Plan

\* The steps of a wave are queued, with nothing sent.
LEMMA ScheduleSent == Inv /\ SentInv /\ Schedule => SentInv'
<1>. SUFFICES ASSUME Inv, SentInv, Schedule PROVE SentInv'
  OBVIOUS
<1>1. PICK skipped \in SUBSET StepIds : SkippedByPass(skipped) /\ Wave(skipped, Ready(skipped))
  BY DEF Schedule
<1>. DEFINE ready == Ready(skipped)
<1>2. phase' # "done" /\ sends' = sends
  BY <1>1 DEF Schedule, Wave
<1>3. \A s \in StepIds : flight'[s] \in {"queued", "idle"}
  BY <1>1 DEF Wave
<1>4. \A s \in StepIds : result[s] \in StepResults
  BY DEF Inv, TypeOK
<1>5. \A s \in StepIds :
        \/ result'[s].status = "SKIPPED" /\ result'[s].error = "DEPENDENCY_FAILED"
        \/ /\ result'[s].status = "RUNNING"
           /\ result'[s].error = result[s].error
           /\ s \in Pending
        \/ result'[s] = result[s]
  <2>1. \A s \in ready : s \in Pending
    BY DEF Ready
  <2>2. \A s \in StepIds : result'[s] =
          IF s \in skipped
            THEN [result[s] EXCEPT !.status = "SKIPPED", !.error = "DEPENDENCY_FAILED"]
          ELSE IF s \in ready THEN [result[s] EXCEPT !.status = "RUNNING"]
          ELSE result[s]
    BY <1>1 DEF Wave
  <2>. QED  BY <1>4, <2>1, <2>2 DEF StepResults
<1>6. \A s \in Pending : s \in StepIds => result[s].error # "APPROVAL_REQUIRED"
  BY DEF SentInv, Pending, Status
<1>7. \A s \in StepIds : result'[s].error = "APPROVAL_REQUIRED" => result'[s] = result[s]
  BY <1>5, <1>6
<1>. QED  BY <1>2, <1>3, <1>5, <1>7 DEF SentInv, Status

\* The message goes out with the step.
LEMMA DispatchSent == Inv /\ SentInv /\ (\E s \in StepIds : Dispatch(s)) => SentInv'
<1>. SUFFICES ASSUME Inv, SentInv, NEW s \in StepIds, Dispatch(s) PROVE SentInv'
  OBVIOUS
<1>1. /\ UNCHANGED <<phase, result>> /\ phase = "running"
      /\ flight[s] = "queued"
      /\ flight' = [flight EXCEPT ![s] = "waiting"]
      /\ sends' = [sends EXCEPT ![s] = IF result[s].kind \in ExecKinds THEN @ + 1 ELSE @]
  BY DEF Dispatch
<1>2. flight \in [StepIds -> {"idle", "queued", "waiting", "ok"} \cup Failures]
      /\ sends \in [StepIds -> Nat]
  BY DEF Inv, TypeOK
<1>3. sends[s] = 0 /\ Status(s) = "RUNNING"
  BY <1>1 DEF Inv, FlightInv
<1>4. \A r \in StepIds : /\ r # s => sends'[r] = sends[r] /\ flight'[r] = flight[r]
                         /\ r = s => flight'[r] = "waiting"
                         /\ r = s /\ result[r].kind \in ExecKinds => sends'[r] = 1
  BY <1>1, <1>2, <1>3
<1>. QED  BY <1>1, <1>3, <1>4 DEF SentInv, Status

\* A step whose message was not delivered is not on its way.
LEMMA UndeliveredSent == Inv /\ SentInv /\ (\E s \in StepIds : Undelivered(s)) => SentInv'
<1>. SUFFICES ASSUME Inv, SentInv, NEW s \in StepIds, Undelivered(s) PROVE SentInv'
  OBVIOUS
<1>1. /\ UNCHANGED <<phase, result, sends>> /\ phase = "running"
      /\ flight' = [flight EXCEPT ![s] = "AGENT_UNAVAILABLE"]
  BY DEF Undelivered
<1>2. flight \in [StepIds -> {"idle", "queued", "waiting", "ok"} \cup Failures]
  BY DEF Inv, TypeOK
<1>3. \A r \in StepIds : flight'[r] = flight[r] \/ flight'[r] = "AGENT_UNAVAILABLE"
  BY <1>1, <1>2
<1>. QED  BY <1>1, <1>3 DEF SentInv, Status

\* A step that replied was on its way; only Exec asks for an approval.
LEMMA ReturnSent == Inv /\ SentInv /\ (\E s \in StepIds : Return(s)) => SentInv'
<1>. SUFFICES ASSUME Inv, SentInv, NEW s \in StepIds, Return(s) PROVE SentInv'
  OBVIOUS
<1>1. PICK reply \in {"ok"} \cup Failures :
        /\ reply = "APPROVAL_REQUIRED" => result[s].kind \in ExecKinds
        /\ flight' = [flight EXCEPT ![s] = reply]
  BY DEF Return
<1>2. /\ UNCHANGED <<phase, result, sends>> /\ phase = "running"
      /\ flight[s] = "waiting"
  BY DEF Return
<1>3. flight \in [StepIds -> {"idle", "queued", "waiting", "ok"} \cup Failures]
  BY DEF Inv, TypeOK
<1>4. \A r \in StepIds : IF r = s THEN flight'[r] = reply ELSE flight'[r] = flight[r]
  BY <1>1, <1>3
<1>5. result[s].kind \in ExecKinds => sends[s] = 1
  BY <1>2 DEF SentInv
<1>. QED  BY <1>1, <1>2, <1>4, <1>5 DEF SentInv, Status

\* What a step returned becomes its result.
LEMMA GatherSent == Inv /\ SentInv /\ Gather => SentInv'
<1>. SUFFICES ASSUME Inv, SentInv, Gather PROVE SentInv'
  OBVIOUS
<1>1. /\ phase' = "scheduling" /\ sends' = sends
      /\ \A s \in StepIds : flight'[s] = "idle"
      /\ \A s \in Batch : flight[s] \notin {"queued", "waiting"}
  BY DEF Gather
<1>2. /\ plan \in Seq(PlanSteps) /\ \A s \in StepIds : result[s] \in StepResults
      /\ flight \in [StepIds -> {"idle", "queued", "waiting", "ok"} \cup Failures]
  BY DEF Inv, TypeOK
<1>3. \A s \in StepIds : result'[s] =
        IF s \notin Batch THEN result[s]
        ELSE IF flight[s] = "ok" THEN [result[s] EXCEPT !.status = "SUCCESS"]
        ELSE [result[s] EXCEPT !.status = "FAILED", !.error = flight[s]]
  BY DEF Gather
<1>. SUFFICES ASSUME NEW s \in StepIds
     PROVE  /\ result'[s].status = "SUCCESS" /\ result'[s].kind \in ExecKinds => sends[s] = 1
            /\ result'[s].status = "FAILED" => result'[s].error \in Failures
            /\ result'[s].error = "APPROVAL_REQUIRED" =>
                 result'[s].status = "FAILED" /\ sends[s] = 1
  BY <1>1 DEF SentInv, Status
<1>4. CASE s \notin Batch
  BY <1>3, <1>4 DEF SentInv, Status
<1>5. CASE s \in Batch /\ flight[s] = "ok"
  <2>1. /\ result'[s].status = "SUCCESS" /\ result'[s].kind = result[s].kind
        /\ result'[s].error = result[s].error
    BY <1>2, <1>3, <1>5 DEF StepResults
  <2>2. result[s].error # "APPROVAL_REQUIRED"
    BY <1>5 DEF SentInv, Batch, Status
  <2>. QED  BY <1>5, <2>1, <2>2 DEF SentInv
<1>6. CASE s \in Batch /\ flight[s] # "ok"
  <2>1. /\ result'[s].status = "FAILED" /\ result'[s].kind = result[s].kind
        /\ result'[s].error = flight[s]
    BY <1>2, <1>3, <1>6 DEF StepResults
  <2>2. flight[s] # "idle"
    BY <1>6 DEF Inv, FlightInv, Batch
  <2>3. flight[s] \in Failures
    BY <1>1, <1>2, <1>6, <2>2
  <2>. QED  BY <2>1, <2>3 DEF SentInv
<1>. QED  BY <1>4, <1>5, <1>6

\* A result that resume keeps keeps what it says; the others are reset.
LEMMA ResumeSent ==
  ASSUME Inv, SentInv, phase' = "scheduling", NEW p, NEW retry,
         result' = Resumed(p, retry), UNCHANGED <<flight, sends>>,
         phase = "deciding"
  PROVE  SentInv'
<1>1. \A s \in StepIds : flight[s] = "idle"
  BY DEF Inv, FlightInv
<1>2. \A s \in StepIds :
        \/ result'[s].status \in {"NONE", "PENDING"} /\ result'[s].error = "none"
        \/ result'[s] = result[s]
  BY DEF Resumed, Fresh, NoResult
<1>. QED  BY <1>1, <1>2 DEF SentInv, Status

LEMMA RetrySent == Inv /\ SentInv /\ (\E s \in StepIds : Retry(s)) => SentInv'
BY ResumeSent DEF Retry, MayRecover

LEMMA ReplanSent == Inv /\ SentInv /\ (\E p \in Drafts : Replan(p)) => SentInv'
BY ResumeSent DEF Replan, MayRecover

\* The others change no result, flight or message.
LEMMA OtherSent ==
  Inv /\ SentInv /\ (Clarify \/ Finish \/ Cancel \/ UNCHANGED vars) => SentInv'
BY SentKept DEF Clarify, Finish, Cancel, vars

LEMMA SentInvariance == Spec => [](Inv /\ SentInv)
<1>1. Init => Inv /\ SentInv
  BY InitInv, InitSent
<1>2. Inv /\ SentInv /\ [Next]_vars => SentInv'
  BY PlanSent, ScheduleSent, DispatchSent, UndeliveredSent, ReturnSent, GatherSent,
     RetrySent, ReplanSent, OtherSent
  DEF Next, Advance
<1>3. Inv /\ [Next]_vars => Inv'
  BY PlanStep, ClarifyStep, ScheduleStep, DispatchStep, UndeliveredStep,
     ReturnStep, GatherStep, RetryStep, ReplanStep, FinishStep, CancelStep,
     StutterStep
  DEF Next, Advance
<1>. QED  BY <1>1, <1>2, <1>3, PTL DEF Spec

\* The first of the steps that failed is one of them.
LEMMA FirstFailed ==
  ASSUME Inv, SentInv, FailedAt # {}
  PROVE  \E n \in FailedAt : FirstFailure = result[plan[n].id].error
<1>1. FailedAt \in SUBSET Nat
  BY DEF FailedAt
<1>2. \E n \in FailedAt : \A m \in FailedAt : n <= m
  BY <1>1, NatMin
<1>. QED  BY <1>2 DEF FirstFailure

\* The answer of a request tells what became of its side effects
\* (orchestrator.py:523).
LEMMA AnswerFollows == Inv /\ SentInv => AnswerTellsPlan
<1>. SUFFICES ASSUME Inv, SentInv, phase = "done" PROVE AnswerTellsPlan
  BY DEF AnswerTellsPlan
<1>1. plan \in Seq(PlanSteps) /\ Ids(plan) \subseteq StepIds
  BY PlanIds DEF Inv, TypeOK
<1>2. \A n \in FailedAt : plan[n].id \in Ids(plan) /\ Status(plan[n].id) = "FAILED"
  BY DEF FailedAt, Ids
<1>3. \A s \in StepIds : sends[s] > 0 =>
        /\ sends[s] = 1 /\ s \in Ids(plan) /\ Status(s) \in {"SUCCESS", "FAILED"}
  BY DEF Inv, ExecOnce, SentInv
<1>4. ErrorCode = "APPROVAL_REQUIRED" =>
        /\ ~AllSuccess /\ ~TimedOut
        /\ \E n \in FailedAt : result[plan[n].id].error = "APPROVAL_REQUIRED"
  BY FirstFailed DEF ErrorCode, FirstFailure
<1>5. ErrorCode = "none" => AllSuccess
  <2>1. FirstFailure # "none"
    <3>1. CASE FailedAt = {}
      BY <3>1 DEF FirstFailure
    <3>2. CASE FailedAt # {}
      BY <1>1, <1>2, <3>2, FirstFailed, PlanAssumption DEF SentInv
    <3>. QED  BY <3>1, <3>2
  <2>. QED  BY <2>1 DEF ErrorCode
<1>6. AllSuccess => Completion = "SUCCEEDED" /\ ErrorCode = "none"
  BY DEF Completion, ErrorCode
<1>7. ErrorCode = "APPROVAL_REQUIRED" => Completion = "AWAITING_APPROVAL"
  BY <1>4 DEF Completion
<1>8. ErrorCode \notin {"none", "APPROVAL_REQUIRED"} /\ Partial => Completion = "PARTIAL"
  BY <1>6 DEF Completion
<1>9. ~AllSuccess /\ ErrorCode # "APPROVAL_REQUIRED" => Completion \in {"PARTIAL", "FAILED"}
  BY <1>5 DEF Completion
<1>10. ASSUME Completion = "SUCCEEDED", NEW s \in Ids(plan), result[s].kind \in ExecKinds
       PROVE  sends[s] = 1 /\ Status(s) = "SUCCESS"
  <2>1. AllSuccess
    BY <1>7, <1>9, <1>10
  <2>. QED  BY <1>1, <1>10, <2>1 DEF AllSuccess, SentInv
<1>11. ASSUME Completion = "FAILED", NEW s \in StepIds, sends[s] > 0
       PROVE  s \in Ids(plan) /\ Status(s) = "FAILED"
  <2>1. ~Partial /\ ~AllSuccess
    BY <1>5, <1>6, <1>7, <1>8, <1>11
  <2>. QED  BY <1>3, <1>11, <2>1 DEF Partial
<1>12. ASSUME Completion = "AWAITING_APPROVAL"
       PROVE  /\ \E s \in Ids(plan) : sends[s] = 1 /\ result[s].error = "APPROVAL_REQUIRED"
              /\ \A s \in StepIds : sends[s] > 0 => result[s].error # "AGENT_TIMEOUT"
  <2>1. ErrorCode = "APPROVAL_REQUIRED"
    BY <1>6, <1>9, <1>12
  <2>2. \E s \in Ids(plan) : sends[s] = 1 /\ result[s].error = "APPROVAL_REQUIRED"
    BY <1>1, <1>2, <1>4, <2>1 DEF SentInv
  <2>. QED  BY <1>3, <1>4, <2>1, <2>2 DEF TimedOut
<1>. QED  BY <1>10, <1>11, <1>12 DEF AnswerTellsPlan

-----------------------------------------------------------------------------
(* The theorems.                                                           *)

\* Every reachable state has the declared types, and planner and recovery
\* together stay within the budget of model calls (telemetry.py:33).
THEOREM ExecutionTypes == Spec => []TypeOK
<1>1. Inv => TypeOK
  BY DEF Inv
<1>. QED  BY Invariance, <1>1, PTL

\* A plan that passed validation never runs into "no executable ready step"
\* (executor.py:208).
THEOREM ValidPlansRun == Spec => []NeverStuck
<1>1. Inv => NeverStuck
  BY DEF Inv
<1>. QED  BY Invariance, <1>1, PTL

\* No retry and no new plan sends the message of an Exec step again
\* (recovery.py:82 and :106).
THEOREM SideEffectSentOnce == Spec => []ExecOnce
<1>1. Inv => ExecOnce
  BY DEF Inv
<1>. QED  BY Invariance, <1>1, PTL

\* While a step runs, what it depends on has a final result (executor.py:198).
THEOREM DependenciesFirst == Spec => []RunsAfterDependencies
<1>1. Inv => RunsAfterDependencies
  BY DEF Inv
<1>. QED  BY Invariance, <1>1, PTL

\* A skipped step has a required dependency that is failed or skipped, after
\* any recovery (executor.py:148 and :185).
THEOREM SkipsStand == Spec => []SkippedForCause
<1>1. Inv => SkippedForCause
  BY DEF Inv
<1>. QED  BY Invariance, <1>1, PTL

\* In a plan listed in the order of its dependencies no step runs after a
\* required dependency failed or was skipped (executor.py:179).
THEOREM OrderedPlansSkip == Spec => []SkipsWhenOrdered
<1>1. Inv => SkipsWhenOrdered
  BY DEF Inv
<1>. QED  BY Invariance, <1>1, PTL

\* One answer tells the truth of all the side effects of the request: success
\* only if each was confirmed, failure only if none was, an approval only if
\* one was asked for (orchestrator.py:523).
THEOREM AnswerIsTrue == Spec => []AnswerTellsPlan
BY SentInvariance, AnswerFollows, PTL

-----------------------------------------------------------------------------
(* The pass that skips steps.                                              *)

\* The ids of a well-formed plan are distinct, and finitely many.
LEMMA DistinctIds ==
  ASSUME NEW p \in Seq(PlanSteps), WellFormed(p)
  PROVE  /\ IsFiniteSet(Ids(p))
         /\ \A m, n \in 1 .. Len(p) : p[m].id = p[n].id => m = n
<1>. DEFINE f == [n \in 1 .. Len(p) |-> p[n].id]
<1>1. f \in Surjection(1 .. Len(p), Ids(p))
  BY DEF Surjection, Ids
<1>2. /\ IsFiniteSet(1 .. Len(p)) /\ Cardinality(1 .. Len(p)) = Len(p)
  <2>1. Len(p) \in Nat /\ 1 \in Int /\ Len(p) \in Int
    OBVIOUS
  <2>. QED  BY <2>1, FS_Interval
<1>3. /\ IsFiniteSet(Ids(p))
      /\ Cardinality(Ids(p)) = Cardinality(1 .. Len(p)) <=> f \in Injection(1 .. Len(p), Ids(p))
  <2>. HIDE DEF f
  <2>. QED  BY <1>1, <1>2, FS_Surjection
<1>4. f \in Injection(1 .. Len(p), Ids(p))
  BY <1>2, <1>3 DEF WellFormed
<1>5. \A m, n \in 1 .. Len(p) : f[m] = f[n] => m = n
  BY <1>4 DEF Injection, IsInjective
<1>. QED  BY <1>3, <1>5

\* More skipped steps block no fewer.
LEMMA BlockingGrows ==
  ASSUME NEW s, NEW A, NEW B, A \subseteq B
  PROVE  Blocking(s, A) \subseteq Blocking(s, B)
BY DEF Blocking

\* At most one set is what a pass over the plan skips: of two, the first step
\* they differ in sees the same steps skipped before it.
LEMMA PassIsUnique ==
  ASSUME plan \in Seq(PlanSteps), NEW A, NEW B, SkippedByPass(A), SkippedByPass(B)
  PROVE  A = B
<1>. DEFINE D == {n \in 1 .. Len(plan) : ~(plan[n].id \in A <=> plan[n].id \in B)}
<1>1. A \subseteq Ids(plan) /\ B \subseteq Ids(plan)
  BY DEF SkippedByPass, Pending
<1>2. CASE D = {}
  <2>1. \A n \in 1 .. Len(plan) : plan[n].id \in A <=> plan[n].id \in B
    BY <1>2
  <2>2. \A s \in Ids(plan) : s \in A <=> s \in B
    BY <2>1 DEF Ids
  <2>. QED  BY <1>1, <2>2
<1>3. CASE D # {}
  <2>1. PICK n \in D : \A m \in D : n <= m
    <3>. D \in SUBSET Nat
      OBVIOUS
    <3>. HIDE DEF D
    <3>. QED  BY <1>3, NatMin
  <2>2. \A m \in 1 .. n - 1 : plan[m].id \in A <=> plan[m].id \in B
    BY <2>1
  <2>3. A \cap Before(n) = B \cap Before(n)
    BY <2>2 DEF Before
  <2>. QED  BY <2>1, <2>3 DEF SkippedByPass
<1>. QED  BY <1>2, <1>3

\* There is one: the least set that holds what it blocks.
LEMMA PassExists ==
  ASSUME plan \in Seq(PlanSteps), WellFormed(plan)
  PROVE  \E skipped \in SUBSET Pending : SkippedByPass(skipped)
<1>. DEFINE Blocked(n, T) == plan[n].id \in Pending /\ Blocking(plan[n].id, T \cap Before(n)) # {}
            Holds(T) == \A n \in 1 .. Len(plan) : Blocked(n, T) => plan[n].id \in T
            K == {s \in Pending : \A T \in SUBSET Pending : Holds(T) => s \in T}
<1>1. \A S, T, n : S \subseteq T /\ Blocked(n, S) => Blocked(n, T)
  <2>. SUFFICES ASSUME NEW S, NEW T, NEW n, S \subseteq T, Blocked(n, S)
                PROVE  Blocking(plan[n].id, T \cap Before(n)) # {}
    OBVIOUS
  <2>. QED  BY BlockingGrows, S \cap Before(n) \subseteq T \cap Before(n)
<1>2. K \in SUBSET Pending
  OBVIOUS
<1>3. Holds(K)
  <2>. SUFFICES ASSUME NEW n \in 1 .. Len(plan), Blocked(n, K),
                       NEW T \in SUBSET Pending, Holds(T)
                PROVE  plan[n].id \in T
    OBVIOUS
  <2>1. K \subseteq T
    OBVIOUS
  <2>2. Blocked(n, T)
    <3>. HIDE DEF K
    <3>. QED  BY <1>1, <2>1
  <2>. QED  BY <2>2
<1>4. ASSUME NEW n \in 1 .. Len(plan), plan[n].id \in K, ~Blocked(n, K)
      PROVE  FALSE
  <2>. DEFINE s == plan[n].id
              L == K \ {s}
  <2>1. ASSUME NEW m \in 1 .. Len(plan), Blocked(m, L)
        PROVE  plan[m].id \in L
    <3>1. Blocked(m, K)
      <4>. L \subseteq K
        OBVIOUS
      <4>. HIDE DEF K, L, Blocked
      <4>. QED  BY <1>1, <2>1
    <3>2. plan[m].id \in K
      <4>. HIDE DEF K, L
      <4>. QED  BY <1>3, <3>1
    <3>3. m # n
      BY <1>4, <3>1
    <3>4. plan[m].id # s
      BY <3>3, DistinctIds
    <3>. QED  BY <3>2, <3>4
  <2>2. Holds(L) /\ L \in SUBSET Pending
    BY <2>1
  <2>3. s \in L
    <3>. HIDE DEF L, Holds
    <3>. QED  BY <1>4, <2>2
  <2>. QED  BY <2>3
<1>5. \A n \in 1 .. Len(plan) : plan[n].id \in K <=> Blocked(n, K)
  <2>. HIDE DEF K
  <2>. QED  BY <1>3, <1>4
<1>6. SkippedByPass(K)
  <2>. HIDE DEF K
  <2>. QED  BY <1>2, <1>5 DEF SkippedByPass
<1>. QED  BY <1>2, <1>6

-----------------------------------------------------------------------------
(* The cycles of a plan.                                                   *)

\* What the search of validate_master_plan raises PLAN_CYCLE for: steps each
\* of which depends on the next, and the last on the first.
Cycle(p, c) ==
  /\ Len(c) >= 1
  /\ \A i \in 1 .. Len(c) - 1 : c[i + 1] \in StepOf(p, c[i]).deps
  /\ c[1] \in StepOf(p, c[Len(c)]).deps

\* Steps each of which depends on the next, none of them twice.
Path(p, c) ==
  /\ Len(c) >= 1
  /\ \A i \in 1 .. Len(c) - 1 : c[i + 1] \in StepOf(p, c[i]).deps
  /\ \A i, j \in 1 .. Len(c) : c[i] = c[j] => i = j

\* The steps of a cycle are a set in which every step depends on another.
LEMMA CycleIsClosed ==
  ASSUME NEW p \in Seq(PlanSteps), NEW c \in Seq(Ids(p)), Cycle(p, c)
  PROVE  \E S \in (SUBSET Ids(p)) \ {{}} : \A s \in S : StepOf(p, s).deps \cap S # {}
<1>. DEFINE S == {c[i] : i \in 1 .. Len(c)}
<1>1. Len(c) \in Nat /\ Len(c) >= 1 /\ \A i \in 1 .. Len(c) : c[i] \in Ids(p)
  BY DEF Cycle
<1>2. S \in (SUBSET Ids(p)) \ {{}}
  <2>1. c[1] \in S
    BY <1>1
  <2>. QED  BY <1>1, <2>1
<1>3. ASSUME NEW s \in S PROVE StepOf(p, s).deps \cap S # {}
  <2>1. PICK i \in 1 .. Len(c) : s = c[i]
    OBVIOUS
  <2>2. CASE i = Len(c)
    <3>1. c[1] \in S
      BY <1>1
    <3>. QED  BY <2>1, <2>2, <3>1 DEF Cycle
  <2>3. CASE i # Len(c)
    <3>1. i \in 1 .. Len(c) - 1 /\ i + 1 \in 1 .. Len(c)
      BY <1>1, <2>3
    <3>2. c[i + 1] \in S
      BY <3>1
    <3>. QED  BY <2>1, <3>1, <3>2 DEF Cycle
  <2>. QED  BY <2>2, <2>3
<1>. QED  BY <1>2, <1>3

\* A path is no longer than the set its steps are from.
LEMMA PathIsShort ==
  ASSUME NEW p, NEW S, IsFiniteSet(S), NEW c \in Seq(S), Path(p, c)
  PROVE  Len(c) \in 0 .. Cardinality(S)
<1>1. Len(c) \in Nat /\ Len(c) \in Int /\ 1 \in Int
  OBVIOUS
<1>2. IsFiniteSet(1 .. Len(c)) /\ Cardinality(1 .. Len(c)) = Len(c)
  BY <1>1, FS_Interval
<1>3. c \in [1 .. Len(c) -> S]
  OBVIOUS
<1>4. c \in Injection(1 .. Len(c), S)
  BY <1>3 DEF Path, Injection, IsInjective
<1>5. Cardinality(1 .. Len(c)) <= Cardinality(S)
  BY <1>4, FS_Injection
<1>6. Cardinality(S) \in Nat
  BY FS_CardinalityType
<1>. QED  BY <1>1, <1>2, <1>5, <1>6

\* From a set in which every step depends on another of the set a cycle can
\* be read off: the longest path in it cannot be made longer, so its last step
\* depends on an earlier one.
LEMMA ClosedHasCycle ==
  ASSUME NEW p \in Seq(PlanSteps), WellFormed(p), NEW S \in SUBSET Ids(p), S # {},
         \A s \in S : StepOf(p, s).deps \cap S # {}
  PROVE  \E c \in Seq(Ids(p)) : Cycle(p, c)
<1>1. IsFiniteSet(S) /\ Cardinality(S) \in Nat
  BY DistinctIds, FS_Subset, FS_CardinalityType
<1>. DEFINE Lengths == {n \in 0 .. Cardinality(S) : \E c \in Seq(S) : Path(p, c) /\ Len(c) = n}
<1>2. Lengths # {}
  <2>1. PICK s \in S : TRUE
    OBVIOUS
  <2>2. <<s>> \in Seq(S) /\ Len(<<s>>) = 1
    OBVIOUS
  <2>3. Path(p, <<s>>)
    BY DEF Path
  <2>4. 1 \in 0 .. Cardinality(S)
    BY <1>1, <2>2, <2>3, PathIsShort
  <2>5. 1 \in Lengths
    BY <2>2, <2>3, <2>4
  <2>. QED  BY <2>5
<1>3. PICK longest \in Lengths : \A m \in Lengths : m <= longest
  <2>1. Lengths \in SUBSET (0 .. Cardinality(S))
    OBVIOUS
  <2>. HIDE DEF Lengths
  <2>. QED  BY <1>1, <1>2, <2>1, NatMax
<1>4. PICK c \in Seq(S) : Path(p, c) /\ Len(c) = longest
  BY <1>3
<1>5. /\ Len(c) \in Nat /\ Len(c) >= 1
      /\ \A i \in 1 .. Len(c) : c[i] \in S
  BY <1>4 DEF Path
<1>6. PICK d \in S : d \in StepOf(p, c[Len(c)]).deps
  <2>1. c[Len(c)] \in S
    BY <1>5
  <2>. QED  BY <2>1
<1>7. \E k \in 1 .. Len(c) : c[k] = d
  <2>. SUFFICES ASSUME \A k \in 1 .. Len(c) : c[k] # d PROVE FALSE
    OBVIOUS
  <2>. DEFINE e == Append(c, d)
  <2>1. /\ e \in Seq(S) /\ Len(e) = Len(c) + 1
        /\ \A i \in 1 .. Len(c) : e[i] = c[i]
        /\ e[Len(c) + 1] = d
    BY <1>5, AppendProperties
  <2>2. Path(p, e)
    <3>. HIDE DEF e
    <3>1. \A i \in 1 .. Len(e) - 1 : e[i + 1] \in StepOf(p, e[i]).deps
      <4>. SUFFICES ASSUME NEW i \in 1 .. Len(c) PROVE e[i + 1] \in StepOf(p, e[i]).deps
        BY <1>5, <2>1
      <4>1. CASE i = Len(c)
        BY <1>5, <1>6, <2>1, <4>1
      <4>2. CASE i # Len(c)
        <5>1. i \in 1 .. Len(c) - 1 /\ i + 1 \in 1 .. Len(c)
          BY <1>5, <4>2
        <5>2. c[i + 1] \in StepOf(p, c[i]).deps
          BY <1>4, <5>1 DEF Path
        <5>. QED  BY <2>1, <5>1, <5>2
      <4>. QED  BY <4>1, <4>2
    <3>2. \A i, j \in 1 .. Len(e) : e[i] = e[j] => i = j
      <4>. SUFFICES ASSUME NEW i \in 1 .. Len(c) + 1, NEW j \in 1 .. Len(c) + 1, e[i] = e[j]
                    PROVE  i = j
        BY <2>1
      <4>1. CASE i = Len(c) + 1 \/ j = Len(c) + 1
        <5>1. \A m \in 1 .. Len(c) : e[m] # d
          BY <2>1
        <5>2. \A m \in 1 .. Len(c) + 1 : m = Len(c) + 1 \/ m \in 1 .. Len(c)
          BY <1>5
        <5>. QED  BY <2>1, <4>1, <5>1, <5>2
      <4>2. CASE i \in 1 .. Len(c) /\ j \in 1 .. Len(c)
        BY <1>4, <2>1, <4>2 DEF Path
      <4>. QED  BY <1>5, <4>1, <4>2
    <3>. QED  BY <1>5, <2>1, <3>1, <3>2 DEF Path
  <2>3. Len(e) \in 0 .. Cardinality(S)
    BY <1>1, <2>1, <2>2, PathIsShort
  <2>4. Len(c) + 1 \in Lengths
    BY <2>1, <2>2, <2>3
  <2>. HIDE DEF Lengths
  <2>. QED  BY <1>3, <1>4, <1>5, <2>4
<1>8. PICK k \in 1 .. Len(c) : c[k] = d
  BY <1>7
<1>. DEFINE n == Len(c) - k + 1
            b == [i \in 1 .. n |-> c[k + i - 1]]
<1>9. n \in Nat /\ n >= 1 /\ \A i \in 1 .. n : k + i - 1 \in 1 .. Len(c)
  BY <1>5
<1>10. b \in Seq(Ids(p)) /\ Len(b) = n
  <2>1. \A i \in 1 .. n : c[k + i - 1] \in Ids(p)
    BY <1>5, <1>9
  <2>2. b \in [1 .. n -> Ids(p)]
    BY <2>1
  <2>. HIDE DEF n, b
  <2>. QED  BY <1>9, <2>2, SeqDef, LenProperties
<1>11. Cycle(p, b)
  <2>1. \A i \in 1 .. n - 1 : b[i + 1] \in StepOf(p, b[i]).deps
    <3>. SUFFICES ASSUME NEW i \in 1 .. n - 1 PROVE b[i + 1] \in StepOf(p, b[i]).deps
      OBVIOUS
    <3>1. /\ k + i - 1 \in 1 .. Len(c) - 1 /\ i \in 1 .. n /\ i + 1 \in 1 .. n
          /\ k + (i + 1) - 1 = (k + i - 1) + 1
      BY <1>5, <1>9
    <3>2. c[(k + i - 1) + 1] \in StepOf(p, c[k + i - 1]).deps
      BY <1>4, <3>1 DEF Path
    <3>3. b[i] = c[k + i - 1] /\ b[i + 1] = c[k + (i + 1) - 1]
      BY <3>1
    <3>. QED  BY <3>1, <3>2, <3>3
  <2>2. b[1] = d /\ b[n] = c[Len(c)]
    <3>1. k + 1 - 1 = k /\ k + n - 1 = Len(c) /\ 1 \in 1 .. n /\ n \in 1 .. n
      BY <1>5, <1>9
    <3>2. b[1] = c[k + 1 - 1] /\ b[n] = c[k + n - 1]
      BY <3>1
    <3>. QED  BY <1>8, <3>1, <3>2
  <2>. HIDE DEF b, n
  <2>. QED  BY <1>6, <1>9, <1>10, <2>1, <2>2 DEF Cycle
<1>. QED  BY <1>10, <1>11

\* A plan is valid exactly when it is well-formed and no search along the
\* dependencies comes back to where it started: the set condition of Valid says
\* what visit in validate_master_plan finds out (policy.py:126).
THEOREM ValidMeansAcyclic ==
  \A p \in Seq(PlanSteps) :
    Valid(p) <=> WellFormed(p) /\ ~ \E c \in Seq(Ids(p)) : Cycle(p, c)
<1>. SUFFICES ASSUME NEW p \in Seq(PlanSteps)
     PROVE  Valid(p) <=> WellFormed(p) /\ ~ \E c \in Seq(Ids(p)) : Cycle(p, c)
  OBVIOUS
<1>1. ASSUME Valid(p), NEW c \in Seq(Ids(p)), Cycle(p, c) PROVE FALSE
  <2>1. PICK S \in (SUBSET Ids(p)) \ {{}} : \A s \in S : StepOf(p, s).deps \cap S # {}
    BY <1>1, CycleIsClosed
  <2>. QED  BY <1>1, <2>1 DEF Valid
<1>2. ASSUME WellFormed(p), ~Valid(p) PROVE \E c \in Seq(Ids(p)) : Cycle(p, c)
  <2>1. PICK S \in (SUBSET Ids(p)) \ {{}} : \A s \in S : StepOf(p, s).deps \cap S # {}
    BY <1>2 DEF Valid
  <2>. QED  BY <1>2, <2>1, ClosedHasCycle
<1>. QED  BY <1>1, <1>2 DEF Valid

-----------------------------------------------------------------------------
(* Every step leaves less to do.                                           *)

Triples == Nat \X Nat \X Nat

\* What Less compares, written out.
LEMMA LessCases ==
  ASSUME NEW a \in Triples, NEW b \in Triples
  PROVE  Less(a, b) <=> \/ a[1] < b[1]
                        \/ a[1] = b[1] /\ a[2] < b[2]
                        \/ a[1] = b[1] /\ a[2] = b[2] /\ a[3] < b[3]
<1>1. \A i \in 1 .. 3 : i = 1 \/ i = 2 \/ i = 3
  OBVIOUS
<1>2. /\ \A j \in 1 .. 1 - 1 : FALSE
      /\ \A j \in 1 .. 2 - 1 : j = 1
      /\ \A j \in 1 .. 3 - 1 : j = 1 \/ j = 2
      /\ 1 \in 1 .. 2 - 1 /\ 1 \in 1 .. 3 - 1 /\ 2 \in 1 .. 3 - 1
      /\ 1 \in 1 .. 3 /\ 2 \in 1 .. 3 /\ 3 \in 1 .. 3
  OBVIOUS
<1>. DEFINE At(i) == a[i] < b[i] /\ \A j \in 1 .. i - 1 : a[j] = b[j]
<1>3. Less(a, b) <=> At(1) \/ At(2) \/ At(3)
  <2>1. Less(a, b) <=> \E i \in 1 .. 3 : At(i)
    BY DEF Less
  <2>. HIDE DEF At
  <2>. QED  BY <1>1, <1>2, <2>1
<1>4. At(1) <=> a[1] < b[1]
  BY <1>2
<1>5. At(2) <=> a[1] = b[1] /\ a[2] < b[2]
  BY <1>2
<1>6. At(3) <=> a[1] = b[1] /\ a[2] = b[2] /\ a[3] < b[3]
  BY <1>2
<1>. HIDE DEF At
<1>. QED  BY <1>3, <1>4, <1>5, <1>6

\* There is no endless descent: every set of triples has one below which it
\* has no other.
LEMMA NoEndlessDescent ==
  ASSUME NEW T \in SUBSET Triples, T # {}
  PROVE  \E a \in T : \A b \in T : ~Less(b, a)
<1>1. \A a \in T : a[1] \in Nat /\ a[2] \in Nat /\ a[3] \in Nat
  BY DEF Triples
<1>. DEFINE I == {a[1] : a \in T}
<1>2. PICK i \in I : \A k \in I : i <= k
  <2>1. I \in SUBSET Nat /\ I # {}
    BY <1>1
  <2>. HIDE DEF I
  <2>. QED  BY <2>1, NatMin
<1>. DEFINE J == {a[2] : a \in {c \in T : c[1] = i}}
<1>3. PICK j \in J : \A k \in J : j <= k
  <2>1. J \in SUBSET Nat /\ J # {}
    BY <1>1
  <2>. HIDE DEF J
  <2>. QED  BY <2>1, NatMin
<1>. DEFINE K == {a[3] : a \in {c \in T : c[1] = i /\ c[2] = j}}
<1>4. PICK l \in K : \A k \in K : l <= k
  <2>1. K \in SUBSET Nat /\ K # {}
    BY <1>1
  <2>. HIDE DEF K
  <2>. QED  BY <2>1, NatMin
<1>5. PICK a \in T : a[1] = i /\ a[2] = j /\ a[3] = l
  OBVIOUS
<1>6. ASSUME NEW b \in T, Less(b, a) PROVE FALSE
  <2>1. a \in Triples /\ b \in Triples
    OBVIOUS
  <2>2. b[1] \in I /\ (b[1] = i => b[2] \in J) /\ (b[1] = i /\ b[2] = j => b[3] \in K)
    OBVIOUS
  <2>3. i <= b[1] /\ (b[1] = i => j <= b[2]) /\ (b[1] = i /\ b[2] = j => l <= b[3])
    <3>. HIDE DEF I, J, K
    <3>. QED  BY <1>2, <1>3, <1>4, <2>2
  <2>4. \/ b[1] < a[1]
        \/ b[1] = a[1] /\ b[2] < a[2]
        \/ b[1] = a[1] /\ b[2] = a[2] /\ b[3] < a[3]
    BY <1>6, <2>1, LessCases
  <2>. HIDE DEF I, J, K
  <2>. QED  BY <1>1, <1>5, <2>3, <2>4
<1>. QED  BY <1>5, <1>6

\* The steps of a plan are finitely many.
LEMMA FiniteIds ==
  ASSUME NEW p \in Seq(PlanSteps)
  PROVE  IsFiniteSet(Ids(p))
<1>. DEFINE f == [n \in 1 .. Len(p) |-> p[n].id]
<1>1. f \in Surjection(1 .. Len(p), Ids(p))
  BY DEF Surjection, Ids
<1>2. IsFiniteSet(1 .. Len(p))
  <2>1. Len(p) \in Nat /\ 1 \in Int /\ Len(p) \in Int
    OBVIOUS
  <2>. QED  BY <2>1, FS_Interval
<1>. HIDE DEF f
<1>. QED  BY <1>1, <1>2, FS_Surjection

\* A step in flight is a step of the plan that runs.
LEMMA InFlightRuns ==
  Inv => /\ Queued \subseteq Batch /\ InFlight \subseteq Batch
         /\ Batch \subseteq Unsettled /\ Unsettled \subseteq Ids(plan)
BY PlanIds DEF Inv, TypeOK, PlanInv, FlightInv, Queued, InFlight, Batch, Unsettled, Status

\* A plan that runs has a step that runs.
WaveInv == phase = "running" => Batch # {}

\* What is left can be counted.
FinitelyLeft ==
  /\ IsFiniteSet(Unsettled) /\ Cardinality(Unsettled) \in Nat
  /\ IsFiniteSet(Queued) /\ Cardinality(Queued) \in Nat
  /\ IsFiniteSet(InFlight) /\ Cardinality(InFlight) \in Nat
  /\ Left \in Triples

LEMMA LeftIsFinite == Inv => FinitelyLeft
<1>. SUFFICES ASSUME Inv PROVE FinitelyLeft
  OBVIOUS
<1>1. IsFiniteSet(Ids(plan))
  BY FiniteIds DEF Inv, TypeOK
<1>2. /\ Unsettled \in SUBSET Ids(plan) /\ Queued \in SUBSET Ids(plan)
      /\ InFlight \in SUBSET Ids(plan)
  BY InFlightRuns
<1>3. /\ IsFiniteSet(Unsettled) /\ Cardinality(Unsettled) \in Nat
      /\ IsFiniteSet(Queued) /\ Cardinality(Queued) \in Nat
      /\ IsFiniteSet(InFlight) /\ Cardinality(InFlight) \in Nat
  BY <1>1, <1>2, FS_Subset, FS_CardinalityType
<1>4. RoundsLeft \in Nat
  BY PlanAssumption DEF Inv, TypeOK, RoundsLeft, Ended
<1>5. MovesLeft \in Nat
  BY <1>3 DEF MovesLeft
<1>. QED  BY <1>3, <1>4, <1>5 DEF Left, Triples, FinitelyLeft

\* A wave that starts has steps, and they run until the gather.
LEMMA WaveStep == Inv /\ WaveInv /\ [Next]_vars => WaveInv'
<1>. SUFFICES ASSUME Inv, WaveInv, [Next]_vars, phase' = "running" PROVE Batch' # {}
  BY DEF WaveInv
<1>1. CASE UNCHANGED <<phase, plan, result>>
  BY <1>1 DEF WaveInv, Batch, Status
<1>2. CASE Schedule
  <2>1. PICK skipped \in SUBSET StepIds : SkippedByPass(skipped) /\ Wave(skipped, Ready(skipped))
    BY <1>2 DEF Schedule
  <2>2. PICK s \in Ready(skipped) : TRUE
    BY <2>1 DEF Wave
  <2>3. s \in Pending \ skipped /\ s \in StepIds /\ s \in Ids(plan) /\ plan' = plan
    BY <1>2, <2>2, PlanIds DEF Schedule, Ready, Pending, Inv, TypeOK
  <2>4. result'[s] = [result[s] EXCEPT !.status = "RUNNING"]
    BY <2>1, <2>2, <2>3 DEF Wave
  <2>5. result'[s].status = "RUNNING"
    BY <2>3, <2>4 DEF Inv, TypeOK, StepResults
  <2>. QED  BY <2>3, <2>5 DEF Batch, Status
<1>3. CASE phase' # "running"
  BY <1>3
<1>. QED
  BY <1>1, <1>2, <1>3 DEF Next, Advance, Plan, Clarify, Gather, Retry, Replan, Finish, Cancel,
     Dispatch, Undelivered, Return, vars

LEMMA LeftLess ==
  ASSUME FinitelyLeft, FinitelyLeft',
         \/ RoundsLeft' < RoundsLeft
         \/ RoundsLeft' = RoundsLeft /\ Cardinality(Unsettled)' < Cardinality(Unsettled)
         \/ /\ RoundsLeft' = RoundsLeft
            /\ Cardinality(Unsettled)' = Cardinality(Unsettled)
            /\ MovesLeft' < MovesLeft
  PROVE  Less(Left', Left)
BY LessCases DEF FinitelyLeft, Left

\* A subset that lacks an element is smaller.
LEMMA SmallerSet ==
  ASSUME NEW S, IsFiniteSet(S), NEW T, T \subseteq S, NEW x \in S, x \notin T
  PROVE  Cardinality(T) < Cardinality(S)
<1>1. T \in SUBSET S /\ T # S
  OBVIOUS
<1>2. /\ IsFiniteSet(T) /\ Cardinality(T) <= Cardinality(S)
      /\ Cardinality(T) # Cardinality(S)
  BY <1>1, FS_Subset
<1>3. Cardinality(T) \in Nat /\ Cardinality(S) \in Nat
  BY <1>2, FS_CardinalityType
<1>. QED  BY <1>2, <1>3

\* An answer leaves nothing, and a round of recovery is spent.
LEMMA RoundsFall ==
  ASSUME Inv, FinitelyLeft, FinitelyLeft',
         \/ Clarify \/ Finish \/ Cancel
         \/ \E p \in Drafts : Plan(p) \/ Replan(p)
         \/ \E s \in StepIds : Retry(s)
  PROVE  Less(Left', Left)
<1>1. rounds \in Nat /\ MaxRounds \in Nat /\ rounds <= MaxRounds
  BY PlanAssumption DEF Inv, TypeOK
<1>2. CASE phase \notin Ended /\ phase' \in Ended
  <2>1. RoundsLeft' = 0 /\ RoundsLeft > 0
    BY <1>1, <1>2 DEF RoundsLeft, Ended
  <2>. QED  BY <2>1, LeftLess
<1>3. CASE phase = "planning" /\ phase' = "scheduling" /\ rounds' = rounds
  <2>1. RoundsLeft' < RoundsLeft
    BY <1>1, <1>3 DEF RoundsLeft, Ended
  <2>. QED  BY <2>1, LeftLess
<1>4. CASE phase = "deciding" /\ phase' = "scheduling" /\ rounds' = rounds + 1
  <2>1. RoundsLeft' < RoundsLeft
    BY <1>1, <1>4 DEF RoundsLeft, Ended
  <2>. QED  BY <2>1, LeftLess
<1>5. ASSUME NEW p \in Drafts, Plan(p)
      PROVE  phase = "planning" /\ phase' \in {"clarified", "denied", "scheduling"} /\ rounds' = rounds
  BY <1>5 DEF Plan
<1>6. ASSUME NEW p \in Drafts, Replan(p)
      PROVE  phase = "deciding" /\ phase' = "scheduling" /\ rounds' = rounds + 1
  BY <1>6 DEF Replan, MayRecover
<1>7. ASSUME NEW s \in StepIds, Retry(s)
      PROVE  phase = "deciding" /\ phase' = "scheduling" /\ rounds' = rounds + 1
  BY <1>7 DEF Retry, MayRecover
<1>8. CASE Clarify \/ Finish \/ Cancel
  BY <1>2, <1>8 DEF Clarify, Finish, Cancel, Ended
<1>. QED  BY <1>2, <1>3, <1>4, <1>5, <1>6, <1>7, <1>8 DEF Ended

\* A pass that skips a step settles it; one that skips none starts a wave of
\* steps that have no result yet, or ends the loop.
LEMMA ScheduleLess ==
  ASSUME Inv, Inv', FinitelyLeft, FinitelyLeft', Schedule
  PROVE  Less(Left', Left)
<1>1. PICK skipped \in SUBSET StepIds : SkippedByPass(skipped) /\ Wave(skipped, Ready(skipped))
  BY DEF Schedule
<1>. DEFINE ready == Ready(skipped)
<1>2. phase = "scheduling" /\ UNCHANGED <<plan, rounds>>
  BY DEF Schedule
<1>3. /\ phase' \in {"running", "deciding", "scheduling"}
      /\ phase' = "scheduling" => skipped # {}
  BY <1>1 DEF Wave, Inv, NeverStuck
<1>4. RoundsLeft' = RoundsLeft
  BY <1>2, <1>3 DEF RoundsLeft, Ended
<1>5. /\ skipped \subseteq Pending /\ ready \subseteq Pending \ skipped
      /\ Pending \subseteq Unsettled /\ Unsettled \subseteq Ids(plan)
      /\ Ids(plan) \subseteq StepIds
  BY <1>1, PlanIds DEF Inv, TypeOK, SkippedByPass, Ready, Pending, Unsettled
<1>6. \A s \in StepIds : result[s] \in StepResults
  BY DEF Inv, TypeOK
<1>7. \A s \in StepIds : result'[s].status =
        IF s \in skipped THEN "SKIPPED" ELSE IF s \in ready THEN "RUNNING" ELSE Status(s)
  BY <1>1, <1>6 DEF Wave, Status, StepResults
<1>8. Unsettled' = Unsettled \ skipped
  <2>1. \A s \in Ids(plan) : result'[s].status \in {"PENDING", "RUNNING"}
          <=> s \in Unsettled /\ s \notin skipped
    BY <1>5, <1>7 DEF Unsettled, Status, Pending
  <2>2. Unsettled' = {s \in Ids(plan) : result'[s].status \in {"PENDING", "RUNNING"}}
    BY <1>2 DEF Unsettled, Status, Ids
  <2>. QED  BY <1>5, <2>1, <2>2
<1>9. CASE skipped # {}
  <2>1. PICK s \in skipped : TRUE
    BY <1>9
  <2>2. s \in Unsettled /\ s \notin Unsettled' /\ Unsettled' \subseteq Unsettled
    BY <1>5, <1>8, <2>1
  <2>3. Cardinality(Unsettled') < Cardinality(Unsettled)
    BY <2>2, SmallerSet DEF FinitelyLeft
  <2>. QED  BY <1>4, <2>3, LeftLess
<1>10. CASE skipped = {}
  <2>1. Unsettled' = Unsettled
    BY <1>8, <1>10
  <2>2. CASE phase' = "deciding"
    <3>1. MovesLeft' = 0 /\ MovesLeft > 0
      BY <1>2, <2>2 DEF MovesLeft, FinitelyLeft
    <3>. QED  BY <1>4, <2>1, <3>1, LeftLess
  <2>3. CASE phase' = "running"
    <3>1. Queued' = ready /\ InFlight' = {}
      BY <1>1, <1>5 DEF Wave, Queued, InFlight
    <3>2. Cardinality(ready) <= Cardinality(Unsettled)
      BY <1>5, FS_Subset DEF FinitelyLeft
    <3>3. Cardinality(InFlight') = 0
      BY <3>1, FS_EmptySet
    <3>4. MovesLeft' = 2 * Cardinality(ready) + 0 + 1
      BY <2>3, <3>1, <3>3 DEF MovesLeft
    <3>5. MovesLeft' < MovesLeft
      BY <1>2, <3>1, <3>2, <3>4 DEF MovesLeft, FinitelyLeft
    <3>. QED  BY <1>4, <2>1, <3>5, LeftLess
  <2>. QED  BY <1>3, <1>10, <2>2, <2>3
<1>. QED  BY <1>9, <1>10

\* A move of one step of the wave: from the queue into flight, or out of it.
LEMMA MovesFall ==
  ASSUME Inv, FinitelyLeft, FinitelyLeft', NEW s \in StepIds,
         Dispatch(s) \/ Undelivered(s) \/ Return(s)
  PROVE  Less(Left', Left)
<1>1. phase = "running" /\ UNCHANGED <<phase, plan, result, rounds>>
  BY DEF Dispatch, Undelivered, Return
<1>2. RoundsLeft' = RoundsLeft /\ Unsettled' = Unsettled
  BY <1>1 DEF RoundsLeft, Unsettled, Status, Ids
<1>3. flight \in [StepIds -> {"idle", "queued", "waiting", "ok"} \cup Failures]
  BY DEF Inv, TypeOK
<1>4. \A r \in {"ok"} \cup Failures : r # "queued" /\ r # "waiting"
  BY PlanAssumption
<1>. DEFINE q == Cardinality(Queued)
            i == Cardinality(InFlight)
<1>5. q \in Nat /\ i \in Nat
  BY DEF FinitelyLeft
<1>6. \/ Cardinality(Queued') = q - 1 /\ Cardinality(InFlight') = i + 1
      \/ Cardinality(Queued') = q - 1 /\ Cardinality(InFlight') = i
      \/ Cardinality(Queued') = q /\ Cardinality(InFlight') = i - 1
  <2>1. CASE Dispatch(s)
    <3>1. flight[s] = "queued" /\ flight' = [flight EXCEPT ![s] = "waiting"]
      BY <2>1 DEF Dispatch
    <3>2. s \in Queued /\ s \notin InFlight /\ Queued' = Queued \ {s} /\ InFlight' = InFlight \cup {s}
      BY <1>3, <3>1 DEF Queued, InFlight
    <3>. QED  BY <3>2, FS_AddElement, FS_RemoveElement DEF FinitelyLeft
  <2>2. CASE Undelivered(s)
    <3>1. flight[s] = "queued" /\ flight' = [flight EXCEPT ![s] = "AGENT_UNAVAILABLE"]
      BY <2>2 DEF Undelivered
    <3>2. s \in Queued /\ Queued' = Queued \ {s} /\ InFlight' = InFlight
      BY <1>3, <3>1 DEF Queued, InFlight
    <3>. QED  BY <3>2, FS_RemoveElement DEF FinitelyLeft
  <2>3. CASE Return(s)
    <3>1. PICK r \in {"ok"} \cup Failures :
            flight[s] = "waiting" /\ flight' = [flight EXCEPT ![s] = r]
      BY <2>3 DEF Return
    <3>2. s \in InFlight /\ InFlight' = InFlight \ {s} /\ Queued' = Queued
      BY <1>3, <1>4, <3>1 DEF Queued, InFlight
    <3>. QED  BY <3>2, FS_RemoveElement DEF FinitelyLeft
  <2>. QED  BY <2>1, <2>2, <2>3
<1>7. MovesLeft = 2 * q + i + 1 /\ MovesLeft' = 2 * Cardinality(Queued') + Cardinality(InFlight') + 1
  BY <1>1 DEF MovesLeft
<1>8. MovesLeft' < MovesLeft
  <2>. HIDE DEF q, i
  <2>. QED  BY <1>5, <1>6, <1>7
<1>. QED  BY <1>2, <1>8, LeftLess

\* The gather settles the steps of the wave, and there is at least one.
LEMMA GatherLess ==
  ASSUME Inv, WaveInv, FinitelyLeft, FinitelyLeft', Gather
  PROVE  Less(Left', Left)
<1>1. phase = "running" /\ phase' = "scheduling" /\ UNCHANGED <<plan, rounds>>
  BY DEF Gather
<1>2. RoundsLeft' = RoundsLeft
  BY <1>1 DEF RoundsLeft, Ended
<1>3. /\ Batch \subseteq Unsettled /\ Unsettled \subseteq Ids(plan)
      /\ Ids(plan) \subseteq StepIds
  BY InFlightRuns, PlanIds DEF Inv, TypeOK
<1>4. \A s \in StepIds : result[s] \in StepResults
  BY DEF Inv, TypeOK
<1>5. \A s \in StepIds : IF s \in Batch THEN result'[s].status \in {"SUCCESS", "FAILED"}
                                        ELSE result'[s] = result[s]
  BY <1>4 DEF Gather, StepResults
<1>6. Unsettled' \subseteq Unsettled \ Batch
  <2>1. Unsettled' = {s \in Ids(plan) : result'[s].status \in {"PENDING", "RUNNING"}}
    BY <1>1 DEF Unsettled, Status, Ids
  <2>2. \A s \in Ids(plan) : result'[s].status \in {"PENDING", "RUNNING"}
          => s \notin Batch /\ Status(s) \in {"PENDING", "RUNNING"}
    BY <1>3, <1>5 DEF Status
  <2>. QED  BY <2>1, <2>2 DEF Unsettled
<1>7. PICK s \in Batch : TRUE
  BY <1>1 DEF WaveInv
<1>8. Cardinality(Unsettled') < Cardinality(Unsettled)
  BY <1>3, <1>6, <1>7, SmallerSet DEF FinitelyLeft
<1>. QED  BY <1>2, <1>8, LeftLess

\* No loop of a request goes on for ever, under any scheduler (executor.py:171,
\* recovery_controller.py:28): every step leaves less to do, and what is left
\* cannot fall without end (NoEndlessDescent).
THEOREM EveryStepAdvances == Spec => Advances
<1>1. Init => WaveInv
  BY DEF Init, WaveInv
<1>2. Inv /\ Inv' /\ WaveInv /\ FinitelyLeft /\ FinitelyLeft' /\ [Next]_vars
        => [Less(Left', Left)]_vars
  BY RoundsFall, ScheduleLess, MovesFall, GatherLess DEF Next, Advance
<1>3. Spec => []WaveInv
  BY <1>1, WaveStep, Invariance, PTL DEF Spec
<1>4. Spec => []FinitelyLeft
  BY Invariance, LeftIsFinite, PTL
<1>. QED  BY <1>2, <1>3, <1>4, Invariance, PTL DEF Spec, Advances

-----------------------------------------------------------------------------
(* A request is never blocked.                                             *)

\* One pass over the plan skips one set of steps, and no other.
PassIsDetermined ==
  phase = "scheduling" =>
    \E skipped \in SUBSET StepIds :
      /\ SkippedByPass(skipped)
      /\ \A other \in SUBSET StepIds : SkippedByPass(other) => other = skipped

\* During a wave the guard of Gather, of Return or of Dispatch holds: while
\* steps queue for a slot, some step holds one and will be answered.
WaveGoesOn ==
  phase = "running" =>
    \/ \A s \in Batch : flight[s] \notin {"queued", "waiting"}
    \/ \E s \in StepIds : flight[s] = "waiting"
    \/ \E s \in StepIds : flight[s] = "queued" /\ Cardinality(InFlight) < Limit

LEMMA InvGoesOn == Inv => PassIsDetermined /\ WaveGoesOn
<1>. SUFFICES ASSUME Inv PROVE PassIsDetermined /\ WaveGoesOn
  OBVIOUS
<1>1. PassIsDetermined
  <2>. SUFFICES ASSUME phase = "scheduling"
       PROVE  \E skipped \in SUBSET StepIds :
                /\ SkippedByPass(skipped)
                /\ \A other \in SUBSET StepIds : SkippedByPass(other) => other = skipped
    BY DEF PassIsDetermined
  <2>1. plan \in Seq(PlanSteps) /\ WellFormed(plan)
    BY DEF Inv, TypeOK, PlanInv, Valid
  <2>2. Pending \subseteq StepIds
    BY <2>1, PlanIds DEF Pending
  <2>3. PICK skipped \in SUBSET Pending : SkippedByPass(skipped)
    BY <2>1, PassExists
  <2>. QED  BY <2>1, <2>2, <2>3, PassIsUnique
<1>2. WaveGoesOn
  <2>. SUFFICES ASSUME phase = "running", NEW s \in Batch, flight[s] \in {"queued", "waiting"},
                       \A r \in StepIds : flight[r] # "waiting"
       PROVE  \E r \in StepIds : flight[r] = "queued" /\ Cardinality(InFlight) < Limit
    BY DEF WaveGoesOn
  <2>1. s \in StepIds
    BY PlanIds DEF Inv, TypeOK, Batch
  <2>2. InFlight = {}
    BY DEF InFlight
  <2>3. Cardinality(InFlight) < Limit
    BY <2>2, FS_EmptySet, PlanAssumption
  <2>. QED  BY <2>1, <2>3
<1>. QED  BY <1>1, <1>2

\* No request blocks before it is answered (executor.py:171 and :215): the pass
\* over the plan has one outcome, the wave can always go on, and an execution
\* that is decided upon may end.  A plan from a model may always be given up.
THEOREM NeverBlocked == Spec => [](PassIsDetermined /\ WaveGoesOn)
BY Invariance, InvGoesOn, PTL

-----------------------------------------------------------------------------
(* Refinement.                                                             *)

effect == [s \in StepIds |-> Effect(s)]

\* What is known of the side effects does not change when no step is sent and
\* the word on those that were sent stands.
LEMMA EffectKept ==
  ASSUME \A s \in StepIds : /\ sends'[s] = sends[s]
                            /\ sends[s] # 0 => Word(s)' = Word(s)
  PROVE  effect' = effect
<1>1. \A s \in StepIds : Effect(s)' = Effect(s)
  BY DEF Effect, EffectOf
<1>. QED  BY <1>1 DEF effect

\* Where the answer stands.
LEMMA AnswerPhase ==
  /\ phase \notin Ended => Answer = "none"
  /\ phase' \notin Ended => Answer' = "none"
  /\ phase' \in {"clarified", "denied", "cancelled"} => Answer' = phase'
  /\ phase' = "done" => Answer' = Completion'
  /\ Completion' \in {"SUCCEEDED", "PARTIAL", "AWAITING_APPROVAL", "FAILED"}
BY DEF Answer, Ended, Completion

\* The word on a step that was sent, while no step is running.
LEMMA WordWhenQuiet ==
  ASSUME Inv, SentInv, \A s \in StepIds : Status(s) # "RUNNING", NEW s \in StepIds, sends[s] # 0
  PROVE  /\ Status(s) \in {"SUCCESS", "FAILED"}
         /\ flight[s] = "idle"
         /\ Word(s) = IF Status(s) = "SUCCESS" THEN "ok" ELSE result[s].error
         /\ Status(s) = "FAILED" => result[s].error \in Failures
         /\ sends[s] = 1 /\ result[s].kind \in ExecKinds
<1>1. sends[s] > 0
  BY DEF Inv, TypeOK
<1>. QED  BY <1>1 DEF Inv, ExecOnce, FlightInv, SentInv, Word

LEMMA PromiseInitially == Init => Promise!PromiseInit
<1>. SUFFICES ASSUME Init PROVE effect = [s \in StepIds |-> "none"] /\ Answer = "none"
  BY DEF Promise!PromiseInit, effect
<1>1. \A s \in StepIds : Effect(s) = "none"
  BY DEF Init, Effect
<1>. QED  BY <1>1, AnswerPhase DEF Init, effect, Ended

\* While planning nothing has been asked for: any answer is true.
LEMMA PlanningTells ==
  ASSUME Inv, SentInv, (\E p \in Drafts : Plan(p)) \/ Clarify
  PROVE  [Promise!PromiseNext]_(Promise!promiseVars)
<1>1. phase = "planning" /\ UNCHANGED <<flight, sends>>
      /\ phase' \in {"clarified", "denied", "scheduling"}
  BY DEF Plan, Clarify
<1>2. \A s \in StepIds : sends[s] = 0
  <2>1. Ids(plan) = {}
    BY <1>1 DEF Inv, PlanInv, Ids
  <2>. QED  BY <2>1 DEF Inv, TypeOK, ExecOnce
<1>3. effect' = effect /\ \A s \in StepIds : effect[s] = "none"
  BY <1>1, <1>2, EffectKept DEF effect, Effect
<1>4. CASE phase' = "scheduling"
  BY <1>1, <1>3, <1>4, AnswerPhase DEF Ended, Promise!promiseVars, effect
<1>5. CASE phase' \in {"clarified", "denied"}
  <2>1. Answer = "none" /\ Answer' = phase'
    BY <1>1, <1>5, AnswerPhase DEF Ended
  <2>2. Promise!Truthful(phase')
    BY <1>3, <1>5 DEF Promise!Truthful, effect
  <2>3. Promise!Tell(phase')
    BY <1>3, <2>1, <2>2 DEF Promise!Tell, effect
  <2>. QED  BY <1>5, <2>3 DEF Promise!PromiseNext, Promise!Answers
<1>. QED  BY <1>1, <1>4, <1>5

\* A cancellation says nothing.
LEMMA CancelTells ==
  ASSUME Cancel
  PROVE  [Promise!PromiseNext]_(Promise!promiseVars)
<1>1. /\ phase \notin Ended /\ phase' = "cancelled"
      /\ UNCHANGED <<plan, result, flight, sends>>
  BY DEF Cancel, Ended
<1>2. \A s \in StepIds : Word(s)' = Word(s)
  BY <1>1 DEF Word, Status
<1>3. effect' = effect
  BY <1>1, <1>2, EffectKept
<1>4. Answer = "none" /\ Answer' = "cancelled"
  BY <1>1, AnswerPhase
<1>5. Promise!Truthful("cancelled")
  BY DEF Promise!Truthful
<1>6. Promise!Tell("cancelled")
  BY <1>3, <1>4, <1>5 DEF Promise!Tell, effect
<1>. QED  BY <1>6 DEF Promise!PromiseNext, Promise!Answers

\* The pass, the gather and a recovery ask for nothing and learn nothing.
LEMMA QuietSteps ==
  ASSUME Inv, Inv', SentInv,
         Schedule \/ Gather \/ (\E s \in StepIds : Retry(s)) \/ (\E p \in Drafts : Replan(p))
  PROVE  UNCHANGED Promise!promiseVars
<1>1. sends' = sends /\ phase \notin Ended /\ phase' \notin Ended
  BY DEF Schedule, Wave, Gather, Retry, Replan, MayRecover, Ended, Inv, NeverStuck
<1>2. ASSUME NEW s \in StepIds, sends[s] # 0 PROVE Word(s)' = Word(s)
  <2>0. s \in Ids(plan) /\ result[s] \in StepResults /\ result[s].kind \in ExecKinds
        /\ sends[s] > 0
    BY <1>2 DEF Inv, TypeOK, ExecOnce
  <2>1. CASE Schedule
    <3>1. PICK skipped \in SUBSET StepIds : SkippedByPass(skipped) /\ Wave(skipped, Ready(skipped))
      BY <2>1 DEF Schedule
    <3>2. /\ Status(s) \in {"SUCCESS", "FAILED"} /\ flight[s] = "idle"
      BY <1>2, <2>1, WordWhenQuiet DEF Inv, FlightInv, Schedule
    <3>3. s \notin skipped /\ s \notin Ready(skipped)
      BY <3>1, <3>2 DEF SkippedByPass, Ready, Pending
    <3>4. result'[s] = result[s] /\ flight'[s] = "idle"
      BY <3>1, <3>3 DEF Wave
    <3>. QED  BY <3>2, <3>4 DEF Word, Status
  <2>2. CASE Gather
    <3>1. flight'[s] = "idle"
      BY <2>2 DEF Gather
    <3>2. CASE s \notin Batch
      <4>1. result'[s] = result[s] /\ flight[s] = "idle"
        BY <2>0, <2>2, <3>2 DEF Gather, Batch, Inv, FlightInv
      <4>. QED  BY <3>1, <4>1 DEF Word, Status
    <3>3. CASE s \in Batch
      <4>1. flight[s] \in {"ok"} \cup Failures /\ flight[s] # "idle"
        BY <2>2, <3>3 DEF Gather, Batch, Inv, TypeOK, FlightInv
      <4>2. result'[s] = IF flight[s] = "ok" THEN [result[s] EXCEPT !.status = "SUCCESS"]
                         ELSE [result[s] EXCEPT !.status = "FAILED", !.error = flight[s]]
        BY <2>2, <3>3 DEF Gather
      <4>3. IF flight[s] = "ok" THEN result'[s].status = "SUCCESS"
            ELSE result'[s].status = "FAILED" /\ result'[s].error = flight[s]
        BY <2>0, <4>2 DEF StepResults
      <4>. QED  BY <3>1, <4>1, <4>3 DEF Word, Status
    <3>. QED  BY <3>2, <3>3
  <2>3. ASSUME phase = "deciding", flight' = flight, result'[s] = result[s]
        PROVE  Word(s)' = Word(s)
    BY <2>3 DEF Word, Status
  <2>4. ASSUME NEW r \in StepIds, Retry(r) PROVE Word(s)' = Word(s)
    <3>1. phase = "deciding" /\ flight' = flight /\ r # s /\ result' = Resumed(plan, {r})
      BY <2>0, <2>4 DEF Retry, MayRecover
    <3>2. Status(s) \in {"SUCCESS", "FAILED"}
      BY <1>2, <3>1, WordWhenQuiet DEF Inv, FlightInv
    <3>3. result'[s] = result[s]
      BY <2>0, <3>1, <3>2 DEF Resumed
    <3>. QED  BY <2>3, <3>1, <3>3
  <2>5. ASSUME NEW p \in Drafts, Replan(p) PROVE Word(s)' = Word(s)
    <3>1. phase = "deciding" /\ ~ExecMayHaveRun
      BY <2>5 DEF Replan, MayRecover
    <3>2. Status(s) \in {"SUCCESS", "FAILED"}
      BY <1>2, <3>1, WordWhenQuiet DEF Inv, FlightInv
    <3>. QED  BY <2>0, <3>1, <3>2 DEF ExecMayHaveRun
  <2>. QED  BY <2>1, <2>2, <2>4, <2>5
<1>3. effect' = effect
  BY <1>1, <1>2, EffectKept
<1>. QED  BY <1>1, <1>3, AnswerPhase DEF Promise!promiseVars, effect

\* One step of a wave: Exec is asked, or has answered.
LEMMA FlightTells ==
  ASSUME Inv, SentInv, NEW s \in StepIds, Dispatch(s) \/ Undelivered(s) \/ Return(s)
  PROVE  [Promise!PromiseNext]_(Promise!promiseVars)
<1>1. phase = "running" /\ UNCHANGED <<phase, plan, result>>
  BY DEF Dispatch, Undelivered, Return
<1>2. Answer = "none" /\ Answer' = "none"
  BY <1>1, AnswerPhase DEF Ended
<1>3. /\ flight \in [StepIds -> {"idle", "queued", "waiting", "ok"} \cup Failures]
      /\ sends \in [StepIds -> Nat]
  BY DEF Inv, TypeOK
<1>4. \A r \in StepIds : r # s => flight'[r] = flight[r] /\ sends'[r] = sends[r]
  BY <1>3 DEF Dispatch, Undelivered, Return
<1>5. \A r \in StepIds : r # s => Effect(r)' = Effect(r)
  BY <1>1, <1>4 DEF Effect, EffectOf, Word, Status
<1>6. CASE sends'[s] = 0 /\ sends[s] = 0
  <2>1. Effect(s)' = Effect(s)
    BY <1>6 DEF Effect
  <2>2. effect' = effect
    BY <1>5, <2>1 DEF effect
  <2>. QED  BY <1>2, <2>2 DEF Promise!promiseVars, effect
<1>7. CASE Dispatch(s) /\ sends'[s] # 0
  <2>1. flight[s] = "queued" /\ flight'[s] = "waiting" /\ sends[s] = 0
    BY <1>3, <1>7 DEF Dispatch, Inv, FlightInv
  <2>2. Effect(s) = "none" /\ Effect(s)' = "asked"
    BY <1>7, <2>1 DEF Effect, EffectOf, Word
  <2>3. effect' = [effect EXCEPT ![s] = "asked"] /\ effect[s] = "none"
    BY <1>5, <2>2 DEF effect
  <2>4. Promise!Ask(s)
    BY <1>2, <2>3 DEF Promise!Ask, effect
  <2>. QED  BY <2>4 DEF Promise!PromiseNext
<1>8. CASE Return(s) /\ sends[s] # 0
  <2>1. PICK reply \in {"ok"} \cup Failures : flight' = [flight EXCEPT ![s] = reply]
    BY <1>8 DEF Return
  <2>2. flight[s] = "waiting" /\ flight'[s] = reply /\ sends' = sends
    BY <1>3, <1>8, <2>1 DEF Return
  <2>3. reply \notin {"idle", "waiting"}
    BY PlanAssumption
  <2>4. Effect(s) = "asked" /\ Effect(s)' = EffectOf(reply)
    BY <1>8, <2>2, <2>3 DEF Effect, EffectOf, Word
  <2>5. EffectOf(reply) \in {"done", "held", "failed", "lost"}
    BY <2>3 DEF EffectOf
  <2>6. effect' = [effect EXCEPT ![s] = EffectOf(reply)] /\ effect[s] = "asked"
    BY <1>5, <2>4 DEF effect
  <2>7. Promise!Learn(s, EffectOf(reply))
    BY <1>2, <2>6 DEF Promise!Learn, effect
  <2>. QED  BY <2>5, <2>7 DEF Promise!PromiseNext, Promise!Outcomes
<1>9. \/ Dispatch(s) /\ sends'[s] # 0
      \/ Return(s) /\ sends[s] # 0
      \/ sends'[s] = 0 /\ sends[s] = 0
  <2>1. CASE Dispatch(s)
    BY <2>1 DEF Dispatch, Inv, FlightInv
  <2>2. CASE Undelivered(s)
    BY <2>2 DEF Undelivered, Inv, FlightInv
  <2>3. CASE Return(s)
    BY <2>3 DEF Return
  <2>. QED  BY <2>1, <2>2, <2>3
<1>. QED  BY <1>6, <1>7, <1>8, <1>9

\* The answer is true of the side effects.
LEMMA FinishTells ==
  ASSUME Inv, Inv', SentInv, SentInv', AnswerTellsPlan', Finish
  PROVE  [Promise!PromiseNext]_(Promise!promiseVars)
<1>1. phase = "deciding" /\ phase' = "done" /\ UNCHANGED <<plan, result, flight, sends>>
  BY DEF Finish
<1>2. \A s \in StepIds : Word(s)' = Word(s)
  BY <1>1 DEF Word, Status
<1>3. effect' = effect
  BY <1>1, <1>2, EffectKept
<1>4. Answer = "none" /\ Answer' = Completion'
  BY <1>1, AnswerPhase DEF Ended
<1>5. ASSUME NEW s \in StepIds
      PROVE  /\ sends[s] # 0 => sends[s] > 0
             /\ sends[s] = 0 => Effect(s) = "none"
             /\ sends[s] # 0 /\ Status(s) = "SUCCESS" => Effect(s) = "done"
             /\ sends[s] # 0 /\ Status(s) # "SUCCESS" =>
                  /\ result[s].error \in Failures
                  /\ Effect(s) = EffectOf(result[s].error)
  <2>1. sends[s] # 0 =>
           /\ Status(s) \in {"SUCCESS", "FAILED"}
           /\ Word(s) = IF Status(s) = "SUCCESS" THEN "ok" ELSE result[s].error
           /\ Status(s) = "FAILED" => result[s].error \in Failures
    BY <1>1, WordWhenQuiet DEF Inv, FlightInv
  <2>. QED  BY <2>1 DEF Effect, EffectOf, Inv, TypeOK
<1>6. \A f \in Failures : /\ EffectOf(f) \in {"held", "failed", "lost"}
                          /\ EffectOf(f) = "lost" => f = "AGENT_TIMEOUT"
  BY PlanAssumption DEF EffectOf
<1>7. EffectOf("APPROVAL_REQUIRED") = "held"
  BY DEF EffectOf
<1>8. \A s \in StepIds : effect[s] = Effect(s)
  BY DEF effect
<1>9. /\ Completion' = "SUCCEEDED" =>
           \A s \in Ids(plan) : result[s].kind \in ExecKinds =>
             sends[s] = 1 /\ Status(s) = "SUCCESS"
      /\ Completion' = "FAILED" =>
           \A s \in StepIds : sends[s] > 0 => s \in Ids(plan) /\ Status(s) = "FAILED"
      /\ Completion' = "AWAITING_APPROVAL" =>
           /\ \E s \in Ids(plan) : sends[s] = 1 /\ result[s].error = "APPROVAL_REQUIRED"
           /\ \A s \in StepIds : sends[s] > 0 => result[s].error # "AGENT_TIMEOUT"
  BY <1>1 DEF AnswerTellsPlan, Status, Ids
<1>10. Promise!Truthful(Completion')
  <2>1. \A s \in StepIds : effect[s] # "asked"
    BY <1>5, <1>6, <1>8
  <2>2. ASSUME Completion' = "SUCCEEDED", NEW s \in StepIds PROVE effect[s] \in {"none", "done"}
    <3>1. sends[s] # 0 => s \in Ids(plan) /\ result[s].kind \in ExecKinds
      BY <1>5 DEF Inv, ExecOnce
    <3>. QED  BY <1>5, <1>8, <1>9, <2>2, <3>1
  <2>3. ASSUME Completion' = "FAILED", NEW s \in StepIds PROVE effect[s] \notin {"asked", "done"}
    BY <1>5, <1>6, <1>8, <1>9, <2>3
  <2>4. ASSUME Completion' = "AWAITING_APPROVAL"
        PROVE  /\ \E s \in StepIds : effect[s] = "held"
               /\ \A s \in StepIds : effect[s] \notin {"asked", "lost"}
    <3>1. PICK s \in Ids(plan) : sends[s] = 1 /\ result[s].error = "APPROVAL_REQUIRED"
      BY <1>9, <2>4
    <3>2. s \in StepIds /\ Status(s) = "FAILED"
      BY <3>1, PlanIds DEF Inv, TypeOK, SentInv
    <3>3. effect[s] = "held"
      BY <1>5, <1>7, <1>8, <3>1, <3>2
    <3>4. \A r \in StepIds : effect[r] # "lost"
      BY <1>5, <1>6, <1>8, <1>9, <2>4
    <3>. QED  BY <2>1, <3>2, <3>3, <3>4
  <2>5. Completion' \in {"SUCCEEDED", "PARTIAL", "AWAITING_APPROVAL", "FAILED"}
    BY AnswerPhase
  <2>. QED  BY <2>1, <2>2, <2>3, <2>4, <2>5 DEF Promise!Truthful, effect
<1>11. Promise!Tell(Completion')
  BY <1>3, <1>4, <1>10 DEF Promise!Tell, effect
<1>. QED  BY <1>11, AnswerPhase DEF Promise!PromiseNext, Promise!Answers

\* Over all the waves and recoveries of a request each side effect is asked for
\* at most once, what is known of it is never unlearnt, and the one answer is
\* true of all of them (executor.py:164, recovery.py:88, orchestrator.py:532).
THEOREM ImplementsPromise == Spec => KeepsPromise
<1>1. Inv /\ Inv' /\ SentInv /\ SentInv' /\ AnswerTellsPlan' /\ [Next]_vars
        => [Promise!PromiseNext]_(Promise!promiseVars)
  <2>. SUFFICES ASSUME Inv, Inv', SentInv, SentInv', AnswerTellsPlan', [Next]_vars
                PROVE  [Promise!PromiseNext]_(Promise!promiseVars)
    OBVIOUS
  <2>1. CASE UNCHANGED vars
    <3>1. \A s \in StepIds : Word(s)' = Word(s)
      BY <2>1 DEF vars, Word, Status
    <3>2. effect' = effect
      BY <2>1, <3>1, EffectKept DEF vars
    <3>3. Answer' = Answer
      BY <2>1 DEF vars, Answer, Completion, ErrorCode, AllSuccess, Partial, TimedOut,
                  FirstFailure, FailedAt, Status, Ids
    <3>. QED  BY <3>2, <3>3 DEF Promise!promiseVars, effect
  <2>2. CASE Next
    <3>1. CASE (\E p \in Drafts : Plan(p)) \/ Clarify
      BY <3>1, PlanningTells
    <3>2. CASE Schedule \/ Gather \/ (\E s \in StepIds : Retry(s)) \/ (\E p \in Drafts : Replan(p))
      BY <3>2, QuietSteps
    <3>3. CASE Finish
      BY <3>3, FinishTells
    <3>4. CASE \E s \in StepIds : Dispatch(s) \/ Undelivered(s) \/ Return(s)
      BY <3>4, FlightTells
    <3>5. CASE Cancel
      BY <3>5, CancelTells
    <3>. QED  BY <2>1, <2>2, <3>1, <3>2, <3>3, <3>4, <3>5 DEF Next, Advance
  <2>. QED  BY <2>1, <2>2
<1>. QED  BY <1>1, PromiseInitially, SentInvariance, AnswerIsTrue, PTL
          DEF Spec, KeepsPromise, Promise!PromiseSpec
=============================================================================
