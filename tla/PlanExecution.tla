--------------------------- MODULE PlanExecution ----------------------------
(***************************************************************************)
(* A complex request: the plan the planner returns, the execution of its   *)
(* steps by the agents, and the bounded recovery after a failure           *)
(* (orchestration/master: planner.py, policy.py, executor.py,              *)
(* recovery_controller.py, recovery.py and _process_complex_plan of        *)
(* orchestrator.py).                                                       *)
(*                                                                         *)
(* The executor runs in waves: a pass over the plan that skips and selects *)
(* steps, with no await in it, and then a gather over the selected steps,  *)
(* whose messages, replies and timeouts interleave.  A plan is a sequence, *)
(* because the pass goes over its steps in the order the planner gave them.*)
(*                                                                         *)
(* A kind stands for an agent and a task_type, which recovery compares; a  *)
(* reply is represented by the error code of the StepResult it turns into. *)
(***************************************************************************)
EXTENDS Naturals, Sequences, FiniteSets

CONSTANTS
  StepIds,      \* step_id's
  Kinds,        \* agent and task_type of a step
  ExecKinds,    \* those of the Exec agent
  Permitted,    \* those the scopes of the principal allow
  Drafts,       \* the plans a model may return, well-formed or not
  Failures,     \* error codes of a failed step
  Limit,        \* MASTER_MAX_SUBTASKS_PER_PLAN
  MaxSteps,     \* MASTER_MAX_PLAN_STEPS
  MaxRounds,    \* MASTER_RECOVERY_MAX_STEPS
  MaxCalls      \* MASTER_MAX_LLM_CALLS

PlanSteps ==
  [id : StepIds, kind : Kinds, deps : SUBSET StepIds, required : BOOLEAN]

ASSUME PlanAssumption ==
  /\ ExecKinds \subseteq Kinds
  /\ Permitted \subseteq Kinds
  /\ Drafts \subseteq Seq(PlanSteps)
  /\ Failures \subseteq {"AGENT_FAILED", "AGENT_TIMEOUT", "AGENT_UNAVAILABLE",
                         "APPROVAL_REQUIRED", "PARTIAL_SUCCESS"}
  /\ Limit \in Nat \ {0}
  /\ {MaxSteps, MaxRounds, MaxCalls} \subseteq Nat

VARIABLES
  phase,   \* where _process_complex_plan is, or how it ended
  plan,    \* the plan being executed
  rules,   \* the plan was built by build_composite_plan, without a model
  result,  \* step_results
  flight,  \* flight[s]: where _execute_step is, or the reply it returned
  rounds,  \* rounds of the recovery loop that changed the execution
  calls,   \* calls of the model counted by MasterLLMTelemetry
  sends    \* history: sends[s] counts the messages to Exec for step s

vars == <<phase, plan, rules, result, flight, rounds, calls, sends>>

-----------------------------------------------------------------------------
Ids(p) == {p[n].id : n \in 1 .. Len(p)}
StepOf(p, s) == p[CHOOSE n \in 1 .. Len(p) : p[n].id = s]
Deps(s) == StepOf(plan, s).deps
Required(s) == StepOf(plan, s).required

Ended == {"done", "clarified", "denied", "stuck", "cancelled"}
Terminal == {"SUCCESS", "FAILED", "SKIPPED"}
Recoverable == {"AGENT_FAILED", "AGENT_TIMEOUT"}

NoResult == [status |-> "NONE", kind |-> "none", error |-> "none"]
Fresh(kind) == [status |-> "PENDING", kind |-> kind, error |-> "none"]

Status(s) == result[s].status
Pending == {s \in Ids(plan) : Status(s) = "PENDING"}
Batch == {s \in Ids(plan) : Status(s) = "RUNNING"}
AllSuccess == \A s \in Ids(plan) : Status(s) = "SUCCESS"

StepResults ==
  [status : {"NONE", "PENDING", "RUNNING"} \cup Terminal,
   kind : Kinds \cup {"none"},
   error : Failures \cup {"none", "DEPENDENCY_FAILED"}]

TypeOK ==
  /\ phase \in {"planning", "scheduling", "running", "deciding"} \cup Ended
  /\ plan \in Seq(PlanSteps)
  /\ rules \in BOOLEAN
  /\ result \in [StepIds -> StepResults]
  /\ flight \in [StepIds -> {"idle", "queued", "waiting", "ok"} \cup Failures]
  /\ rounds \in 0 .. MaxRounds
  /\ calls \in 0 .. MaxCalls
  /\ sends \in [StepIds -> Nat]

Init ==
  /\ phase = "planning"
  /\ plan = <<>>
  /\ rules \in BOOLEAN
  /\ result = [s \in StepIds |-> NoResult]
  /\ flight = [s \in StepIds |-> "idle"]
  /\ rounds = 0
  /\ calls = 0
  /\ sends = [s \in StepIds |-> 0]

-----------------------------------------------------------------------------
(* Planning.                                                               *)

WellFormed(p) ==
  /\ Len(p) \in 1 .. MaxSteps
  /\ Cardinality(Ids(p)) = Len(p)
  /\ \A n \in 1 .. Len(p) : p[n].deps \subseteq Ids(p) \ {p[n].id}

\* Fault: only a step that depends on itself is seen.
ValidUnlessSelf(p) == WellFormed(p)

\* validate_master_plan.  The search for a cycle succeeds exactly when every
\* set of steps has one that depends on none of the set.
Valid(p) ==
  /\ WellFormed(p)
  /\ \A S \in (SUBSET Ids(p)) \ {{}} : \E s \in S : StepOf(p, s).deps \cap S = {}

Allowed(p) == \A n \in 1 .. Len(p) : p[n].kind \in Permitted

\* A plan from the rules costs no call; a model may also fail to give one.
Plan(p) ==
  /\ phase = "planning"
  /\ rules => Valid(p)
  /\ rules \/ calls < MaxCalls
  /\ calls' = IF rules THEN calls ELSE calls + 1
  /\ \/ /\ ~Valid(p)
        /\ phase' = "clarified"
        /\ UNCHANGED <<plan, result>>
     \/ /\ Valid(p) /\ ~Allowed(p)
        /\ phase' = "denied"
        /\ UNCHANGED <<plan, result>>
     \/ /\ Valid(p) /\ Allowed(p)
        /\ phase' = "scheduling"
        /\ plan' = p
        /\ result' = [s \in StepIds |->
             IF s \in Ids(p) THEN Fresh(StepOf(p, s).kind) ELSE NoResult]
  /\ UNCHANGED <<rules, flight, rounds, sends>>

\* No model, no budget, or no answer: the user is asked to clarify.
Clarify ==
  /\ phase = "planning"
  /\ ~rules
  /\ phase' = "clarified"
  /\ calls' \in {calls} \cup (IF calls < MaxCalls THEN {calls + 1} ELSE {})
  /\ UNCHANGED <<plan, rules, result, flight, rounds, sends>>

-----------------------------------------------------------------------------
(* MasterPlanExecutor._run.                                                *)

\* Fault: only a failed dependency blocks, not one that was skipped.
BlockingWhenFailed(s, skipped) ==
  {d \in Deps(s) : Required(d) /\ Status(d) = "FAILED"}

Blocking(s, skipped) ==
  {d \in Deps(s) : Required(d) /\ (Status(d) \in {"FAILED", "SKIPPED"} \/ d \in skipped)}

Before(n) == {plan[m].id : m \in 1 .. n - 1}

\* The steps one pass skips, in the order of the plan: a step sees what the
\* pass did to the steps before it, not what it does to those after it.
SkippedByPass(skipped) ==
  /\ skipped \subseteq Pending
  /\ \A n \in 1 .. Len(plan) :
       LET s == plan[n].id IN
       s \in skipped <=> s \in Pending /\ Blocking(s, skipped \cap Before(n)) # {}

Settled(s, skipped) == Status(s) \in Terminal \/ s \in skipped

\* Fault: a step is ready although what it depends on is not settled.
ReadyAnyTime(skipped) == Pending \ skipped

Ready(skipped) ==
  {s \in Pending \ skipped : \A d \in Deps(s) : Settled(d, skipped)}

\* Up to the gather, the continue, the end of the loop, or the RuntimeError.
Wave(skipped, ready) ==
  /\ result' = [s \in StepIds |->
       IF s \in skipped
         THEN [result[s] EXCEPT !.status = "SKIPPED", !.error = "DEPENDENCY_FAILED"]
       ELSE IF s \in ready THEN [result[s] EXCEPT !.status = "RUNNING"]
       ELSE result[s]]
  /\ flight' = [s \in StepIds |-> IF s \in ready THEN "queued" ELSE "idle"]
  /\ phase' = IF ready # {} THEN "running"
              ELSE IF Pending \subseteq skipped THEN "deciding"
              ELSE IF skipped # {} THEN "scheduling"
              ELSE "stuck"

\* One turn of the while loop.  There is exactly one such set.
Schedule ==
  /\ phase = "scheduling"
  /\ \E skipped \in SUBSET StepIds :
       SkippedByPass(skipped) /\ Wave(skipped, Ready(skipped))
  /\ UNCHANGED <<plan, rules, rounds, calls, sends>>

-----------------------------------------------------------------------------
(* MasterPlanExecutor._execute_step.                                       *)

\* Fault: a step that returned keeps its slot.
InFlightLeaking == {s \in StepIds : flight[s] \notin {"idle", "queued"}}

InFlight == {s \in StepIds : flight[s] = "waiting"}

\* A slot of the semaphore, a waiter, and the message.
Dispatch(s) ==
  /\ phase = "running"
  /\ flight[s] = "queued"
  /\ Cardinality(InFlight) < Limit
  /\ flight' = [flight EXCEPT ![s] = "waiting"]
  /\ sends' = [sends EXCEPT ![s] = IF result[s].kind \in ExecKinds THEN @ + 1 ELSE @]
  /\ UNCHANGED <<phase, plan, rules, result, rounds, calls>>

\* The bus could not deliver the message.
Undelivered(s) ==
  /\ phase = "running"
  /\ flight[s] = "queued"
  /\ Cardinality(InFlight) < Limit
  /\ "AGENT_UNAVAILABLE" \in Failures
  /\ flight' = [flight EXCEPT ![s] = "AGENT_UNAVAILABLE"]
  /\ UNCHANGED <<phase, plan, rules, result, rounds, calls, sends>>

\* A reply, good, bad or partial, an exception, or the reply timeout.  Only
\* Exec asks for an approval.
Return(s) ==
  /\ phase = "running"
  /\ flight[s] = "waiting"
  /\ \E reply \in {"ok"} \cup Failures :
       /\ reply = "APPROVAL_REQUIRED" => result[s].kind \in ExecKinds
       /\ flight' = [flight EXCEPT ![s] = reply]
  /\ UNCHANGED <<phase, plan, rules, result, rounds, calls, sends>>

\* gather returns when every step has.
Gather ==
  /\ phase = "running"
  /\ \A s \in Batch : flight[s] \notin {"queued", "waiting"}
  /\ result' = [s \in StepIds |->
       IF s \notin Batch THEN result[s]
       ELSE IF flight[s] = "ok" THEN [result[s] EXCEPT !.status = "SUCCESS"]
       ELSE [result[s] EXCEPT !.status = "FAILED", !.error = flight[s]]]
  /\ flight' = [s \in StepIds |-> "idle"]
  /\ phase' = "scheduling"
  /\ UNCHANGED <<plan, rules, rounds, calls, sends>>

-----------------------------------------------------------------------------
(* Recovery.                                                               *)

\* Fault: the steps that were skipped stay skipped.
ResumedKeepingSkips(p, retry) ==
  [s \in StepIds |->
     IF s \notin Ids(p) THEN NoResult
     ELSE IF s \in retry \/ Status(s) = "NONE" THEN Fresh(StepOf(p, s).kind)
     ELSE result[s]]

\* MasterPlanExecutor.resume: what is retried, new, or was skipped is pending
\* again; the other results are kept.
Resumed(p, retry) ==
  [s \in StepIds |->
     IF s \notin Ids(p) THEN NoResult
     ELSE IF s \in retry \/ Status(s) \in {"NONE", "PENDING", "SKIPPED"}
       THEN Fresh(StepOf(p, s).kind)
     ELSE result[s]]

MayRecover ==
  /\ phase = "deciding"
  /\ ~AllSuccess
  /\ rounds < MaxRounds
  /\ \E s \in Ids(plan) : Status(s) = "FAILED" /\ result[s].error \in Recoverable
  /\ calls < MaxCalls

\* Fault: a step that Exec did not do is retried as well.
RetryAnyAgent(s) ==
  /\ MayRecover
  /\ s \in Ids(plan)
  /\ Status(s) = "FAILED"
  /\ result' = Resumed(plan, {s})
  /\ phase' = "scheduling"
  /\ calls' = calls + 1
  /\ rounds' = rounds + 1
  /\ UNCHANGED <<plan, rules, flight, sends>>

\* Fault: a retry is not counted as a round.
RetryUncounted(s) ==
  /\ MayRecover
  /\ s \in Ids(plan)
  /\ Status(s) = "FAILED"
  /\ result[s].kind \notin ExecKinds
  /\ result' = Resumed(plan, {s})
  /\ phase' = "scheduling"
  /\ calls' = calls + 1
  /\ UNCHANGED <<plan, rules, flight, rounds, sends>>

\* retry_agent, for a failed step of an agent that only reads.
Retry(s) ==
  /\ MayRecover
  /\ s \in Ids(plan)
  /\ Status(s) = "FAILED"
  /\ result[s].kind \notin ExecKinds
  /\ result' = Resumed(plan, {s})
  /\ phase' = "scheduling"
  /\ calls' = calls + 1
  /\ rounds' = rounds + 1
  /\ UNCHANGED <<plan, rules, flight, sends>>

\* Fault: a failed Exec step has done nothing.
ExecMayHaveRunOnSuccess ==
  \E s \in Ids(plan) :
    result[s].kind \in ExecKinds /\ Status(s) \in {"RUNNING", "SUCCESS"}

ExecMayHaveRun ==
  \E s \in Ids(plan) :
    result[s].kind \in ExecKinds /\ Status(s) \in {"RUNNING", "SUCCESS", "FAILED"}

Reusable(p, s) == Status(s) = "SUCCESS" /\ result[s].kind = StepOf(p, s).kind

\* Fault: the planner is called without asking for the budget.
ReplanOverBudget(p) ==
  /\ MayRecover
  /\ ~ExecMayHaveRun
  /\ Valid(p)
  /\ Allowed(p)
  /\ calls' = calls + 2
  /\ plan' = p
  /\ result' = Resumed(p, {s \in Ids(p) : ~Reusable(p, s)})
  /\ phase' = "scheduling"
  /\ rounds' = rounds + 1
  /\ UNCHANGED <<rules, flight, sends>>

\* replan: the planner is asked again, with the same request.  The rules give
\* the same plan without a call.
Replan(p) ==
  /\ MayRecover
  /\ ~ExecMayHaveRun
  /\ Valid(p)
  /\ Allowed(p)
  /\ \/ rules /\ p = plan /\ calls' = calls + 1
     \/ ~rules /\ calls + 1 < MaxCalls /\ calls' = calls + 2
  /\ plan' = p
  /\ result' = Resumed(p, {s \in Ids(p) : ~Reusable(p, s)})
  /\ phase' = "scheduling"
  /\ rounds' = rounds + 1
  /\ UNCHANGED <<rules, flight, sends>>

\* Success, nothing recoverable, no more rounds, no model, a decision to stop,
\* or one that is rejected: the execution as it is becomes the answer.
Finish ==
  /\ phase = "deciding"
  /\ phase' = "done"
  /\ \E spent \in 0 .. 2 :
       /\ spent > 0 => MayRecover /\ calls + spent <= MaxCalls
       /\ calls' = calls + spent
  /\ UNCHANGED <<plan, rules, result, flight, rounds, sends>>

\* The task is cancelled at an await, and the gather with it.
Cancel ==
  /\ phase \in {"planning", "running", "deciding"}
  /\ phase' = "cancelled"
  /\ UNCHANGED <<plan, rules, result, flight, rounds, calls, sends>>

-----------------------------------------------------------------------------
(* What the request is answered, when the execution is done.               *)

TimedOut == \E s \in Ids(plan) : result[s].error = "AGENT_TIMEOUT"
Partial == ~AllSuccess /\ \E s \in Ids(plan) : Status(s) = "SUCCESS"

\* One code for all the steps that failed: a timeout, or else the first.
FailedAt == {n \in 1 .. Len(plan) : Status(plan[n].id) = "FAILED"}
FirstFailure ==
  IF FailedAt = {} THEN "AGENT_FAILED"
  ELSE result[plan[CHOOSE n \in FailedAt : \A m \in FailedAt : n <= m].id].error
ErrorCode ==
  IF AllSuccess THEN "none" ELSE IF TimedOut THEN "AGENT_TIMEOUT" ELSE FirstFailure

\* Fault: a partial success is told as a failure.
CompletionAllOrNothing ==
  IF AllSuccess THEN "SUCCEEDED"
  ELSE IF ErrorCode = "APPROVAL_REQUIRED" THEN "AWAITING_APPROVAL"
  ELSE "FAILED"
Completion ==
  CASE AllSuccess -> "SUCCEEDED"
    [] ErrorCode = "APPROVAL_REQUIRED" -> "AWAITING_APPROVAL"
    [] ErrorCode \notin {"none", "APPROVAL_REQUIRED"}
         /\ (Partial \/ ErrorCode = "PARTIAL_SUCCESS") -> "PARTIAL"
    [] OTHER -> "FAILED"

-----------------------------------------------------------------------------
Advance ==
  \/ \E p \in Drafts : Plan(p)
  \/ Clarify
  \/ Schedule
  \/ Gather
  \/ \E s \in StepIds : Retry(s)
  \/ \E p \in Drafts : Replan(p)
  \/ Finish

Next ==
  \/ Advance
  \/ \E s \in StepIds : Dispatch(s) \/ Undelivered(s) \/ Return(s)
  \/ Cancel
  \* The request has been answered.
  \/ phase \in Ended /\ UNCHANGED vars

Spec == Init /\ [][Next]_vars

\* The orchestrator and its model calls are timed, and so is every wait for a
\* reply; a semaphore is handed on.
FairSpec ==
  /\ Spec
  /\ WF_vars(Advance)
  /\ \A s \in StepIds : WF_vars(Dispatch(s) \/ Undelivered(s) \/ Return(s))

-----------------------------------------------------------------------------
(* Correctness.                                                            *)

\* A side effect is asked for once: over all the rounds of recovery no Exec
\* step is sent twice, and one that was sent stays in the plan with a result
\* that says so, whatever was retried or planned again (recovery.py:82).
ExecOnce ==
  \A s \in StepIds : sends[s] > 0 =>
    /\ sends[s] = 1
    /\ s \in Ids(plan)
    /\ result[s].kind \in ExecKinds
    /\ Status(s) \in {"RUNNING", "SUCCESS", "FAILED"}

\* A plan that passed validation never runs into "no executable ready step"
\* (executor.py:208).
NeverStuck == phase # "stuck"

\* A step waits for what it depends on: while it runs, every step it depends
\* on has a final result, and keeps it (executor.py:198).
RunsAfterDependencies ==
  \A s \in Batch : \A d \in Deps(s) : Status(d) \in Terminal

\* A skipped step has a reason that still stands: a required dependency that
\* is failed or skipped, also after a recovery (executor.py:148 and :185).
SkippedForCause ==
  \A s \in Ids(plan) : Status(s) = "SKIPPED" =>
    \E d \in Deps(s) : Required(d) /\ Status(d) \in {"FAILED", "SKIPPED"}

\* The steps are listed after what they depend on.
Ordered ==
  \A m, n \in 1 .. Len(plan) : plan[m].id \in plan[n].deps => m < n

RequiredSucceeded(s) == \A d \in Deps(s) : Required(d) => Status(d) = "SUCCESS"

\* In a plan whose steps are listed after what they depend on, no step runs
\* after a required dependency failed or was skipped (executor.py:179).
SkipsWhenOrdered == Ordered => \A s \in Batch : RequiredSucceeded(s)

\* "A required dependency failure skips downstream", in any valid plan.
SkipsDownstream == \A s \in Batch : RequiredSucceeded(s)

\* One status answers for all the steps, over all rounds (orchestrator.py:523): a
\* request is told it succeeded only if each of its side effects was asked for
\* once and confirmed; that it failed only if none was confirmed; and that it
\* awaits an approval only if Exec asked for one and no step is unaccounted for.
AnswerTellsPlan ==
  phase = "done" =>
    /\ Completion = "SUCCEEDED" =>
         \A s \in Ids(plan) : result[s].kind \in ExecKinds =>
           sends[s] = 1 /\ Status(s) = "SUCCESS"
    /\ Completion = "FAILED" =>
         \A s \in StepIds : sends[s] > 0 => s \in Ids(plan) /\ Status(s) = "FAILED"
    /\ Completion = "AWAITING_APPROVAL" =>
         /\ \E s \in Ids(plan) : sends[s] = 1 /\ result[s].error = "APPROVAL_REQUIRED"
         /\ \A s \in StepIds : sends[s] > 0 => result[s].error # "AGENT_TIMEOUT"

\* The request is answered: no plan, failure or recovery goes on for ever
\* (orchestrator.py:479).
Answered == <>(phase \in Ended)

\* What is left of a request: rounds of recovery, steps without a final result,
\* and moves of the wave.
RoundsLeft ==
  CASE phase \in Ended -> 0
    [] phase = "planning" -> MaxRounds + 2
    [] OTHER -> MaxRounds - rounds + 1
Unsettled == {s \in Ids(plan) : Status(s) \in {"PENDING", "RUNNING"}}
Queued == {s \in StepIds : flight[s] = "queued"}
MovesLeft ==
  CASE phase = "scheduling" -> 2 * Cardinality(Unsettled) + 2
    [] phase = "running" -> 2 * Cardinality(Queued) + Cardinality(InFlight) + 1
    [] OTHER -> 0
Left == <<RoundsLeft, Cardinality(Unsettled), MovesLeft>>

Less(a, b) == \E i \in 1 .. 3 : a[i] < b[i] /\ \A j \in 1 .. i - 1 : a[j] = b[j]

\* Whatever the order of replies, failures and recoveries, no step of a request
\* is ever taken back: each leaves less to do, so that the loops of
\* executor.py:171 and recovery_controller.py:28 end under any scheduler.
Advances == [][Less(Left', Left)]_vars

-----------------------------------------------------------------------------
(* Refinement.                                                             *)

\* The reply that is known of a step, from its flight or from its result.
Word(s) ==
  IF flight[s] # "idle" THEN flight[s]
  ELSE IF Status(s) = "SUCCESS" THEN "ok"
  ELSE result[s].error

EffectOf(word) ==
  CASE word = "waiting" -> "asked"
    [] word = "ok" -> "done"
    [] word = "APPROVAL_REQUIRED" -> "held"
    [] word = "AGENT_TIMEOUT" -> "lost"
    [] OTHER -> "failed"

Effect(s) == IF sends[s] = 0 THEN "none" ELSE EffectOf(Word(s))

Answer ==
  IF phase = "done" THEN Completion
  ELSE IF phase \in Ended THEN phase
  ELSE "none"

Promise == INSTANCE PlanPromise
  WITH Steps  <- StepIds,
       effect <- [s \in StepIds |-> Effect(s)],
       answer <- Answer

\* Side effects and the answer move only as the abstract promise lets them,
\* over all the waves and recoveries (executor.py:164, recovery.py:88 and
\* orchestrator.py:532).
KeepsPromise == Promise!PromiseSpec
=============================================================================
