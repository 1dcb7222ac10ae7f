# EcomPilot in TLA+

EcomPilot runs a natural-language request of an e-commerce operator through a
master orchestrator, a plan of agent steps, and skills that read or write the
store's data.  A write of high risk needs a human approval.  This directory
holds TLA+ models of the parts of that program whose behaviour depends on
interleaving, failure and order, the TLC configurations that check them, and
proofs that TLAPS checks.

Paths below are relative to `src/ecom_agent_matrix/`.

## The system

One process, one asyncio event loop.  HTTP handlers, agent workers and
background writers are tasks of that loop: a step is the code between two
`await`s.  PostgreSQL and Redis are reached over the network, so a statement
may be applied although its answer is lost.

```
HTTP -> api/auth (principal, X-Approval-Id -> grant) -> application/agent_service
     -> MessageBus queue of "master" -> orchestrator
          fast path: one agent           complex path: planner -> policy -> executor
                                                          ^                  |
                                                     recovery <-- failures --+
     -> MessageBus queue of an agent -> agent loop -> workflow / skill
          -> SkillExecutor: permission, idempotency, approval, timeout -> database
     <- ReplyRegistry futures, by correlation_id (tasks) and task_id (HTTP)
```

| Component | State it keeps | Operations | What is hard | What makes it correct | Module |
|---|---|---|---|---|---|
| Protected write execution (`core/skill/executor.py`, `idempotency.py`, `core/security/approval.py`, `api/route_approval.py`) | rows of `security_approval`, idempotency records, one run of `execute` per call | execute; create_pending, approve, consume; begin, complete, fail | two executions with one approval; commits after a timeout; cancellation at every await; restart | one approval is one write; one key is one write; no guarded write without a human; a success told is that of a skill that ran to its end | ProtectedWrite |
| Ingress and policy (`api/auth.py`, `core/security/`) | none of its own; the grant taken from the row at submission | get_grant, authorisation | the grant is stale when it is used | the row decides, not the grant | ProtectedWrite (grant), constants (scopes) |
| Circuit breaker and retry (`platform/resilience/`) | state, failure_count, opened_at, _probe_in_flight | call, _allow, _record_success, _record_failure, _finish_probe | outcomes of calls let in long ago | count and state agree; the slot is not lost; it rests before it probes | CircuitBreaker |
| Slots of generations (`core/rate_limit.py`) | a Redis set of tokens with an expiry | acquire_slot | SCARD, SADD and EXPIRE are separate calls; a cut-off or a failure leaves a token | a token comes back unless Redis failed; nobody waits for one for ever | Workflows |
| Plan executor and recovery (`orchestration/master/executor.py`, `recovery*.py`, `telemetry.py`) | step_results, semaphore, call budget | execute, resume, _execute_step; retry, replan, finish | waves of concurrent steps, timeouts while an agent is at work, partial failure, order of the steps | no step before its dependencies; no side effect twice; one status that is true of all steps; every request answered | PlanExecution |
| Planner, router, plan policy | none | plan, validate_master_plan | plans come from a model | what is valid can be executed | PlanExecution (policy, and what a planner may return) |
| Master orchestrator | none beyond one request | fast path, complex path, safe_process_master_task | one final answer on every path; a slot per task | each request gets exactly one result message, its slot comes back | PlanExecution (complex path), Messaging (fast path, slots, close) |
| Messaging (`runtime/messaging/`) | a queue per agent, futures by key, audit queue | register, send, resolve, wait, discard, close | a reply in the tick its waiter times out; full queue; close with waiters | no future outlives its waiter, a reply beats the queue it has to enter, true answers | Messaging |
| Agent loops (`agents/*/agent.py`) | a semaphore, a set of tasks | consume, process with timeout, reply | cancellation of a skill that is writing | a reply for every message taken, unless the agent is stopped; the reply is true | Messaging (loops), Workflows (what Query and Exec do), Knowledge (RAG) |
| Workflows, skills, parsers (`workflows/`, `modules/skills/`, `modules/parsers/`) | none of their own; what they write is the provider's | the calls of each task type, their refusals and fallbacks | some failures are swallowed, some noted, some fatal; a rerun with an approval decides anew | what is written is what was approved; the reply hides no write and claims none | WorkflowCalls, Workflows |
| Data intelligence (`modules/data_intelligence/`, `core/sql/`) | the schema catalog, repair attempts of a step | load catalog; plan, link, generate, validate, execute, repair | the catalog is older than the schema; a model writes and rewrites the SQL; steps in parallel | only validated selects run, and what the validator looks at in them is granted; bounded repair; the answer agrees with its steps | DataAnalysis |
| RAG (`modules/rag/`, `agents/rag/`) and the re-embedding script | cached results in Redis, a semaphore; the table | retrieve, rank, cache, answer; truncate and refill | one channel fails; the table is rebuilt under a search; the cache outlives both | documents of stores with the same label only; the RAG agent tells of a failed channel, from the cache too | Knowledge |
| Short memory (`core/memory/short_memory.py`, `api/conversation.py`) | two Redis lists for a session | load, append, clear, migrate | concurrent appends, a migration of the old format, a crash in between | no message lost or out of order, window kept | Conversation |
| Runtime container (`runtime/container.py`), pools (`db/base.py`) | readiness, worker tasks, clients, pools | start, close | a failure or a cancellation half way through start; pools created on demand; a close cut short | all that is referred to is closed, in an order that lets nobody open it again | Runtime, Service; Messaging (shutdown with requests at every stage) |
| Application service and dispatch (`application/agent_service.py`, `api/dispatch.py`) | a gateway future per task | submit, wait, discard | HTTP timeout while the task runs on; close while it waits | one answer per request, and a true one; late results are dropped | Messaging |
| LLM client (`core/llm/`) | one breaker per provider, one HTTP session | chat | as the breaker | as the breaker | CircuitBreaker, Runtime (session) |
| Tenant database access (`db/`) | pools | scoped read, write | a commit whose answer is lost | rows of another store are invisible | ProtectedWrite (visibility, lost answers), Runtime (pools) |
| Skill registry, evidence, tasking, presentation, admin queries, observability, settings, seed scripts | none shared, or written once at start | - | - | pure or sequential code, left to unit tests | - |

`PROJECT.json` lists every component with its files, its status and the
hazards of the code at their lines.

## The modules

### ProtectedWrite

The path of a write from the HTTP request that carries it to the record it
leaves.  `task` is the set of HTTP requests, with the grant `get_grant` made of
the `X-Approval-Id` header; `call` the runs of `SkillExecutor.execute`; `pc[c]`
the await a run is at; `approval` the table; `record` the idempotency store;
`handler` the requests at the approval endpoint, between the read and the
UPDATE of `approve`; `write[c]` what became of the skill's statement.  The
actions follow `execute`: `Start` (everything before the first await),
`Lookup`, `CreatePending`/`CreateFails`, `CheckGrant`, `Consume`, `Begin`,
`IssueWrite` or `FindNothing`, `RunSucceeds`/`RunFails`, `Complete`/`Fail`.  A success
is not always a write: `order_risk_check` of an order without a risk tag and
`business_api_write` on an unknown id return success and write nothing.  `MootOps` are
the operations whose skill may do so, `FindNothing` is the run that does.  `Abandon` is a
cancellation at any await, or a database error outside the guarded blocks;
`Settle` lets a commit land after the call stopped waiting for it; `Restart`
kills calls, requests and handlers and empties the in-process store.  `clock`
is wall-clock time in ticks: `now` is read where the code reads it and used
where the code uses it.

A fresh task_id is part of every idempotency key, so a key is a pair of a task
and an operation.  An operation is a skill with its validated parameters:
equality of operations is equality of `skill_name` and `params_hash`.

An UPDATE that is cancelled is either applied before its caller gives up or
never; applied after is the same row a moment later, and the model leaves the
instant to the interleaving of the other calls.  For the skill's own statement,
where the difference matters to the caller, `Settle` keeps the two apart.

`spender` and `owner` are history variables for the properties.

### WritePromise

What ProtectedWrite promises, with nothing said of how: an approval is asked
for, granted and spent once; a key is taken once; a write happens for the
execution that holds the key and, for a guarded operation, an approval.
`KeepsPromise` in ProtectedWrite is `PromiseSpec` under the mapping
permit = the status column, spender and owner the history variables, and
written = the calls whose statement has landed.

### CircuitBreaker

One breaker and its callers, each with the retry policy inside the breaker as
`LLMProvider.chat` has it.  No critical section of the breaker's lock contains
an await, so each of `_allow`, `_record_failure`, `_record_success` and
`_finish_probe` is one step: `Enter`, `Fails`, `Succeeds`, `GivesUp`.  The
monotonic clock matters to the breaker only through the time since `opened_at`
up to `reset_seconds`, and `failure_count` only up to the threshold: `since` and
`failures` stop there, which loses no behaviour, and the state is finite without
a bound on the run.  `prober`, `probes` and `quiet` are history.

### PlanExecution

A complex request.  `Plan` is the planner with validation and authorisation,
`Schedule` one turn of the loop of `_run` up to its gather (there is no await in
it), `Dispatch`, `Undelivered` and `Return` the parts of `_execute_step` between
its awaits, `Gather` the end of a wave, `Retry`, `Replan` and `Finish` the
recovery loop of `_process_complex_plan` with the decisions the recovery model
may take and the code accepts, `Cancel` a cancellation of the task.  A plan is a
sequence because the skip pass goes over the steps in the order the planner gave
them; a kind stands for the agent and task_type that recovery compares.  The
payloads are not modelled: no guard reads them.  `Valid` states the cycle check
of `validate_master_plan`, a depth-first search, by what it decides.

The answer is one status for all the steps: `ErrorCode` takes the first failure in
plan order, a timeout first, as `_process_complex_plan` does, and `Completion` is
what `_completion` makes of it and of a partial success.  `sends` is history: how
often the message of a step went out.

### PlanPromise

What the client of a complex request may conclude, with nothing said of waves and
recoveries: the side effect of a step is asked for at most once, what became of it is
learnt at most once and not unlearnt, and the one answer is true of all of them.
`KeepsPromise` in PlanExecution is `PromiseSpec` under the mapping effect = none while
the step was never sent, else what its flight or its result says of it; answer = the
phase the request ended in, or its `Completion`.

### Messaging

The way of a request: `client[r]` is the HTTP handler in
`AgentApplicationService.execute` (at the await of `send`, at the await of
`wait`, or what it answered), `gateway[r]` its future, `task[r]` the master task,
`subtask[r]` the future of that, `queue[n]` the queue of an agent or of the
master, `agent[a]` and `job[a]` the loop of an agent, which does one message at a
time (its semaphore is never contended), `phase` how far `_shutdown_resources` has
come.  A request goes to the master (`entry`), or straight to the Query agent.
`MessageBus.send` is the code before its one await, which resolves the waiter of a
reply (`Resolved`), and the put, which the timer or a cancellation can end; the
gateway has no queue, so an answer to it is sent without an await.

The handler acts by `Ask`, `ClientPut`, `ClientPutTimeout`, `ClientReply`,
`ClientTimeout` and `ClientGone`; the master by `MasterTake` (a reply in its queue is
passed over), `TaskAnswers` (a clarification, a denial, an exception) or `TaskAsks`,
then `TaskPut`, `TaskPutTimeout`, `TaskReply`, `TaskTimeout`, `TaskPolished`; an
agent by `AgentTake`, `AgentDone`, `AgentReplied`; the shutdown by `StopAgents`,
`Unregister`, `CloseOrchestrator` and `CloseBus`, in the order of the code.  The
workers are cancelled in one step: they are cancelled in one turn of the loop.
A future a closing registry drops is cancelled, and its waiter raises
CancelledError (`Dropped`); a waiter that comes to `wait` later finds no future and
answers with a timeout.

A put that times out leaves nothing in the queue, and a cancellation that meets a
timeout is a cancellation: this is `asyncio.wait_for` as of Python 3.12.  In 3.11
`wait_for` may return a result although it was cancelled; the code allows both
versions, and the model is of the later one.

A master task asks one agent, as the fast path does.  The steps of a plan wait in the
same way (`_execute_step` creates, sends, waits and discards), and PlanExecution has
their outcomes.  `work` is history: what became of the work a request asks for.

### RequestPromise

What a client may conclude from an answer: the work of a request is done by one
agent at most once; "ok" is told only of work that succeeded; who is told
"unavailable", or was answered by the master alone, knows that no agent has worked on
the request or will.  `KeepsPromise` in Messaging is `PromiseSpec` under the mapping
answer = what the handler answered.

### WorkflowCalls and Workflows

WorkflowCalls is the business workflows as operators on a job: the pipeline of each
task type (`QueryPipelines`, `ExecPipelines`), which of its calls a request leads to
(`Calls`), what a call tells the job (`Learnt`), what the parsers and the checks between
the calls refuse (`Refusal`; a request without a product goes through the goods workflow
first, with its own parser and search, `EnsureSku`),
which failures a fallback hides (`Silent`), which make a partial success (`Noted`),
and the reply (`Reply`).  A request is its task type, what it is about and the flags
that decide its path; names, numbers and texts are left out.

Workflows has the jobs, the two agents that take one at a time, and what jobs share:
`approval[j]` the approval job j has asked for and for which operation on which
object, `paused` the campaigns of the demo provider, `slots` the Redis set of
generations.  Actions: `Submit`, `Take`, `Parse`, `Succeed` and `Fail` for a call
without shared state, `Count`, `Add`, `Expire`, `Remove`, `SlotFails` and
`Deadline` for `acquire_slot`, whose commands are steps of their own, `Ask`,
`Refused`, `Written` and `WriteLost` for the guarded write, `Break`, `BreakSlot` and
`BreakWrite` for the timeout of the agent, which may find any call under way, and
`Finish`.  How a write is executed is ProtectedWrite, of which one action here is
the outcome; a user sends a request again with the approval it was told of, or with that
of any other job.  `writes` and `lost` are history.

### DataAnalysis

Questions answered by SQL.  The catalog is loaded at start by four reads
(`LoadTables`, `LoadColumns`, `LoadRelations`, `LoadKeys`, or `LoadFails` for the
static one) of a schema that `Migrate` may change between them and afterwards.  An
analysis (`Begin`) is planned as one to three steps that run together up to a limit
(`Start`), each through `Link`, `Generate`, `Validate`, `Execute` and `Repair`, or
`Breaks` with the code of its phase; `Finish` makes one answer of them, `Cancel` is the
timeout of the agent.  A statement is what the checks tell apart: its kind, the tables and
columns it names, the names of its CTEs and aliases, the tables it takes with all
columns, whether it parses and whether it costs too much; `Link` and the model choose
freely.  `Problem` looks at names as `validate` does: a table named like a CTE counts as
that CTE (`Looked`), a bare name that is also an alias as the alias (`LookedNames`), and a
bare star is not a column at all.  So `ReadsAreGranted` speaks of what the check looks at:
it covers all a statement reads when its CTEs and aliases have names of their own and it
has no star; of the others it covers that part.  A bare name counts as granted when one of
the tables grants it, and which table the database takes it from depends on the schema of the
moment.  `sent` and `runs` are history: the statements the database was given, and
what it said.

### Knowledge

Retrieval with its cache, semaphore and two channels (`Hit`, `Missed`, `Enter`,
`Embed`, `SearchVectors`, `SearchWords`, `Rank`, `Save`, `Answer`, and the failures
of each), beside `scripts/reembed_vectors.py`, which truncates the table and fills
it again row by row in transactions of their own (`Truncate`, `Insert`, `Finish`,
`Crash`).  Scores are left out: the vectors find every row that has one, the words those
that have them, each up to a limit (`Cut`), and the ranking keeps what a choice of it says.
A store is known to the cache by its label, tenant and store joined with a colon
(`Label`), and the names may have colons themselves: two stores may have one label, and
then each is answered with what was cached for the other.  The properties say what
holds of that: nothing is shared between labels, or with no store at all.  `Helps` are the
retrievals of customer service, which replies whatever was found, drops the failed
channels of a retrieval that succeeded, and calls its reply a partial success when the
retrieval failed (`Told`, `EndInError`); the RAG agent names the channels, and answers
nothing when both failed.  An empty reply of customer service, which fails the workflow, is
a `Cancel`.  `owed` and `whole` are history: what was in the table all through a search
and not cut off by its limit, and whether all of it was ranked.

### Runtime, Conversation and Service

Runtime is the process: `start` with its failure or cancellation at each await, the
pools and clients opened by whoever needs them first (`Missing`, `Created`: there is
an await between the check and the assignment), the death of an agent, and `close`, in
the order of `Stages`, within a time limit (`CutShort`), or never (`Exit`). The close
of a client may raise, which is swallowed; that of a pool ends the loop over the
pools, so that those after it stay open too (`CloseFails`, `botched`; a start in the
same process may use what was left open). Conversation is the short memory of one
session: every Redis command is a step (`Look`, `Fetch`, `Move` for the migration,
`Load`, `AppendMessage`, `Clear`), which may fail before or after its effect. Service
composes them: a conversation needs a process that serves and a Redis client that is
open, a shutdown waits for the requests (`Drained`), a kill ends them where they are,
and the lists outlive the process. `lost`, `botched`, `due` and `overrun` are history.

## What the runs show

| Run | Instance | Checks |
|---|---|---|
| one_write_per_approval | 3 requests, 3 calls, 1 approval, 1 handler, 2 users of one store (one an admin, both approvers), durable store, clock 0..1 | an approval is worth one write; a record at `running` belongs to a call at work or to one that was abandoned; refinement of WritePromise |
| memory_store | 2 calls of 2 requests with the in-process store, 3 users of 2 stores, a guarded and an unguarded operation, 2 handlers | a key is worth one write; a guarded write stands on a human approval in its store and in time; a success told is that of a skill that ran to its end, with its write landed or none to send; a consumed approval never changes; every call ends |
| used_means_executed | 2 calls, 1 approval, 1 handler | **violated**: see findings |
| circuit_breaker | 3 callers, threshold 2, reset 2, 2 attempts; 22 thousand states | count and state agree; the slot is held by a running call; the breaker rests before it probes; it admits again |
| single_probe | 3 callers, threshold 1, reset 1, 1 attempt | **violated**: see findings |
| plan_graphs | every dependency graph on 3 steps in one order, every pair of steps of any agent and every single step, any replan among them, 2 slots, 2 rounds of recovery, 3 model calls | types with the model budget; a valid plan never gets stuck; a step runs after what it depends on; a skip has a cause that stands; ordered plans skip everything downstream; no side effect is asked for twice; the one status of the answer is true of all steps; refinement of PlanPromise; every step leaves less to do; every request is answered |
| plan_skips | every graph on 3 steps | **violated**: see findings |
| request_path | 2 requests, the Query and the Exec agent, queues of one place, one master slot; 106 thousand states | no future leaks; a reply is with its waiter before it waits for the queue; nothing runs after the shutdown; refinement of RequestPromise; every request settles |
| workflows | 3 jobs on the same campaign or order, or a generation beside a request of any type; 2 campaigns, 1 slot, 1 other process, Redis and a price adapter that may fall back on the history (the proofs cover the other settings); 60 thousand states | what is written was approved for this operation and object, and a message writes at most once; replies tell of writes and failures what happened; tokens come back; every message is answered |
| data_analysis | 10 kinds of user and question, 3 tables, 8 statements, among them one with a CTE and an alias that share the names of a table and a column, 1 migration, 1 repair, 2 steps at a time; 322 thousand states | only selects reach the database, and what the validator looks at in them is granted; the answer agrees with what the statements came to |
| knowledge | 2 retrievals (RAG agent, customer service), 3 stores with 2 labels, 3 documents, a limit of 1, 1 rebuild, 1 search at a time | types with the bound of the semaphore; documents of the own label only; the RAG agent tells of a failed channel |
| service | 3 users of the pools, or 3 requests of a session with a window of 3 and a list of an older version | after a close or a failed start all that is referred to is closed, but for what raises when it is closed; no appended message is lost, but to a late migration |

Why these bounds.  Two calls race for an approval, and a third has asked for it:
three calls.  Two race for a key.  One tick
separates before from at the instant an approval expires (`Ttl = 1`), which is
where the comparisons of the three places could differ.  Two handlers race over one
approval; more behave as two.  Three steps hold every shape of dependency the
skip pass can meet: a chain, a fork, a join, and each in an order against the
plan's; two hold every pair of agents, so that each step can be one that may not be
repeated.  Two requests with one
place in each queue and one slot are enough for a full queue at the master while a
task waits, for a reply that finds the queue full, and for a request that waits for
the slot of another; the second agent lets them use different ones.  An approval is
asked for by one job, spent by a second and tried by a third: three jobs; the two
campaigns let the one that was picked change between the request and its rerun, and
with one slot one generation elsewhere fills the set.  Jobs of DataAnalysis share
only the catalog, which no job writes, so one analysis beside the loader and a migration
meets every interleaving that matters, and two of its steps run together; one repair is enough to be
validated, rejected and exhausted.  A document of the own store and language, one of
the other language and one of another store are the cases a search tells apart, and a
third store shares the label of the second; two documents of one store and a limit of one
(for the 20 to 80 of the code) are enough to be cut off;
two retrievals race over the cache and the semaphore, one rebuild over the table.  The
users of a pool meet in pairs: two that create one while a third closes over them.  Two
appending requests and a clear are every pair of commands on a list, and a window of
three is reached by the second exchange after the two messages of an old list.
The mutants named in `PROJECT.json` show that each property fails in
these instances when the code it rests on is changed.  `Permutations` symmetry
is used with invariants and with properties of single steps (`KeepsPromise`
treats the permuted values alike), never with liveness.
Deadlock is not checked for ProtectedWrite, Workflows and DataAnalysis, where every
call, message or analysis may be over, nor for
Messaging, where everything may have been answered and closed; it is for the others.

### Fairness

- ProtectedWrite: weak fairness of what one call does by itself.  The loop runs
  what is ready, and every await of `execute` is bounded: the skill by its
  timeout, the statements by the pool and statement timeouts.  Nothing is assumed
  of handlers, of the clock, or of a commit.
- CircuitBreaker: weak fairness of time, and of each call inside the breaker: the
  HTTP request has a timeout and the policy a number of attempts.  Nothing says
  a call succeeds, or that anybody calls again.
- PlanExecution: weak fairness of the orchestrator and of each step.  A reply wait
  ends by its timeout, a model call by its own, and asyncio hands a semaphore on
  in order.
- Messaging: weak fairness of each handler and each task once begun (a put and a wait
  have timeouts, `polish_final_output` calls a model with one), of the loops of the
  master and the agents (the work has a timeout), and of a shutdown once begun.
  Nothing says a request comes, a client stays, or a shutdown begins.
- Workflows: weak fairness of an agent taking a message (`Take`) and of the steps of
  the workflow it works on (`Work`): a call returns or fails, the wait for a slot ends
  at its deadline.  Nobody need send, approve, or give a slot back elsewhere, and the
  timeout of the agent is not needed for the answer.
- DataAnalysis, Knowledge and Service are checked for safety only and state no fairness.

### Findings

- **UsedMeansExecuted** (documentation against code): the approval endpoint answers "this
  approval has been used, the operation has been executed" for every consumed
  approval, and the approval is consumed before the idempotency record is taken
  and before the skill runs: a call that is cancelled, or fails, in between has
  spent the approval and written nothing.
- **SingleProbe** (test name against code): a half-open breaker lets a second
  probe in when a call admitted before it opened ends meanwhile, because
  `_finish_probe` does not ask who took the slot.
- **SkipsDownstream** (bug): the skip pass of `_run` goes once over the steps in plan
  order and the ready steps come from the same pass.  In a valid plan that lists
  a step before its required dependency, the dependency may be skipped later in
  the pass, and the step, which now has only terminal dependencies, is sent to
  its agent, to Exec too.  `SkipsWhenOrdered` is what does hold.

## What is proved

For every value of the constants, from the assumptions on them in the modules
(`ConstantsAssumption`, `BreakerAssumption`, `PlanAssumption`, `MessagingAssumption`,
`WorkflowsAssumption`, `RequestsAssumption`, `DataAnalysisAssumption`,
`KnowledgeAssumption`, `RuntimeAssumption`, `ConversationAssumption`, `ServiceAssumption`),
which say no more than what the settings, the parsers and the dispatch of the agents
guarantee, and how the data of an instance fits together.  Every invariant of a passing
run is proved, every property of single steps, and the three refinements.

Liveness under fairness is out of the prover's reach, and what it rests on besides
fairness is not: for each component it is proved that its work cannot go on for ever
without coming to its end (every step takes it further through a bounded number of
stages, whatever else happens) and that it cannot be stuck (while it is not over, the
guard of one of its own next steps holds, without a timeout or a cancellation).  With
the fairness of the run, the two are the argument for the liveness property TLC
checks.  They are stated in the proof modules: `CallsAdvance`, `JobsAdvance`,
`AnalysisAdvances`, `RequestsAdvance`, `RetrievalAdvances` and the several `NeverStuck`.

ProtectedWriteProofs:
- `TypeCorrect`.  `TypeOK` is not inductive by itself: an action of a call uses
  the task of the call as an index, so `TypeInv` adds that a call at work belongs
  to a live request (`CallsHaveTasks`) and that a call that consults its grant has
  one (`GrantsAreThere`).
- `ApprovalSpentOnce`, `KeyTakenOnce`, `HumanInTheLoop`.  They rest on
  `Inv == TypeInv /\ SpenderInv /\ OwnerInv /\ HumanInv`: a guarded call past
  consume is the one recorded spender of its approval, whose row is consumed; a
  call past begin is the one recorded owner of its key; and whoever has approved a
  row, or is about to, was entitled to, and a spent approval fits the call that
  spent it.  Each part is
  preserved by the conditional UPDATEs, the only places where `spender` and
  `owner` change.
- `NeverReopened`, the action property, from `TypeInv` alone.
- `ImplementsPromise`: every step of ProtectedWrite is a step of WritePromise or
  leaves its variables alone, under `Inv`.
- `SuccessMeansDone` and `RunningIsOwned`.  `EndInv` adds to `Inv` that `complete` is
  reached, and a record set to succeeded, only after the skill ran to its end (its write
  landed, or it is in `MootOps` and found nothing to write); that it has done so, and the
  key of a call, no step takes back (`Kept`).
- `CallsOnlyAdvance`: a call makes each of its awaits once, through at most 23 stages of
  place and statement; a restart or a late commit takes it further too.

CircuitBreakerProofs: `BreakerTypes`, `ClosedByCount`, `SlotNeverLost` and
`RestsBeforeProbe`, from `Inv == TypeOK /\ CountDecides /\ SlotIsHeld /\ RestInv
/\ ProbesRun /\ SleepersMayRetry`: while the breaker is not closed `since` and
`quiet` agree, so that a rested breaker has had no failure for the whole reset time;
a probe is a running call; and a sleeping call has an attempt left.
`CallsEnd` bounds the steps of a call by twice its attempts.  `RefusalHasCause` and
`RefusalEnds` are the argument behind `AdmitsAgain`: a refusal is for the reset time or
for a probe that runs; while it lasts nobody comes in, and every step brings the end
of a running call nearer or, the calls staying where they are, that of the reset time.
A late failure starts that time anew, but only a call that was already in can fail.

PlanExecutionProofs: `ExecutionTypes`, `ValidPlansRun`, `SideEffectSentOnce`,
`DependenciesFirst`, `SkipsStand` and `OrderedPlansSkip`, from one invariant: these six
properties with `PlanInv` (a plan at work is valid, and the results are those of its steps) and
`FlightInv` (a step is in flight exactly while it is running, which is during a wave,
and a queued one has not been sent).  The skip pass is stated by the set it
produces, a step being in it for what is before it in the plan, and not by
recursion over the plan, so that the proofs can use it; TLC finds such a set at
every turn.  `ValidPlansRun` is where validation is used: the pending steps that
were not skipped are a set of steps of the plan, so one of them depends on none of
them.  `AnswerIsTrue` adds `SentInv`: a message went out, once, for every Exec step that
is on its way, that succeeded or that asks for an approval, and a failed step has the code of a
failure.  On these rest `ImplementsPromise`, with `EffectKept` for the steps that leave
what is known of a side effect alone; `EveryStepAdvances`, with the well-founded order
`Left` of rounds, unsettled steps and moves of a wave; and `NeverBlocked`, which says that
one pass over the plan has exactly one outcome, so that the set in `Schedule` exists and is no
choice, and that a wave can always go on.  `ValidMeansAcyclic` is about the operator and not the
behaviour: the set condition in `Valid` holds of exactly the plans along whose
dependencies no path comes back, which is what the search in `validate_master_plan`
looks for.

MessagingProofs: `MessagingTypes`, `RegistriesDoNotLeak`, `ReplyAheadOfQueue`,
`ShutdownIsQuiet` and `ImplementsPromise`.  The queues enter the argument only
through the set of requests whose task message waits in them (`Waiting`), each once;
`PutTask`, `PutReply` and `TakeHead` say what a put and a get do to that set, and no
recursion over queues is needed.  The invariant adds to the properties that a request
whose handler has not sent it has left no trace (`FreshInv`), that a task message
waits in the one queue it belongs to, before the work begins (`HeldInv`), that what a
future holds or an answer says is true of the work (`TruthInv`), that an agent at work
works for one request, which no other agent does (`JobInv`), and what each stage of
the shutdown has put an end to (`PhaseInv`).  `TruthInv` is what makes an answer a step
of the promise, `HeldInv` makes the beginning of work one: whoever was told
"unavailable" has no message anywhere.  `EveryStepAdvances` counts the stages of handler,
task and work, eleven in all; a step that takes no request further advances the
shutdown or drops a reply from the master's queue.  `NobodyWaitsInACircle` adds that
whoever waits is served or owed: while the service runs, a full queue at the master is
emptied by the master's loop, a task that waits for a slot or a reply has another
task or an agent at work for it, and so somebody can go on without a timeout.

WorkflowsProofs: `WorkflowTypes`, `OnlyApprovedWrites`, `RepliesAreTrue` and
`TokensComeBack`, from `Inv == TypeInv /\ WriteInv /\ TellInv /\ TokenInv`.  `TypeInv`
adds to the types that a job at work stands at a call of its own pipeline; `WriteInv`
that a job before its write has asked for no approval and written nothing, so that no
approval that is used up is asked for anew; `TellInv` that a job at work knows what it
wrote but for a write that failed, which it has noted; `TokenInv` where in its pipeline
a generation is that holds a token.  `MessagesAdvance` (sixteen stages), `AnswersStand`,
`ApprovalsAdvance` and `AgentsGoOn` are about steps: no workflow repeats a call, nothing is
written for a message that was answered, an approval only goes forward and stays that of
one operation on one object, and an agent works on one message, which can go on.

DataAnalysisProofs: `AnalysisTypes`, `OnlyGrantedReads` and `AnswersAreTrue`.  `StepInv`
says of a step that only tables of the user are linked, that a statement about to be
executed has passed the validation (`Checked`), after a repair as well, and that every
run of a step that is not over was rejected and counted.  A grant depends on
the glossary and the user, not on the catalog, which is why it stands while the schema
changes.  `AnalysesAdvance` bounds the rounds of generate, validate, execute and repair
of a step whatever the model writes; `AnalysisGoesOn` rests on the catalog not changing
once the service has started (`CatalogHolds`) and on the semaphore of the steps being held by a
step that can go on.

KnowledgeProofs: `RetrievalTypes`, `StoresApart` and `FailuresAreTold`.  The semaphore
is an argument about cardinalities (`BoundInv`).  `StoresApart` is about labels, of which
it assumes no more than that no store has the one that stands for none ("legacy" has no
colon): it says "own documents" of a store whose label is its own.
`TellInv` follows a search: what it owes
is in the table while it searches, nothing is owed once the vectors found nothing in the
language asked for, and all of it is found once they ended without an error, or cut off;
after the ranking, and in the cache, the failed channels are those of the search.
`RetrievalsAdvance` gives a retrieval ten stages, which no rebuild of the table takes
back, and `RetrievalsGoOn` says that one which waits for the semaphore waits for a search
that can go on.

ServiceProofs: `ServiceTypes`, `ClosedInOrder` and `NothingForgotten`.  `OpenInv` says
that what the close has passed is closed or failed to close, and that whoever creates a pool is still
running; `RolesInv` that in production both pools are there before anybody could create
them and until all who could are stopped; `StoreInv` and `RequestInv` that a list is what is due
to it, and that a request which moves an old string has read that string if it is still
there.  `ConversationsAdvance` bounds the steps of a request at the memory by sixteen;
`CommandsNeverClash` says that a request which has looked at the type of a list never
finds a string when it reads or appends (`CommandInv`: no command makes a string of
anything); `ClosedStaysClosed` extends the order of the close to one that was cut short,
where whoever could still create a pool is of an owner the close had not come to.

Only model-checked: the liveness properties `EveryCallEnds`, `AdmitsAgain`, `Answered`,
`EveryRequestSettles` and `AllAnswered`, which rest on fairness and are out of the
prover's reach, their safety halves above excepted, and the three violated claims, which
are false.

## What is not modelled

- Pure functions: token verification, SQL text and the patterns of its read policy,
  prompts, routing, scores and ranking, masking, lineage, evidence and the check of
  citations, the arithmetic of the skills, normalisation, and the wording of answers.
- What nothing reads back: audit events, metrics, logs and telemetry.  The audit worker
  appears as an owner of a pool; that a full audit queue drops records is not modelled.
- Reads: the admin queries, the health and status endpoints, evaluation (`src/eval`).
- Tools that prepare a database before anybody uses it: the seed, import and migration
  scripts, except the re-embedding script, which runs beside the service.
- The transport of a model call: it is a call that succeeds, fails, or is cancelled.
- The sliding window of `platform/resilience/rate_limit.py`: one step of one task, and
  so without interleaving.
- The legacy command routing of the Exec agent, which decides by the words of a request
  which workflow runs, not what a run does.
- Queues of the agents in Workflows: the order of messages and their timeouts are in
  Messaging; Workflows lets any queued job be next.

Known behaviour that no property is about, because no document or test says how it
should be: a success of a call let in before the breaker opened closes it without a
probe; results kept by a recovery may rest on upstream data that was replaced; a serial
agent does work whose sender has given up waiting (RequestPromise says what the sender may
conclude); `/health/ready` may answer from a state its probes have overtaken;
the SQL validator compares names, so that what a statement reads through a CTE, an
alias that shares a name with a table or column, or a bare star is left to the rights of the
read-only role; clear_conversation says "cleared" although a delete failed; two stores whose tenant and
store read the same with a colon between share what is cached; customer service drops the
failed channel of a retrieval that succeeded with the other, and the limit of a search cuts
documents off without a word; a question that comes while the table is half full, or was
left so by a killed script, is answered from what is there; a rerank whose wait was
timed out leaves its thread running; two tasks may each create a
pool they found missing, of which one is lost and stays open: any in development, in production
only the legacy one, for the start has made the others (`KnownIsClosed`); a request that moves
an old string late writes over what was appended meanwhile (`overrun`).

## Plan

Done, in this order: ProtectedWrite, WritePromise, CircuitBreaker, PlanExecution,
Messaging, RequestPromise and their proofs, because a write that happens twice or
without its approval is the worst this program can do, the plan executor is what sends
writes, and the request path is what carries them; then WorkflowCalls and Workflows
(with the slots), DataAnalysis, Knowledge, Runtime, Conversation and Service, and
the answer of PlanExecution, each with its proofs; PlanPromise; then, for every
component, that its work advances and is not stuck.

What could follow:

1. Abstract specifications for the other components, as for writes, requests and plans:
   a bounded log for a list of Conversation, with the late migration as its one
   exception, and a reader of granted tables for DataAnalysis.
2. Workflows over ProtectedWrite: that one guarded write of a workflow (`Ask`,
   `Written`, `WriteLost`) is what `execute` does, as a refinement instead of by reading.
3. `StepCalls`: the steps of a wave of PlanExecution over Messaging, several futures of
   one task at a time, as the refinement of the reply contract in `Return`.
4. The audit queue: what is dropped when it is full, and the drain of `close`.
5. The sliding window of InProcessRateLimiter, with a clock.
