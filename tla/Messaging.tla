------------------------------ MODULE Messaging ------------------------------
(***************************************************************************)
(* The way of a request through the platform: the HTTP handler             *)
(* (AgentApplicationService.execute), the MessageBus with one bounded      *)
(* queue per agent and its two ReplyRegistries, the master agent with its  *)
(* task per request, the agent loops, and the shutdown of AppRuntime.      *)
(*                                                                         *)
(* Everything runs on one event loop: an action is what a coroutine does   *)
(* from one await to the next.  MessageBus.send has one await, the put     *)
(* into the queue of the target; a message to the gateway, which has no    *)
(* queue, is sent without any.  A master task asks one agent, as the fast  *)
(* path does; the steps of a plan (PlanExecution) wait for their replies   *)
(* in the same way.                                                        *)
(***************************************************************************)
EXTENDS Naturals, Sequences, FiniteSets

CONSTANTS
  Requests,   \* HTTP requests; their ids are fresh uuids
  Agents,     \* the agents that do the work: query, exec, rag
  Direct,     \* the agents the API also sends to without the master
  Master,     \* the master agent
  QueueMax,   \* MESSAGE_BUS_QUEUE_MAX_SIZE
  MaxTasks,   \* MASTER_MAX_CONCURRENT
  Nobody      \* the job of an agent that has none

ASSUME MessagingAssumption ==
  /\ Direct \subseteq Agents
  /\ Master \notin Agents
  /\ QueueMax \in Nat \ {0}
  /\ MaxTasks \in Nat \ {0}
  /\ Nobody \notin Requests

VARIABLES
  phase,    \* how far the shutdown has come
  entry,    \* entry[r]: the agent the API sends r to
  worker,   \* worker[r]: the agent whose work r asks for
  queue,    \* queue[n]: the queue of agent n
  gateway,  \* gateway[r]: the future of the HTTP handler of r
  subtask,  \* subtask[r]: the future of the master task of r
  client,   \* client[r]: where the HTTP handler is, or what it answered
  task,     \* task[r]: where the master task of r is
  agent,    \* agent[a]: what agent a is doing
  job,      \* job[a]: the request it is doing it for
  masterUp, \* the loop of the master agent runs
  work      \* history: what has become of the work of r

vars == <<phase, entry, worker, queue, gateway, subtask, client, task, agent,
          job, masterUp, work>>
content == <<entry, worker>>

-----------------------------------------------------------------------------
Names == Agents \cup {Master}

Messages == [kind : {"task", "reply"}, req : Requests]
Task(r)  == [kind |-> "task",  req |-> r]
Reply(r) == [kind |-> "reply", req |-> r]

\* What a reply says.  "failed" is anything short of a full success, a partial
\* one included, which is told as partial; "refused" is an answer of the master
\* alone, a clarification or a denial; "error" is its INTERNAL_ERROR.
Verdicts == {"ok", "failed", "unavailable", "refused", "timeout", "error"}

Answers == Verdicts \cup {"cancelled"}

\* A future of a registry, or of a waiter the registry has dropped.
Futures == {"absent", "pending", "cancelled"} \cup Verdicts

Phases == {"serving", "stopping", "unregistered", "idle", "closed"}

TypeOK ==
  /\ phase \in Phases
  /\ entry \in [Requests -> Names]
  /\ worker \in [Requests -> Agents]
  /\ queue \in [Names -> Seq(Messages)]
  /\ \A n \in Names : Len(queue[n]) <= QueueMax
  /\ gateway \in [Requests -> Futures]
  /\ subtask \in [Requests -> Futures]
  /\ client \in [Requests -> {"idle", "put", "wait"} \cup Answers]
  /\ task \in [Requests -> {"none", "queued", "put", "wait", "polish", "over"}]
  /\ agent \in [Agents -> {"idle", "running", "replying", "stopped"}]
  /\ job \in [Agents -> Requests \cup {Nobody}]
  /\ masterUp \in BOOLEAN
  /\ work \in [Requests -> {"none", "running", "ok", "failed", "cut"}]

Init ==
  /\ phase = "serving"
  /\ worker \in [Requests -> Agents]
  /\ entry \in [Requests -> Names]
  /\ \A r \in Requests :
       entry[r] # Master => entry[r] = worker[r] /\ entry[r] \in Direct
  /\ queue = [n \in Names |-> <<>>]
  /\ gateway = [r \in Requests |-> "absent"]
  /\ subtask = [r \in Requests |-> "absent"]
  /\ client = [r \in Requests |-> "idle"]
  /\ task = [r \in Requests |-> "none"]
  /\ agent = [a \in Agents |-> "idle"]
  /\ job = [a \in Agents |-> Nobody]
  /\ masterUp = TRUE
  /\ work = [r \in Requests |-> "none"]

-----------------------------------------------------------------------------
(* MessageBus and ReplyRegistry.                                           *)

Registered == phase \in {"serving", "stopping"}

Full(n) == Len(queue[n]) = QueueMax

\* Fault: the queue has no bound.
PutUnbounded(n, m) == queue' = [queue EXCEPT ![n] = Append(@, m)]

Put(n, m) == ~Full(n) /\ queue' = [queue EXCEPT ![n] = Append(@, m)]

\* send resolves the waiter of a reply before it puts the reply anywhere; a
\* closed bus resolves nothing, nor does a key without a pending future.
Resolved(registry, r, v) ==
  IF phase # "closed" /\ registry[r] = "pending"
  THEN [registry EXCEPT ![r] = v]
  ELSE registry

Discarded(registry, r) == [registry EXCEPT ![r] = "absent"]

\* ReplyRegistry.close: a waiter that is in wait() holds its future, which is
\* cancelled unless it has its result; one that has yet to call it finds none.
Dropped(registry, owner) ==
  [r \in Requests |-> IF owner[r] # "wait" THEN "absent"
                      ELSE IF registry[r] = "pending" THEN "cancelled"
                      ELSE registry[r]]

-----------------------------------------------------------------------------
(* AgentApplicationService.execute.                                        *)

Answer(r, a) ==
  /\ client'  = [client EXCEPT ![r] = a]
  /\ gateway' = Discarded(gateway, r)

\* create and send up to its await.  A request that got past the middleware
\* may come this far at any moment of a shutdown.
Ask(r) ==
  /\ client[r] = "idle"
  /\ IF Registered
     THEN /\ client'  = [client EXCEPT ![r] = "put"]
          /\ gateway' = [gateway EXCEPT ![r] = "pending"]
     ELSE Answer(r, "unavailable")
  /\ UNCHANGED <<phase, content, queue, subtask, task, agent, job, masterUp,
                 work>>

\* The message is in the queue; wait() returns at once if a close has dropped
\* the future meanwhile.
ClientPut(r) ==
  /\ client[r] = "put"
  /\ Put(entry[r], Task(r))
  /\ IF gateway[r] = "absent"
     THEN Answer(r, "timeout")
     ELSE client' = [client EXCEPT ![r] = "wait"] /\ UNCHANGED gateway
  /\ UNCHANGED <<phase, content, subtask, task, agent, job, masterUp, work>>

\* The queue stayed full; room may have been made in the turn of the loop in
\* which the timer fires, and the message is not put even so.
ClientPutTimeout(r) ==
  /\ client[r] = "put"
  /\ Answer(r, "unavailable")
  /\ UNCHANGED <<phase, content, queue, subtask, task, agent, job, masterUp,
                 work>>

ClientReply(r) ==
  /\ client[r] = "wait"
  /\ gateway[r] \in Verdicts \cup {"cancelled"}
  /\ Answer(r, gateway[r])
  /\ UNCHANGED <<phase, content, queue, subtask, task, agent, job, masterUp,
                 work>>

\* Fault: the future of a waiter that timed out stays in the registry.
ClientTimeoutKeepingFuture(r) ==
  /\ client[r] = "wait"
  /\ client' = [client EXCEPT ![r] = "timeout"]
  /\ UNCHANGED <<phase, content, queue, gateway, subtask, task, agent, job,
                 masterUp, work>>

\* The timer may fire in the turn of the loop in which the future is resolved:
\* the reply has been delivered and the handler answers with a timeout.
ClientTimeout(r) ==
  /\ client[r] = "wait"
  /\ Answer(r, "timeout")
  /\ UNCHANGED <<phase, content, queue, subtask, task, agent, job, masterUp,
                 work>>

\* The handler is cancelled at its await; a put that has not happened never
\* does.
ClientGone(r) ==
  /\ client[r] \in {"put", "wait"}
  /\ Answer(r, "cancelled")
  /\ UNCHANGED <<phase, content, queue, subtask, task, agent, job, masterUp,
                 work>>

-----------------------------------------------------------------------------
(* MasterAgent and MasterOrchestrator.                                     *)

\* Fault: the replies in the queue of the master are submitted as tasks.
MasterTakeAnything ==
  /\ masterUp
  /\ queue[Master] # <<>>
  /\ queue' = [queue EXCEPT ![Master] = Tail(@)]
  /\ task' = [task EXCEPT ![Head(queue[Master]).req] = "queued"]
  /\ UNCHANGED <<phase, content, gateway, subtask, client, agent, job,
                 masterUp, work>>

\* The loop takes the next message: a reply, whose waiter send has resolved, is
\* ignored; a request becomes a task of its own.
MasterTake ==
  /\ masterUp
  /\ queue[Master] # <<>>
  /\ queue' = [queue EXCEPT ![Master] = Tail(@)]
  /\ LET m == Head(queue[Master])
     IN task' = IF m.kind = "reply" THEN task
                ELSE [task EXCEPT ![m.req] = "queued"]
  /\ UNCHANGED <<phase, content, gateway, subtask, client, agent, job,
                 masterUp, work>>

\* Fault: a task that has ended keeps its place under the semaphore.
ActiveForEver == {r \in Requests : task[r] \notin {"none", "queued"}}

\* The tasks under the semaphore.
Active == {r \in Requests : task[r] \in {"put", "wait", "polish"}}

HasSlot == Cardinality(Active) < MaxTasks

\* The task sends its final answer to the gateway and ends.
Final(r, v) ==
  /\ task'    = [task EXCEPT ![r] = "over"]
  /\ gateway' = Resolved(gateway, r, v)

\* What the master says by itself: a clarification or a denial, or, of an exception
\* of its own, that there was one.
OwnVerdicts == {"refused", "error"}

\* The task is let in and the master answers by itself.
TaskAnswers(r) ==
  /\ task[r] = "queued"
  /\ HasSlot
  /\ \E v \in OwnVerdicts : Final(r, v)
  /\ UNCHANGED <<phase, content, queue, subtask, client, agent, job, masterUp,
                 work>>

\* The task is let in and asks the agent: create, and send up to its await.
TaskAsks(r) ==
  /\ task[r] = "queued"
  /\ HasSlot
  /\ IF Registered
     THEN /\ task'    = [task EXCEPT ![r] = "put"]
          /\ subtask' = [subtask EXCEPT ![r] = "pending"]
          /\ UNCHANGED gateway
     ELSE /\ Final(r, "unavailable")
          /\ subtask' = Discarded(subtask, r)
  /\ UNCHANGED <<phase, content, queue, client, agent, job, masterUp, work>>

TaskPut(r) ==
  /\ task[r] = "put"
  /\ Put(worker[r], Task(r))
  /\ task' = [task EXCEPT ![r] = "wait"]
  /\ UNCHANGED <<phase, content, gateway, subtask, client, agent, job,
                 masterUp, work>>

TaskPutTimeout(r) ==
  /\ task[r] = "put"
  /\ subtask' = Discarded(subtask, r)
  /\ Final(r, "unavailable")
  /\ UNCHANGED <<phase, content, queue, client, agent, job, masterUp, work>>

\* The reply of the agent: a success without a text of its own is polished by
\* a model first.
TaskReply(r) ==
  /\ task[r] = "wait"
  /\ subtask[r] \in Verdicts
  /\ \/ Final(r, subtask[r]) /\ subtask' = Discarded(subtask, r)
     \/ /\ subtask[r] = "ok"
        /\ task' = [task EXCEPT ![r] = "polish"]
        /\ subtask' = Discarded(subtask, r)
        /\ UNCHANGED gateway
  /\ UNCHANGED <<phase, content, queue, client, agent, job, masterUp, work>>

TaskTimeout(r) ==
  /\ task[r] = "wait"
  /\ subtask' = Discarded(subtask, r)
  /\ Final(r, "timeout")
  /\ UNCHANGED <<phase, content, queue, client, agent, job, masterUp, work>>

\* The answer is ready, or building it raised.
TaskPolished(r) ==
  /\ task[r] = "polish"
  /\ \E v \in {"ok", "error"} : Final(r, v)
  /\ UNCHANGED <<phase, content, queue, subtask, client, agent, job, masterUp,
                 work>>

-----------------------------------------------------------------------------
(* The loops of the agents, which do one message at a time.                *)

AgentTake(a) ==
  /\ agent[a] = "idle"
  /\ queue[a] # <<>>
  /\ LET r == Head(queue[a]).req
     IN /\ job'  = [job EXCEPT ![a] = r]
        /\ work' = [work EXCEPT ![r] = "running"]
  /\ queue' = [queue EXCEPT ![a] = Tail(@)]
  /\ agent' = [agent EXCEPT ![a] = "running"]
  /\ UNCHANGED <<phase, content, gateway, subtask, client, task, masterUp>>

\* Fault: send puts the reply first and resolves the waiter afterwards.
AgentDoneWithoutWaiter(a) ==
  /\ agent[a] = "running"
  /\ \E v \in {"ok", "failed"} :
       /\ work' = [work EXCEPT ![job[a]] = v]
       /\ gateway' = IF entry[job[a]] = Master THEN gateway
                     ELSE Resolved(gateway, job[a], v)
  /\ IF entry[job[a]] = Master
     THEN agent' = [agent EXCEPT ![a] = "replying"] /\ UNCHANGED job
     ELSE /\ agent' = [agent EXCEPT ![a] = "idle"]
          /\ job'   = [job EXCEPT ![a] = Nobody]
  /\ UNCHANGED <<phase, content, queue, subtask, client, task, masterUp>>

\* The work ends, in a failure too when it timed out, raised or was not
\* admitted, and the reply is sent to whoever asked: the master, where it
\* resolves the future of the task and waits to enter the queue, or the
\* gateway, which has no queue.
AgentDone(a) ==
  /\ agent[a] = "running"
  /\ \E v \in {"ok", "failed"} :
       /\ work' = [work EXCEPT ![job[a]] = v]
       /\ IF entry[job[a]] = Master
          THEN /\ subtask' = Resolved(subtask, job[a], v)
               /\ agent'   = [agent EXCEPT ![a] = "replying"]
               /\ UNCHANGED <<gateway, job>>
          ELSE /\ gateway' = Resolved(gateway, job[a], v)
               /\ agent'   = [agent EXCEPT ![a] = "idle"]
               /\ job'     = [job EXCEPT ![a] = Nobody]
               /\ UNCHANGED subtask
  /\ UNCHANGED <<phase, content, queue, client, task, masterUp>>

\* The reply enters the queue of the master, or the put times out and the loop
\* goes on without.
AgentReplied(a) ==
  /\ agent[a] = "replying"
  /\ Put(Master, Reply(job[a])) \/ UNCHANGED queue
  /\ agent' = [agent EXCEPT ![a] = "idle"]
  /\ job'   = [job EXCEPT ![a] = Nobody]
  /\ UNCHANGED <<phase, content, gateway, subtask, client, task, masterUp,
                 work>>

-----------------------------------------------------------------------------
(* AppRuntime._shutdown_resources.                                         *)

\* Fault: the master agent is left running.
StopAgentsButMaster ==
  /\ phase = "serving"
  /\ phase' = "stopping"
  /\ agent' = [a \in Agents |-> "stopped"]
  /\ job'   = [a \in Agents |-> Nobody]
  /\ work'  = [r \in Requests |-> IF work[r] = "running" THEN "cut"
                                  ELSE work[r]]
  /\ UNCHANGED <<content, queue, gateway, subtask, client, task, masterUp>>

\* The workers are cancelled: work under way is cut, and nobody is told.
StopAgents ==
  /\ phase = "serving"
  /\ phase' = "stopping"
  /\ agent' = [a \in Agents |-> "stopped"]
  /\ job'   = [a \in Agents |-> Nobody]
  /\ work'  = [r \in Requests |-> IF work[r] = "running" THEN "cut"
                                  ELSE work[r]]
  /\ masterUp' = FALSE
  /\ UNCHANGED <<content, queue, gateway, subtask, client, task>>

Unregister ==
  /\ phase = "stopping"
  /\ phase' = "unregistered"
  /\ UNCHANGED <<content, queue, gateway, subtask, client, task, agent, job,
                 masterUp, work>>

\* MasterOrchestrator.close cancels the tasks there are and waits for them.
CloseOrchestrator ==
  /\ phase = "unregistered"
  /\ phase' = "idle"
  /\ task' = [r \in Requests |-> IF task[r] = "none" THEN "none" ELSE "over"]
  /\ subtask' = [r \in Requests |-> "absent"]
  /\ UNCHANGED <<content, queue, gateway, client, agent, job, masterUp, work>>

CloseBus ==
  /\ phase = "idle"
  /\ phase' = "closed"
  /\ gateway' = Dropped(gateway, client)
  /\ subtask' = Dropped(subtask, task)
  /\ UNCHANGED <<content, queue, client, task, agent, job, masterUp, work>>

-----------------------------------------------------------------------------
\* What each coroutine does by itself once it has begun.
ClientStep(r) ==
  ClientPut(r) \/ ClientPutTimeout(r) \/ ClientReply(r) \/ ClientTimeout(r)

TaskStep(r) ==
  \/ TaskAnswers(r) \/ TaskAsks(r) \/ TaskPut(r) \/ TaskPutTimeout(r)
  \/ TaskReply(r) \/ TaskTimeout(r) \/ TaskPolished(r)

AgentStep(a) == AgentTake(a) \/ AgentDone(a) \/ AgentReplied(a)

Shutdown == StopAgents \/ Unregister \/ CloseOrchestrator \/ CloseBus

Next ==
  \/ \E r \in Requests :
       Ask(r) \/ ClientStep(r) \/ ClientGone(r) \/ TaskStep(r)
  \/ MasterTake
  \/ \E a \in Agents : AgentStep(a)
  \/ Shutdown

Spec == Init /\ [][Next]_vars

\* Every put, every wait and every piece of work has a timeout, and asyncio
\* lets waiters of a semaphore in in order.
FairSpec ==
  /\ Spec
  /\ \A r \in Requests : WF_vars(ClientStep(r)) /\ WF_vars(TaskStep(r))
  /\ WF_vars(MasterTake)
  /\ \A a \in Agents : WF_vars(AgentStep(a))
  /\ WF_vars(Unregister \/ CloseOrchestrator \/ CloseBus)

-----------------------------------------------------------------------------
(* Correctness.                                                            *)

\* The registries do not leak, as reply_registry.py:1 says: a future is there
\* only between the create and the discard of the handler or task that waits
\* for it, and once the bus is closed nobody waits for one that nobody will
\* resolve (reply_registry.py:30-47, bus.py:174).
NoFutureLeaks ==
  \A r \in Requests :
    /\ gateway[r] # "absent" => client[r] \in {"put", "wait"}
    /\ subtask[r] # "absent" => task[r] \in {"put", "wait"}
    /\ phase = "closed" => gateway[r] # "pending" /\ subtask[r] = "absent"

\* A full queue at the master never delays an answer: while an agent is still
\* trying to put its reply there, the task that waits for the reply has it
\* already (bus.py:76 comes before bus.py:80).
ReplyBeatsQueue ==
  \A a \in Agents : agent[a] = "replying" => subtask[job[a]] # "pending"

\* The order of the shutdown: once the orchestrator is closed there is no
\* master task, and never will be, and no agent is at work
\* (container.py:234-242).
QuietAfterClose ==
  phase \in {"idle", "closed"} =>
    /\ \A r \in Requests : task[r] \in {"none", "over"} /\ work[r] # "running"
    /\ \A a \in Agents : agent[a] = "stopped"

\* What a client may conclude from its answer: see RequestPromise.
Promise == INSTANCE RequestPromise
  WITH answer <- [r \in Requests |->
                    IF client[r] \in Answers THEN client[r] ELSE "none"]

KeepsPromise == Promise!PromiseSpec

\* Nothing more is done for request r.
Settled(r) ==
  /\ client[r] \in Answers
  /\ task[r] \in {"none", "over"}
  /\ \A a \in Agents : job[a] # r
  /\ phase = "serving" =>
       \A n \in Names : \A i \in DOMAIN queue[n] : queue[n][i].req # r

\* Every request comes to rest: it is answered, its task ends, the agent is
\* done with it and its messages are taken, in spite of full queues, lost
\* replies and a shutdown at any moment (bus.py:80, reply_registry.py:35,
\* agents/exec/agent.py:135, orchestrator.py:871).
EveryRequestSettles == \A r \in Requests : client[r] # "idle" ~> Settled(r)
=============================================================================
