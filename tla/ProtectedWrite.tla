--------------------------- MODULE ProtectedWrite ---------------------------
(***************************************************************************)
(* A protected write, from the HTTP request that carries it to the record  *)
(* it leaves: SkillExecutor.execute (core/skill/executor.py) with the      *)
(* approval table (core/security/approval.py), the idempotency store       *)
(* (core/skill/idempotency.py), the approval endpoint                      *)
(* (api/route_approval.py) and the ingress that turns an X-Approval-Id     *)
(* header into a grant (api/auth.py).                                      *)
(*                                                                         *)
(* One action is the code between two awaits.  A call is one run of        *)
(* SkillExecutor.execute; a task is one HTTP request, whose fresh task_id  *)
(* is part of every idempotency key made under it.  Calls, approval        *)
(* handlers and the clock interleave freely; a call may be cancelled, or   *)
(* lose its database, at every await; the process may restart.             *)
(*                                                                         *)
(* An operation stands for a skill with its validated parameters, so that  *)
(* equality of operations is equality of skill_name and params_hash.       *)
(***************************************************************************)
EXTENDS Naturals

CONSTANTS
  Users,        \* authenticated principals
  Admins,       \* those with the admin role
  Approvers,    \* those whose effective scopes hold risk:approve
  ScopeOf,      \* ScopeOf[u]: the tenant and store of u
  Ops,          \* protected operations, all of them idempotent skills
  GuardedOps,   \* those whose skill has approval_required
  MootOps,      \* those whose skill may succeed with nothing to write
  MayRun,       \* MayRun[u]: the operations the scopes of u allow
  Tasks,        \* HTTP requests
  Calls,        \* runs of SkillExecutor.execute
  Handlers,     \* approval requests being served at the same time
  Approvals,    \* approval identifiers
  None,         \* no user, no operation, no approval
  Ttl,          \* APPROVAL_TTL_SECONDS, in ticks
  MaxTime,      \* bound on the clock
  Durable       \* the store is PostgreSQL, not a dictionary of the process

ASSUME ConstantsAssumption ==
  /\ Admins \subseteq Users
  /\ Approvers \subseteq Users
  /\ GuardedOps \subseteq Ops
  /\ MootOps \subseteq Ops
  /\ MayRun \in [Users -> SUBSET Ops]
  /\ Ttl \in Nat
  /\ MaxTime \in Nat
  /\ Durable \in BOOLEAN
  /\ None \notin Users \cup Ops \cup Tasks \cup Calls \cup Approvals

VARIABLES
  clock,     \* wall-clock time
  approval,  \* security_approval, a row for every identifier
  record,    \* the idempotency store, an entry for every key
  task,      \* the HTTP requests
  pc,        \* pc[c]: the await at which call c is, or how it ended
  call,      \* call[c]: the task, the operation and the now of call c
  write,     \* write[c]: what became of the statement skill.run sends, if any
  handler,   \* the approval requests being served
  answered,  \* approvals the endpoint has called already executed
  spender,   \* history: the call that consumed an approval
  owner      \* history: the call that took an idempotency key

vars == <<clock, approval, record, task, pc, call, write, handler, answered,
          spender, owner>>

-----------------------------------------------------------------------------
Keys == Tasks \X Ops
GuardedKeys == Tasks \X GuardedOps

Time == 0 .. MaxTime

\* The awaits inside SkillExecutor.execute, in the order they are met.
Active == {"lookup", "request", "check", "consume", "begin", "run",
           "complete", "fail"}

\* What execute returns.
Refusals == {"denied", "already_executed", "approval_required", "unavailable",
             "expired", "invalid", "already_used"}
Ended == Refusals \cup {"replayed", "succeeded", "failed", "abandoned"}

Key(c) == <<call[c].task, call[c].op>>
Guarded(c) == call[c].op \in GuardedOps
GrantOf(c) == task[call[c].task].grant
UserOf(c) == task[call[c].task].user

NoApproval == [status |-> "absent", requester |-> None, op |-> None,
               expires |-> 0, approver |-> None, consumedAt |-> 0]

ApprovalRows ==
  [status : {"absent", "pending", "approved", "consumed"},
   requester : Users \cup {None}, op : Ops \cup {None},
   expires : Nat, approver : Users \cup {None}, consumedAt : Time]

TaskRows ==
  [state : {"new", "live", "rejected", "gone"}, user : Users \cup {None},
   grant : Approvals \cup {None}]

\* A row of user v is visible to u under row-level security.
SameScope(u, v) == ScopeOf[u] = ScopeOf[v]

TypeOK ==
  /\ clock \in Time
  /\ approval \in [Approvals -> ApprovalRows]
  /\ record \in [Keys -> {"absent", "running", "succeeded", "failed"}]
  /\ task \in [Tasks -> TaskRows]
  /\ pc \in [Calls -> {"idle"} \cup Active \cup Ended]
  /\ call \in [Calls -> [task : Tasks \cup {None}, op : Ops \cup {None},
                         now : Time]]
  /\ write \in [Calls -> {"none", "moot", "issued", "landed", "lost"}]
  /\ handler \in [Handlers -> [busy : BOOLEAN, user : Users \cup {None},
                               id : Approvals \cup {None}, now : Time]]
  /\ answered \subseteq Approvals
  /\ spender \in [Approvals -> Calls \cup {None}]
  /\ owner \in [Keys -> Calls \cup {None}]

Init ==
  /\ clock = 0
  /\ approval = [i \in Approvals |-> NoApproval]
  /\ record = [k \in Keys |-> "absent"]
  /\ task = [t \in Tasks |-> [state |-> "new", user |-> None, grant |-> None]]
  /\ pc = [c \in Calls |-> "idle"]
  /\ call = [c \in Calls |-> [task |-> None, op |-> None, now |-> 0]]
  /\ write = [c \in Calls |-> "none"]
  /\ handler = [h \in Handlers |->
                  [busy |-> FALSE, user |-> None, id |-> None, now |-> 0]]
  /\ answered = {}
  /\ spender = [i \in Approvals |-> None]
  /\ owner = [k \in Keys |-> None]

-----------------------------------------------------------------------------
(* Ingress: a request, with or without an X-Approval-Id header.            *)

Usable(u, i) ==
  /\ approval[i].status = "approved"
  /\ SameScope(u, approval[i].requester)
  /\ clock < approval[i].expires

\* get_current_approval_grant: a grant, or 403 and no task.
Submit(t, u, i) ==
  /\ task[t].state = "new"
  /\ task' = [task EXCEPT ![t] =
       [state |-> IF i = None \/ Usable(u, i) THEN "live" ELSE "rejected",
        user |-> u, grant |-> i]]
  /\ UNCHANGED <<clock, approval, record, pc, call, write, handler, answered,
                 spender, owner>>

-----------------------------------------------------------------------------
(* SkillExecutor.execute.                                                  *)

Goto(c, label) == pc' = [pc EXCEPT ![c] = label]

\* Permission, scopes and input contract: everything before the first await.
\* The Query agent may run no write.
Start(c, t, op, agent) ==
  /\ pc[c] = "idle"
  /\ task[t].state = "live"
  /\ call' = [call EXCEPT ![c] = [task |-> t, op |-> op, now |-> 0]]
  /\ Goto(c, IF agent = "biz_exec" /\ op \in MayRun[task[t].user]
               THEN "lookup" ELSE "denied")
  /\ UNCHANGED <<clock, approval, record, task, write, handler, answered,
                 spender, owner>>

\* Fault: any record is replayed, not only a succeeded one.
ReplayableAny(k) == record[k] # "absent"

Replayable(k) == record[k] = "succeeded"

\* idempotency_store.get, and where its answer leads.
Lookup(c) ==
  /\ pc[c] = "lookup"
  /\ \/ Replayable(Key(c)) /\ Goto(c, "replayed")
     \/ /\ ~Replayable(Key(c)) /\ record[Key(c)] # "absent"
        /\ Goto(c, "already_executed")
     \/ /\ record[Key(c)] = "absent"
        /\ \/ ~Guarded(c) /\ Goto(c, "begin")
           \/ Guarded(c) /\ GrantOf(c) = None /\ Goto(c, "request")
           \/ Guarded(c) /\ GrantOf(c) # None /\ Goto(c, "check")
  /\ UNCHANGED <<clock, approval, record, task, call, write, handler, answered,
                 spender, owner>>

\* approval_service.create_pending: the row, then APPROVAL_REQUIRED.  When the
\* database fails the answer is an error, whether or not the row was inserted.
CreatePending(c, i) ==
  /\ pc[c] = "request"
  /\ approval[i].status = "absent"
  /\ approval' = [approval EXCEPT ![i] =
       [status |-> "pending", requester |-> UserOf(c), op |-> call[c].op,
        expires |-> clock + Ttl, approver |-> None, consumedAt |-> 0]]
  /\ \E answer \in {"approval_required", "unavailable"} : Goto(c, answer)
  /\ UNCHANGED <<clock, record, task, call, write, handler, answered,
                 spender, owner>>

CreateFails(c) ==
  /\ pc[c] = "request"
  /\ Goto(c, "unavailable")
  /\ UNCHANGED <<clock, approval, record, task, call, write, handler, answered,
                 spender, owner>>

\* What consume compares with the grant; the task_id of the grant it does not.
Fits(i, c) ==
  /\ approval[i].op = call[c].op
  /\ SameScope(UserOf(c), approval[i].requester)

\* consume, up to its await: the clock is read, then the grant is compared with
\* what is being executed.
CheckGrant(c) ==
  LET i == GrantOf(c) IN
  /\ pc[c] = "check"
  /\ \/ approval[i].expires <= clock /\ Goto(c, "expired")
     \/ approval[i].expires > clock /\ ~Fits(i, c) /\ Goto(c, "invalid")
     \/ approval[i].expires > clock /\ Fits(i, c) /\ Goto(c, "consume")
  /\ call' = [call EXCEPT ![c].now = clock]
  /\ UNCHANGED <<clock, approval, record, task, write, handler, answered,
                 spender, owner>>

\* Fault: the UPDATE does not ask for status = 'approved'.
ConsumableAnyStatus(i, c) ==
  /\ Fits(i, c)
  /\ call[c].now < approval[i].expires

\* The WHERE clause of the conditional UPDATE, with the now read before it.
Consumable(i, c) ==
  /\ approval[i].status = "approved"
  /\ Fits(i, c)
  /\ call[c].now < approval[i].expires

Consume(c) ==
  LET i == GrantOf(c) IN
  /\ pc[c] = "consume"
  /\ \/ /\ Consumable(i, c)
        /\ approval' = [approval EXCEPT ![i].status = "consumed",
                                        ![i].consumedAt = call[c].now]
        /\ spender' = [spender EXCEPT ![i] = c]
        /\ Goto(c, "begin")
     \/ /\ ~Consumable(i, c)
        /\ Goto(c, "already_used")
        /\ UNCHANGED <<approval, spender>>
  /\ UNCHANGED <<clock, record, task, call, write, handler, answered, owner>>

\* Fault: a key whose execution failed may be tried again.
FreeAfterFailure(k) == record[k] \in {"absent", "failed"}

Free(k) == record[k] = "absent"

\* idempotency_store.begin: INSERT ... ON CONFLICT DO NOTHING.
Begin(c) ==
  /\ pc[c] = "begin"
  /\ \/ /\ Free(Key(c))
        /\ record' = [record EXCEPT ![Key(c)] = "running"]
        /\ owner' = [owner EXCEPT ![Key(c)] = c]
        /\ Goto(c, "run")
     \/ /\ ~Free(Key(c))
        /\ Goto(c, "already_executed")
        /\ UNCHANGED <<record, owner>>
  /\ UNCHANGED <<clock, approval, task, call, write, handler, answered, spender>>

\* skill.run sends its statement; the database commits it, or does not.
IssueWrite(c) ==
  /\ pc[c] = "run"
  /\ write[c] = "none"
  /\ write' = [write EXCEPT ![c] = "issued"]
  /\ UNCHANGED <<clock, approval, record, task, pc, call, handler, answered,
                 spender, owner>>

\* skill.run finds nothing to write: an order without a risk tag, an id that
\* names no order or campaign.
FindNothing(c) ==
  /\ pc[c] = "run"
  /\ write[c] = "none"
  /\ call[c].op \in MootOps
  /\ write' = [write EXCEPT ![c] = "moot"]
  /\ UNCHANGED <<clock, approval, record, task, pc, call, handler, answered,
                 spender, owner>>

\* A commit may land after the call stopped waiting for it.
Settle(c) ==
  /\ write[c] = "issued"
  /\ \E end \in {"landed", "lost"} : write' = [write EXCEPT ![c] = end]
  /\ UNCHANGED <<clock, approval, record, task, pc, call, handler, answered,
                 spender, owner>>

\* The skill returns success, with its statement applied or with none to send.
RunSucceeds(c) ==
  /\ pc[c] = "run"
  /\ write[c] \in {"landed", "moot"}
  /\ Goto(c, "complete")
  /\ UNCHANGED <<clock, approval, record, task, call, write, handler, answered,
                 spender, owner>>

\* Fault: a failed run leaves its record at running.
RunFailsUnmarked(c) ==
  /\ pc[c] = "run"
  /\ Goto(c, "failed")
  /\ UNCHANGED <<clock, approval, record, task, call, write, handler, answered,
                 spender, owner>>

\* Fault: no timeout around skill.run.
RunFailsNoTimeout(c) ==
  /\ pc[c] = "run"
  /\ write[c] = "lost"
  /\ Goto(c, "fail")
  /\ UNCHANGED <<clock, approval, record, task, call, write, handler, answered,
                 spender, owner>>

\* The skill raises, times out, returns a failure or an invalid output.
RunFails(c) ==
  /\ pc[c] = "run"
  /\ Goto(c, "fail")
  /\ UNCHANGED <<clock, approval, record, task, call, write, handler, answered,
                 spender, owner>>

\* idempotency_store.complete and .fail, by key.  An UPDATE whose answer is
\* lost raises after it was applied.
Finish(c, at, status, answer) ==
  /\ pc[c] = at
  /\ record' = [record EXCEPT ![Key(c)] = status]
  /\ \E end \in {answer, "abandoned"} : Goto(c, end)
  /\ UNCHANGED <<clock, approval, task, call, write, handler, answered,
                 spender, owner>>

Complete(c) == Finish(c, "complete", "succeeded", "succeeded")
Fail(c) == Finish(c, "fail", "failed", "failed")

\* Cancellation at an await (the Exec agent's timeout, a shutdown), or a
\* database error outside the guarded blocks: execute ends with no result.
Abandon(c) ==
  /\ pc[c] \in Active
  /\ Goto(c, "abandoned")
  /\ UNCHANGED <<clock, approval, record, task, call, write, handler, answered,
                 spender, owner>>

-----------------------------------------------------------------------------
(* The approval endpoint.                                                  *)

\* Fault: approvers may approve what they asked for.
MayApproveOwn(u, requester) == u \in Approvers

MayApprove(u, requester) == u \in Approvers /\ (requester = u => u \in Admins)

\* approve, up to its UPDATE: the row as it was read decides.  The answers
\* that change nothing (not found, approved already, denied, expired) are not
\* steps.
ReadRequest(h, u, i) ==
  LET row == approval[i] IN
  /\ ~handler[h].busy
  /\ u \in Approvers
  /\ row.status # "absent"
  /\ SameScope(u, row.requester)
  /\ \/ /\ row.status = "consumed"
        /\ answered' = answered \cup {i}
        /\ UNCHANGED handler
     \/ /\ row.status = "pending"
        /\ MayApprove(u, row.requester)
        /\ clock < row.expires
        /\ handler' = [handler EXCEPT ![h] =
             [busy |-> TRUE, user |-> u, id |-> i, now |-> clock]]
        /\ UNCHANGED answered
  /\ UNCHANGED <<clock, approval, record, task, pc, call, write, spender, owner>>

\* Fault: the UPDATE does not ask for status = 'pending'.
ApprovableAnyStatus(h) == handler[h].now < approval[handler[h].id].expires

Approvable(h) ==
  /\ approval[handler[h].id].status = "pending"
  /\ handler[h].now < approval[handler[h].id].expires

\* The conditional UPDATE; with no row matched the answer is APPROVAL_INVALID.
Approve(h) ==
  /\ handler[h].busy
  /\ \/ /\ Approvable(h)
        /\ approval' = [approval EXCEPT
             ![handler[h].id].status = "approved",
             ![handler[h].id].approver = handler[h].user]
     \/ /\ ~Approvable(h)
        /\ UNCHANGED approval
  /\ handler' = [handler EXCEPT ![h] =
       [busy |-> FALSE, user |-> None, id |-> None, now |-> 0]]
  /\ UNCHANGED <<clock, record, task, pc, call, write, answered, spender, owner>>

-----------------------------------------------------------------------------
(* Time and restarts.                                                      *)

Tick ==
  /\ clock < MaxTime
  /\ clock' = clock + 1
  /\ UNCHANGED <<approval, record, task, pc, call, write, handler, answered,
                 spender, owner>>

\* Requests, calls and handlers die with the process, and so does the
\* dictionary store.  A statement already sent may still commit.
Restart ==
  /\ task' = [t \in Tasks |-> IF task[t].state = "live"
                                THEN [task[t] EXCEPT !.state = "gone"]
                                ELSE task[t]]
  /\ pc' = [c \in Calls |-> IF pc[c] \in Active THEN "abandoned" ELSE pc[c]]
  /\ handler' = [h \in Handlers |->
                   [busy |-> FALSE, user |-> None, id |-> None, now |-> 0]]
  /\ record' = IF Durable THEN record ELSE [k \in Keys |-> "absent"]
  /\ UNCHANGED <<clock, approval, call, write, answered, spender, owner>>

-----------------------------------------------------------------------------
\* What call c does by itself, its skill and its timeouts included.
Step(c) ==
  \/ Lookup(c)
  \/ \E i \in Approvals : CreatePending(c, i)
  \/ CreateFails(c)
  \/ CheckGrant(c)
  \/ Consume(c)
  \/ Begin(c)
  \/ IssueWrite(c)
  \/ FindNothing(c)
  \/ RunSucceeds(c)
  \/ RunFails(c)
  \/ Complete(c)
  \/ Fail(c)

Next ==
  \/ \E t \in Tasks, u \in Users, i \in Approvals \cup {None} : Submit(t, u, i)
  \/ \E c \in Calls, t \in Tasks, op \in Ops, agent \in {"biz_exec", "data_query"} :
       Start(c, t, op, agent)
  \/ \E c \in Calls : Step(c) \/ Settle(c) \/ Abandon(c)
  \/ \E h \in Handlers, u \in Users, i \in Approvals : ReadRequest(h, u, i)
  \/ \E h \in Handlers : Approve(h)
  \/ Tick
  \/ Restart

Spec == Init /\ [][Next]_vars

\* The event loop runs what is ready, and every await of execute is bounded by
\* a timeout (skill timeout, statement timeout, pool timeout).
FairSpec == Spec /\ \A c \in Calls : WF_vars(Step(c))
-----------------------------------------------------------------------------
(* Correctness.                                                            *)

Issued(c) == write[c] \notin {"none", "moot"}

RanToEnd(c) ==
  write[c] = "landed" \/ (write[c] = "moot" /\ call[c].op \in MootOps)

\* One approval is worth one write: two executions that both sent the write of
\* a guarded operation were not let through by the same approval, however
\* their requests, retries and restarts interleaved (consume's conditional
\* UPDATE, approval.py:244).
OneWritePerApproval ==
  \A c, d \in Calls :
    Issued(c) /\ Issued(d) /\ Guarded(c) /\ Guarded(d) /\ GrantOf(c) = GrantOf(d)
      => c = d

\* One idempotency key is worth one write, with either store: begin lets one
\* call through per key, and no failure, timeout or restart reopens the key
\* (idempotency.py:53 and :82).
OneWritePerKey ==
  \A c, d \in Calls : Issued(c) /\ Issued(d) /\ Key(c) = Key(d) => c = d

\* No high-risk write without a human: the approval behind it is consumed, is
\* for this operation in this tenant and store, had not expired at the now it
\* was consumed with, and was given by an approver other than the requester
\* unless an admin (approval.py:153, :229 and :246).
WriteIsApproved ==
  \A c \in Calls : Issued(c) /\ Guarded(c) =>
    /\ GrantOf(c) # None
    /\ LET row == approval[GrantOf(c)] IN
         /\ row.status = "consumed"
         /\ row.op = call[c].op
         /\ SameScope(UserOf(c), row.requester)
         /\ row.consumedAt < row.expires
         /\ row.approver \in Approvers
         /\ SameScope(row.approver, row.requester)
         /\ row.approver = row.requester => row.approver \in Admins

\* A success told to the caller is the outcome of a skill that ran to its end:
\* an execution that succeeds, or that replays a stored result, does so after an
\* execution with its key whose write landed or, where the skill is one that may
\* succeed without writing, found nothing to write.  It is never the success of
\* a statement that failed, was cut off or is still under way (executor.py:151
\* and :361).
SuccessIsReal ==
  \A c \in Calls : pc[c] \in {"succeeded", "replayed"} =>
    \E d \in Calls : RanToEnd(d) /\ Key(d) = Key(c)

\* A record left at running has a cause: the call that took the key is still
\* at work, or was interrupted (executor.py:243).
RunningHasOwner ==
  \A k \in Keys : record[k] = "running" =>
    \E c \in Calls : Key(c) = k /\ pc[c] \in {"run", "complete", "fail", "abandoned"}

\* An approval is never reopened: a consumed row never changes, and an approved
\* row only becomes consumed, even for an approver who read it while it was
\* pending (approve's conditional UPDATE, approval.py:172).
ApprovalNeverReopens ==
  [][\A i \in Approvals :
       /\ approval[i].status = "consumed" => approval'[i] = approval[i]
       /\ approval[i].status = "approved" /\ approval'[i] # approval[i] =>
            /\ approval'[i].status = "consumed"
            /\ approval'[i].approver = approval[i].approver]_vars

\* Every execution comes to an end: no await of execute waits for ever
\* (wait_for around skill.run, executor.py:243).
EveryCallEnds ==
  \A c \in Calls : pc[c] \in Active ~> pc[c] \in Ended

\* "This approval has been used and the operation has been executed": whenever
\* the endpoint has said so, the skill has run, and its write has landed or may
\* still (route_approval.py:47).
UsedMeansExecuted ==
  \A i \in answered : \E c \in Calls :
    /\ GrantOf(c) = i
    /\ \/ write[c] \in {"issued", "landed", "moot"}
       \/ pc[c] \in Active

-----------------------------------------------------------------------------
(* Refinement.                                                             *)

Promise == INSTANCE WritePromise
  WITH permit  <- [i \in Approvals |-> approval[i].status],
       written <- {c \in Calls : write[c] = "landed"},
       Nobody  <- None

\* Approvals, keys and writes move only as the abstract promise lets them
\* (SkillExecutor.execute, executor.py:62).
KeepsPromise == Promise!PromiseSpec
=============================================================================
