------------------------ MODULE ProtectedWriteProofs ------------------------
(***************************************************************************)
(* Proofs about ProtectedWrite, for any users, operations, requests, calls *)
(* and approvals, any lifetime of an approval, and either store.           *)
(***************************************************************************)
EXTENDS ProtectedWrite, TLAPS

-----------------------------------------------------------------------------
(* The inductive invariant.                                                *)

\* Its skill has sent its write, or found that there is none to send.
Began(c) == write[c] # "none"

\* A call that is at work belongs to a live request; one whose skill has begun
\* belongs to a request that was live, and keeps its user and its grant.
CallsHaveTasks ==
  \A c \in Calls :
    /\ pc[c] = "idle" => write[c] = "none"
    /\ pc[c] \in Active \/ Began(c) => call[c].task \in Tasks /\ call[c].op \in Ops
    /\ pc[c] \in Active => task[call[c].task].state = "live"
    /\ Began(c) => task[call[c].task].state \in {"live", "gone"}
    /\ write[c] = "moot" => call[c].op \in MootOps

\* The grant is looked at only by a guarded call that has one, and a busy
\* handler has read a row.
GrantsAreThere ==
  /\ \A c \in Calls : pc[c] \in {"check", "consume"} =>
       Guarded(c) /\ GrantOf(c) # None
  /\ \A h \in Handlers : handler[h].busy =>
       handler[h].id \in Approvals /\ handler[h].user \in Users

TypeInv == TypeOK /\ CallsHaveTasks /\ GrantsAreThere

\* Past the approval, and past the idempotency record.
PastApproval(c) == pc[c] \in {"begin", "run", "complete", "fail"} \/ Began(c)
PastRecord(c) == pc[c] \in {"run", "complete", "fail"} \/ Began(c)

\* A guarded call past its approval is the one that spent it.
SpenderInv ==
  /\ \A i \in Approvals : spender[i] # None => approval[i].status = "consumed"
  /\ \A c \in Calls : Guarded(c) /\ PastApproval(c) =>
       GrantOf(c) # None /\ spender[GrantOf(c)] = c

\* A call past its record is the one that took the key; a key taken under a
\* live request has its record, so that begin refuses the next one.
OwnerInv ==
  /\ \A c \in Calls : PastRecord(c) => owner[Key(c)] = c
  /\ \A t \in Tasks, op \in Ops : owner[<<t, op>>] # None =>
       /\ task[t].state \in {"live", "gone"}
       /\ task[t].state = "live" => record[<<t, op>>] # "absent"

\* An approver who may approve the request of v.
GoodApprover(u, v) == SameScope(u, v) /\ MayApprove(u, v)

\* Whoever has approved a row, or is about to, may; and an approval spent by a
\* call was for what that call executes, before it expired.
HumanInv ==
  /\ \A i \in Approvals : approval[i].status \in {"approved", "consumed"} =>
       GoodApprover(approval[i].approver, approval[i].requester)
  /\ \A h \in Handlers : handler[h].busy =>
       /\ approval[handler[h].id].status # "absent"
       /\ GoodApprover(handler[h].user, approval[handler[h].id].requester)
  /\ \A c \in Calls : Guarded(c) /\ PastApproval(c) =>
       /\ Fits(GrantOf(c), c)
       /\ approval[GrantOf(c)].consumedAt < approval[GrantOf(c)].expires

Inv == TypeInv /\ SpenderInv /\ OwnerInv /\ HumanInv

-----------------------------------------------------------------------------
\* What the type invariant says of a call at work.
LEMMA CallTypes ==
  ASSUME TypeInv, NEW c \in Calls, pc[c] \in Active
  PROVE  /\ call[c].task \in Tasks
         /\ call[c].op \in Ops
         /\ Key(c) \in Keys
         /\ UserOf(c) \in Users \cup {None}
         /\ GrantOf(c) \in Approvals \cup {None}
         /\ task[call[c].task].state = "live"
BY DEF TypeInv, TypeOK, TaskRows, CallsHaveTasks, Key, Keys, UserOf, GrantOf

\* The two updates of an approval row leave a row.
LEMMA RowsAfterConsume ==
  ASSUME NEW rows \in [Approvals -> ApprovalRows], NEW i \in Approvals,
         NEW now \in Time, NEW new,
         new = [rows EXCEPT ![i].status = "consumed", ![i].consumedAt = now]
  PROVE  /\ new \in [Approvals -> ApprovalRows]
         /\ \A j \in Approvals \ {i} : new[j] = rows[j]
         /\ new[i].status = "consumed"
         /\ new[i].consumedAt = now
         /\ new[i].approver = rows[i].approver
         /\ new[i].requester = rows[i].requester
         /\ new[i].op = rows[i].op
         /\ new[i].expires = rows[i].expires
BY DEF ApprovalRows

\* The same for the UPDATE of approve.
LEMMA RowsAfterApprove ==
  ASSUME NEW rows \in [Approvals -> ApprovalRows], NEW i \in Approvals,
         NEW u \in Users, NEW new,
         new = [rows EXCEPT ![i].status = "approved", ![i].approver = u]
  PROVE  /\ new \in [Approvals -> ApprovalRows]
         /\ \A j \in Approvals \ {i} : new[j] = rows[j]
         /\ new[i].status = "approved"
         /\ new[i].approver = u
         /\ new[i].requester = rows[i].requester
         /\ new[i].op = rows[i].op
         /\ new[i].expires = rows[i].expires
         /\ new[i].consumedAt = rows[i].consumedAt
BY DEF ApprovalRows

\* A request that died with the process is still a request.
LEMMA TaskAfterRestart ==
  ASSUME NEW row \in TaskRows
  PROVE  [row EXCEPT !.state = "gone"] \in TaskRows
BY DEF TaskRows

\* Every step keeps the types.
LEMMA TypeStep == TypeInv /\ [Next]_vars => TypeOK'
<1> SUFFICES ASSUME TypeInv, [Next]_vars
             PROVE  TypeOK'
  OBVIOUS
<1> USE ConstantsAssumption DEF ConstantsAssumption, TypeInv
<1>1. ASSUME NEW t \in Tasks, NEW u \in Users,
             NEW i \in Approvals \cup {None}, Submit(t, u, i)
      PROVE  TypeOK'
  BY <1>1 DEF TypeOK, TaskRows, Submit
<1>2. ASSUME NEW c \in Calls, NEW t \in Tasks, NEW op \in Ops,
             NEW agent \in {"biz_exec", "data_query"}, Start(c, t, op, agent)
      PROVE  TypeOK'
  BY <1>2 DEF TypeOK, Start, Goto, Time, Active, Ended, Refusals
<1>3. ASSUME NEW c \in Calls, Lookup(c)
      PROVE  TypeOK'
  BY <1>3 DEF TypeOK, Lookup, Replayable, Goto, Active, Ended, Refusals
<1>4. ASSUME NEW c \in Calls, NEW i \in Approvals, CreatePending(c, i)
      PROVE  TypeOK'
  <2>1. pc[c] \in Active
    BY <1>4 DEF CreatePending, Active
  <2>2. approval' \in [Approvals -> ApprovalRows]
    <3>1. clock + Ttl \in Nat
      BY DEF TypeOK, Time
    <3>2. 0 \in Time
      BY DEF Time
    <3>3. [status |-> "pending", requester |-> UserOf(c), op |-> call[c].op,
           expires |-> clock + Ttl, approver |-> None, consumedAt |-> 0]
             \in ApprovalRows
      BY <2>1, <3>1, <3>2, CallTypes DEF ApprovalRows
    <3>4. QED
      BY <1>4, <3>3 DEF TypeOK, CreatePending
  <2>3. QED
    BY <1>4, <2>2 DEF TypeOK, CreatePending, Goto, Ended, Refusals
<1>5. ASSUME NEW c \in Calls, CreateFails(c)
      PROVE  TypeOK'
  BY <1>5 DEF TypeOK, CreateFails, Goto, Ended, Refusals
<1>6. ASSUME NEW c \in Calls, CheckGrant(c)
      PROVE  TypeOK'
  <2>1. pc' \in [Calls -> {"idle"} \cup Active \cup Ended]
    <3>1. \E end \in {"expired", "invalid", "consume"} : pc' = [pc EXCEPT ![c] = end]
      BY <1>6 DEF CheckGrant, Goto
    <3>2. QED
      BY <3>1 DEF TypeOK, Active, Ended, Refusals
  <2>2. call' \in [Calls -> [task : Tasks \cup {None}, op : Ops \cup {None}, now : Time]]
    <3>1. /\ call \in [Calls -> [task : Tasks \cup {None}, op : Ops \cup {None}, now : Time]]
          /\ clock \in Time
      BY DEF TypeOK
    <3>2. call' = [call EXCEPT ![c].now = clock]
      BY <1>6 DEF CheckGrant
    <3>. QED  BY ONLY <3>1, <3>2
  <2>3. QED
    BY <1>6, <2>1, <2>2 DEF TypeOK, CheckGrant
<1>7. ASSUME NEW c \in Calls, Consume(c)
      PROVE  TypeOK'
  <2>1. pc' \in [Calls -> {"idle"} \cup Active \cup Ended]
    BY <1>7 DEF TypeOK, Consume, Goto, Active, Ended, Refusals
  <2>2. approval' \in [Approvals -> ApprovalRows]
    <3>1. call[c].now \in Time /\ approval \in [Approvals -> ApprovalRows]
      BY DEF TypeOK
    <3>2. GrantOf(c) \in Approvals
      BY <1>7, CallTypes DEF Consume, GrantsAreThere, Active
    <3>3. \/ approval' = approval
          \/ approval' = [approval EXCEPT ![GrantOf(c)].status = "consumed",
                                          ![GrantOf(c)].consumedAt = call[c].now]
      BY <1>7 DEF Consume
    <3>4. QED
      BY <3>1, <3>2, <3>3, RowsAfterConsume
  <2>3. spender' \in [Approvals -> Calls \cup {None}]
    BY <1>7 DEF TypeOK, Consume
  <2>4. QED
    BY <1>7, <2>1, <2>2, <2>3 DEF TypeOK, Consume
<1>8. ASSUME NEW c \in Calls, Begin(c)
      PROVE  TypeOK'
  <2>1. pc' \in [Calls -> {"idle"} \cup Active \cup Ended]
    BY <1>8 DEF TypeOK, Begin, Goto, Active, Ended, Refusals
  <2>2. record' \in [Keys -> {"absent", "running", "succeeded", "failed"}]
    BY <1>8 DEF TypeOK, Begin
  <2>3. owner' \in [Keys -> Calls \cup {None}]
    BY <1>8 DEF TypeOK, Begin
  <2>4. QED
    BY <1>8, <2>1, <2>2, <2>3 DEF TypeOK, Begin
<1>9. ASSUME NEW c \in Calls, IssueWrite(c) \/ FindNothing(c) \/ Settle(c)
      PROVE  TypeOK'
  <2>1. \E end \in {"moot", "issued", "landed", "lost"} : write' = [write EXCEPT ![c] = end]
    BY <1>9 DEF IssueWrite, FindNothing, Settle
  <2>2. UNCHANGED <<clock, approval, record, task, pc, call, handler, answered,
                    spender, owner>>
    BY <1>9 DEF IssueWrite, FindNothing, Settle
  <2>3. QED
    BY <2>1, <2>2 DEF TypeOK
<1>10. ASSUME NEW c \in Calls, RunSucceeds(c) \/ RunFails(c) \/ Abandon(c)
       PROVE  TypeOK'
  BY <1>10 DEF TypeOK, RunSucceeds, RunFails, Abandon, Goto, Active, Ended
<1>11. ASSUME NEW c \in Calls, Complete(c) \/ Fail(c)
       PROVE  TypeOK'
  <2>1. \E end \in Ended : pc' = [pc EXCEPT ![c] = end]
    BY <1>11 DEF Complete, Fail, Finish, Goto, Ended
  <2>2. \E status \in {"succeeded", "failed"} :
          record' = [record EXCEPT ![Key(c)] = status]
    BY <1>11 DEF Complete, Fail, Finish
  <2>3. UNCHANGED <<clock, approval, task, call, write, handler, answered,
                    spender, owner>>
    BY <1>11 DEF Complete, Fail, Finish
  <2>4. pc' \in [Calls -> {"idle"} \cup Active \cup Ended]
    BY <2>1 DEF TypeOK
  <2>5. record' \in [Keys -> {"absent", "running", "succeeded", "failed"}]
    BY <2>2 DEF TypeOK
  <2>6. QED
    BY <2>3, <2>4, <2>5 DEF TypeOK
<1>12. ASSUME NEW h \in Handlers, NEW u \in Users, NEW i \in Approvals,
              ReadRequest(h, u, i)
       PROVE  TypeOK'
  <2>1. answered' \subseteq Approvals
    BY <1>12 DEF TypeOK, ReadRequest
  <2>2. handler' \in [Handlers -> [busy : BOOLEAN, user : Users \cup {None},
                                   id : Approvals \cup {None}, now : Time]]
    <3>1. \/ UNCHANGED handler
          \/ handler' = [handler EXCEPT ![h] =
               [busy |-> TRUE, user |-> u, id |-> i, now |-> clock]]
      BY <1>12 DEF ReadRequest
    <3>2. [busy |-> TRUE, user |-> u, id |-> i, now |-> clock] \in
            [busy : BOOLEAN, user : Users \cup {None},
             id : Approvals \cup {None}, now : Time]
      BY DEF TypeOK
    <3>3. QED
      BY <3>1, <3>2 DEF TypeOK
  <2>3. QED
    BY <1>12, <2>1, <2>2 DEF TypeOK, ReadRequest
<1>13. ASSUME NEW h \in Handlers, Approve(h)
       PROVE  TypeOK'
  <2>1. approval' \in [Approvals -> ApprovalRows]
    <3>1. /\ approval \in [Approvals -> ApprovalRows]
          /\ handler[h].id \in Approvals /\ handler[h].user \in Users
      BY <1>13 DEF TypeOK, Approve, GrantsAreThere
    <3>2. \/ approval' = approval
          \/ approval' = [approval EXCEPT
               ![handler[h].id].status = "approved",
               ![handler[h].id].approver = handler[h].user]
      BY <1>13 DEF Approve
    <3>3. QED
      BY <3>1, <3>2, RowsAfterApprove
  <2>2. handler' \in [Handlers -> [busy : BOOLEAN, user : Users \cup {None},
                                   id : Approvals \cup {None}, now : Time]]
    BY <1>13 DEF TypeOK, Approve, Time
  <2>3. QED
    BY <1>13, <2>1, <2>2 DEF TypeOK, Approve
<1>14. CASE Tick
  BY <1>14 DEF TypeOK, Tick, Time
<1>15. CASE Restart
  <2>1. task' \in [Tasks -> TaskRows]
    BY <1>15, TaskAfterRestart DEF TypeOK, Restart
  <2>2. pc' \in [Calls -> {"idle"} \cup Active \cup Ended]
    BY <1>15 DEF TypeOK, Restart, Ended
  <2>3. handler' \in [Handlers -> [busy : BOOLEAN, user : Users \cup {None},
                                   id : Approvals \cup {None}, now : Time]]
    BY <1>15 DEF TypeOK, Restart, Time
  <2>4. record' \in [Keys -> {"absent", "running", "succeeded", "failed"}]
    BY <1>15 DEF TypeOK, Restart
  <2>5. QED
    BY <1>15, <2>1, <2>2, <2>3, <2>4 DEF TypeOK, Restart
<1>16. CASE UNCHANGED vars
  BY <1>16 DEF TypeOK, vars
<1>17. QED
  BY <1>1, <1>2, <1>3, <1>4, <1>5, <1>6, <1>7, <1>8, <1>9, <1>10, <1>11,
     <1>12, <1>13, <1>14, <1>15, <1>16 DEF Next, Step

-----------------------------------------------------------------------------
\* Every step keeps calls at work in live requests.
LEMMA CallsStep == TypeInv /\ [Next]_vars => CallsHaveTasks'
<1> SUFFICES ASSUME TypeInv, [Next]_vars
             PROVE  CallsHaveTasks'
  OBVIOUS
<1> USE DEF TypeInv, CallsHaveTasks, Began
<1>1. ASSUME NEW t \in Tasks, NEW u \in Users,
             NEW i \in Approvals \cup {None}, Submit(t, u, i)
      PROVE  CallsHaveTasks'
  BY <1>1 DEF TypeOK, TaskRows, Submit
<1>2. ASSUME NEW c \in Calls, NEW t \in Tasks, NEW op \in Ops,
             NEW agent \in {"biz_exec", "data_query"}, Start(c, t, op, agent)
      PROVE  CallsHaveTasks'
  BY <1>2 DEF TypeOK, Start, Goto, Active
<1>3. ASSUME NEW c \in Calls, Lookup(c)
      PROVE  CallsHaveTasks'
  BY <1>3 DEF TypeOK, Lookup, Goto, Active
<1>4. ASSUME NEW c \in Calls, NEW i \in Approvals, CreatePending(c, i)
      PROVE  CallsHaveTasks'
  BY <1>4 DEF TypeOK, CreatePending, Goto, Active
<1>5. ASSUME NEW c \in Calls, CreateFails(c)
      PROVE  CallsHaveTasks'
  BY <1>5 DEF TypeOK, CreateFails, Goto, Active
<1>6. ASSUME NEW c \in Calls, CheckGrant(c)
      PROVE  CallsHaveTasks'
  BY <1>6 DEF TypeOK, CheckGrant, Goto, Active
<1>7. ASSUME NEW c \in Calls, Consume(c)
      PROVE  CallsHaveTasks'
  BY <1>7 DEF TypeOK, Consume, Goto, Active
<1>8. ASSUME NEW c \in Calls, Begin(c)
      PROVE  CallsHaveTasks'
  BY <1>8 DEF TypeOK, Begin, Goto, Active
<1>9. ASSUME NEW c \in Calls, IssueWrite(c) \/ FindNothing(c) \/ Settle(c)
      PROVE  CallsHaveTasks'
  BY <1>9 DEF TypeOK, IssueWrite, FindNothing, Settle, Active
<1>10. ASSUME NEW c \in Calls, RunSucceeds(c) \/ RunFails(c) \/ Abandon(c)
       PROVE  CallsHaveTasks'
  BY <1>10 DEF TypeOK, RunSucceeds, RunFails, Abandon, Goto, Active
<1>11. ASSUME NEW c \in Calls, Complete(c) \/ Fail(c)
       PROVE  CallsHaveTasks'
  BY <1>11 DEF TypeOK, Complete, Fail, Finish, Goto, Active
<1>12. ASSUME NEW h \in Handlers, NEW u \in Users, NEW i \in Approvals,
              ReadRequest(h, u, i)
       PROVE  CallsHaveTasks'
  BY <1>12 DEF ReadRequest
<1>13. CASE Tick \/ UNCHANGED vars \/ \E h \in Handlers : Approve(h)
  BY <1>13 DEF Tick, vars, Approve
<1>14. CASE Restart
  BY <1>14 DEF TypeOK, TaskRows, Restart, Active
<1>15. QED
  BY <1>1, <1>2, <1>3, <1>4, <1>5, <1>6, <1>7, <1>8, <1>9, <1>10, <1>11,
     <1>12, <1>13, <1>14 DEF Next, Step

\* Every step keeps grants where they are looked at.
LEMMA GrantsStep == TypeInv /\ [Next]_vars => GrantsAreThere'
<1> SUFFICES ASSUME TypeInv, [Next]_vars
             PROVE  GrantsAreThere'
  OBVIOUS
<1> USE ConstantsAssumption DEF TypeInv, GrantsAreThere, Guarded, GrantOf
<1>1. ASSUME NEW t \in Tasks, NEW u \in Users,
             NEW i \in Approvals \cup {None}, Submit(t, u, i)
      PROVE  GrantsAreThere'
  BY <1>1 DEF TypeOK, Submit, CallsHaveTasks, Active
<1>2. ASSUME NEW c \in Calls, NEW t \in Tasks, NEW op \in Ops,
             NEW agent \in {"biz_exec", "data_query"}, Start(c, t, op, agent)
      PROVE  GrantsAreThere'
  BY <1>2 DEF TypeOK, Start, Goto
<1>3. ASSUME NEW c \in Calls, Lookup(c)
      PROVE  GrantsAreThere'
  BY <1>3 DEF TypeOK, Lookup, Goto
<1>4. ASSUME NEW c \in Calls, NEW i \in Approvals, CreatePending(c, i)
      PROVE  GrantsAreThere'
  BY <1>4 DEF TypeOK, CreatePending, Goto
<1>5. ASSUME NEW c \in Calls, CreateFails(c)
      PROVE  GrantsAreThere'
  BY <1>5 DEF TypeOK, CreateFails, Goto
<1>6. ASSUME NEW c \in Calls, CheckGrant(c)
      PROVE  GrantsAreThere'
  BY <1>6 DEF TypeOK, CheckGrant, Goto
<1>7. ASSUME NEW c \in Calls, Consume(c)
      PROVE  GrantsAreThere'
  BY <1>7 DEF TypeOK, Consume, Goto
<1>8. ASSUME NEW c \in Calls, Begin(c)
      PROVE  GrantsAreThere'
  BY <1>8 DEF TypeOK, Begin, Goto
<1>9. ASSUME NEW c \in Calls, IssueWrite(c) \/ FindNothing(c) \/ Settle(c)
      PROVE  GrantsAreThere'
  BY <1>9 DEF TypeOK, IssueWrite, FindNothing, Settle
<1>10. ASSUME NEW c \in Calls, RunSucceeds(c) \/ RunFails(c) \/ Abandon(c)
       PROVE  GrantsAreThere'
  BY <1>10 DEF TypeOK, RunSucceeds, RunFails, Abandon, Goto
<1>11. ASSUME NEW c \in Calls, Complete(c) \/ Fail(c)
       PROVE  GrantsAreThere'
  BY <1>11 DEF TypeOK, Complete, Fail, Finish, Goto
<1>12. ASSUME NEW h \in Handlers, NEW u \in Users, NEW i \in Approvals,
              ReadRequest(h, u, i)
       PROVE  GrantsAreThere'
  BY <1>12 DEF TypeOK, ReadRequest
<1>13. ASSUME NEW h \in Handlers, Approve(h)
       PROVE  GrantsAreThere'
  BY <1>13 DEF TypeOK, Approve
<1>14. CASE Tick \/ UNCHANGED vars
  BY <1>14 DEF Tick, vars
<1>15. CASE Restart
  BY <1>15 DEF TypeOK, Restart, Active
<1>16. QED
  BY <1>1, <1>2, <1>3, <1>4, <1>5, <1>6, <1>7, <1>8, <1>9, <1>10, <1>11,
     <1>12, <1>13, <1>14, <1>15 DEF Next, Step

\* TypeInv, and so TypeOK, holds in every reachable state: the state keeps its
\* type, and a call at work belongs to a live request.
THEOREM TypeCorrect == Spec => []TypeOK
<1>1. Init => TypeInv
  BY ConstantsAssumption
  DEF Init, TypeInv, TypeOK, CallsHaveTasks, GrantsAreThere, Began, NoApproval,
      ApprovalRows, TaskRows, Time, Active, ConstantsAssumption
<1>2. TypeInv /\ [Next]_vars => TypeInv'
  BY TypeStep, CallsStep, GrantsStep DEF TypeInv
<1>3. TypeInv => TypeOK
  BY DEF TypeInv
<1>4. QED
  BY <1>1, <1>2, <1>3, PTL DEF Spec

-----------------------------------------------------------------------------
\* Only the conditional UPDATE of consume makes a spender, and of one call.
LEMMA SpenderStep == Inv /\ [Next]_vars => SpenderInv'
<1> SUFFICES ASSUME Inv, [Next]_vars
             PROVE  SpenderInv'
  OBVIOUS
<1> USE ConstantsAssumption DEF Inv, TypeInv, SpenderInv, PastApproval, Began, Guarded, GrantOf
<1>1. ASSUME NEW t \in Tasks, NEW u \in Users,
             NEW i \in Approvals \cup {None}, Submit(t, u, i)
      PROVE  SpenderInv'
  BY <1>1 DEF TypeOK, TaskRows, Submit, CallsHaveTasks, Active
<1>2. ASSUME NEW c \in Calls, NEW t \in Tasks, NEW op \in Ops,
             NEW agent \in {"biz_exec", "data_query"}, Start(c, t, op, agent)
      PROVE  SpenderInv'
  BY <1>2 DEF TypeOK, Start, Goto, CallsHaveTasks
<1>3. ASSUME NEW c \in Calls, Lookup(c)
      PROVE  SpenderInv'
  BY <1>3 DEF TypeOK, Lookup, Goto
<1>4. ASSUME NEW c \in Calls, NEW i \in Approvals, CreatePending(c, i)
      PROVE  SpenderInv'
  BY <1>4 DEF TypeOK, CreatePending, Goto
<1>5. ASSUME NEW c \in Calls, CreateFails(c)
      PROVE  SpenderInv'
  BY <1>5 DEF TypeOK, CreateFails, Goto
<1>6. ASSUME NEW c \in Calls, CheckGrant(c)
      PROVE  SpenderInv'
  BY <1>6 DEF TypeOK, CheckGrant, Goto
<1>7. ASSUME NEW c \in Calls, Consume(c)
      PROVE  SpenderInv'
  <2> DEFINE i == GrantOf(c)
  <2>1. i \in Approvals
    BY <1>7, CallTypes DEF Consume, GrantsAreThere, Active
  <2>2. UNCHANGED <<task, call, write>>
    BY <1>7 DEF Consume
  <2>3. CASE Consumable(i, c)
    <3>1. spender[i] = None
      BY <2>1, <2>3 DEF TypeOK, Consumable
    <3>2. /\ approval' = [approval EXCEPT ![i].status = "consumed",
                                          ![i].consumedAt = call[c].now]
          /\ spender' = [spender EXCEPT ![i] = c]
          /\ pc' = [pc EXCEPT ![c] = "begin"]
      BY <1>7, <2>3 DEF Consume, Goto
    <3>3. approval'[i].status = "consumed" /\ \A j \in Approvals \ {i} : approval'[j] = approval[j]
      BY <2>1, <3>2 DEF TypeOK, ApprovalRows
    <3>4. \A j \in Approvals : spender'[j] # None => approval'[j].status = "consumed"
      BY <2>1, <3>2, <3>3 DEF TypeOK
    <3>5. ASSUME NEW d \in Calls, Guarded(d), PastApproval(d)'
          PROVE  GrantOf(d) # None /\ spender'[GrantOf(d)] = d
      BY <2>1, <2>2, <3>1, <3>2, <3>5 DEF TypeOK
    <3>6. QED
      BY <2>2, <3>4, <3>5
  <2>4. CASE ~Consumable(i, c)
    BY <1>7, <2>4 DEF TypeOK, Consume, Goto
  <2>5. QED
    BY <2>3, <2>4
<1>8. ASSUME NEW c \in Calls, Begin(c)
      PROVE  SpenderInv'
  BY <1>8 DEF TypeOK, Begin, Goto
<1>9. ASSUME NEW c \in Calls, IssueWrite(c) \/ FindNothing(c) \/ Settle(c)
      PROVE  SpenderInv'
  BY <1>9 DEF TypeOK, IssueWrite, FindNothing, Settle
<1>10. ASSUME NEW c \in Calls, RunSucceeds(c) \/ RunFails(c) \/ Abandon(c)
       PROVE  SpenderInv'
  <2>1. /\ UNCHANGED <<approval, spender, task, call, write>>
        /\ \/ pc[c] = "run" /\ \E to \in {"complete", "fail"} : Goto(c, to)
           \/ Goto(c, "abandoned")
    BY <1>10 DEF RunSucceeds, RunFails, Abandon
  <2>2. \A d \in Calls : PastApproval(d)' => PastApproval(d)
    BY <2>1 DEF TypeOK, Goto
  <2>. QED  BY <2>1, <2>2 DEF TypeOK
<1>11. ASSUME NEW c \in Calls, Complete(c) \/ Fail(c)
       PROVE  SpenderInv'
  BY <1>11 DEF TypeOK, Complete, Fail, Finish, Goto
<1>12. ASSUME NEW h \in Handlers, NEW u \in Users, NEW i \in Approvals,
              ReadRequest(h, u, i)
       PROVE  SpenderInv'
  BY <1>12 DEF TypeOK, ReadRequest
<1>13. ASSUME NEW h \in Handlers, Approve(h)
       PROVE  SpenderInv'
  BY <1>13 DEF TypeOK, Approve, Approvable, GrantsAreThere
<1>14. CASE Tick \/ UNCHANGED vars
  BY <1>14 DEF Tick, vars
<1>15. CASE Restart
  <2>1. \A t \in Tasks : task'[t].grant = task[t].grant
    BY <1>15 DEF TypeOK, TaskRows, Restart
  <2>2. UNCHANGED <<approval, call, write, spender>>
    BY <1>15 DEF Restart
  <2>3. ASSUME NEW d \in Calls, PastApproval(d)'
        PROVE  PastApproval(d) /\ call[d].task \in Tasks
    BY <1>15, <2>3 DEF TypeOK, Restart, Active, CallsHaveTasks
  <2>4. QED
    BY <2>1, <2>2, <2>3
<1>16. QED
  BY <1>1, <1>2, <1>3, <1>4, <1>5, <1>6, <1>7, <1>8, <1>9, <1>10, <1>11,
     <1>12, <1>13, <1>14, <1>15 DEF Next, Step

\* Only begin makes an owner, of a key nobody has.
LEMMA OwnerStep == Inv /\ [Next]_vars => OwnerInv'
<1> SUFFICES ASSUME Inv, [Next]_vars
             PROVE  OwnerInv'
  OBVIOUS
<1> USE ConstantsAssumption DEF Inv, TypeInv, OwnerInv, PastRecord, Began, Key, Keys
<1>1. ASSUME NEW t \in Tasks, NEW u \in Users,
             NEW i \in Approvals \cup {None}, Submit(t, u, i)
      PROVE  OwnerInv'
  BY <1>1 DEF TypeOK, TaskRows, Submit, CallsHaveTasks, Active
<1>2. ASSUME NEW c \in Calls, NEW t \in Tasks, NEW op \in Ops,
             NEW agent \in {"biz_exec", "data_query"}, Start(c, t, op, agent)
      PROVE  OwnerInv'
  BY <1>2 DEF TypeOK, Start, Goto, CallsHaveTasks
<1>3. ASSUME NEW c \in Calls, Lookup(c)
      PROVE  OwnerInv'
  BY <1>3 DEF TypeOK, Lookup, Goto
<1>4. ASSUME NEW c \in Calls, NEW i \in Approvals, CreatePending(c, i)
      PROVE  OwnerInv'
  BY <1>4 DEF TypeOK, CreatePending, Goto
<1>5. ASSUME NEW c \in Calls, CreateFails(c)
      PROVE  OwnerInv'
  BY <1>5 DEF TypeOK, CreateFails, Goto
<1>6. ASSUME NEW c \in Calls, CheckGrant(c)
      PROVE  OwnerInv'
  BY <1>6 DEF TypeOK, CheckGrant, Goto
<1>7. ASSUME NEW c \in Calls, Consume(c)
      PROVE  OwnerInv'
  BY <1>7 DEF TypeOK, Consume, Consumable, Goto
<1>8. ASSUME NEW c \in Calls, Begin(c)
      PROVE  OwnerInv'
  <2>1. UNCHANGED <<task, call, write>>
    BY <1>8 DEF Begin
  <2>2. /\ pc[c] = "begin"
        /\ call[c].task \in Tasks /\ call[c].op \in Ops
        /\ task[call[c].task].state = "live"
    BY <1>8, CallTypes DEF Begin, Active
  <2>3. CASE Free(Key(c))
    <3>1. /\ record' = [record EXCEPT ![Key(c)] = "running"]
          /\ owner' = [owner EXCEPT ![Key(c)] = c]
          /\ pc' = [pc EXCEPT ![c] = "run"]
      BY <1>8, <2>3 DEF Begin, Goto, Free
    <3>2. owner[Key(c)] = None
      BY <2>2, <2>3 DEF Free
    <3>3. ASSUME NEW d \in Calls, PastRecord(d)'
          PROVE  owner'[Key(d)] = d
      BY <2>1, <2>2, <3>1, <3>2, <3>3 DEF TypeOK
    <3>4. ASSUME NEW t \in Tasks, NEW op \in Ops, owner'[<<t, op>>] # None
          PROVE  /\ task[t].state \in {"live", "gone"}
                 /\ task[t].state = "live" => record'[<<t, op>>] # "absent"
      BY <2>2, <3>1, <3>4 DEF TypeOK
    <3>5. QED
      BY <2>1, <3>3, <3>4
  <2>4. CASE ~Free(Key(c))
    BY <1>8, <2>4 DEF TypeOK, Begin, Goto
  <2>5. QED
    BY <2>3, <2>4
<1>9. ASSUME NEW c \in Calls, IssueWrite(c) \/ FindNothing(c) \/ Settle(c)
      PROVE  OwnerInv'
  BY <1>9 DEF TypeOK, IssueWrite, FindNothing, Settle
<1>10. ASSUME NEW c \in Calls, RunSucceeds(c) \/ RunFails(c) \/ Abandon(c)
       PROVE  OwnerInv'
  BY <1>10 DEF TypeOK, RunSucceeds, RunFails, Abandon, Goto, Active
<1>11. ASSUME NEW c \in Calls, Complete(c) \/ Fail(c)
       PROVE  OwnerInv'
  <2>1. PICK end \in Ended : pc' = [pc EXCEPT ![c] = end]
    BY <1>11 DEF Complete, Fail, Finish, Goto, Ended
  <2>2. PICK status \in {"succeeded", "failed"} :
          record' = [record EXCEPT ![Key(c)] = status]
    BY <1>11 DEF Complete, Fail, Finish
  <2>3. UNCHANGED <<task, call, write, owner>>
    BY <1>11 DEF Complete, Fail, Finish
  <2>4. ASSUME NEW d \in Calls, PastRecord(d)'
        PROVE  PastRecord(d)
    BY <2>1, <2>3, <2>4 DEF TypeOK, Ended, Refusals
  <2>5. \A t \in Tasks, op \in Ops :
          record'[<<t, op>>] = record[<<t, op>>] \/ record'[<<t, op>>] = status
    BY <2>2 DEF TypeOK
  <2>6. QED
    BY <2>3, <2>4, <2>5
<1>12. ASSUME NEW h \in Handlers, NEW u \in Users, NEW i \in Approvals,
              ReadRequest(h, u, i)
       PROVE  OwnerInv'
  BY <1>12 DEF TypeOK, ReadRequest
<1>13. ASSUME NEW h \in Handlers, Approve(h)
       PROVE  OwnerInv'
  BY <1>13 DEF TypeOK, Approve, Approvable, GrantsAreThere
<1>14. CASE Tick \/ UNCHANGED vars
  BY <1>14 DEF Tick, vars
<1>15. CASE Restart
  BY <1>15 DEF TypeOK, TaskRows, Restart, Active
<1> HIDE DEF OwnerInv
<1>16. QED
  BY <1>1, <1>2, <1>3, <1>4, <1>5, <1>6, <1>7, <1>8, <1>9, <1>10, <1>11,
     <1>12, <1>13, <1>14, <1>15 DEF Next, Step

\* The grant of a guarded call past its approval is an approval.
LEMMA PastGrant ==
  ASSUME Inv, NEW c \in Calls, Guarded(c), PastApproval(c)
  PROVE  GrantOf(c) \in Approvals
BY DEF Inv, TypeInv, TypeOK, TaskRows, CallsHaveTasks, SpenderInv, PastApproval,
       Active, Began, GrantOf

\* Only an entitled approver approves, and what is spent fits and is in time.
LEMMA HumanStep == Inv /\ [Next]_vars => HumanInv'
<1> SUFFICES ASSUME Inv, [Next]_vars
             PROVE  HumanInv'
  OBVIOUS
<1> USE DEF Inv, TypeInv, HumanInv
\* A step that touches neither rows nor handlers, and lets no call past its
\* approval.
<1>1. ASSUME UNCHANGED <<approval, handler>>,
             \A d \in Calls : PastApproval(d)' =>
               /\ PastApproval(d)
               /\ UNCHANGED <<Guarded(d), GrantOf(d), UserOf(d), call[d].op>>
      PROVE  HumanInv'
  BY <1>1 DEF Fits
<1>2. ASSUME NEW t \in Tasks, NEW u \in Users,
             NEW i \in Approvals \cup {None}, Submit(t, u, i)
      PROVE  HumanInv'
  BY <1>1, <1>2
  DEF TypeOK, TaskRows, Submit, CallsHaveTasks, Active, PastApproval, Began,
      Guarded, GrantOf, UserOf
<1>3. ASSUME NEW c \in Calls, NEW t \in Tasks, NEW op \in Ops,
             NEW agent \in {"biz_exec", "data_query"}, Start(c, t, op, agent)
      PROVE  HumanInv'
  BY <1>1, <1>3
  DEF TypeOK, Start, Goto, CallsHaveTasks, PastApproval, Began, Guarded,
      GrantOf, UserOf
<1>4. ASSUME NEW c \in Calls, Lookup(c)
      PROVE  HumanInv'
  <2>1. UNCHANGED <<approval, handler, task, call, write>>
    BY <1>4 DEF Lookup
  <2>2. ASSUME NEW d \in Calls, Guarded(d), PastApproval(d)'
        PROVE  PastApproval(d)
    BY <1>4, <2>2 DEF TypeOK, Lookup, Goto, PastApproval, Began
  <2>3. QED
    BY <2>1, <2>2 DEF Guarded, GrantOf, UserOf, Fits
<1>5. ASSUME NEW c \in Calls, CreateFails(c) \/ CheckGrant(c)
      PROVE  HumanInv'
  <2>1. UNCHANGED <<approval, handler, task, write>>
    BY <1>5 DEF CreateFails, CheckGrant
  <2>2. \A d \in Calls : call'[d].op = call[d].op /\ call'[d].task = call[d].task
    BY <1>5 DEF TypeOK, CreateFails, CheckGrant
  <2>3. ASSUME NEW d \in Calls, PastApproval(d)'
        PROVE  PastApproval(d)
    BY <1>5, <2>1, <2>3
    DEF TypeOK, CreateFails, CheckGrant, Goto, PastApproval, Began
  <2>4. QED
    BY <1>1, <2>1, <2>2, <2>3 DEF Guarded, GrantOf, UserOf
<1>6. ASSUME NEW c \in Calls, Begin(c) \/ IssueWrite(c) \/ FindNothing(c) \/ Settle(c)
      PROVE  HumanInv'
  BY <1>1, <1>6
  DEF TypeOK, Begin, IssueWrite, FindNothing, Settle, Goto, PastApproval, Began, Guarded,
      GrantOf, UserOf
<1>7. ASSUME NEW c \in Calls,
             \/ RunSucceeds(c) \/ RunFails(c) \/ Abandon(c)
             \/ Complete(c) \/ Fail(c)
      PROVE  HumanInv'
  BY <1>1, <1>7
  DEF TypeOK, RunSucceeds, RunFails, Abandon, Complete, Fail, Finish, Goto,
      PastApproval, Began, Guarded, GrantOf, UserOf
<1>8. ASSUME NEW c \in Calls, NEW i \in Approvals, CreatePending(c, i)
      PROVE  HumanInv'
  <2>1. \A j \in Approvals \ {i} : approval'[j] = approval[j]
    BY <1>8 DEF TypeOK, CreatePending
  <2>2. approval[i].status = "absent" /\ approval'[i].status = "pending"
    BY <1>8 DEF TypeOK, CreatePending
  <2>3. UNCHANGED <<handler, task, call, write>>
    BY <1>8 DEF CreatePending
  <2>4. ASSUME NEW d \in Calls, Guarded(d), PastApproval(d)'
        PROVE  PastApproval(d) /\ GrantOf(d) \in Approvals \ {i}
    <3>1. PastApproval(d)
      BY <1>8, <2>3, <2>4 DEF TypeOK, CreatePending, Goto, PastApproval, Began
    <3>2. spender[GrantOf(d)] = d /\ GrantOf(d) \in Approvals
      BY <2>4, <3>1, PastGrant DEF SpenderInv
    <3>3. GrantOf(d) # i
      BY <2>2, <3>2, ConstantsAssumption DEF SpenderInv, ConstantsAssumption
    <3>4. QED
      BY <3>1, <3>2, <3>3
  <2>5. ASSUME NEW d \in Calls, Guarded(d)', PastApproval(d)'
        PROVE  (/\ Fits(GrantOf(d), d)
                /\ approval[GrantOf(d)].consumedAt < approval[GrantOf(d)].expires)'
    BY <2>1, <2>3, <2>4, <2>5 DEF Guarded, GrantOf, UserOf, Fits
  <2>6. ASSUME NEW j \in Approvals, approval'[j].status \in {"approved", "consumed"}
        PROVE  GoodApprover(approval'[j].approver, approval'[j].requester)
    BY <2>1, <2>2, <2>6
  <2>7. ASSUME NEW h \in Handlers, handler'[h].busy
        PROVE  /\ approval'[handler'[h].id].status # "absent"
               /\ GoodApprover(handler'[h].user, approval'[handler'[h].id].requester)
    BY <2>1, <2>2, <2>3, <2>7 DEF GrantsAreThere
  <2>8. QED
    BY <2>5, <2>6, <2>7 DEF GoodApprover
<1>9. ASSUME NEW c \in Calls, Consume(c)
      PROVE  HumanInv'
  <2> DEFINE i == GrantOf(c)
  <2>1. i \in Approvals
    BY <1>9, CallTypes DEF Consume, GrantsAreThere, Active
  <2>2. UNCHANGED <<handler, task, call, write>>
    BY <1>9 DEF Consume
  <2>3. CASE Consumable(i, c)
    <3>1. /\ approval' = [approval EXCEPT ![i].status = "consumed",
                                          ![i].consumedAt = call[c].now]
          /\ pc' = [pc EXCEPT ![c] = "begin"]
      BY <1>9, <2>3 DEF Consume, Goto
    <3>2. /\ \A j \in Approvals \ {i} : approval'[j] = approval[j]
          /\ approval'[i].status = "consumed"
          /\ approval'[i].consumedAt = call[c].now
          /\ approval'[i].approver = approval[i].approver
          /\ approval'[i].requester = approval[i].requester
          /\ approval'[i].op = approval[i].op
          /\ approval'[i].expires = approval[i].expires
      <4>1. approval \in [Approvals -> ApprovalRows] /\ call[c].now \in Time
        BY DEF TypeOK
      <4>2. QED
        BY ONLY <2>1, <3>1, <4>1, RowsAfterConsume
    <3>3. /\ approval[i].status = "approved" /\ Fits(i, c)
          /\ call[c].now < approval[i].expires
      BY <2>3 DEF Consumable
    <3>4. ASSUME NEW d \in Calls, Guarded(d)', PastApproval(d)'
          PROVE  (/\ Fits(GrantOf(d), d)
                  /\ approval[GrantOf(d)].consumedAt < approval[GrantOf(d)].expires)'
      <4>1. CASE d = c
        BY <2>1, <2>2, <3>2, <3>3, <4>1 DEF GrantOf, UserOf, Fits
      <4>2. CASE d # c
        <5>1. Guarded(d) /\ PastApproval(d)
          BY <2>2, <3>1, <3>4, <4>2 DEF TypeOK, Guarded, PastApproval, Began
        <5>2. GrantOf(d) \in Approvals /\ spender[GrantOf(d)] = d
          BY <5>1, PastGrant DEF SpenderInv
        <5>3. GrantOf(d) # i
          BY <3>3, <5>2, ConstantsAssumption DEF SpenderInv, ConstantsAssumption
        <5>4. QED
          BY <2>2, <3>2, <5>1, <5>2, <5>3 DEF GrantOf, UserOf, Fits
      <4>3. QED
        BY <4>1, <4>2
    <3>5. ASSUME NEW j \in Approvals, approval'[j].status \in {"approved", "consumed"}
          PROVE  GoodApprover(approval'[j].approver, approval'[j].requester)
      BY <2>1, <3>2, <3>3, <3>5
    <3>6. ASSUME NEW h \in Handlers, handler'[h].busy
          PROVE  /\ approval'[handler'[h].id].status # "absent"
                 /\ GoodApprover(handler'[h].user, approval'[handler'[h].id].requester)
      BY <2>1, <2>2, <3>2, <3>6 DEF GrantsAreThere
    <3>7. QED
      BY <3>4, <3>5, <3>6 DEF GoodApprover
  <2>4. CASE ~Consumable(i, c)
    BY <1>1, <1>9, <2>4
    DEF TypeOK, Consume, Goto, PastApproval, Began, Guarded, GrantOf, UserOf
  <2>5. QED
    BY <2>3, <2>4
<1>10. ASSUME NEW h \in Handlers, NEW u \in Users, NEW i \in Approvals,
              ReadRequest(h, u, i)
       PROVE  HumanInv'
  <2>1. UNCHANGED <<approval, task, pc, call, write>>
    BY <1>10 DEF ReadRequest
  <2>2. ASSUME NEW g \in Handlers, handler'[g].busy
        PROVE  /\ approval[handler'[g].id].status # "absent"
               /\ GoodApprover(handler'[g].user, approval[handler'[g].id].requester)
    <3>1. CASE handler'[g] = handler[g]
      BY <2>2, <3>1
    <3>2. CASE handler'[g] # handler[g]
      <4>1. /\ handler' = [handler EXCEPT ![h] =
                 [busy |-> TRUE, user |-> u, id |-> i, now |-> clock]]
            /\ approval[i].status = "pending"
            /\ GoodApprover(u, approval[i].requester)
        BY <1>10, <3>2 DEF ReadRequest, GoodApprover
      <4>2. handler'[g].user = u /\ handler'[g].id = i
        BY <3>2, <4>1 DEF TypeOK
      <4>3. QED
        BY <4>1, <4>2
    <3>3. QED
      BY <3>1, <3>2
  <2>3. QED
    BY <2>1, <2>2 DEF PastApproval, Began, Guarded, GrantOf, UserOf, Fits, GoodApprover
<1>11. ASSUME NEW h \in Handlers, Approve(h)
       PROVE  HumanInv'
  <2> DEFINE i == handler[h].id
  <2>1. i \in Approvals /\ handler[h].user \in Users /\ handler[h].busy
    BY <1>11 DEF Approve, GrantsAreThere
  <2>2. UNCHANGED <<task, pc, call, write>>
    BY <1>11 DEF Approve
  <2>3. \A g \in Handlers : handler'[g].busy => handler'[g] = handler[g]
    BY <1>11 DEF TypeOK, Approve
  <2>4. CASE Approvable(h)
    <3>1. approval' = [approval EXCEPT ![i].status = "approved",
                                       ![i].approver = handler[h].user]
      BY <1>11, <2>4 DEF Approve
    <3>2. /\ \A j \in Approvals \ {i} : approval'[j] = approval[j]
          /\ approval'[i].status = "approved"
          /\ approval'[i].approver = handler[h].user
          /\ approval'[i].requester = approval[i].requester
          /\ approval'[i].op = approval[i].op
          /\ approval'[i].expires = approval[i].expires
          /\ approval'[i].consumedAt = approval[i].consumedAt
      <4>1. approval \in [Approvals -> ApprovalRows]
        BY DEF TypeOK
      <4>2. QED
        BY ONLY <2>1, <3>1, <4>1, RowsAfterApprove
    <3>3. ASSUME NEW d \in Calls, Guarded(d)', PastApproval(d)'
          PROVE  (/\ Fits(GrantOf(d), d)
                  /\ approval[GrantOf(d)].consumedAt < approval[GrantOf(d)].expires)'
      <4>1. Guarded(d) /\ PastApproval(d)
        BY <2>2, <3>3 DEF Guarded, PastApproval, Began
      <4>2. GrantOf(d) \in Approvals
        BY <4>1, PastGrant
      <4>3. QED
        BY <2>2, <3>2, <4>1, <4>2 DEF GrantOf, UserOf, Fits
    <3>4. ASSUME NEW j \in Approvals, approval'[j].status \in {"approved", "consumed"}
          PROVE  GoodApprover(approval'[j].approver, approval'[j].requester)
      BY <2>1, <3>2, <3>4
    <3>5. ASSUME NEW g \in Handlers, handler'[g].busy
          PROVE  /\ approval'[handler'[g].id].status # "absent"
                 /\ GoodApprover(handler'[g].user, approval'[handler'[g].id].requester)
      BY <2>1, <2>3, <3>2, <3>5 DEF GrantsAreThere
    <3>6. QED
      BY <3>3, <3>4, <3>5 DEF GoodApprover
  <2>5. CASE ~Approvable(h)
    <3>1. UNCHANGED approval
      BY <1>11, <2>5 DEF Approve
    <3>2. QED
      BY <2>2, <2>3, <3>1
      DEF PastApproval, Began, Guarded, GrantOf, UserOf, Fits, GoodApprover
  <2>6. QED
    BY <2>4, <2>5
<1>12. CASE Tick \/ UNCHANGED vars
  BY <1>1, <1>12
  DEF Tick, vars, PastApproval, Began, Guarded, GrantOf, UserOf
<1>13. CASE Restart
  <2>1. \A t \in Tasks : task'[t].grant = task[t].grant /\ task'[t].user = task[t].user
    BY <1>13 DEF TypeOK, TaskRows, Restart
  <2>2. UNCHANGED <<approval, call, write>> /\ \A h \in Handlers : ~handler'[h].busy
    BY <1>13 DEF Restart
  <2>3. ASSUME NEW d \in Calls, PastApproval(d)'
        PROVE  PastApproval(d) /\ call[d].task \in Tasks
    BY <1>13, <2>3 DEF TypeOK, Restart, Active, CallsHaveTasks, PastApproval, Began
  <2>4. QED
    BY <2>1, <2>2, <2>3 DEF Guarded, GrantOf, UserOf, Fits, GoodApprover
<1> HIDE DEF HumanInv
<1>14. QED
  BY <1>2, <1>3, <1>4, <1>5, <1>6, <1>7, <1>8, <1>9, <1>10, <1>11, <1>12, <1>13
  DEF Next, Step

-----------------------------------------------------------------------------
(* The theorems.                                                           *)

\* A new system has no approval, no record and no call.
LEMMA InitInv == Init => Inv
BY ConstantsAssumption
DEF Init, Inv, TypeInv, TypeOK, CallsHaveTasks, GrantsAreThere, SpenderInv,
    OwnerInv, HumanInv, PastApproval, PastRecord, Began, NoApproval,
    ApprovalRows, TaskRows, Keys, Time, Active, ConstantsAssumption

\* The invariant holds of every reachable state.
LEMMA Invariance == Spec => []Inv
<1>1. Inv /\ [Next]_vars => Inv'
  BY TypeStep, CallsStep, GrantsStep, SpenderStep, OwnerStep, HumanStep
  DEF Inv, TypeInv
<1>2. QED
  BY InitInv, <1>1, PTL DEF Spec

\* One approval is worth one write: the call that sent the write of a guarded
\* operation is the one that consumed its approval.
THEOREM ApprovalSpentOnce == Spec => []OneWritePerApproval
<1>1. Inv => OneWritePerApproval
  BY DEF Inv, SpenderInv, PastApproval, Issued, Began, OneWritePerApproval
<1>2. QED
  BY <1>1, Invariance, PTL

\* One idempotency key is worth one write, with either store, whatever fails or
\* restarts: the call that sent the write is the one that took the key.
THEOREM KeyTakenOnce == Spec => []OneWritePerKey
<1>1. Inv => OneWritePerKey
  BY DEF Inv, OwnerInv, PastRecord, Issued, Began, OneWritePerKey
<1>2. QED
  BY <1>1, Invariance, PTL

\* No high-risk write without an approval that fits it, given in time by an
\* approver of the same tenant and store other than the requester, or an admin.
THEOREM HumanInTheLoop == Spec => []WriteIsApproved
<1>1. Inv => WriteIsApproved
  <2> SUFFICES ASSUME Inv, NEW c \in Calls, Began(c), Guarded(c)
               PROVE  /\ GrantOf(c) # None
                      /\ LET row == approval[GrantOf(c)] IN
                           /\ row.status = "consumed"
                           /\ row.op = call[c].op
                           /\ SameScope(UserOf(c), row.requester)
                           /\ row.consumedAt < row.expires
                           /\ row.approver \in Approvers
                           /\ SameScope(row.approver, row.requester)
                           /\ row.approver = row.requester => row.approver \in Admins
    BY DEF WriteIsApproved, Issued, Began
  <2> DEFINE i == GrantOf(c)
  <2>1. i \in Approvals /\ i # None /\ spender[i] = c
    BY PastGrant DEF Inv, SpenderInv, PastApproval
  <2>2. approval[i].status = "consumed"
    BY <2>1, ConstantsAssumption DEF Inv, SpenderInv, ConstantsAssumption
  <2>3. Fits(i, c) /\ approval[i].consumedAt < approval[i].expires
    BY DEF Inv, HumanInv, PastApproval
  <2>4. GoodApprover(approval[i].approver, approval[i].requester)
    BY <2>1, <2>2 DEF Inv, HumanInv
  <2>5. QED
    BY <2>1, <2>2, <2>3, <2>4 DEF Fits, GoodApprover, MayApprove
<1>2. QED
  BY <1>1, Invariance, PTL

\* What a step does to the approval rows: nothing, or one of three updates.
LEMMA RowSteps ==
  ASSUME Inv, [Next]_vars
  PROVE  \/ UNCHANGED approval
         \/ \E i \in Approvals :
              /\ approval[i].status = "absent"
              /\ \A j \in Approvals \ {i} : approval'[j] = approval[j]
         \/ \E i \in Approvals :
              /\ approval[i].status = "pending"
              /\ \A j \in Approvals \ {i} : approval'[j] = approval[j]
         \/ \E i \in Approvals :
              /\ approval[i].status = "approved"
              /\ approval'[i].status = "consumed"
              /\ approval'[i].approver = approval[i].approver
              /\ \A j \in Approvals \ {i} : approval'[j] = approval[j]
<1> DEFINE Goal == \/ UNCHANGED approval
                   \/ \E i \in Approvals :
                        /\ approval[i].status = "absent"
                        /\ \A j \in Approvals \ {i} : approval'[j] = approval[j]
                   \/ \E i \in Approvals :
                        /\ approval[i].status = "pending"
                        /\ \A j \in Approvals \ {i} : approval'[j] = approval[j]
                   \/ \E i \in Approvals :
                        /\ approval[i].status = "approved"
                        /\ approval'[i].status = "consumed"
                        /\ approval'[i].approver = approval[i].approver
                        /\ \A j \in Approvals \ {i} : approval'[j] = approval[j]
<1> USE DEF Inv, TypeInv
<1>1. ASSUME NEW c \in Calls, NEW i \in Approvals, CreatePending(c, i)
      PROVE  Goal
  BY <1>1 DEF TypeOK, CreatePending
<1>2. ASSUME NEW c \in Calls, Consume(c)
      PROVE  Goal
  <2> DEFINE i == GrantOf(c)
  <2>1. i \in Approvals
    BY <1>2, CallTypes DEF Consume, GrantsAreThere, Active
  <2>2. CASE Consumable(i, c)
    <3>1. approval' = [approval EXCEPT ![i].status = "consumed",
                                       ![i].consumedAt = call[c].now]
      BY <1>2, <2>2 DEF Consume
    <3>2. approval \in [Approvals -> ApprovalRows] /\ call[c].now \in Time
      BY DEF TypeOK
    <3>3. /\ approval'[i].status = "consumed"
          /\ approval'[i].approver = approval[i].approver
          /\ \A j \in Approvals \ {i} : approval'[j] = approval[j]
      BY ONLY <2>1, <3>1, <3>2, RowsAfterConsume
    <3>4. QED
      BY <2>1, <2>2, <3>3 DEF Consumable
  <2>3. CASE ~Consumable(i, c)
    BY <1>2, <2>3 DEF Consume
  <2>4. QED
    BY <2>2, <2>3
<1>3. ASSUME NEW h \in Handlers, Approve(h)
      PROVE  Goal
  BY <1>3 DEF TypeOK, Approve, Approvable, GrantsAreThere
<1>4. CASE UNCHANGED approval
  BY <1>4
<1> HIDE DEF Goal
<1>5. QED
  <2>1. ASSUME NEW c \in Calls, Step(c) \/ Settle(c) \/ Abandon(c)
        PROVE  Goal
    <3>1. \/ \E i \in Approvals : CreatePending(c, i)
          \/ Consume(c)
          \/ Lookup(c) \/ CreateFails(c) \/ CheckGrant(c) \/ Begin(c)
          \/ IssueWrite(c) \/ FindNothing(c) \/ RunSucceeds(c) \/ RunFails(c)
          \/ Complete(c) \/ Fail(c) \/ Settle(c) \/ Abandon(c)
      BY <2>1 DEF Step
    <3>2. CASE \/ Lookup(c) \/ CreateFails(c) \/ CheckGrant(c) \/ Begin(c)
               \/ IssueWrite(c) \/ FindNothing(c) \/ RunSucceeds(c) \/ RunFails(c)
               \/ Complete(c) \/ Fail(c) \/ Settle(c) \/ Abandon(c)
      <4>1. UNCHANGED approval
        BY ONLY <3>2
        DEF Lookup, CreateFails, CheckGrant, Begin, IssueWrite, FindNothing, RunSucceeds,
            RunFails, Complete, Fail, Finish, Settle, Abandon
      <4>2. QED
        BY <4>1 DEF Goal
    <3>3. QED
      BY <1>1, <1>2, <3>1, <3>2
  <2>2. CASE Tick \/ Restart \/ UNCHANGED vars
    BY <1>4, <2>2 DEF Tick, Restart, vars
  <2>3. QED
    BY <1>3, <1>4, <2>1, <2>2 DEF Next, Submit, Start, ReadRequest, Goal

\* An approval is never reopened, even by an approver who read it while it was
\* pending.
THEOREM NeverReopened == Spec => ApprovalNeverReopens
<1>1. Inv /\ [Next]_vars =>
        [\A i \in Approvals :
           /\ approval[i].status = "consumed" => approval'[i] = approval[i]
           /\ approval[i].status = "approved" /\ approval'[i] # approval[i] =>
                /\ approval'[i].status = "consumed"
                /\ approval'[i].approver = approval[i].approver]_vars
  BY RowSteps
<1>2. QED
  BY <1>1, Invariance, PTL DEF Spec, ApprovalNeverReopens

-----------------------------------------------------------------------------
(* Refinement.                                                             *)

\* The statuses of the rows after an update of one of them.
LEMMA StatusAfter ==
  ASSUME NEW rows \in [Approvals -> ApprovalRows], NEW new, NEW i \in Approvals,
         NEW status,
         new \in [Approvals -> ApprovalRows],
         new[i].status = status,
         \A j \in Approvals \ {i} : new[j] = rows[j]
  PROVE  [j \in Approvals |-> new[j].status]
           = [[j \in Approvals |-> rows[j].status] EXCEPT ![i] = status]
OBVIOUS

\* Every step of SkillExecutor, of the approval endpoint and of the database is
\* a step of the abstract promise, or changes nothing the promise speaks of.
LEMMA PromiseStep ==
  ASSUME Inv, [Next]_vars
  PROVE  [Promise!PromiseNext]_(Promise!promiseVars)
<1> DEFINE permit == [i \in Approvals |-> approval[i].status]
           written == {c \in Calls : write[c] = "landed"}
           Goal == [Promise!PromiseNext]_(Promise!promiseVars)
<1> USE DEF Inv, TypeInv
<1>1. ASSUME UNCHANGED <<permit, spender, owner, written>>
      PROVE  Goal
  BY <1>1 DEF Promise!promiseVars
<1>2. ASSUME NEW c \in Calls, NEW i \in Approvals, CreatePending(c, i)
      PROVE  Goal
  <2>1. /\ approval \in [Approvals -> ApprovalRows]
        /\ approval' \in [Approvals -> ApprovalRows]
    BY TypeStep DEF TypeOK
  <2>2. /\ approval[i].status = "absent" /\ approval'[i].status = "pending"
        /\ \A j \in Approvals \ {i} : approval'[j] = approval[j]
    BY <1>2 DEF TypeOK, CreatePending
  <2>3. permit' = [permit EXCEPT ![i] = "pending"]
    BY <2>1, <2>2, StatusAfter
  <2>4. UNCHANGED <<spender, owner, written>>
    BY <1>2 DEF CreatePending
  <2>5. Promise!Ask(i)
    BY <2>2, <2>3, <2>4 DEF Promise!Ask
  <2>6. QED
    BY <2>5 DEF Promise!PromiseNext
<1>3. ASSUME NEW h \in Handlers, Approve(h)
      PROVE  Goal
  <2>0. PICK i \in Approvals : i = handler[h].id
    BY <1>3 DEF Approve, GrantsAreThere
  <2>1. /\ approval \in [Approvals -> ApprovalRows]
        /\ approval' \in [Approvals -> ApprovalRows]
    BY TypeStep DEF TypeOK
  <2>2. handler[h].user \in Users
    BY <1>3 DEF Approve, GrantsAreThere
  <2>3. UNCHANGED <<spender, owner, written>>
    BY <1>3 DEF Approve
  <2>4. CASE Approvable(h)
    <3>1. approval' = [approval EXCEPT ![i].status = "approved",
                                       ![i].approver = handler[h].user]
      BY <1>3, <2>0, <2>4 DEF Approve
    <3>2. /\ approval'[i].status = "approved"
          /\ \A j \in Approvals \ {i} : approval'[j] = approval[j]
      BY ONLY <2>1, <2>2, <3>1, RowsAfterApprove
    <3>3. permit' = [permit EXCEPT ![i] = "approved"]
      BY <2>1, <2>2, <3>2, StatusAfter
    <3>4. permit[i] = "pending"
      BY <2>0, <2>4 DEF Approvable
    <3>5. Promise!Grant(i)
      BY <2>3, <3>3, <3>4 DEF Promise!Grant
    <3>6. QED
      BY <3>5 DEF Promise!PromiseNext
  <2>5. CASE ~Approvable(h)
    BY <1>1, <1>3, <2>3, <2>5 DEF Approve
  <2>6. QED
    BY <2>4, <2>5
<1>4. ASSUME NEW c \in Calls, Consume(c)
      PROVE  Goal
  <2> DEFINE i == GrantOf(c)
  <2>1. /\ approval \in [Approvals -> ApprovalRows]
        /\ approval' \in [Approvals -> ApprovalRows]
        /\ call[c].now \in Time
    BY TypeStep DEF TypeOK
  <2>2. i \in Approvals
    BY <1>4, CallTypes DEF Consume, GrantsAreThere, Active
  <2>3. UNCHANGED <<owner, written>>
    BY <1>4 DEF Consume
  <2>4. CASE Consumable(i, c)
    <3>1. /\ approval' = [approval EXCEPT ![i].status = "consumed",
                                          ![i].consumedAt = call[c].now]
          /\ spender' = [spender EXCEPT ![i] = c]
      BY <1>4, <2>4 DEF Consume
    <3>2. /\ approval'[i].status = "consumed"
          /\ \A j \in Approvals \ {i} : approval'[j] = approval[j]
      BY ONLY <2>1, <2>2, <3>1, RowsAfterConsume
    <3>3. permit' = [permit EXCEPT ![i] = "consumed"]
      BY <2>1, <2>2, <3>2, StatusAfter
    <3>4. permit[i] = "approved"
      BY <2>2, <2>4 DEF Consumable
    <3>5. Promise!Spend(i, c)
      BY <2>3, <3>1, <3>3, <3>4 DEF Promise!Spend
    <3>6. QED
      BY <2>2, <3>5 DEF Promise!PromiseNext
  <2>5. CASE ~Consumable(i, c)
    BY <1>1, <1>4, <2>3, <2>5 DEF Consume
  <2>6. QED
    BY <2>4, <2>5
<1>5. ASSUME NEW c \in Calls, Begin(c)
      PROVE  Goal
  <2>1. UNCHANGED <<permit, spender, written>>
    BY <1>5 DEF Begin
  <2>2. /\ call[c].task \in Tasks /\ call[c].op \in Ops /\ Key(c) \in Keys
        /\ task[call[c].task].state = "live"
    BY <1>5, CallTypes DEF Begin, Active
  <2>3. CASE Free(Key(c))
    <3>1. owner[Key(c)] = None
      BY <2>2, <2>3 DEF Free, Key, OwnerInv
    <3>2. owner' = [owner EXCEPT ![Key(c)] = c]
      BY <1>5, <2>3 DEF Begin
    <3>3. Promise!Take(Key(c), c)
      BY <2>1, <3>1, <3>2 DEF Promise!Take
    <3>4. QED
      BY <2>2, <3>3 DEF Promise!PromiseNext
  <2>4. CASE ~Free(Key(c))
    BY <1>1, <1>5, <2>1, <2>4 DEF Begin
  <2>5. QED
    BY <2>3, <2>4
<1>6. ASSUME NEW c \in Calls, Settle(c)
      PROVE  Goal
  <2>1. UNCHANGED <<permit, spender, owner>> /\ write[c] = "issued"
    BY <1>6 DEF Settle
  <2>2. PICK end \in {"landed", "lost"} : write' = [write EXCEPT ![c] = end]
    BY <1>6 DEF Settle
  <2>3. CASE end = "lost"
    <3>1. written' = written
      BY <2>1, <2>2, <2>3 DEF TypeOK
    <3>2. QED
      BY <1>1, <2>1, <3>1
  <2>4. CASE end = "landed"
    <3>1. c \notin written /\ written' = written \cup {c}
      BY <2>1, <2>2, <2>4 DEF TypeOK
    <3>2. /\ owner[Key(c)] = c
          /\ Key(c) \in Keys
          /\ Key(c) \in GuardedKeys => \E i \in Approvals : spender[i] = c
      <4>1. Began(c) /\ call[c].task \in Tasks /\ call[c].op \in Ops
        BY <2>1 DEF Began, CallsHaveTasks
      <4>2. Key(c) \in GuardedKeys => Guarded(c)
        BY <4>1 DEF Key, GuardedKeys, Guarded
      <4>3. Guarded(c) => GrantOf(c) \in Approvals /\ spender[GrantOf(c)] = c
        BY <4>1, PastGrant DEF SpenderInv, PastApproval
      <4>4. QED
        BY <4>1, <4>2, <4>3 DEF OwnerInv, PastRecord, Key, Keys
    <3>3. Promise!Write(Key(c), c)
      BY <2>1, <3>1, <3>2 DEF Promise!Write
    <3>4. QED
      BY <3>2, <3>3 DEF Promise!PromiseNext
  <2>5. QED
    BY <2>2, <2>3, <2>4
<1>7. ASSUME NEW c \in Calls, IssueWrite(c) \/ FindNothing(c)
      PROVE  Goal
  <2>1. written' = written
    BY <1>7 DEF TypeOK, IssueWrite, FindNothing
  <2>2. UNCHANGED <<permit, spender, owner>>
    BY <1>7 DEF IssueWrite, FindNothing
  <2>3. QED
    BY <1>1, <2>1, <2>2
<1>8. ASSUME UNCHANGED <<approval, spender, owner, write>>
      PROVE  Goal
  BY <1>1, <1>8
<1> HIDE DEF Goal
<1>9. ASSUME NEW c \in Calls, Step(c) \/ Settle(c) \/ Abandon(c)
      PROVE  Goal
  <2>1. \/ \E i \in Approvals : CreatePending(c, i)
        \/ Consume(c) \/ Begin(c) \/ IssueWrite(c) \/ FindNothing(c) \/ Settle(c)
        \/ Lookup(c) \/ CreateFails(c) \/ CheckGrant(c) \/ RunSucceeds(c)
        \/ RunFails(c) \/ Complete(c) \/ Fail(c) \/ Abandon(c)
    BY <1>9 DEF Step
  <2>2. CASE \/ Lookup(c) \/ CreateFails(c) \/ CheckGrant(c) \/ RunSucceeds(c)
             \/ RunFails(c) \/ Complete(c) \/ Fail(c) \/ Abandon(c)
    <3>1. UNCHANGED <<approval, spender, owner, write>>
      BY ONLY <2>2
      DEF Lookup, CreateFails, CheckGrant, RunSucceeds, RunFails, Complete,
          Fail, Finish, Abandon
    <3>2. QED
      BY <1>8, <3>1
  <2>3. QED
    BY <1>2, <1>4, <1>5, <1>6, <1>7, <2>1, <2>2
<1>10. ASSUME NEW t \in Tasks, NEW u \in Users,
              NEW i \in Approvals \cup {None}, Submit(t, u, i)
       PROVE  Goal
  BY <1>8, <1>10 DEF Submit
<1>11. ASSUME NEW c \in Calls, NEW t \in Tasks, NEW op \in Ops,
              NEW agent \in {"biz_exec", "data_query"}, Start(c, t, op, agent)
       PROVE  Goal
  BY <1>8, <1>11 DEF Start
<1>12. ASSUME NEW h \in Handlers, NEW u \in Users, NEW i \in Approvals,
              ReadRequest(h, u, i)
       PROVE  Goal
  BY <1>8, <1>12 DEF ReadRequest
<1>13. CASE Tick \/ Restart \/ UNCHANGED vars
  <2>1. UNCHANGED <<approval, spender, owner, write>>
    BY ONLY <1>13 DEF Tick, Restart, vars
  <2>2. QED
    BY <1>1, <2>1 DEF Goal
<1>14. QED
  <2>1. CASE Next
    <3>1. \/ \E t \in Tasks, u \in Users, i \in Approvals \cup {None} : Submit(t, u, i)
          \/ \E c \in Calls, t \in Tasks, op \in Ops, agent \in {"biz_exec", "data_query"} :
               Start(c, t, op, agent)
          \/ \E c \in Calls : Step(c) \/ Settle(c) \/ Abandon(c)
          \/ \E h \in Handlers, u \in Users, i \in Approvals : ReadRequest(h, u, i)
          \/ \E h \in Handlers : Approve(h)
          \/ Tick \/ Restart
      BY <2>1 DEF Next
    <3>2. QED
      BY <1>3, <1>9, <1>10, <1>11, <1>12, <1>13, <3>1 DEF Goal
  <2>2. QED
    BY <1>13, <2>1 DEF Goal

\* SkillExecutor, with its approval table and its idempotency store, implements
\* the abstract promise.
THEOREM ImplementsPromise == Spec => KeepsPromise
<1>1. Init => Promise!PromiseInit
  BY DEF Init, NoApproval, Promise!PromiseInit
<1>2. Inv /\ [Next]_vars => [Promise!PromiseNext]_(Promise!promiseVars)
  BY PromiseStep
<1>3. QED
  BY <1>1, <1>2, Invariance, PTL DEF Spec, KeepsPromise, Promise!PromiseSpec

-----------------------------------------------------------------------------
(* What a protected write tells its caller, and the records it leaves.     *)

\* A call that is past idle stays so, with its key; a skill that ran to its end
\* has done so.
Kept ==
  \A c \in Calls :
    /\ pc[c] # "idle" => pc'[c] # "idle" /\ Key(c)' = Key(c)
    /\ pc[c] # "idle" /\ RanToEnd(c) => RanToEnd(c)'

\* No step takes back a key or what a skill has done.
LEMMA KeptByStep == TypeInv /\ [Next]_vars => Kept
<1> SUFFICES ASSUME TypeInv, [Next]_vars
             PROVE  Kept
  OBVIOUS
<1> USE DEF TypeInv, TypeOK, Kept, Key, RanToEnd
<1>1. ASSUME UNCHANGED <<pc, call, write>>
      PROVE  Kept
  BY <1>1
<1>2. ASSUME NEW c \in Calls, NEW to \in Active \cup Ended, Goto(c, to),
             UNCHANGED <<call, write>>
      PROVE  Kept
  BY <1>2 DEF Goto, Active, Ended, Refusals
<1>3. ASSUME NEW c \in Calls, NEW t \in Tasks, NEW op \in Ops,
             NEW agent \in {"biz_exec", "data_query"}, Start(c, t, op, agent)
      PROVE  Kept
  BY <1>3 DEF Start, Goto
<1>4. ASSUME NEW c \in Calls, CheckGrant(c)
      PROVE  Kept
  BY <1>4 DEF CheckGrant, Goto
<1>5. ASSUME NEW c \in Calls, IssueWrite(c) \/ FindNothing(c) \/ Settle(c)
      PROVE  Kept
  BY <1>5 DEF IssueWrite, FindNothing, Settle
<1>6. ASSUME NEW c \in Calls,
             \/ Lookup(c) \/ CreateFails(c) \/ Consume(c) \/ Begin(c)
             \/ RunSucceeds(c) \/ RunFails(c) \/ Complete(c) \/ Fail(c) \/ Abandon(c)
             \/ \E i \in Approvals : CreatePending(c, i)
      PROVE  Kept
  <2>1. UNCHANGED <<call, write>>
    BY <1>6 DEF Lookup, CreateFails, Consume, Begin, RunSucceeds, RunFails,
                Complete, Fail, Finish, Abandon, CreatePending
  <2>2. \E to \in Active \cup Ended : Goto(c, to)
    BY <1>6 DEF Lookup, CreateFails, Consume, Begin, RunSucceeds, RunFails,
                Complete, Fail, Finish, Abandon, CreatePending, Active, Ended,
                Refusals
  <2>3. QED
    BY <1>2, <2>1, <2>2
<1>7. ASSUME NEW h \in Handlers, Approve(h)
      PROVE  Kept
  BY <1>1, <1>7 DEF Approve
<1>8. CASE Restart
  BY <1>8 DEF Restart, Active
<1> HIDE DEF Kept
<1>9. QED
  BY <1>1, <1>3, <1>4, <1>5, <1>6, <1>7, <1>8
  DEF Next, Step, Submit, ReadRequest, Tick, vars

-----------------------------------------------------------------------------
\* What a step does to the records and to the results told.
AtWork == {"run", "complete", "fail", "abandoned"}
Told == {"succeeded", "replayed"}

StepFacts ==
  /\ \A c \in Calls : pc[c] \in AtWork => pc'[c] \in AtWork \/ Complete(c) \/ Fail(c)
  /\ \A k \in Keys : record'[k] = "running" =>
       \/ record[k] = "running"
       \/ \E c \in Calls : pc[c] # "idle" /\ pc'[c] = "run" /\ Key(c) = k
  /\ \A k \in Keys : record'[k] = "succeeded" =>
       record[k] = "succeeded" \/ \E c \in Calls : pc[c] = "complete" /\ Key(c) = k
  /\ \A c \in Calls : pc'[c] = "complete" => pc[c] = "complete" \/ (pc[c] = "run" /\ RanToEnd(c))
  /\ \A c \in Calls : pc'[c] \in Told =>
       \/ pc[c] \in Told \cup {"complete"}
       \/ pc[c] = "lookup" /\ record[Key(c)] = "succeeded"

\* Every step does to records and results what StepFacts says.
LEMMA FactsOfStep == TypeInv /\ [Next]_vars => StepFacts
<1> SUFFICES ASSUME TypeInv, [Next]_vars
             PROVE  StepFacts
  OBVIOUS
<1> USE DEF TypeInv, TypeOK, StepFacts, AtWork, Told
<1>1. ASSUME UNCHANGED <<pc, record>>
      PROVE  StepFacts
  BY <1>1
<1>2. ASSUME NEW c \in Calls, NEW t \in Tasks, NEW op \in Ops,
             NEW agent \in {"biz_exec", "data_query"}, Start(c, t, op, agent)
      PROVE  StepFacts
  BY <1>2 DEF Start, Goto
<1>3. ASSUME NEW c \in Calls, Lookup(c)
      PROVE  StepFacts
  BY <1>3 DEF Lookup, Replayable, Goto
<1>4. ASSUME NEW c \in Calls, CreateFails(c) \/ \E i \in Approvals : CreatePending(c, i)
      PROVE  StepFacts
  BY <1>4 DEF CreateFails, CreatePending, Goto
<1>5. ASSUME NEW c \in Calls, CheckGrant(c) \/ Consume(c)
      PROVE  StepFacts
  BY <1>5 DEF CheckGrant, Consume, Goto
<1>6. ASSUME NEW c \in Calls, Begin(c)
      PROVE  StepFacts
  BY <1>6 DEF Begin, Goto
<1>7. ASSUME NEW c \in Calls, RunSucceeds(c) \/ RunFails(c) \/ Abandon(c)
      PROVE  StepFacts
  BY <1>7 DEF CallsHaveTasks, RanToEnd, RunSucceeds, RunFails, Abandon, Goto
<1>8. ASSUME NEW c \in Calls, Complete(c)
      PROVE  StepFacts
  BY <1>8 DEF Complete, Finish, Goto
<1>9. ASSUME NEW c \in Calls, Fail(c)
      PROVE  StepFacts
  BY <1>9 DEF Fail, Finish, Goto
<1>10. CASE Restart
  BY <1>10 DEF Restart
<1> HIDE DEF StepFacts, TypeInv, TypeOK
<1>11. CASE \/ \E t \in Tasks, u \in Users, i \in Approvals \cup {None} : Submit(t, u, i)
            \/ \E c \in Calls : IssueWrite(c) \/ FindNothing(c) \/ Settle(c)
            \/ \E h \in Handlers, u \in Users, i \in Approvals : ReadRequest(h, u, i)
            \/ \E h \in Handlers : Approve(h)
            \/ Tick \/ UNCHANGED vars
  <2>1. UNCHANGED <<pc, record>>
    BY <1>11 DEF Submit, IssueWrite, FindNothing, Settle, ReadRequest, Approve, Tick, vars
  <2>2. QED
    BY <1>1, <2>1
<1>12. QED
  BY <1>2, <1>3, <1>4, <1>5, <1>6, <1>7, <1>8, <1>9, <1>10, <1>11 DEF Next, Step

-----------------------------------------------------------------------------
(* The theorems.                                                           *)

\* Complete is reached, and a success recorded, only after the skill ran to its
\* end.
EndInv ==
  /\ \A c \in Calls : pc[c] = "complete" => RanToEnd(c)
  /\ \A k \in Keys : record[k] = "succeeded" =>
       \E d \in Calls : RanToEnd(d) /\ Key(d) = k

ResultInv == Inv /\ EndInv /\ SuccessIsReal /\ RunningHasOwner

\* What a skill has done under a key stays done.
LEMMA EndStays ==
  ASSUME TypeInv, CallsHaveTasks, Kept, NEW k, NEW d \in Calls,
         RanToEnd(d), Key(d) = k
  PROVE  RanToEnd(d)' /\ Key(d)' = k
BY DEF CallsHaveTasks, Kept, RanToEnd

\* Every step keeps the invariant.
LEMMA ResultStep == ResultInv /\ [Next]_vars => ResultInv'
<1> SUFFICES ASSUME ResultInv, [Next]_vars
             PROVE  ResultInv'
  OBVIOUS
<1>1. Inv /\ TypeInv /\ CallsHaveTasks /\ Inv'
  BY TypeStep, CallsStep, GrantsStep, SpenderStep, OwnerStep, HumanStep
  DEF ResultInv, Inv, TypeInv
<1>2. Kept /\ StepFacts
  BY <1>1, KeptByStep, FactsOfStep
<1>3. \A k : (\E d \in Calls : RanToEnd(d) /\ Key(d) = k)
             => \E d \in Calls : RanToEnd(d)' /\ Key(d)' = k
  BY <1>1, <1>2, EndStays
<1>4. EndInv'
  <2>1. ASSUME NEW c \in Calls, pc'[c] = "complete"
        PROVE  RanToEnd(c)'
    BY <1>2, <2>1 DEF ResultInv, EndInv, StepFacts, Kept
  <2>2. ASSUME NEW k \in Keys, record'[k] = "succeeded"
        PROVE  \E d \in Calls : RanToEnd(d)' /\ Key(d)' = k
    BY <1>2, <1>3, <2>2 DEF ResultInv, EndInv, StepFacts
  <2>3. QED
    BY <2>1, <2>2 DEF EndInv, Keys
<1>5. SuccessIsReal'
  <2> SUFFICES ASSUME NEW c \in Calls, pc'[c] \in Told
               PROVE  \E d \in Calls : RanToEnd(d)' /\ Key(d)' = Key(c)'
    BY DEF SuccessIsReal, Told
  <2>1. pc[c] # "idle" /\ Key(c)' = Key(c)
    BY <1>2 DEF StepFacts, Kept, Told
  <2>2. CASE pc[c] \in Told
    BY <1>3, <2>1, <2>2 DEF ResultInv, SuccessIsReal, Told
  <2>3. CASE pc[c] = "complete"
    BY <1>3, <2>1, <2>3 DEF ResultInv, EndInv
  <2>4. CASE pc[c] = "lookup" /\ record[Key(c)] = "succeeded"
    <3>1. Key(c) \in Keys
      BY <1>1, <2>4, CallTypes DEF Active
    <3>2. QED
      BY <1>3, <2>1, <2>4, <3>1 DEF ResultInv, EndInv
  <2>5. QED
    BY <1>2, <2>2, <2>3, <2>4 DEF StepFacts
<1>6. RunningHasOwner'
  <2> SUFFICES ASSUME NEW k \in Keys, record'[k] = "running"
               PROVE  \E c \in Calls : Key(c)' = k /\ pc'[c] \in AtWork
    BY DEF RunningHasOwner, AtWork, Keys
  <2>1. CASE record[k] = "running"
    <3>1. PICK c \in Calls : Key(c) = k /\ pc[c] \in AtWork
      BY <2>1 DEF ResultInv, RunningHasOwner, AtWork
    <3>2. Key(c)' = k
      BY <1>2, <3>1 DEF Kept, AtWork
    <3>3. ~(Complete(c) \/ Fail(c))
      BY <1>1, <3>1 DEF Complete, Fail, Finish, TypeInv, TypeOK
    <3>4. QED
      BY <1>2, <3>1, <3>2, <3>3 DEF StepFacts
  <2>2. CASE \E c \in Calls : pc[c] # "idle" /\ pc'[c] = "run" /\ Key(c) = k
    BY <1>2, <2>2 DEF Kept, AtWork
  <2>3. QED
    BY <1>2, <2>1, <2>2 DEF StepFacts
<1>7. QED
  BY <1>1, <1>4, <1>5, <1>6 DEF ResultInv

\* The invariant holds of every reachable state.
LEMMA ResultInvariance == Spec => []ResultInv
<1>1. Init => Inv
  BY InitInv
<1>2. Init => EndInv /\ SuccessIsReal /\ RunningHasOwner
  BY DEF Init, EndInv, SuccessIsReal, RunningHasOwner
<1>3. QED
  BY <1>1, <1>2, ResultStep, PTL DEF Spec, ResultInv

\* A success told to the caller, or replayed, is that of a skill that ran to its
\* end: its write is in the database, or it is one that may succeed without
\* writing and had nothing to write (executor.py:151 and :361).
THEOREM SuccessMeansDone == Spec => []SuccessIsReal
<1>1. ResultInv => SuccessIsReal
  BY DEF ResultInv
<1>2. QED
  BY <1>1, ResultInvariance, PTL

\* A record left at running belongs to a call at work or interrupted
\* (executor.py:243).
THEOREM RunningIsOwned == Spec => []RunningHasOwner
<1>1. ResultInv => RunningHasOwner
  BY DEF ResultInv
<1>2. QED
  BY <1>1, ResultInvariance, PTL

-----------------------------------------------------------------------------
(* Calls come to an end.                                                   *)

\* How far a call is, and how far its write.
Await(at) == CASE at = "idle" -> 0
               [] at = "lookup" -> 1
               [] at \in {"request", "check"} -> 2
               [] at = "consume" -> 3
               [] at = "begin" -> 4
               [] at = "run" -> 5
               [] at \in {"complete", "fail"} -> 6
               [] OTHER -> 7
Sent(state) == CASE state = "none" -> 0
                 [] state = "issued" -> 1
                 [] OTHER -> 2
Stage(c) == 3 * Await(pc[c]) + Sent(write[c])

\* A call makes each of its awaits once and is done after the last: whatever step
\* touches a call or its write takes it further, a restart and a late commit
\* included, and there are 23 stages.  So a call neither starts anew nor goes
\* back to an await, and what its skill has sent is sent once.
CallsAdvance ==
  /\ [](\A c \in Calls : Stage(c) \in 0 .. 23)
  /\ [][\A c \in Calls :
          pc'[c] # pc[c] \/ write'[c] # write[c] \/ Step(c) \/ Settle(c) =>
            Stage(c)' > Stage(c)]_vars

\* The stages are numbers.
LEMMA StageFacts ==
  ASSUME NEW p, NEW w
  PROVE  /\ Await(p) \in 0 .. 7 /\ Sent(w) \in 0 .. 2
         /\ p \in Ended => Await(p) = 7
BY DEF Await, Sent, Ended, Refusals

\* A call that goes to a later await, or whose write goes on, is further.
LEMMA Further ==
  ASSUME NEW c \in Calls,
         \/ Await(pc'[c]) > Await(pc[c]) /\ write'[c] = write[c]
         \/ pc'[c] = pc[c] /\ Sent(write'[c]) > Sent(write[c])
  PROVE  Stage(c)' > Stage(c)
<1>. DEFINE p == Await(pc[c])
            q == Await(pc'[c])
            v == Sent(write[c])
            w == Sent(write'[c])
<1>1. p \in 0 .. 7 /\ q \in 0 .. 7 /\ v \in 0 .. 2 /\ w \in 0 .. 2
  BY StageFacts
<1>2. (q > p /\ w = v) \/ (q = p /\ w > v)
  OBVIOUS
<1>3. Stage(c) = 3 * p + v /\ Stage(c)' = 3 * q + w
  BY DEF Stage
<1>. HIDE DEF p, q, v, w
<1>. QED  BY <1>1, <1>2, <1>3

\* What a step does to one call, by itself or with its write.
LEMMA CallStep ==
  ASSUME TypeInv, NEW c \in Calls, Step(c) \/ Settle(c) \/ Abandon(c)
  PROVE  /\ \A d \in Calls \ {c} : pc'[d] = pc[d] /\ write'[d] = write[d]
         /\ Stage(c)' > Stage(c)
<1>. USE DEF TypeInv, TypeOK
<1>1. ASSUME NEW to, Goto(c, to), UNCHANGED write, Await(to) > Await(pc[c])
      PROVE  /\ \A d \in Calls \ {c} : pc'[d] = pc[d] /\ write'[d] = write[d]
             /\ Stage(c)' > Stage(c)
  BY <1>1, Further DEF Goto
<1>a. /\ Await("lookup") = 1 /\ Await("request") = 2 /\ Await("check") = 2
      /\ Await("consume") = 3 /\ Await("begin") = 4 /\ Await("run") = 5
      /\ Await("complete") = 6 /\ Await("fail") = 6
      /\ \A to \in Ended : Await(to) = 7
      /\ {"replayed", "already_executed", "approval_required", "unavailable", "expired",
          "invalid", "already_used", "succeeded", "failed", "abandoned"} \subseteq Ended
  BY DEF Await, Ended, Refusals
<1>2. CASE IssueWrite(c) \/ FindNothing(c) \/ Settle(c)
  <2>1. /\ \A d \in Calls \ {c} : write'[d] = write[d]
        /\ pc' = pc /\ Sent(write'[c]) > Sent(write[c])
    BY <1>2 DEF IssueWrite, FindNothing, Settle, Sent
  <2>. QED  BY <2>1, Further
<1>3. CASE \/ Lookup(c) \/ CreateFails(c) \/ CheckGrant(c) \/ Consume(c) \/ Begin(c)
           \/ RunSucceeds(c) \/ RunFails(c) \/ Complete(c) \/ Fail(c)
           \/ \E i \in Approvals : CreatePending(c, i)
  <2>1. write' = write
    BY <1>3 DEF Lookup, CreateFails, CheckGrant, Consume, Begin, RunSucceeds, RunFails,
       Complete, Fail, Finish, CreatePending
  <2>2. \E to : Goto(c, to) /\ Await(to) > Await(pc[c])
    <3>1. CASE Lookup(c)
      <4>1. /\ pc[c] = "lookup"
            /\ \/ Goto(c, "replayed") \/ Goto(c, "already_executed") \/ Goto(c, "begin")
               \/ Goto(c, "request") \/ Goto(c, "check")
        BY <3>1 DEF Lookup
      <4>. QED  BY <1>a, <4>1
    <3>2. CASE CheckGrant(c) \/ CreateFails(c) \/ \E i \in Approvals : CreatePending(c, i)
      <4>1. /\ pc[c] \in {"request", "check"}
            /\ \/ Goto(c, "expired") \/ Goto(c, "invalid") \/ Goto(c, "consume")
               \/ Goto(c, "unavailable") \/ Goto(c, "approval_required")
        BY <3>2 DEF CheckGrant, CreateFails, CreatePending
      <4>. QED  BY <1>a, <4>1
    <3>3. CASE Consume(c) \/ Begin(c)
      <4>1. \/ pc[c] = "consume" /\ (Goto(c, "begin") \/ Goto(c, "already_used"))
            \/ pc[c] = "begin" /\ (Goto(c, "run") \/ Goto(c, "already_executed"))
        BY <3>3 DEF Consume, Begin
      <4>. QED  BY <1>a, <4>1
    <3>4. CASE RunSucceeds(c) \/ RunFails(c) \/ Complete(c) \/ Fail(c)
      <4>1. \/ pc[c] = "run" /\ (Goto(c, "complete") \/ Goto(c, "fail"))
            \/ /\ pc[c] \in {"complete", "fail"}
               /\ \/ Goto(c, "succeeded") \/ Goto(c, "failed") \/ Goto(c, "abandoned")
        BY <3>4 DEF RunSucceeds, RunFails, Complete, Fail, Finish
      <4>. QED  BY <1>a, <4>1
    <3>. QED  BY <1>3, <3>1, <3>2, <3>3, <3>4
  <2>. QED  BY <1>1, <2>1, <2>2
<1>4. CASE Abandon(c)
  <2>1. Goto(c, "abandoned") /\ write' = write /\ Await("abandoned") > Await(pc[c])
    BY <1>4 DEF Abandon, Active, Await
  <2>. QED  BY <1>1, <2>1
<1>. HIDE DEF TypeInv, TypeOK
<1>. QED  BY <1>2, <1>3, <1>4 DEF Step

\* The other steps: a request starts a call, a restart ends all that are at work.
LEMMA OtherSteps ==
  ASSUME TypeInv, [Next]_vars, ~ \E c \in Calls : Step(c) \/ Settle(c) \/ Abandon(c),
         NEW d \in Calls, pc'[d] # pc[d] \/ write'[d] # write[d]
  PROVE  Stage(d)' > Stage(d)
<1>. USE DEF TypeInv, TypeOK
<1>1. CASE UNCHANGED <<pc, write>>
  BY <1>1
<1>2. ASSUME NEW c \in Calls, NEW t \in Tasks, NEW op \in Ops,
             NEW agent \in {"biz_exec", "data_query"}, Start(c, t, op, agent)
      PROVE  Stage(d)' > Stage(d)
  <2>1. /\ \A e \in Calls \ {c} : pc'[e] = pc[e]
        /\ write' = write /\ pc[c] = "idle" /\ pc'[c] \in {"lookup", "denied"}
    BY <1>2 DEF Start, Goto
  <2>2. d = c
    BY <2>1
  <2>3. Await(pc'[c]) > Await(pc[c])
    BY <2>1 DEF Await
  <2>. QED  BY <2>1, <2>2, <2>3, Further
<1>3. CASE Restart
  <2>1. /\ pc'[d] = IF pc[d] \in Active THEN "abandoned" ELSE pc[d]
        /\ write' = write
    BY <1>3 DEF Restart
  <2>2. pc[d] \in Active /\ pc'[d] = "abandoned"
    BY <2>1
  <2>3. Await(pc'[d]) > Await(pc[d])
    BY <2>2 DEF Await, Active
  <2>. QED  BY <2>1, <2>3, Further
<1>. HIDE DEF TypeInv, TypeOK
<1>4. CASE \/ \E t \in Tasks, u \in Users, i \in Approvals \cup {None} : Submit(t, u, i)
           \/ \E h \in Handlers, u \in Users, i \in Approvals : ReadRequest(h, u, i)
           \/ \E h \in Handlers : Approve(h)
           \/ Tick \/ UNCHANGED vars
  BY <1>1, <1>4 DEF Submit, ReadRequest, Approve, Tick, vars
<1>. QED  BY <1>2, <1>3, <1>4 DEF Next

\* Every execution goes one way, through at most 23 stages, whatever fails and
\* whenever the process restarts: with the timeouts of its awaits it ends, which is
\* the safety half of EveryCallEnds (SkillExecutor.execute, executor.py:62).
THEOREM CallsOnlyAdvance == Spec => CallsAdvance
<1>1. TypeInv => \A c \in Calls : Stage(c) \in 0 .. 23
  <2>1. \A p \in 0 .. 7, w \in 0 .. 2 : 3 * p + w \in 0 .. 23
    OBVIOUS
  <2>. QED  BY <2>1, StageFacts DEF Stage
<1>2. ASSUME TypeInv, [Next]_vars
      PROVE  \A c \in Calls :
               pc'[c] # pc[c] \/ write'[c] # write[c] \/ Step(c) \/ Settle(c) =>
                 Stage(c)' > Stage(c)
  <2>. SUFFICES ASSUME NEW c \in Calls,
                       pc'[c] # pc[c] \/ write'[c] # write[c] \/ Step(c) \/ Settle(c)
                PROVE  Stage(c)' > Stage(c)
    OBVIOUS
  <2>1. CASE Step(c) \/ Settle(c) \/ Abandon(c)
    BY <1>2, <2>1, CallStep
  <2>2. CASE ~(Step(c) \/ Settle(c) \/ Abandon(c))
    <3>1. pc'[c] # pc[c] \/ write'[c] # write[c]
      BY <2>2
    <3>2. ASSUME NEW d \in Calls, Step(d) \/ Settle(d) \/ Abandon(d)
          PROVE  FALSE
      <4>1. c \in Calls \ {d}
        BY <2>2, <3>2
      <4>. QED  BY <1>2, <3>1, <3>2, <4>1, CallStep
    <3>. QED  BY <1>2, <3>1, <3>2, OtherSteps
  <2>. QED  BY <2>1, <2>2
<1>3. Inv => TypeInv
  BY DEF Inv
<1>. QED  BY Invariance, <1>1, <1>2, <1>3, PTL DEF Spec, CallsAdvance
=============================================================================
