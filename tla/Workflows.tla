------------------------------ MODULE Workflows ------------------------------
(***************************************************************************)
(* The Query and Exec agents at work: jobs that make the calls of their    *)
(* workflows (WorkflowCalls) one at a time, agents that work on one job at *)
(* a time, the writes the jobs make, the approvals these take, and the     *)
(* tokens that bound how many generations run at once.                     *)
(*                                                                         *)
(* A guarded write takes an approval.  The user sends the request again    *)
(* with the approval, and the workflow looks up and decides everything     *)
(* anew: what it then asks for need not be what was approved.  How one     *)
(* write is made is the subject of ProtectedWrite; here it is one action.  *)
(***************************************************************************)
EXTENDS WorkflowCalls

VARIABLES
  job,       \* job[j]: the request, the call it is at, what it has learnt
  told,      \* told[j]: the reply
  approval,  \* approval[j]: the approval job j has asked for, and for what
  paused,    \* the campaigns the provider has paused
  writes,    \* history: the writes that were applied
  slots      \* the tokens in the Redis set of running generations

vars == <<job, told, approval, paused, writes, slots>>

\* Of a job that is done, lost tells whether a call failed for which there is no
\* substitute.
NoApproval == [state |-> "none", what |-> [op |-> "none", target |-> None]]
NoRequest == [type |-> "none", target |-> None, named |-> None, flags |-> {}]
NoJob == [state |-> "new", req |-> NoRequest, grant |-> None, at |-> 0,
          target |-> None, calm |-> TRUE, failed |-> {}, acted |-> "no", lost |-> FALSE]

\* Requests are of a task type the agents know; one about an ad names a campaign,
\* of the provider or not, or none.
ASSUME RequestsAssumption ==
  \A r \in Requests, j \in Jobs : r[j] # NoRequest =>
    /\ r[j].type \in DOMAIN ExecPipelines \cup DOMAIN QueryPipelines
    /\ r[j].type = "ad_optimize" => r[j].target \in Campaigns \cup {Ghost, None}

-----------------------------------------------------------------------------
(* Actions.                                                                *)

Init ==
  /\ \E r \in Requests : job = [j \in Jobs |-> [NoJob EXCEPT !.req = r[j]]]
  /\ told = [j \in Jobs |-> NoReply]
  /\ approval = [j \in Jobs |-> NoApproval]
  /\ paused = {} /\ writes = {} /\ slots = {}

Goto(j, b) == \E n \in NextCalls(b) : job' = [job EXCEPT ![j] = [b EXCEPT !.at = n]]
Answer(j, b, reply) ==
  /\ job' = [job EXCEPT ![j] = [NoJob EXCEPT
                !.state = "done", !.failed = b.failed \cap {"slot"},
                !.lost = b.failed \cap Noted # {}]]
  /\ told' = [told EXCEPT ![j] = reply]
At(j, calls) ==
  /\ job[j].state = "busy" /\ job[j].at < End(job[j]) /\ Call(job[j]) \in calls

\* A message arrives, with an approval some earlier job has asked for or none.
Submit(j) ==
  /\ job[j].state = "new" /\ job[j].req # NoRequest
  /\ \E g \in {None} \cup {k \in Jobs : approval[k] # NoApproval} :
       job' = [job EXCEPT ![j] = [@ EXCEPT !.state = "queued", !.grant = g]]
  /\ UNCHANGED <<told, approval, paused, writes, slots>>

\* The loop of an agent takes the next message when it has answered the last.
Take(j) ==
  /\ job[j].state = "queued"
  /\ \A k \in Jobs : job[k].state = "busy" => (OfExec(job[k]) # OfExec(job[j]))
  /\ Goto(j, [job[j] EXCEPT !.state = "busy", !.target = job[j].req.target,
                            !.calm = ~Has(job[j], "risky")])
  /\ UNCHANGED <<told, approval, paused, writes, slots>>

Parse(j) ==
  /\ At(j, Checks)
  /\ \/ /\ Refusal(job[j]) = "none"
        /\ \/ Goto(j, job[j])
           \/ /\ job[j].req.type = "customer_service"
              /\ Goto(j, Miss(job[j], "memory"))
        /\ UNCHANGED told
     \/ /\ Refusal(job[j]) # "none"
        /\ Answer(j, job[j], Error(Refusal(job[j])))
  /\ UNCHANGED <<approval, paused, writes, slots>>

SlotCalls == {"scard", "sadd", "expire", "srem"}
Plain(j) == job[j].state = "busy" /\ job[j].at < End(job[j])
              /\ Call(job[j]) \notin SlotCalls \cup Checks \cup {"write"}

Succeed(j) ==
  /\ Plain(j)
  /\ \E b \in Learnt(job[j], Campaigns \ paused) : Goto(j, b)
  /\ UNCHANGED <<told, approval, paused, writes, slots>>

\* exec_skill returns a failure.  The deadline of the workflow is over both
\* generations at once.
Fail(j) ==
  /\ Plain(j)
  /\ IF Call(job[j]) = "gather"
       THEN Goto(j, Miss(job[j], "deadline")) /\ UNCHANGED told
     ELSE IF Call(job[j]) \in Silent \cup Noted
       THEN Goto(j, Miss(job[j], Call(job[j]))) /\ UNCHANGED told
     ELSE Answer(j, job[j], Error(Code(job[j])))
  /\ UNCHANGED <<approval, paused, writes, slots>>

\* acquire_slot.  The count is read, and acted on in a later step.
Count(j) ==
  /\ At(j, {"scard"}) /\ Cardinality(slots) < Limit
  /\ Goto(j, job[j])
  /\ UNCHANGED <<told, approval, paused, writes, slots>>
Add(j) ==
  /\ At(j, {"sadd"})
  /\ slots' = slots \cup {j} /\ Goto(j, job[j])
  /\ UNCHANGED <<told, approval, paused, writes>>
Expire(j) ==
  /\ At(j, {"expire"})
  /\ Goto(j, job[j])
  /\ UNCHANGED <<told, approval, paused, writes, slots>>
Remove(j) ==
  /\ At(j, {"srem"})
  /\ slots' = slots \ {j} /\ Goto(j, job[j])
  /\ UNCHANGED <<told, approval, paused, writes>>

\* Redis fails, before or after the command took effect; or there was no room
\* until the deadline.
Touched(j) == CASE Call(job[j]) = "sadd" -> {slots, slots \cup {j}}
                [] Call(job[j]) = "srem" -> {slots, slots \ {j}}
                [] OTHER -> {slots}
SlotFails(j) ==
  /\ At(j, SlotCalls)
  /\ slots' \in Touched(j) /\ Goto(j, Miss(job[j], "slot"))
  /\ UNCHANGED <<told, approval, paused, writes>>
\* Fault: the loop that polls for a slot has no deadline.
DeadlineNever(j) == At(j, {"scard"}) /\ Cardinality(slots) >= Limit /\ UNCHANGED vars
Deadline(j) ==
  /\ At(j, {"scard"}) /\ Cardinality(slots) >= Limit
  /\ Goto(j, Miss(job[j], "slot"))
  /\ UNCHANGED <<told, approval, paused, writes, slots>>

\* The generation of another process joins and leaves the set.
OthersCome(o) ==
  /\ IF o \in slots THEN slots' = slots \ {o}
     ELSE Cardinality(slots) < Limit /\ slots' = slots \cup {o}
  /\ UNCHANGED <<job, told, approval, paused, writes>>

\* A workflow that fails at its write: all but customer service end there.
WriteFails(j, code) ==
  IF job[j].req.type = "customer_service"
    THEN Goto(j, Miss(job[j], "taobao")) /\ UNCHANGED told
    ELSE Answer(j, job[j], [Error(code) EXCEPT !.target = job[j].target])

\* The provider applies a write, or knows no such thing and says so in a field
\* nobody reads.
Applied(j) ==
  IF job[j].target = Ghost THEN UNCHANGED <<paused, writes>>
  ELSE /\ writes' = writes \cup {[job |-> j, grant |-> job[j].grant, what |-> What(job[j])]}
       /\ paused' = IF Operation(job[j]) = "pause_campaign"
                     THEN paused \cup {job[j].target} ELSE paused

\* Without an approval one is asked for, and the user is told.
Ask(j) ==
  /\ At(j, {"write"}) /\ job[j].grant = None
  /\ \/ /\ approval' = [approval EXCEPT ![j] = [state |-> "pending", what |-> What(job[j])]]
        /\ WriteFails(j, "APPROVAL_REQUIRED")
     \/ WriteFails(j, "SKILL_EXECUTION_ERROR") /\ UNCHANGED approval
  /\ UNCHANGED <<paused, writes, slots>>

\* Fault: an approval is good for whatever the workflow asks for now.
FitsAnything(j) == job[j].grant # None /\ approval[job[j].grant].state = "approved"

\* The approval is for this operation on this object, and has not been used.
Fits(j) ==
  /\ job[j].grant # None
  /\ approval[job[j].grant] = [state |-> "approved", what |-> What(job[j])]

UseApproval(j) ==
  approval' = [approval EXCEPT ![job[j].grant] = [@ EXCEPT !.state = "consumed"]]

Refused(j) ==
  /\ At(j, {"write"}) /\ job[j].grant # None /\ ~Fits(j)
  /\ WriteFails(j, "APPROVAL_INVALID")
  /\ UNCHANGED <<approval, paused, writes, slots>>

Written(j) ==
  /\ At(j, {"write"}) /\ Fits(j) /\ UseApproval(j)
  /\ Applied(j) /\ Goto(j, [job[j] EXCEPT !.acted = "written"])
  /\ UNCHANGED <<told, slots>>

\* The skill fails or is cancelled; what it had begun may have been done.
WriteLost(j) ==
  /\ At(j, {"write"}) /\ Fits(j) /\ UseApproval(j)
  /\ (Applied(j) \/ UNCHANGED <<paused, writes>>)
  /\ WriteFails(j, "SKILL_FAILED")
  /\ UNCHANGED slots

Approve(j) ==
  /\ approval[j].state = "pending"
  /\ approval' = [approval EXCEPT ![j].state = "approved"]
  /\ UNCHANGED <<job, told, paused, writes, slots>>

\* The agent's own timeout: whatever the call is, the workflow ends.  (So it does
\* at an exception nobody caught, with another code.)
Break(j) ==
  /\ Plain(j) /\ Call(job[j]) # "gather"
  /\ Answer(j, job[j], Error("AGENT_TIMEOUT"))
  /\ UNCHANGED <<approval, paused, writes, slots>>

\* At the acquisition only the timeout gets out, and a token that was added
\* stays; at the generation it is given back on the way out, if Redis answers.
BreakSlot(j) ==
  /\ \/ /\ At(j, SlotCalls)
        /\ slots' \in Touched(j) /\ Answer(j, Miss(job[j], "slot"), Error("AGENT_TIMEOUT"))
     \/ /\ At(j, {"gather"}) /\ ~Failed(job[j], "slot")
        /\ \/ slots' = slots \ {j} /\ Answer(j, job[j], Error("AGENT_TIMEOUT"))
           \/ UNCHANGED slots /\ Answer(j, Miss(job[j], "slot"), Error("AGENT_TIMEOUT"))
     \/ /\ At(j, {"gather"}) /\ Failed(job[j], "slot")
        /\ UNCHANGED slots /\ Answer(j, job[j], Error("AGENT_TIMEOUT"))
  /\ UNCHANGED <<approval, paused, writes>>

\* The write may have been made or the approval asked for all the same.
BreakWrite(j) ==
  /\ At(j, {"write"}) /\ Answer(j, job[j], Error("AGENT_TIMEOUT"))
  /\ \/ /\ job[j].grant = None
        /\ approval' = [approval EXCEPT ![j] = [state |-> "pending", what |-> What(job[j])]]
        /\ UNCHANGED <<paused, writes>>
     \/ Fits(j) /\ UseApproval(j) /\ (Applied(j) \/ UNCHANGED <<paused, writes>>)
     \/ UNCHANGED <<approval, paused, writes>>
  /\ UNCHANGED slots

Finish(j) ==
  /\ job[j].state = "busy" /\ job[j].at = End(job[j])
  /\ Answer(j, job[j], Reply(job[j]))
  /\ UNCHANGED <<approval, paused, writes, slots>>

\* The steps an agent takes on a message by itself.
Work(j) == Parse(j) \/ Succeed(j) \/ Fail(j) \/ Count(j) \/ Add(j) \/ Expire(j)
             \/ Remove(j) \/ Deadline(j) \/ Ask(j) \/ Refused(j) \/ Written(j)
             \/ WriteLost(j) \/ Finish(j)

Next ==
  \/ \E j \in Jobs : Submit(j) \/ Take(j) \/ Work(j) \/ SlotFails(j) \/ Break(j)
                    \/ BreakSlot(j) \/ BreakWrite(j) \/ Approve(j)
  \/ \E o \in Others : OthersCome(o)

\* A call returns or fails, the wait for a slot ends at its deadline and a loop
\* takes what its queue holds.  Nobody need send, approve or leave.
Fairness == \A j \in Jobs : WF_vars(Take(j)) /\ WF_vars(Work(j))

Spec == Init /\ [][Next]_vars /\ Fairness
-----------------------------------------------------------------------------
(* Properties.                                                             *)

Kinds == {"none", "whole", "partial", "error"}

\* Types of the variables.
TypeOK ==
  /\ DOMAIN job = Jobs /\ DOMAIN told = Jobs /\ DOMAIN approval = Jobs
  /\ \A j \in Jobs :
       /\ job[j].state \in {"new", "queued", "busy", "done"}
       /\ job[j].grant \in Jobs \cup {None}
       /\ job[j].state = "busy" => job[j].at \in 1..End(job[j])
       /\ job[j].failed \subseteq Silent \cup Noted \cup {"deadline"}
       /\ told[j].kind \in Kinds
       /\ (told[j].kind # "none") <=> (job[j].state = "done")
       /\ approval[j].state \in {"none", "pending", "approved", "consumed"}
  /\ paused \subseteq Campaigns
  /\ slots \subseteq Jobs \cup Others

Wrote(j) == \E w \in writes : w.job = j

\* A rerun looks the campaign up again and decides again, and what it writes is
\* still what was approved: every write was made under an approval that was
\* given, for this operation on this object, and is used up; no approval pays
\* for two writes, and no message makes two.  (exec_skill with business_api_write, record_order_risk
\* and taobao_api, from workflows that take the approval of the message.)
WritesAreApproved ==
  /\ \A w \in writes :
       /\ w.grant # None
       /\ approval[w.grant] = [state |-> "consumed", what |-> w.what]
  /\ \A v, w \in writes : v.grant = w.grant \/ v.job = w.job => v = w

\* What the user is told agrees with what happened.  A whole success says that
\* something was written exactly when this job wrote it (or the provider knew
\* no such thing), and hides nothing but the failures that have a substitute; a
\* partial one never claims a write that was not made; a request for approval
\* comes from a job that wrote nothing, and names an approval that is there.
ToldAsHappened ==
  \A j \in Jobs :
    /\ told[j].kind = "whole" =>
         /\ (told[j].acted = "written" /\ told[j].target # Ghost) <=> Wrote(j)
         /\ ~job[j].lost
    /\ told[j].kind = "partial" =>
         /\ told[j].acted = "written" /\ told[j].target # Ghost => Wrote(j)
         /\ job[j].lost
    /\ told[j].code = "APPROVAL_REQUIRED" =>
         /\ ~Wrote(j)
         /\ approval[j].state # "none" /\ approval[j].what.target = told[j].target

\* The token of a generation that is over is in the set only if Redis failed, or
\* the wait for the token was cut off: then it stays until the key expires.
SlotsReturned ==
  \A j \in Jobs : j \in slots /\ job[j].state = "done" => Failed(job[j], "slot")

\* Every message an agent's queue holds is answered, however its calls end.
AllAnswered ==
  \A j \in Jobs : job[j].state = "queued" ~> told[j].kind # "none"
=============================================================================
