--------------------------- MODULE RequestPromise ---------------------------
(***************************************************************************)
(* What a client of the platform may conclude from the answer to one       *)
(* request, with nothing said of queues, waiters and timeouts.  A request  *)
(* is worked on by at most one agent, at most once; success is told only   *)
(* of work that succeeded; and a client that is told the agent was not     *)
(* available, or that the master dealt with the request itself, knows that *)
(* no agent has worked on it or will.  After a timeout, an internal error  *)
(* or a cancellation the client knows nothing.                             *)
(*                                                                         *)
(* Messaging is shown to implement this module.                            *)
(***************************************************************************)
CONSTANT Requests

VARIABLES
  work,   \* work[r]: what has become of the work request r asks for
  answer  \* answer[r]: what the client of r was told, "none" before

promiseVars == <<work, answer>>

Verdicts == {"ok", "failed", "unavailable", "refused", "timeout", "error"}

Answers == Verdicts \cup {"cancelled"}

\* What an answer says of the work.
Truthful(a, w) ==
  /\ a = "ok" => w = "ok"
  /\ a = "failed" => w = "failed"
  /\ a \in {"unavailable", "refused"} => w = "none"

PromiseInit ==
  /\ work   = [r \in Requests |-> "none"]
  /\ answer = [r \in Requests |-> "none"]

Begin(r) ==
  /\ work[r] = "none"
  /\ answer[r] \notin {"unavailable", "refused"}
  /\ work' = [work EXCEPT ![r] = "running"]
  /\ UNCHANGED answer

End(r, w) ==
  /\ work[r] = "running"
  /\ work' = [work EXCEPT ![r] = w]
  /\ UNCHANGED answer

\* A shutdown cuts the work of every agent at once.
Cut ==
  /\ work' = [r \in Requests |-> IF work[r] = "running" THEN "cut"
                                 ELSE work[r]]
  /\ UNCHANGED answer

Tell(r, a) ==
  /\ answer[r] = "none"
  /\ Truthful(a, work[r])
  /\ answer' = [answer EXCEPT ![r] = a]
  /\ UNCHANGED work

PromiseNext ==
  \/ \E r \in Requests : Begin(r)
  \/ \E r \in Requests, w \in {"ok", "failed"} : End(r, w)
  \/ Cut
  \/ \E r \in Requests, a \in Answers : Tell(r, a)

PromiseSpec == PromiseInit /\ [][PromiseNext]_promiseVars
=============================================================================
