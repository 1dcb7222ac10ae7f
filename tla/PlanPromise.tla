---------------------------- MODULE PlanPromise -----------------------------
(***************************************************************************)
(* What a complex request promises about its side effects, with nothing    *)
(* said of waves, dependencies and recoveries: the side effect of a step   *)
(* is asked for at most once, what became of it is learnt at most once and *)
(* not unlearnt, nothing is asked for or learnt after the answer, there is *)
(* one answer, and it is true of all of them.                              *)
(*                                                                         *)
(* PlanExecution is shown to implement this module.                        *)
(***************************************************************************)
CONSTANT Steps

VARIABLES
  effect,  \* effect[s]: what is known of the side effect of step s
  answer   \* what the request was told, "none" before

promiseVars == <<effect, answer>>

\* "held" waits for an approval, "lost" timed out and may still happen.
Outcomes == {"done", "held", "failed", "lost"}

Answers ==
  {"SUCCEEDED", "PARTIAL", "AWAITING_APPROVAL", "FAILED", "clarified", "denied",
   "cancelled"}

\* What an answer says of the side effects.
Truthful(a) ==
  /\ a \in {"clarified", "denied"} => \A s \in Steps : effect[s] = "none"
  /\ a = "SUCCEEDED" => \A s \in Steps : effect[s] \in {"none", "done"}
  /\ a = "FAILED" => \A s \in Steps : effect[s] \notin {"asked", "done"}
  /\ a = "PARTIAL" => \A s \in Steps : effect[s] # "asked"
  /\ a = "AWAITING_APPROVAL" =>
       /\ \E s \in Steps : effect[s] = "held"
       /\ \A s \in Steps : effect[s] \notin {"asked", "lost"}

PromiseInit ==
  /\ effect = [s \in Steps |-> "none"]
  /\ answer = "none"

Ask(s) ==
  /\ answer = "none"
  /\ effect[s] = "none"
  /\ effect' = [effect EXCEPT ![s] = "asked"]
  /\ UNCHANGED answer

Learn(s, outcome) ==
  /\ answer = "none"
  /\ effect[s] = "asked"
  /\ effect' = [effect EXCEPT ![s] = outcome]
  /\ UNCHANGED answer

Tell(a) ==
  /\ answer = "none"
  /\ Truthful(a)
  /\ answer' = a
  /\ UNCHANGED effect

PromiseNext ==
  \/ \E s \in Steps : Ask(s)
  \/ \E s \in Steps, outcome \in Outcomes : Learn(s, outcome)
  \/ \E a \in Answers : Tell(a)

PromiseSpec == PromiseInit /\ [][PromiseNext]_promiseVars
=============================================================================
