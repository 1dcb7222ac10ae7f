-------------------------- MODULE MCPlanExecution ---------------------------
(***************************************************************************)
(* Small instances of PlanExecution: every dependency graph on a few steps *)
(* listed in a fixed order, cyclic ones included.                          *)
(***************************************************************************)
EXTENDS PlanExecution

CONSTANTS orders, policy, reply

Step(s, kind, deps, required) ==
  [id |-> s, kind |-> kind, deps |-> deps, required |-> required]

\* orders and policy are read, reply is written by Exec, and the graph is any
\* graph on the three; orders may be optional.
AnyGraph ==
  {<<Step(orders, "data_query", d, r),
     Step(reply, "biz_exec", e, TRUE),
     Step(policy, "data_query", f, TRUE)>> :
       d \in SUBSET {reply, policy}, e \in SUBSET {orders, policy},
       f \in SUBSET {orders, reply}, r \in BOOLEAN}

\* A pair of steps, each of any kind, in any dependency.
AnyPair ==
  {<<Step(orders, k, d, r), Step(reply, l, e, TRUE)>> :
     k \in Kinds, l \in Kinds, d \in SUBSET {reply},
     e \in SUBSET {orders}, r \in BOOLEAN}

Singles == {<<Step(orders, k, d, TRUE)>> : k \in Kinds, d \in SUBSET {orders}}

AnyDraft == AnyGraph \cup AnyPair \cup Singles
=============================================================================
