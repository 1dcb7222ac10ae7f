---------------------------- MODULE WritePromise ----------------------------
(***************************************************************************)
(* What the platform promises about a protected write, with nothing said   *)
(* of how: an approval is requested, approved and spent once, by one       *)
(* execution; an idempotency key is taken once, by one execution; and a    *)
(* write happens only for the execution that holds the key and, when the   *)
(* operation is a high-risk one, an approval.                              *)
(*                                                                         *)
(* ProtectedWrite, the model of SkillExecutor with its approval table and  *)
(* idempotency store, is shown to implement this module.                   *)
(***************************************************************************)
CONSTANTS
  Approvals,    \* approval identifiers
  Keys,         \* idempotency keys
  GuardedKeys,  \* the keys of operations that need a human approval
  Calls,        \* executions
  Nobody        \* the holder of what nobody has taken

VARIABLES
  permit,   \* permit[i]: how far approval i has come
  spender,  \* spender[i]: the execution that spent approval i
  owner,    \* owner[k]: the execution that took key k
  written   \* the executions whose write happened

promiseVars == <<permit, spender, owner, written>>

PromiseInit ==
  /\ permit  = [i \in Approvals |-> "absent"]
  /\ spender = [i \in Approvals |-> Nobody]
  /\ owner   = [k \in Keys |-> Nobody]
  /\ written = {}

Ask(i) ==
  /\ permit[i] = "absent"
  /\ permit' = [permit EXCEPT ![i] = "pending"]
  /\ UNCHANGED <<spender, owner, written>>

Grant(i) ==
  /\ permit[i] = "pending"
  /\ permit' = [permit EXCEPT ![i] = "approved"]
  /\ UNCHANGED <<spender, owner, written>>

Spend(i, c) ==
  /\ permit[i] = "approved"
  /\ permit'  = [permit EXCEPT ![i] = "consumed"]
  /\ spender' = [spender EXCEPT ![i] = c]
  /\ UNCHANGED <<owner, written>>

Take(k, c) ==
  /\ owner[k] = Nobody
  /\ owner' = [owner EXCEPT ![k] = c]
  /\ UNCHANGED <<permit, spender, written>>

Write(k, c) ==
  /\ c \notin written
  /\ owner[k] = c
  /\ k \in GuardedKeys => \E i \in Approvals : spender[i] = c
  /\ written' = written \cup {c}
  /\ UNCHANGED <<permit, spender, owner>>

PromiseNext ==
  \/ \E i \in Approvals : Ask(i) \/ Grant(i)
  \/ \E i \in Approvals, c \in Calls : Spend(i, c)
  \/ \E k \in Keys, c \in Calls : Take(k, c) \/ Write(k, c)

PromiseSpec == PromiseInit /\ [][PromiseNext]_promiseVars
=============================================================================
