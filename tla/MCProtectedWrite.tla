-------------------------- MODULE MCProtectedWrite --------------------------
(***************************************************************************)
(* Small instances of ProtectedWrite.  ann and bob belong to one store,    *)
(* eve to another; bob is an admin; ann asks, and also holds the approver  *)
(* scope, so that self-approval is met; eve holds her own scopes only.     *)
(***************************************************************************)
EXTENDS ProtectedWrite, TLC

CONSTANTS ann, bob, eve, riskWrite, priceWrite


MCScopeOf == [u \in Users |-> IF u = eve THEN "storeB" ELSE "storeA"]
MCMayRun == [u \in Users |-> IF u = ann THEN Ops ELSE GuardedOps]

Symmetry == Permutations(Tasks) \cup Permutations(Calls)
              \cup Permutations(Handlers) \cup Permutations(Approvals)
=============================================================================
