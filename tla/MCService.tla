------------------------------ MODULE MCService ------------------------------
(***************************************************************************)
(* Small instances of Service: either the users of the database, with no   *)
(* conversation, or three requests of a session, with no such users.       *)
(***************************************************************************)
EXTENDS Service, TLC

CONSTANTS skill, memory, audit, status, probe, ask1, ask2, help1, help2, clear

Owners == skill :> "agents" @@ memory :> "tasks" @@ audit :> "bus"
            @@ status :> "http" @@ probe :> "http"
Pools == skill :> {"read", "write"} @@ memory :> {"write"} @@ audit :> {"write"}
            @@ status :> {"legacy"} @@ probe :> {"legacy", "read", "write"}
Kinds == ask1 :> "tasks" @@ ask2 :> "tasks" @@ help1 :> "crm" @@ help2 :> "crm"
            @@ clear :> "clear"

AllLoads ==
  {[users |-> {skill, memory, audit}, requests |-> {}],
   [users |-> {audit, status, probe}, requests |-> {}]}
   \cup {[users |-> {}, requests |-> rs] :
           rs \in {{ask1, ask2, clear}, {help1, help2, clear}, {ask1, help1, clear}}}
=============================================================================
