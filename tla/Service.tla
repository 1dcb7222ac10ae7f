------------------------------- MODULE Service -------------------------------
(***************************************************************************)
(* The process and the conversations it carries while it serves (Runtime,  *)
(* Conversation).  What is remembered is in Redis and outlives the process;*)
(* the requests do not.                                                    *)
(***************************************************************************)
EXTENDS Runtime, Conversation

CONSTANT Loads  \* what the process may be asked to do: which users, which requests

ASSUME ServiceAssumption == Loads \subseteq [users : SUBSET Users, requests : SUBSET Requests]

vars == <<runtime, conversation>>

Init == \E load \in Loads : InitRuntime(load.users) /\ InitConversation(load.requests)

\* The lifespan ends when the server has answered what it had accepted.
Shutdown == BeginClose /\ Drained /\ UNCHANGED conversation
Killed == Exit /\ Interrupt
Lifecycle ==
  /\ Start \/ Close \/ Die \/ (\E u \in Users : Use(u))
       \/ (\E c \in {"redis", "session"} : OpenClient(c))
  /\ UNCHANGED conversation
Talk ==
  /\ phase = "serving" /\ "redis" \in open
  /\ \E r \in Requests : Converse(r)
  /\ UNCHANGED runtime
Forget == (\E k \in Lists : Expire(k)) /\ UNCHANGED runtime

Next == Shutdown \/ Killed \/ Lifecycle \/ Talk \/ Forget

Spec == Init /\ [][Next]_vars

-----------------------------------------------------------------------------
(* Properties.                                                             *)

\* Types of the variables.
TypeOK ==
  /\ TypeOKRuntime
  /\ \A k \in Lists : store[k].type \in {"none", "list", "string"}
  /\ overrun \subseteq Lists
  /\ \A r \in Requests : request[r].step \in {"type", "get", "move", "act"}

\* "Best-effort reverse-order cleanup, safe after partial startup"
\* (container.py:228): when a start has failed or was cancelled at any point, and
\* when a close has run to its end, all that the process refers to is closed, but for a
\* client or a pool whose own close has raised and the pools that came after it; and
\* nobody is about to create a pool behind the back of the close.  A pool that was
\* created twice is no longer referred to and stays open (db/base.py:37): in development
\* any may be, in production the legacy one, but never the one to read or to write.
KnownIsClosed ==
  /\ phase = "off" => open \subseteq botched
  /\ phase = "off" => \A u \in Users : opener[u] \notin Roles
  /\ mode = "production" => lost \cap {"read", "write"} = {}

\* Concurrent appends do not overwrite each other (short_memory.py:24 and :28): a
\* list has the latest messages of all that were appended since it was emptied,
\* of whichever requests, in their order, and no more than the window; except a
\* list that was a string and that a second request, late with its own move,
\* was written over.
AppendsSurvive ==
  /\ \A k \in Lists \ overrun : store[k].items = due[k]
  /\ \A k \in Lists : store[k].type = "list" => Len(store[k].items) \in 1 .. Window
  /\ overrun \subseteq Legacy
=============================================================================
