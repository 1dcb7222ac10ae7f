----------------------------- MODULE Conversation -----------------------------
(***************************************************************************)
(* The short memory of a conversation (core/memory/short_memory.py,        *)
(* api/conversation.py): two lists in Redis for a session, one of the      *)
(* tasks and one of customer service, that keep the latest messages.  A    *)
(* request reads the list it is for and appends its question and answer;   *)
(* another clears both.  Before it reads or appends, a request moves what  *)
(* an older version had kept as a string into a list.  Every command is a  *)
(* call to Redis that others come between, that may fail, or that may have *)
(* been done although it failed.                                           *)
(***************************************************************************)
EXTENDS Naturals, Sequences

CONSTANTS
  Requests,  \* HTTP requests with one session_id of one user
  KindOf,    \* KindOf[r]: "tasks", "crm" or "clear"
  Legacy,    \* the lists an older version has left as strings
  Window     \* SHORT_MEMORY_MAX_MESSAGES

Lists == {"tasks", "crm"}

ASSUME ConversationAssumption ==
  /\ KindOf \in [Requests -> Lists \cup {"clear"}]
  /\ Legacy \subseteq Lists
  /\ Window \in Nat \ {0}

VARIABLES
  store,    \* store[k]: what is in Redis
  request,  \* request[r]: how far it is, and what it has read
  due,      \* history: due[k]: the messages since the list was last emptied
  overrun   \* history: lists a late migration was written over

conversation == <<store, request, due, overrun>>

-----------------------------------------------------------------------------
Message(r, who) == [by |-> who, of |-> r]
Old == <<[by |-> "user", of |-> "old"], [by |-> "assistant", of |-> "old"]>>

Latest(s) == IF Len(s) <= Window THEN s ELSE SubSeq(s, Len(s) - Window + 1, Len(s))

\* _APPEND_LUA: RPUSH and LTRIM, in one step.
Pushed(s, m) == Latest(Append(s, m))
Empty == [type |-> "none", items |-> <<>>]
ListOf(s) == IF s = <<>> THEN Empty ELSE [type |-> "list", items |-> s]

\* Where a request begins: create_task reads first, customer service appends.
First(r) == CASE KindOf[r] = "tasks" -> "load"
              [] KindOf[r] = "crm"   -> "user"
              [] OTHER               -> "clear_tasks"
Fresh(r) == [at |-> First(r), step |-> "type", raw |-> <<>>]
Gone == [at |-> "done", step |-> "type", raw |-> <<>>]

InitConversation(requests) ==
  /\ store = [k \in Lists |-> IF k \in Legacy THEN [type |-> "string", items |-> Old]
                                              ELSE Empty]
  /\ due = [k \in Lists |-> store[k].items]
  /\ request = [r \in Requests |-> IF r \in requests THEN Fresh(r) ELSE Gone]
  /\ overrun = {}

Go(r, place) == request' = [request EXCEPT ![r] = [at |-> place, step |-> "type", raw |-> <<>>]]
Step(r, step, raw) == request' = [request EXCEPT ![r] = [@ EXCEPT !.step = step, !.raw = raw]]

\* After a command, and after one that failed: remember_task_exchange gives up,
\* customer service goes on.
After(r) == CASE request[r].at = "load" -> "work"
              [] request[r].at = "user" /\ KindOf[r] = "tasks" -> "assistant"
              [] request[r].at = "user" /\ KindOf[r] # "tasks" -> "load"
              [] OTHER -> "done"
AfterFailure(r) ==
  IF KindOf[r] = "tasks" /\ request[r].at = "user" THEN "done" ELSE After(r)

Accesses(r) == request[r].at \in {"load", "user", "assistant"}

-----------------------------------------------------------------------------
(* _migrate_legacy_if_needed.                                              *)

\* Fault: a list counts as a type nobody expects, and is deleted.
LookForgetsLists(r) ==
  /\ Accesses(r) /\ request[r].step = "type"
  /\ LET k == KindOf[r] IN
       /\ Step(r, IF store[k].type = "string" THEN "get" ELSE "act", <<>>)
       /\ store' = IF store[k].type = "list" THEN [store EXCEPT ![k] = Empty] ELSE store
  /\ UNCHANGED <<due, overrun>>
Look(r) ==
  /\ Accesses(r) /\ request[r].step = "type"
  /\ Step(r, IF store[KindOf[r]].type = "string" THEN "get" ELSE "act", <<>>)
  /\ UNCHANGED <<store, due, overrun>>

\* GET fails on a list that another request has made of the string meanwhile.
Fetch(r) ==
  /\ Accesses(r) /\ request[r].step = "get"
  /\ IF store[KindOf[r]].type = "list"
       THEN Go(r, AfterFailure(r))
       ELSE Step(r, "move", store[KindOf[r]].items)
  /\ UNCHANGED <<store, due, overrun>>

\* DEL, RPUSH and EXPIRE in one transaction, whatever is there by now.
Move(r) ==
  /\ Accesses(r) /\ request[r].step = "move"
  /\ LET k == KindOf[r] IN
       /\ store' = [store EXCEPT ![k] = ListOf(Latest(request[r].raw))]
       /\ IF store[k].type = "string"
            THEN due' = [due EXCEPT ![k] = Latest(@)] /\ UNCHANGED overrun
            ELSE overrun' = overrun \cup {k} /\ UNCHANGED due
  /\ Step(r, "act", <<>>) \/ Go(r, AfterFailure(r))

-----------------------------------------------------------------------------
(* The requests.                                                           *)

Load(r) ==
  /\ request[r].at = "load" /\ request[r].step = "act"
  /\ Go(r, After(r))
  /\ UNCHANGED <<store, due, overrun>>

\* The answer, from the master or a skill; or the request fails or is timed out,
\* and nothing is remembered of it by the console.
Work(r) ==
  /\ request[r].at = "work"
  /\ \E place \in {IF KindOf[r] = "tasks" THEN "user" ELSE "assistant", "done"} : Go(r, place)
  /\ UNCHANGED <<store, due, overrun>>

AppendMessage(r) ==
  /\ request[r].at \in {"user", "assistant"} /\ request[r].step = "act"
  /\ LET k == KindOf[r]
         m == Message(r, request[r].at)
     IN /\ store[k].type # "string"
        /\ store' = [store EXCEPT ![k] = ListOf(Pushed(@.items, m))]
        /\ due' = [due EXCEPT ![k] = Latest(Append(@, m))]
  /\ Go(r, After(r)) \/ Go(r, AfterFailure(r))
  /\ UNCHANGED overrun

\* A command that Redis has not done.
Broken(r) ==
  /\ Accesses(r) /\ Go(r, AfterFailure(r))
  /\ UNCHANGED <<store, due, overrun>>

\* clear_conversation: both lists, one after the other; a delete that fails is
\* passed over, and the answer is that they are cleared.
Clear(r) ==
  /\ request[r].at \in {"clear_tasks", "clear_crm"}
  /\ LET k == IF request[r].at = "clear_tasks" THEN "tasks" ELSE "crm" IN
       \/ /\ store' = [store EXCEPT ![k] = Empty] /\ due' = [due EXCEPT ![k] = <<>>]
       \/ UNCHANGED <<store, due>>
  /\ Go(r, IF request[r].at = "clear_tasks" THEN "clear_crm" ELSE "done")
  /\ UNCHANGED overrun

\* SHORT_MEMORY_TTL after the last message.
Expire(k) ==
  /\ store[k].type = "list"
  /\ store' = [store EXCEPT ![k] = Empty] /\ due' = [due EXCEPT ![k] = <<>>]
  /\ UNCHANGED <<request, overrun>>

\* The process is killed: the requests end where they are.
Interrupt ==
  /\ request' = [r \in Requests |-> IF request[r] = Fresh(r) THEN request[r] ELSE Gone]
  /\ UNCHANGED <<store, due, overrun>>

Drained == \A r \in Requests : request[r] \in {Gone, Fresh(r)}

Converse(r) == Look(r) \/ Fetch(r) \/ Move(r) \/ Load(r) \/ Work(r) \/ AppendMessage(r)
                 \/ Broken(r) \/ Clear(r)
=============================================================================
