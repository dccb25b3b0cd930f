------------------------------ MODULE AgentMemory ------------------------------
(***************************************************************************)
(* The memory of one agent (agent-sdk, memory.py): a short-term store in   *)
(* Redis, with a key for each entry and a list of their ids, and a         *)
(* long-term store in a vector database.  Tasks share it: an addition is   *)
(* three commands and a clearing three, and other tasks' commands come in  *)
(* between.  A command may fail before or after it took effect; whatever   *)
(* fails is logged and the operation returns False.                        *)
(***************************************************************************)
EXTENDS Naturals, Sequences, SequencesExt

CONSTANTS
  Entry,       \* entries, each remembered at most once: its id is a new uuid
  Task,        \* the agent's concurrent tasks
  HistorySize, \* ids the history keeps (100)
  MaxEpoch     \* bound on the restarts of the process

VARIABLES
  live,        \* entries with a key in Redis
  history,     \* their ids, newest first
  task,        \* [Task -> [at, entry, keys, due]]: what each is about to do
  vectors,     \* the points of the database: <<hash of the id, entry>>
  epoch,       \* the process, which determines the hash of a string
  remembered,  \* entries remember was called with
  forgotten    \* entries a successful clear should have removed

agentMemory == <<live, history, task, vectors, epoch, remembered, forgotten>>

Free == [at |-> "idle", entry |-> "none", keys |-> {}, due |-> {}]

AgentMemoryInit ==
  /\ live = {} /\ history = <<>>
  /\ task = [t \in Task |-> Free]
  /\ vectors = {} /\ epoch = 0
  /\ remembered = {} /\ forgotten = {}

Adding(t) == task[t].at \in {"setex", "lpush", "ltrim"}

\* What a command may do: fail with or without effect, or return.
Answer == {a \in [effect : BOOLEAN, returns : BOOLEAN] : a.returns => a.effect}

\* Python hashes a string with a seed of the process.
Hash(id) == <<epoch, id>>

-----------------------------------------------------------------------------
(* Short-term memory. *)

RememberShort(t, e) ==
  /\ task[t] = Free
  /\ e \notin remembered
  /\ task' = [task EXCEPT ![t] = [Free EXCEPT !.at = "setex", !.entry = e]]
  /\ remembered' = remembered \cup {e}
  /\ UNCHANGED <<live, history, vectors, epoch, forgotten>>

SetEntry(t) ==
  /\ task[t].at = "setex"
  /\ \E a \in Answer :
       /\ live' = IF a.effect THEN live \cup {task[t].entry} ELSE live
       /\ task' = [task EXCEPT ![t] = IF a.returns THEN [@ EXCEPT !.at = "lpush"] ELSE Free]
  /\ UNCHANGED <<history, vectors, epoch, remembered, forgotten>>

PushId(t) ==
  /\ task[t].at = "lpush"
  /\ \E a \in Answer :
       /\ history' = IF a.effect THEN <<task[t].entry>> \o history ELSE history
       /\ task' = [task EXCEPT ![t] = IF a.returns THEN [@ EXCEPT !.at = "ltrim"] ELSE Free]
  /\ UNCHANGED <<live, vectors, epoch, remembered, forgotten>>

TrimHistory(t) ==
  /\ task[t].at = "ltrim"
  /\ \E a \in Answer :
       history' = IF a.effect /\ Len(history) > HistorySize
                  THEN SubSeq(history, 1, HistorySize) ELSE history
  /\ task' = [task EXCEPT ![t] = Free]
  /\ UNCHANGED <<live, vectors, epoch, remembered, forgotten>>

Expire(e) ==
  /\ e \in live
  /\ live' = live \ {e}
  /\ UNCHANGED <<history, task, vectors, epoch, remembered, forgotten>>

\* due: what was added when the clearing began, which it is to forget.
Clear(t) ==
  /\ task[t] = Free
  /\ task' = [task EXCEPT ![t] =
                [Free EXCEPT !.at = "keys",
                   !.due = (live \cup ToSet(history)) \ {task[u].entry : u \in {v \in Task : Adding(v)}}]]
  /\ UNCHANGED <<live, history, vectors, epoch, remembered, forgotten>>

FindKeys(t) ==
  /\ task[t].at = "keys"
  /\ task' = [task EXCEPT ![t] = Free]
     \/ task' = [task EXCEPT ![t].at = IF live = {} THEN "unlist" ELSE "delete", ![t].keys = live]
  /\ UNCHANGED <<live, history, vectors, epoch, remembered, forgotten>>

DeleteKeys(t) ==
  /\ task[t].at = "delete"
  /\ \E a \in Answer :
       /\ live' = IF a.effect THEN live \ task[t].keys ELSE live
       /\ task' = [task EXCEPT ![t] = IF a.returns THEN [@ EXCEPT !.at = "unlist"] ELSE Free]
  /\ UNCHANGED <<history, vectors, epoch, remembered, forgotten>>

\* Bug variant: the history is left to its ids' expiry.
MutHistoryKept(t) ==
  /\ task[t].at = "unlist"
  /\ forgotten' = forgotten \cup task[t].due
  /\ task' = [task EXCEPT ![t] = Free]
  /\ UNCHANGED <<live, history, vectors, epoch, remembered>>

DeleteHistory(t) ==
  /\ task[t].at = "unlist"
  /\ \E a \in Answer :
       /\ history' = IF a.effect THEN <<>> ELSE history
       /\ forgotten' = IF a.returns THEN forgotten \cup task[t].due ELSE forgotten
  /\ task' = [task EXCEPT ![t] = Free]
  /\ UNCHANGED <<live, vectors, epoch, remembered>>

\* What get_history returns: expired entries take their place in the window.
GetHistory(limit) ==
  SelectSeq(SubSeq(history, 1, IF limit < Len(history) THEN limit ELSE Len(history)),
            LAMBDA e : e \in live)

-----------------------------------------------------------------------------
(* Long-term memory: each operation is one request. *)

\* Without an embedding nothing is stored, and the entry is returned alike.
RememberLong(e) ==
  /\ e \notin remembered
  /\ remembered' = remembered \cup {e}
  /\ \/ vectors' = vectors \cup {<<Hash(e), e>>}
     \/ UNCHANGED vectors
  /\ UNCHANGED <<live, history, task, epoch, forgotten>>

\* The ids a caller has: an entry's own and, from a search, a point's.
KnownIds == remembered \cup {v[1] : v \in vectors}

\* A point is deleted under the hash of the id given: a recalled id is hashed
\* once more, and another process hashes the entry's own id differently.  What it
\* returns says whether the request did, not whether a point was there.
Forget(id) ==
  /\ \E a \in Answer :
       vectors' = IF a.effect THEN {v \in vectors : v[1] # Hash(id)} ELSE vectors
  /\ UNCHANGED <<live, history, task, epoch, remembered, forgotten>>

Restart ==
  /\ epoch < MaxEpoch
  /\ epoch' = epoch + 1
  /\ task' = [t \in Task |-> Free]
  /\ UNCHANGED <<live, history, vectors, remembered, forgotten>>

AgentMemoryNext ==
  \/ \E t \in Task :
       \/ SetEntry(t) \/ PushId(t) \/ TrimHistory(t)
       \/ Clear(t) \/ FindKeys(t) \/ DeleteKeys(t) \/ DeleteHistory(t)
       \/ \E e \in Entry : RememberShort(t, e)
  \/ \E e \in Entry : Expire(e) \/ RememberLong(e)
  \/ \E id \in KnownIds : Forget(id)
  \/ Restart

-----------------------------------------------------------------------------
(* Whatever tasks add in between and whatever fails, what was remembered     *)
(* before a clearing that succeeded began is found nowhere in the short-term *)
(* memory afterwards, under no key and in no list of ids, also when its own  *)
(* addition had failed half-way.                                             *)
ClearedIsForgotten == forgotten \cap (live \cup ToSet(history)) = {}
================================================================================
