------------------------------ MODULE HubTasks ------------------------------
(***************************************************************************)
(* What the Hub task service promises its clients (herdr-task-service.ts,  *)
(* createTask): an idempotency key makes at most one task, a task that was *)
(* made stays, and who was told that a key made a task was told the truth, *)
(* whichever gateway process answers and however often it crashes.         *)
(***************************************************************************)
CONSTANTS Key,    \* idempotency keys
          Arg,    \* task arguments, as canonicalCreateInput hashes them
          None    \* no task: not an argument

VARIABLES
  made,   \* the arguments of the task each key has made, or None
  told    \* keys and arguments that were answered with success

hubVars == <<made, told>>

Init ==
  /\ made = [k \in Key |-> None]
  /\ told = {}

Create(k, a) ==
  /\ made[k] = None
  /\ made' = [made EXCEPT ![k] = a]
  /\ UNCHANGED told

Tell(k, a) ==
  /\ made[k] = a
  /\ told' = told \union {<<k, a>>}
  /\ UNCHANGED made

Next == \E k \in Key, a \in Arg : Create(k, a) \/ Tell(k, a)

Spec == Init /\ [][Next]_hubVars

=============================================================================
