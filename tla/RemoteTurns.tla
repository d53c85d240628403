---------------------------- MODULE RemoteTurns ----------------------------
(***************************************************************************)
(* RemoteTurnManager (remote-turn-manager.ts): the queue through which     *)
(* every phone, HTTP and Telegram turn reaches the coding agent.  One turn *)
(* runs at a time, at most MaxQueued more wait, a waiting turn gives up    *)
(* when its timer fires, and cancelAll rejects the waiting ones.           *)
(*                                                                         *)
(* The program is single threaded, so a step is what runs between two      *)
(* awaits: enqueue runs on into processQueue, which runs on to the         *)
(* `await queuedTurn.run()` of the turn it took from the queue; and the    *)
(* settling of that promise runs on through the loop to the next await.    *)
(*                                                                         *)
(* MaxTurns bounds the ids a behaviour hands out (nextId is unbounded in   *)
(* the code).                                                              *)
(***************************************************************************)
EXTENDS Naturals, Sequences, SequencesExt

CONSTANTS MaxQueued,   \* options.maxQueued
          MaxTurns     \* bound on nextId

ASSUME MaxQueuedAssumption == MaxQueued \in Nat
ASSUME MaxTurnsAssumption == MaxTurns \in Nat \ {0}

VARIABLES queue,       \* ids waiting, oldest first
          processing,  \* a processQueue loop is alive
          armed,       \* ids whose queue timer may still fire
          turn,        \* what became of each turn's promise
          nextId

vars == <<queue, processing, armed, turn, nextId>>

Id == 1 .. MaxTurns

Open == {"queued", "running"}
Settled == {"resolved", "failed", "timedOut", "cancelled"}

Waiting == ToSet(queue)
Running == {id \in Id : turn[id] = "running"}

Init ==
  /\ queue = <<>>
  /\ processing = FALSE
  /\ armed = {}
  /\ turn = [id \in Id |-> "none"]
  /\ nextId = 1

\* Mutated Loop: pop() instead of shift(), the youngest turn first.
LoopYoungestFirst(q, a, t) ==
  \/ /\ q # <<>>
     /\ queue' = SubSeq(q, 1, Len(q) - 1)
     /\ armed' = a \ {q[Len(q)]}
     /\ turn' = [t EXCEPT ![q[Len(q)]] = "running"]
     /\ processing' = TRUE
  \/ /\ q = <<>>
     /\ queue' = q
     /\ armed' = a
     /\ turn' = t
     /\ processing' = FALSE

(* One round of the while loop of processQueue, up to its next await: with *)
(* `q` waiting, `a` the armed timers and `t` the turns, take the oldest    *)
(* waiting turn, disarm its timer and run it, or leave the loop.           *)
Loop(q, a, t) ==
  \/ /\ q # <<>>
     /\ queue' = Tail(q)
     /\ armed' = a \ {Head(q)}
     /\ turn' = [t EXCEPT ![Head(q)] = "running"]
     /\ processing' = TRUE
  \/ /\ q = <<>>
     /\ queue' = q
     /\ armed' = a
     /\ turn' = t
     /\ processing' = FALSE

\* Mutated ProcessQueue: the early return on `processing` is gone.
ProcessQueueReentrant(q, a, t) == Loop(q, a, t)

(* processQueue, entered with the given queue, timers and turns: returns   *)
(* at once when a loop is already alive.                                   *)
ProcessQueue(q, a, t) ==
  \/ /\ processing
     /\ queue' = q
     /\ armed' = a
     /\ turn' = t
     /\ UNCHANGED processing
  \/ /\ ~processing
     /\ Loop(q, a, t)

\* Mutated Busy: off by one.
BusyOffByOne == processing /\ Len(queue) > MaxQueued

Busy == processing /\ Len(queue) >= MaxQueued

Enqueue ==
  /\ ~Busy
  /\ nextId \in Id
  /\ nextId' = nextId + 1
  /\ ProcessQueue(Append(queue, nextId),
                  armed \union {nextId},
                  [turn EXCEPT ![nextId] = "queued"])

(* The promise of a running turn settles: its caller gets the result or    *)
(* the error, and the loop goes on.                                        *)
RunSettles(id, result) ==
  /\ turn[id] = "running"
  /\ Loop(queue, armed, [turn EXCEPT ![id] = result])
  /\ UNCHANGED nextId

(* The queue timer of a turn fires: if removeQueuedTurn finds the turn in  *)
(* the queue, it is taken out and its caller rejected.                     *)
QueueTimeout(id) ==
  /\ id \in armed
  /\ armed' = armed \ {id}
  /\ IF id \in Waiting
       THEN /\ \E i \in DOMAIN queue : queue[i] = id /\ queue' = RemoveAt(queue, i)
            /\ turn' = [turn EXCEPT ![id] = "timedOut"]
       ELSE UNCHANGED <<queue, turn>>
  /\ UNCHANGED <<processing, nextId>>

\* Mutated CancelAll: the waiting turns are dropped, not rejected.
CancelAllSilently ==
  /\ queue # <<>>
  /\ queue' = <<>>
  /\ armed' = armed \ Waiting
  /\ UNCHANGED <<processing, turn, nextId>>

(* Every waiting turn is rejected; the running one is not touched.         *)
CancelAll ==
  /\ queue # <<>>
  /\ queue' = <<>>
  /\ armed' = armed \ Waiting
  /\ turn' = [id \in Id |-> IF id \in Waiting THEN "cancelled" ELSE turn[id]]
  /\ UNCHANGED <<processing, nextId>>

Next ==
  \/ Enqueue
  \/ \E id \in Id, result \in {"resolved", "failed"} : RunSettles(id, result)
  \/ \E id \in Id : QueueTimeout(id)
  \/ CancelAll

(* Timers fire: Node runs every armed timer.  Nothing is assumed of the    *)
(* coding agent, so a running turn may hang.                               *)
Fairness == \A id \in Id : WF_vars(QueueTimeout(id))

Spec == Init /\ [][Next]_vars /\ Fairness

-----------------------------------------------------------------------------

TypeOK ==
  /\ queue \in Seq(Id)
  /\ processing \in BOOLEAN
  /\ armed \subseteq Id
  /\ turn \in [Id -> {"none"} \union Open \union Settled]
  /\ nextId \in 1 .. MaxTurns + 1

(* Two turns never drive the coding agent at the same time, however the    *)
(* callers, the timers and the agent's answers interleave: the processing  *)
(* flag keeps every enqueue but the first out of the loop.                 *)
OneTurnRuns ==
  /\ \A id, other \in Running : id = other
  /\ processing <=> Running # {}

(* No caller is left without an answer: a turn that was accepted and not   *)
(* yet settled is either in the queue, once, with its timer armed, or it   *)
(* is the one that runs.                                                   *)
NoTurnLost ==
  /\ \A id \in Id : turn[id] = "queued" <=> id \in Waiting
  /\ armed = Waiting
  /\ IsInjective(queue)

(* The queue never holds more than maxQueued turns: what BusyError         *)
(* promises the phone.                                                     *)
QueueBounded == Len(queue) <= MaxQueued

(* Nobody waits while the agent is free: whenever the loop has ended the   *)
(* queue is empty, so a turn enqueued just as the last one settles is not  *)
(* stranded until the next enqueue.                                        *)
NoStrandedTurn == queue # <<>> => processing

(* Turns start in the order they were accepted: a step that starts a turn  *)
(* leaves only younger ones waiting, and cancelled or timed out turns do   *)
(* not disturb the order of the others.                                    *)
StartsInOrder ==
  [][\A id \in Running' \ Running : \A other \in Waiting' : id < other]_vars

=============================================================================
