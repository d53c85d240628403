-------------------------- MODULE SessionMutations --------------------------
(***************************************************************************)
(* The mutations of live Herdr sessions (session-workspace.ts): prompt,    *)
(* focus and resume requests of phones and browsers, which pass one at a   *)
(* time through a lock, carry the session revision the client saw, and are *)
(* de-duplicated by an idempotency key whose receipt is kept in memory and *)
(* in a file that survives the gateway.                                    *)
(*                                                                         *)
(* A step runs from one await to the next.  A mutation is a command line   *)
(* process: it may have its effect before it replies, without ever         *)
(* replying, or after the gateway that started it is gone.  One gateway    *)
(* owns the file at a time.                                                *)
(*                                                                         *)
(* Bounds: the requests, MaxTime ticks, MaxRevision revisions, MaxCrash    *)
(* restarts of the gateway.                                                *)
(***************************************************************************)
EXTENDS Naturals, Sequences, SequencesExt

CONSTANTS
  Request,       \* the requests clients send, retries included
  Key,           \* their idempotency keys
  Payload,       \* action, session and text of a request
  TTL,           \* IDEMPOTENCY_TTL_MS
  MaxTime, MaxRevision, MaxCrash

ASSUME RequestAssumption == Key # {} /\ Payload # {}
ASSUME TimeAssumption == TTL \in Nat \ {0} /\ {MaxTime, MaxRevision, MaxCrash} \subseteq Nat

(* The fingerprint of a mutation.                                          *)
Fingerprint == [payload : Payload, revision : 0 .. MaxRevision]

VARIABLES
  now,
  revision,   \* the revision of the Herdr session
  key,        \* idempotency key and fingerprint of each request
  args,
  stage,      \* how far each request has come
  reply,      \* what its client was told
  chain,      \* requests in the order in which they queued for the lock
  memory,     \* the receipts: #mutations, by key
  file,       \* the receipts in the mutation store
  command,    \* the Herdr command of each request
  begun,      \* history: when it was begun
  until,      \* history: how long the receipt of the success each client was told of lives
  unsaved,    \* history: keys whose completed receipt could not be written to the file
  crashes

vars == <<now, revision, key, args, stage, reply, chain, memory, file, command, begun,
          until, unsaved, crashes>>

(* A receipt stands until it expires.  Every reader compares the expiry,   *)
(* so a receipt that was pruned or never written is one that expired at 0. *)
Receipt == [expires : 0 .. MaxTime + TTL, args : Fingerprint, completed : BOOLEAN]
NoReceipt == [expires |-> 0, args |-> CHOOSE f \in Fingerprint : TRUE, completed |-> FALSE]

Init ==
  /\ now = 0
  /\ revision = 0
  /\ key \in [Request -> Key]
  /\ args \in [Request -> Fingerprint]
  /\ stage = [r \in Request |-> "new"]
  /\ reply = [r \in Request |-> "none"]
  /\ chain = <<>>
  /\ memory = [k \in Key |-> NoReceipt]
  /\ file = memory
  /\ command = [r \in Request |-> "none"]
  /\ begun = [r \in Request |-> 0]
  /\ until = begun
  /\ unsaved = {}
  /\ crashes = 0

-----------------------------------------------------------------------------
(* The lock                                                                *)

(* withMutationLock: a request queues behind those before it.              *)
Arrives(r) ==
  /\ stage[r] = "new"
  /\ stage' = [stage EXCEPT ![r] = "waiting"]
  /\ chain' = Append(chain, r)
  /\ UNCHANGED <<now, revision, key, args, reply, memory, file, command, begun, until, unsaved,
                 crashes>>

HoldsLock(r) == chain # <<>> /\ Head(chain) = r

\* Mutated Answer: an error leaves the lock held.
AnswerHoldingLock(r, text) ==
  /\ stage' = [stage EXCEPT ![r] = "answered"]
  /\ reply' = [reply EXCEPT ![r] = text]
  /\ chain' = IF text = "failed" THEN chain ELSE Tail(chain)

(* The request ends, in whatever way, and lets the next one in.            *)
Answer(r, text) ==
  /\ stage' = [stage EXCEPT ![r] = "answered"]
  /\ reply' = [reply EXCEPT ![r] = text]
  /\ chain' = Tail(chain)

-----------------------------------------------------------------------------
(* The receipts                                                            *)

(* The receipt that stands for the key of r.                               *)
Standing(r) == memory[key[r]].expires > now

(* beginMutation, recordMutation: the receipt of r, with a new lifetime.   *)
ReceiptOf(r, completed) == [expires |-> now + TTL, args |-> args[r], completed |-> completed]

\* Mutated Keep: the receipt is not saved.
KeepInMemory(k, receipt, saved) ==
  /\ memory' = [memory EXCEPT ![k] = receipt]
  /\ UNCHANGED <<file, unsaved>>

(* The map changes first; saving it replaces the whole file, or throws and *)
(* leaves the old one.                                                     *)
Keep(k, receipt, saved) ==
  /\ memory' = [memory EXCEPT ![k] = receipt]
  /\ file' = IF saved THEN memory' ELSE file
  /\ unsaved' = IF saved THEN {} ELSE IF receipt.completed THEN unsaved \union {k} ELSE unsaved

(* The client of r is told of a success, on the strength of this receipt.  *)
Acknowledges(r, success, receipt) ==
  until' = IF success THEN [until EXCEPT ![r] = receipt.expires] ELSE until

-----------------------------------------------------------------------------
(* One mutation                                                            *)

\* Mutated Guard: the arguments are not compared.
GuardByKey(r) ==
  /\ HoldsLock(r) /\ stage[r] = "waiting"
  /\ \/ /\ ~Standing(r)
        /\ stage' = [stage EXCEPT ![r] = "finding"]
        /\ UNCHANGED <<reply, chain, until>>
     \/ /\ Standing(r)
        /\ Answer(r, IF memory[key[r]].completed THEN "replayed" ELSE "unknown")
        /\ Acknowledges(r, reply'[r] = "replayed", memory[key[r]])
  /\ UNCHANGED <<now, revision, key, args, memory, file, command, begun, unsaved, crashes>>

(* mutationGuard: a standing receipt decides, and otherwise the session is *)
(* looked up.                                                              *)
Guard(r) ==
  /\ HoldsLock(r) /\ stage[r] = "waiting"
  /\ \/ /\ ~Standing(r)
        /\ stage' = [stage EXCEPT ![r] = "finding"]
        /\ UNCHANGED <<reply, chain, until>>
     \/ /\ Standing(r)
        /\ Answer(r, IF memory[key[r]].args # args[r] THEN "conflict"
                     ELSE IF memory[key[r]].completed THEN "replayed"
                     ELSE "unknown")
        /\ Acknowledges(r, reply'[r] = "replayed", memory[key[r]])
  /\ UNCHANGED <<now, revision, key, args, memory, file, command, begun, unsaved, crashes>>

(* findSession is back.  A session that moved on, is gone or is not able   *)
(* ends the request; otherwise its receipt is saved and the command starts.*)
Found(r, able, saved) ==
  /\ HoldsLock(r) /\ stage[r] = "finding"
  /\ \/ /\ args[r].revision # revision \/ ~able
        /\ Answer(r, "refused")
        /\ UNCHANGED <<memory, file, unsaved, command, begun>>
     \/ /\ args[r].revision = revision /\ able
        /\ Keep(key[r], ReceiptOf(r, FALSE), saved)
        /\ \/ /\ saved
              /\ stage' = [stage EXCEPT ![r] = "acting"]
              /\ command' = [command EXCEPT ![r] = "sent"]
              /\ begun' = [begun EXCEPT ![r] = now]
              /\ UNCHANGED <<reply, chain>>
           \/ /\ ~saved
              /\ Answer(r, "failed")
              /\ UNCHANGED <<command, begun>>
  /\ UNCHANGED <<now, revision, key, args, until, crashes>>

(* Herdr carries out the command of r, which may move the session on.      *)
HerdrActs(r, moves) ==
  /\ command[r] = "sent"
  /\ command' = [command EXCEPT ![r] = "done"]
  /\ revision' = IF moves /\ revision < MaxRevision THEN revision + 1 ELSE revision
  /\ UNCHANGED <<now, key, args, stage, reply, chain, memory, file, begun, until, unsaved, crashes>>

(* The command reports success: recordMutation.                            *)
Succeeds(r, saved) ==
  /\ HoldsLock(r) /\ stage[r] = "acting"
  /\ command[r] = "done"
  /\ Keep(key[r], ReceiptOf(r, TRUE), saved)
  /\ Answer(r, IF saved THEN "ok" ELSE "failed")
  /\ Acknowledges(r, saved, ReceiptOf(r, TRUE))
  /\ UNCHANGED <<now, revision, key, args, command, begun, crashes>>

(* The command reports a failure of DEFINITE_ACTION_FAILURES: it had no    *)
(* effect, and its receipt is taken back (rejectMutation).                 *)
Rejected(r, saved) ==
  /\ HoldsLock(r) /\ stage[r] = "acting"
  /\ command[r] = "sent"
  /\ command' = [command EXCEPT ![r] = "none"]
  /\ Keep(key[r], NoReceipt, saved)
  /\ Answer(r, "failed")
  /\ UNCHANGED <<now, revision, key, args, begun, until, crashes>>

(* Any other failure, a timeout among them: the command may have had its   *)
(* effect, or have it yet, and its receipt stays.                          *)
FailsUnclearly(r) ==
  /\ HoldsLock(r) /\ stage[r] = "acting"
  /\ Answer(r, "failed")
  /\ UNCHANGED <<now, revision, key, args, memory, file, command, begun, until, unsaved, crashes>>

-----------------------------------------------------------------------------

(* A success that only the dead gateway knew is excused.                   *)
Forgets ==
  /\ until' = [r \in Request |-> IF key[r] \in unsaved THEN 0 ELSE until[r]]
  /\ unsaved' = {}

\* Mutated Restart: the receipts of unfinished mutations are not loaded.
RestartCompletedOnly ==
  /\ crashes < MaxCrash
  /\ crashes' = crashes + 1
  /\ chain' = <<>>
  /\ stage' = [r \in Request |-> IF stage[r] \in {"new", "answered"} THEN stage[r] ELSE "lost"]
  /\ memory' = [k \in Key |-> IF file[k].completed THEN file[k] ELSE NoReceipt]
  /\ Forgets
  /\ UNCHANGED <<now, revision, key, args, reply, file, command, begun>>

(* The gateway dies and is started again: loadMutations.  The clients of   *)
(* its requests get no answer.                                             *)
Restart ==
  /\ crashes < MaxCrash
  /\ crashes' = crashes + 1
  /\ chain' = <<>>
  /\ stage' = [r \in Request |-> IF stage[r] \in {"new", "answered"} THEN stage[r] ELSE "lost"]
  /\ memory' = file
  /\ Forgets
  /\ UNCHANGED <<now, revision, key, args, reply, file, command, begun>>

(* Someone works in the session.                                           *)
SessionMoves ==
  /\ revision < MaxRevision
  /\ revision' = revision + 1
  /\ UNCHANGED <<now, key, args, stage, reply, chain, memory, file, command, begun, until, unsaved,
                 crashes>>

Tick ==
  /\ now < MaxTime
  /\ now' = now + 1
  /\ UNCHANGED <<revision, key, args, stage, reply, chain, memory, file, command, begun, until, unsaved,
                 crashes>>

Next ==
  \/ \E r \in Request :
       \/ Arrives(r) \/ Guard(r) \/ FailsUnclearly(r)
       \/ \E able, saved \in BOOLEAN : Found(r, able, saved)
       \/ \E moves \in BOOLEAN : HerdrActs(r, moves)
       \/ \E saved \in BOOLEAN : Succeeds(r, saved) \/ Rejected(r, saved)
  \/ Restart \/ SessionMoves \/ Tick

(* The event loop runs what it can, and every Herdr command has a timeout. *)
Fairness ==
  \A r \in Request :
    /\ WF_vars(Guard(r))
    /\ WF_vars(\E able, saved \in BOOLEAN : Found(r, able, saved))
    /\ WF_vars(FailsUnclearly(r) \/ \E saved \in BOOLEAN : Succeeds(r, saved) \/ Rejected(r, saved))

Spec == Init /\ [][Next]_vars /\ Fairness

-----------------------------------------------------------------------------

TypeOK ==
  /\ now \in 0 .. MaxTime
  /\ revision \in 0 .. MaxRevision
  /\ key \in [Request -> Key]
  /\ args \in [Request -> Fingerprint]
  /\ stage \in [Request -> {"new", "waiting", "finding", "acting", "answered", "lost"}]
  /\ reply \in [Request -> {"none", "ok", "replayed", "unknown", "conflict", "refused", "failed"}]
  /\ chain \in Seq(Request)
  /\ memory \in [Key -> Receipt]
  /\ file \in [Key -> Receipt]
  /\ command \in [Request -> {"none", "sent", "done"}]
  /\ begun \in [Request -> 0 .. MaxTime]
  /\ until \in [Request -> 0 .. MaxTime + TTL]
  /\ unsaved \subseteq Key
  /\ crashes \in 0 .. MaxCrash

(* No key has two effects within the lifetime of its receipt, whatever is  *)
(* retried, times out, crashes or cannot be saved, and however late a      *)
(* command has its effect ("a phone retry after a network drop cannot      *)
(* submit the same prompt twice": README.md).                              *)
OneEffectPerKey ==
  \A r, q \in Request :
    r # q /\ key[r] = key[q] /\ command[r] = "done" /\ command[q] = "done" =>
      begun[r] >= begun[q] + TTL \/ begun[q] >= begun[r] + TTL

(* A client that is told of success, at once or on a retry, is told the    *)
(* truth: its own mutation, with these very arguments, took effect         *)
(* (mutationGuard, recordMutation).                                        *)
ToldTrue ==
  \A r \in Request : reply[r] \in {"ok", "replayed"} =>
    \E q \in Request : key[q] = key[r] /\ args[q] = args[r] /\ command[q] = "done"

(* Whether the next gateway would load the success r was told of.          *)
IsKept(r) ==
  file[key[r]].completed /\ file[key[r]].args = args[r] /\ file[key[r]].expires > now

(* What was acknowledged, at once or on a retry, is remembered: as long as *)
(* its receipt lives, it is in the file that the next gateway loads.  The  *)
(* exception: a completed receipt whose save threw is replayed from the    *)
(* memory alone until another save goes through, and is forgotten when the *)
(* gateway dies before (recordMutation, mutationGuard).                    *)
AcknowledgedIsKept ==
  \A r \in Request : now < until[r] /\ key[r] \notin unsaved => IsKept(r)

(* Not so in the code, for that exception: "pending and successful         *)
(* receipts persist" (docs/AGENT_REFERENCE.md), but a client told of the   *)
(* success may be told "outcome unknown" when it asks after a restart.     *)
EverySuccessIsKept ==
  \A r \in Request : now < until[r] => IsKept(r)

(* Every request is answered, unless the gateway dies first: the lock is   *)
(* let go on every path (withMutationLock).                                *)
EveryRequestEnds ==
  \A r \in Request : stage[r] = "waiting" ~> stage[r] \in {"answered", "lost"}

=============================================================================
