--------------------------- MODULE ToolApproval ---------------------------
(***************************************************************************)
(* Tool calls of the live model whose answer the gateway defers            *)
(* (realtime-gateway.ts, realtime-terminal-approval.ts,                    *)
(* realtime-command-approval.ts): terminal commands and mutations that     *)
(* wait for the operator's decision on an approval card, narrated agent    *)
(* launches, camera snapshots that wait for the client, and the queue of   *)
(* tool responses that bridges an upstream reconnect.                      *)
(*                                                                         *)
(* A step is one callback up to its next await.  Time passes in ticks; a   *)
(* timer is due from its tick on and fires when the event loop gets to it, *)
(* so messages of the client may be handled first.                         *)
(*                                                                         *)
(* Bounds: the sets of calls, MaxTime ticks, MaxLines narrated lines per   *)
(* launch, MaxGoAway upstream reconnects.                                  *)
(***************************************************************************)
EXTENDS Naturals, Sequences, SequencesExt

CONSTANTS
  Terminal,      \* execute_terminal_command calls outside the allowlist
  Mutation,      \* other calls that need approval
  Launch,        \* those of them that launch a narrated agent
  Allowed,       \* execute_terminal_command calls on the allowlist
  Camera,        \* camera_snapshot calls
  Dir, NoDir,    \* working directories
  ApprovalTime, CameraTime, MaxTime, MaxLines, MaxGoAway

ASSUME KindsAssumption ==
  /\ Launch \subseteq Mutation
  /\ Terminal \intersect Mutation = {}
  /\ (Terminal \union Mutation) \intersect (Allowed \union Camera) = {}
  /\ Allowed \intersect Camera = {}
ASSUME DirAssumption == Dir # {} /\ NoDir \notin Dir
ASSUME TimeAssumption ==
  /\ {ApprovalTime, CameraTime} \subseteq Nat \ {0}
  /\ {MaxTime, MaxLines, MaxGoAway} \subseteq Nat

Gated == Terminal \union Mutation
Call == Gated \union Allowed \union Camera
Absent == 0

VARIABLES
  now,
  card,       \* the approval card each gated call put up: directory and time
  registry,   \* when each approval the registries hold expires, or Absent
  pending,    \* pendingTerminalCalls, pendingCommandCalls, pendingCameraCalls
  timer,      \* when the timer of each call is due, or Absent
  running,    \* calls whose execution is under way
  lines,      \* lines a launched agent has written
  exited,     \* launched agents whose exit event came
  asked,      \* calls of Allowed and Camera the model has made
  replied,    \* camera calls the client has replied to
  upstream,   \* the session object: "open", "down" (reconnecting) or "closed"
  goAways,
  queue,      \* pendingToolResponses, by call
  answers,    \* history: what the model was told, per call
  runs,       \* history: the directories each gated call was run in
  yes,        \* history: calls the operator approved
  dir         \* what getCurrentCwd returns

vars == <<now, card, registry, pending, timer, running, lines, exited, asked, replied,
          upstream, goAways, queue, answers, runs, yes, dir>>

NoCard == [at |-> 0, dir |-> NoDir]

Init ==
  /\ now = 0
  /\ card = [c \in Gated |-> NoCard]
  /\ registry = [c \in Gated |-> Absent]
  /\ pending = {}
  /\ timer = [c \in Gated \union Camera |-> Absent]
  /\ running = {}
  /\ lines = [c \in Launch |-> 0]
  /\ exited = {}
  /\ asked = {}
  /\ replied = {}
  /\ upstream = "open"
  /\ goAways = 0
  /\ queue = [c \in Call |-> <<>>]
  /\ answers = [c \in Call |-> <<>>]
  /\ runs = [c \in Gated |-> <<>>]
  /\ yes = {}
  /\ dir \in Dir

Asked(c) == card[c] # NoCard

-----------------------------------------------------------------------------
(* Answering the model                                                     *)

(* sendRealtimeToolResponse: to the session, or to the queue while there   *)
(* is none.                                                                *)
Respond(c, kind) ==
  IF upstream = "open"
    THEN /\ answers' = [answers EXCEPT ![c] = Append(@, kind)]
         /\ UNCHANGED queue
    ELSE /\ queue' = [queue EXCEPT ![c] = Append(@, kind)]
         /\ UNCHANGED answers

Silent == UNCHANGED <<answers, queue>>

-----------------------------------------------------------------------------
(* The approval registries                                                 *)

SameRegistry(c) == IF c \in Terminal THEN Terminal ELSE Mutation

\* Mutated Pruned: off by one, an approval still stands in the tick it expires.
PrunedLate(c) ==
  [d \in Gated |-> IF d \in SameRegistry(c) /\ registry[d] < now THEN Absent ELSE registry[d]]

(* pruneExpired of the registry of c, as request and resolve call it.      *)
Pruned(c) ==
  [d \in Gated |-> IF d \in SameRegistry(c) /\ registry[d] <= now THEN Absent ELSE registry[d]]

(* dispatchRealtimeToolCall defers the answer of c and puts up a card      *)
(* (requestCommandApproval, or the same for a terminal command).           *)
RequestApproval(c) ==
  /\ upstream = "open"
  /\ ~Asked(c)
  /\ now + ApprovalTime <= MaxTime
  /\ card' = [card EXCEPT ![c] = [at |-> now, dir |-> dir]]
  /\ registry' = [Pruned(c) EXCEPT ![c] = now + ApprovalTime]
  /\ timer' = [timer EXCEPT ![c] = now + ApprovalTime]
  /\ pending' = pending \union {c}
  /\ UNCHANGED <<now, running, lines, exited, asked, replied, upstream, goAways, queue,
                 answers, runs, yes, dir>>

\* Mutated Settle: the approval stays in the registry.
SettleKeepsApproval(c) ==
  /\ registry' = Pruned(c)
  /\ pending' = pending \ {c}
  /\ timer' = [timer EXCEPT ![c] = Absent]

(* The decision stands: the approval leaves the registry, the timer stops. *)
Settle(c) ==
  /\ registry' = [Pruned(c) EXCEPT ![c] = Absent]
  /\ pending' = pending \ {c}
  /\ timer' = [timer EXCEPT ![c] = Absent]

(* The operator approves, once or again, and at any time; a card that is   *)
(* gone is reported to the client.  A mutation runs with the arguments     *)
(* frozen in the card, a terminal command where getCurrentCwd says now.    *)
Approve(c) ==
  /\ upstream # "closed"
  /\ Asked(c)
  /\ yes' = yes \union {c}
  /\ \/ /\ Pruned(c)[c] # Absent
        /\ Settle(c)
        /\ running' = running \union {c}
        /\ runs' = [runs EXCEPT ![c] = Append(@, IF c \in Terminal THEN dir ELSE card[c].dir)]
     \/ /\ Pruned(c)[c] = Absent
        /\ registry' = Pruned(c)
        /\ UNCHANGED <<pending, timer, running, runs>>
  /\ UNCHANGED <<now, card, lines, exited, asked, replied, upstream, goAways, queue, answers, dir>>

Reject(c) ==
  /\ upstream # "closed"
  /\ Asked(c)
  /\ \/ /\ Pruned(c)[c] # Absent
        /\ Settle(c)
        /\ Respond(c, "refused")
     \/ /\ Pruned(c)[c] = Absent
        /\ registry' = Pruned(c)
        /\ Silent
        /\ UNCHANGED <<pending, timer>>
  /\ UNCHANGED <<now, card, running, lines, exited, asked, replied, upstream, goAways,
                 runs, yes, dir>>

\* Mutated CardTimesOut: the expired card counts as approved.
CardTimesOutApproved(c) ==
  /\ timer[c] # Absent /\ timer[c] <= now
  /\ timer' = [timer EXCEPT ![c] = Absent]
  /\ registry[c] # Absent
  /\ registry' = [registry EXCEPT ![c] = Absent]
  /\ pending' = pending \ {c}
  /\ running' = running \union {c}
  /\ runs' = [runs EXCEPT ![c] = Append(@, card[c].dir)]
  /\ UNCHANGED <<now, card, lines, exited, asked, replied, upstream, goAways, queue,
                 answers, yes, dir>>

(* The timer of a card: expire() looks the approval up without pruning;    *)
(* one that a later request or decision has pruned is not there any more.  *)
CardTimesOut(c) ==
  /\ timer[c] # Absent /\ timer[c] <= now
  /\ timer' = [timer EXCEPT ![c] = Absent]
  /\ \/ /\ registry[c] # Absent
        /\ registry' = [registry EXCEPT ![c] = Absent]
        /\ pending' = pending \ {c}
        /\ Respond(c, "refused")
     \/ /\ registry[c] = Absent
        /\ Silent
        /\ UNCHANGED <<registry, pending>>
  /\ UNCHANGED <<now, card, running, lines, exited, asked, replied, upstream, goAways,
                 runs, yes, dir>>

-----------------------------------------------------------------------------
(* Execution                                                               *)

(* An allowlisted command runs at once, without blocking the receive loop. *)
RunAllowed(c) ==
  /\ upstream = "open"
  /\ c \notin asked
  /\ asked' = asked \union {c}
  /\ running' = running \union {c}
  /\ UNCHANGED <<now, card, registry, pending, timer, lines, exited, replied, upstream,
                 goAways, queue, answers, runs, yes, dir>>

(* The awaited execution ends, well or badly: either way it is answered.   *)
Completes(c) ==
  /\ c \in running \ Launch
  /\ running' = running \ {c}
  /\ Respond(c, "result")
  /\ UNCHANGED <<now, card, registry, pending, timer, lines, exited, asked, replied,
                 upstream, goAways, runs, yes, dir>>

(* runWithProgressNarration: a line worth telling; the streams of the      *)
(* child may deliver it after the exit event.                              *)
ChildWrites(c) ==
  /\ c \in running
  /\ lines[c] < MaxLines
  /\ lines' = [lines EXCEPT ![c] = @ + 1]
  /\ Respond(c, "progress")
  /\ UNCHANGED <<now, card, registry, pending, timer, running, exited, asked, replied,
                 upstream, goAways, runs, yes, dir>>

ChildExits(c) ==
  /\ c \in running \ exited
  /\ exited' = exited \union {c}
  /\ Respond(c, "result")
  /\ UNCHANGED <<now, card, registry, pending, timer, running, lines, asked, replied,
                 upstream, goAways, runs, yes, dir>>

(* The close event: the streams of the child are drained.                  *)
ChildCloses(c) ==
  /\ c \in running \intersect exited
  /\ running' = running \ {c}
  /\ UNCHANGED <<now, card, registry, pending, timer, lines, exited, asked, replied,
                 upstream, goAways, queue, answers, runs, yes, dir>>

(* switch_session needs no approval and may change the directory.          *)
SwitchSession(d) ==
  /\ upstream = "open"
  /\ dir' = d
  /\ UNCHANGED <<now, card, registry, pending, timer, running, lines, exited, asked, replied,
                 upstream, goAways, queue, answers, runs, yes>>

-----------------------------------------------------------------------------
(* The camera                                                              *)

RequestCameraSnapshot(c) ==
  /\ upstream = "open"
  /\ c \notin asked
  /\ now + CameraTime <= MaxTime
  /\ asked' = asked \union {c}
  /\ pending' = pending \union {c}
  /\ timer' = [timer EXCEPT ![c] = now + CameraTime]
  /\ UNCHANGED <<now, card, registry, running, lines, exited, replied, upstream, goAways,
                 queue, answers, runs, yes, dir>>

(* handleClientImage: the client replies once to each camera_capture; an   *)
(* empty frame says that it could not take a picture.                      *)
ClientFrame(c, empty) ==
  /\ upstream # "closed"
  /\ c \in asked \ replied
  /\ replied' = replied \union {c}
  /\ pending' = pending \ {c}
  /\ timer' = [timer EXCEPT ![c] = Absent]
  /\ IF empty \/ c \in pending THEN Respond(c, "result") ELSE Silent
  /\ UNCHANGED <<now, card, registry, running, lines, exited, asked, upstream, goAways,
                 runs, yes, dir>>

\* Mutated CameraTimesOut: the call stays pending.
CameraTimesOutQuietly(c) ==
  /\ timer[c] # Absent /\ timer[c] <= now
  /\ timer' = [timer EXCEPT ![c] = Absent]
  /\ UNCHANGED <<now, card, registry, pending, running, lines, exited, asked, replied,
                 upstream, goAways, queue, answers, runs, yes, dir>>

CameraTimesOut(c) ==
  /\ timer[c] # Absent /\ timer[c] <= now
  /\ timer' = [timer EXCEPT ![c] = Absent]
  /\ c \in pending
  /\ pending' = pending \ {c}
  /\ Respond(c, "result")
  /\ UNCHANGED <<now, card, registry, running, lines, exited, asked, replied, upstream,
                 goAways, runs, yes, dir>>

-----------------------------------------------------------------------------
(* The upstream session                                                    *)

GoAway ==
  /\ upstream = "open"
  /\ goAways < MaxGoAway
  /\ goAways' = goAways + 1
  /\ upstream' = "down"
  /\ UNCHANGED <<now, card, registry, pending, timer, running, lines, exited, asked, replied,
                 queue, answers, runs, yes, dir>>

\* Mutated Reconnected: the reconnected session starts with an empty queue.
ReconnectedAfresh ==
  /\ upstream = "down"
  /\ upstream' = "open"
  /\ queue' = [c \in Call |-> <<>>]
  /\ UNCHANGED <<now, card, registry, pending, timer, running, lines, exited, asked, replied,
                 goAways, answers, runs, yes, dir>>

(* The new session is there: the queued responses are delivered, those of  *)
(* one call in their order.                                                *)
Reconnected ==
  /\ upstream = "down"
  /\ upstream' = "open"
  /\ answers' = [c \in Call |-> answers[c] \o queue[c]]
  /\ queue' = [c \in Call |-> <<>>]
  /\ UNCHANGED <<now, card, registry, pending, timer, running, lines, exited, asked, replied,
                 goAways, runs, yes, dir>>

(* The live session ends: the model hangs up, the reconnect fails, or the  *)
(* client stays away.  Timers and executions of the gateway go on.         *)
SessionEnds ==
  /\ upstream # "closed"
  /\ upstream' = "closed"
  /\ UNCHANGED <<now, card, registry, pending, timer, running, lines, exited, asked, replied,
                 goAways, queue, answers, runs, yes, dir>>

Tick ==
  /\ now < MaxTime
  /\ now' = now + 1
  /\ UNCHANGED <<card, registry, pending, timer, running, lines, exited, asked, replied,
                 upstream, goAways, queue, answers, runs, yes, dir>>

-----------------------------------------------------------------------------

Next ==
  \/ \E c \in Gated : RequestApproval(c) \/ Approve(c) \/ Reject(c) \/ CardTimesOut(c)
  \/ \E c \in Allowed : RunAllowed(c)
  \/ \E c \in Gated \union Allowed : Completes(c)
  \/ \E c \in Launch : ChildWrites(c) \/ ChildExits(c) \/ ChildCloses(c)
  \/ \E c \in Camera : RequestCameraSnapshot(c) \/ CameraTimesOut(c)
  \/ \E c \in Camera, empty \in BOOLEAN : ClientFrame(c, empty)
  \/ \E d \in Dir : SwitchSession(d)
  \/ GoAway \/ Reconnected \/ SessionEnds \/ Tick

(* Timers fire, commands have a timeout of their own (and launched agents  *)
(* exit), and the upstream connect resolves or fails.  The operator and    *)
(* the client may never react.                                             *)
Fairness ==
  /\ \A c \in Gated : WF_vars(CardTimesOut(c))
  /\ \A c \in Camera : WF_vars(CameraTimesOut(c))
  /\ \A c \in Gated \union Allowed : WF_vars(Completes(c))
  /\ \A c \in Launch : WF_vars(ChildExits(c))
  /\ WF_vars(Reconnected \/ (upstream = "down" /\ SessionEnds))
  /\ WF_vars(Tick)

Spec == Init /\ [][Next]_vars /\ Fairness

-----------------------------------------------------------------------------

Kind == {"result", "refused", "progress"}
(* The answers among the responses s that are not narrated lines.          *)
FinalsIn(s) == Cardinality({i \in DOMAIN s : s[i] # "progress"})
Finals(c) == FinalsIn(answers[c]) + FinalsIn(queue[c])
Expiry(c) == card[c].at + ApprovalTime

TypeOK ==
  /\ now \in 0 .. MaxTime
  /\ card \in [Gated -> [at : 0 .. MaxTime, dir : Dir \union {NoDir}]]
  /\ registry \in [Gated -> 0 .. MaxTime]
  /\ pending \subseteq Gated \union Camera
  /\ timer \in [Gated \union Camera -> 0 .. MaxTime]
  /\ running \subseteq Gated \union Allowed
  /\ lines \in [Launch -> 0 .. MaxLines]
  /\ exited \subseteq Launch
  /\ asked \subseteq Allowed \union Camera
  /\ replied \subseteq Camera
  /\ upstream \in {"open", "down", "closed"}
  /\ goAways \in 0 .. MaxGoAway
  /\ queue \in [Call -> Seq(Kind)]
  /\ answers \in [Call -> Seq(Kind)]
  /\ runs \in [Gated -> Seq(Dir)]
  /\ yes \subseteq Gated
  /\ dir \in Dir

(* Every approval that can still be decided has its call waiting and its   *)
(* timer armed for its expiry; a call that waits without an approval was   *)
(* pruned after its expiry (the registries against pendingTerminalCalls,   *)
(* pendingCommandCalls and the timers).                                    *)
CardsBacked ==
  \A c \in Gated :
    /\ registry[c] # Absent => c \in pending /\ timer[c] = registry[c] /\ registry[c] = Expiry(c)
    /\ c \in pending /\ registry[c] = Absent => now >= Expiry(c)
    /\ c \in pending => runs[c] = <<>>

Refused(c) == "refused" \in ToSet(answers[c]) \union ToSet(queue[c])

(* A gated call is executed only after the operator approved it, at most   *)
(* once however often and however late decisions come, and never when the  *)
(* model was told that it was refused (resolveTerminalApproval,            *)
(* resolveCommandApproval).                                                *)
OneVerdict ==
  \A c \in Gated :
    /\ Len(runs[c]) <= 1
    /\ runs[c] # <<>> => c \in yes /\ ~Refused(c)

(* An approval that comes when the card has expired executes nothing, even *)
(* if the timer has not fired yet (pruneExpired).                          *)
RunsBeforeExpiry ==
  [][\A c \in Gated : runs'[c] # runs[c] => now < Expiry(c)]_vars

Stage(c) ==
  IF Finals(c) > 0 THEN "answered"
  ELSE IF runs[c] # <<>> THEN "executing"
  ELSE IF Asked(c) THEN "asked" ELSE "idle"

(* The gateway implements the promise of ApprovalGate.                     *)
Gate == INSTANCE ApprovalGate WITH
  stage <- [c \in Gated |-> Stage(c)],
  executions <- [c \in Gated |-> Len(runs[c])],
  finals <- [c \in Gated |-> Finals(c)]
ImplementsGate == Gate!Spec

(* What runs is answered while the live session lasts, also when it ends   *)
(* during an upstream reconnect (sendRealtimeToolResponse and its queue).  *)
Told(c) == \E i \in DOMAIN answers[c] : answers[c][i] # "progress"
RunIsAnswered ==
  \A c \in Gated \union Allowed : c \in running ~> Told(c) \/ upstream = "closed"

(* A camera call is answered even if the client never sends a frame.       *)
CameraIsAnswered == \A c \in Camera : c \in asked ~> Told(c) \/ upstream = "closed"

(* Whatever the gateway runs or asks the camera for is answered.           *)
EveryCallAnswered == RunIsAnswered /\ CameraIsAnswered

(* What the code does not do: no run checks these, README section 4 shows   *)
(* how to see each fail.                                                    *)

(* Every card is settled: its call is answered, approved or not            *)
(* (docs/AGENT_REFERENCE.md: the model response is deferred, and all       *)
(* request, approval and result steps are recorded).                       *)
EveryCardIsSettled == \A c \in Gated : Asked(c) ~> Told(c) \/ upstream = "closed"

(* The approved continuation executes exactly what the operator saw (the   *)
(* comment on the frozen approval arguments in dispatchRealtimeToolCall):  *)
(* in the directory the card showed.                                       *)
RunsWhereShown == \A c \in Gated : \A i \in DOMAIN runs[c] : runs[c][i] = card[c].dir

=============================================================================
