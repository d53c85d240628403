----------------------------- MODULE PhoneTurns -----------------------------
(***************************************************************************)
(* What a phone turn does once RemoteTurnManager runs it (index.ts,        *)
(* executePhoneTurn and runAgentPrompt): it is routed, waits for Pi to be  *)
(* idle, may switch the Pi session, and hands its prompt to Gemini Live,   *)
(* to another agent, or to Pi through PiAgentProvider                      *)
(* (pi-agent-provider.ts, async-queue.ts), whose reply is what Pi streams  *)
(* until its run ends.  The operator types and speaks into the same Pi and *)
(* opens and closes its sessions.                                          *)
(*                                                                         *)
(* One turn runs at a time (RemoteTurns), so where it is and what it       *)
(* reads are single values.  A run of Pi is named by the prompt that       *)
(* started it; messages that are queued into a run belong to it.  Pi       *)
(* itself is external: what it does with a prompt that comes while it is   *)
(* busy or has no session, and whether a run that is cut off by the end of *)
(* its session still reports agent_end, is left open.                      *)
(***************************************************************************)
EXTENDS RemoteTurns

CONSTANTS Operator, None

ASSUME ActorsAssumption == Operator # None /\ {Operator, None} \intersect Id = {}

VARIABLES
  step,       \* where the turn that runs is
  session,    \* the Pi session: "none" yet, "open", or "closed" until session_start
  run,        \* the prompt that started Pi's run, or None when Pi is idle
  active,     \* PiAgentProvider.activeTurn, or None
  text,       \* runs whose text is in the queue of activeTurn
  reply,      \* what the caller of each turn is given
  disturbed   \* history: turns whose session closed, or whose Pi was not ready

pi == <<run, active, text>>
phoneVars == <<vars, step, session, pi, reply, disturbed>>

Prompt == Id \union {Operator}

PhoneInit ==
  /\ Init
  /\ step = "none"
  /\ session = "none"
  /\ run = None
  /\ active = None
  /\ text = {}
  /\ reply = [id \in Id |-> "none"]
  /\ disturbed = {}

-----------------------------------------------------------------------------
(* The queue around a turn.                                                *)

(* A turn that the queue starts begins with its routing.                   *)
StepOfRunning ==
  step' = IF Running' = {} THEN "none" ELSE IF Running' = Running THEN step ELSE "routing"

Submit ==
  /\ Enqueue
  /\ StepOfRunning
  /\ UNCHANGED <<session, pi, reply, disturbed>>

QueueTimer(id) ==
  /\ QueueTimeout(id)
  /\ UNCHANGED <<step, session, pi, reply, disturbed>>

\* Mutated CancelledByPhone: the turn that runs is rejected as well.
CancelledWithRunning ==
  /\ queue # <<>>
  /\ queue' = <<>>
  /\ armed' = {}
  /\ turn' = [id \in Id |-> IF turn[id] \in Open THEN "cancelled" ELSE turn[id]]
  /\ step' = "none"
  /\ UNCHANGED <<processing, nextId, session, pi, reply, disturbed>>

(* The phone cancels (onTurnCancel): the turns that wait.                  *)
CancelledByPhone ==
  /\ CancelAll
  /\ UNCHANGED <<step, session, pi, reply, disturbed>>

(* executePhoneTurn of turn `id' returns `r' or throws.                    *)
Replies(id, r) ==
  /\ RunSettles(id, "resolved")
  /\ reply' = [reply EXCEPT ![id] = r]
  /\ StepOfRunning

Throws(id) ==
  /\ RunSettles(id, "failed")
  /\ StepOfRunning
  /\ UNCHANGED reply

-----------------------------------------------------------------------------
(* The steps of executePhoneTurn.                                          *)

(* The answer needs no agent: no text, a Herdr pane, a slash command, an   *)
(* utterance that is not to be dispatched, or no session at all.           *)
RepliesAtOnce(id) ==
  /\ step = "routing"
  /\ Replies(id, "notice")
  /\ UNCHANGED <<session, pi, disturbed>>

(* BusyError, when Pi works for somebody else.                             *)
RefusedBusy(id) ==
  /\ step = "routing" /\ session # "none" /\ run # None
  /\ Throws(id)
  /\ UNCHANGED <<session, pi, disturbed>>

Routed ==
  /\ step = "routing" /\ session # "none" /\ run = None
  /\ step' = "waiting"
  /\ UNCHANGED <<vars, session, pi, reply, disturbed>>

(* waitForReadyTurnContext gives up at its deadline.                       *)
NeverReady(id) ==
  /\ step \in {"waiting", "rewaiting"}
  /\ Throws(id)
  /\ UNCHANGED <<session, pi, disturbed>>

(* Pi is ready and the turn names a session: one that is not known ...     *)
UnknownTarget(id) ==
  /\ step = "waiting" /\ run = None
  /\ Replies(id, "notice")
  /\ UNCHANGED <<session, pi, disturbed>>

(* ... or one to switch to, which the operator may cancel.                 *)
Switch ==
  /\ step = "waiting" /\ run = None
  /\ step' = "switching"
  /\ UNCHANGED <<vars, session, pi, reply, disturbed>>

SwitchCancelled(id) ==
  /\ step = "switching" /\ session = "open"
  /\ Replies(id, "notice")
  /\ UNCHANGED <<session, pi, disturbed>>

(* PiAgentProvider.sendPrompt, up to its first read: a prompt that finds   *)
(* another turn active is handed to Pi for that turn, and reads nothing.   *)
SendToPi(id) ==
  IF active # None
    THEN /\ reply' = [reply EXCEPT ![id] = "empty"]
         /\ step' = "rendering"
         /\ UNCHANGED pi
    ELSE /\ active' = id
         /\ text' = {}
         /\ step' = "reading"
         /\ run' \in IF run # None THEN {run} ELSE IF session = "open" THEN {id} ELSE {None, id}
         /\ UNCHANGED reply


\* Mutated Dispatch: after the switch of the session nothing waits for Pi again.
DispatchUnready(id) ==
  /\ step = "rewaiting" \/ (step = "waiting" /\ run = None)
  /\ \/ step' \in {"live", "exec"} /\ UNCHANGED <<pi, reply, disturbed>>
     \/ /\ SendToPi(id)
        /\ disturbed' = IF session # "open" THEN disturbed \union {id} ELSE disturbed
  /\ UNCHANGED <<vars, session>>

(* The turn goes to Gemini Live, to another agent than Pi, or to Pi, in    *)
(* the same step in which Pi was found ready.                              *)
Dispatch(id) ==
  /\ step \in {"waiting", "rewaiting"} /\ run = None
  /\ \/ step' \in {"live", "exec"} /\ UNCHANGED <<pi, reply, disturbed>>
     \/ /\ SendToPi(id)
        /\ disturbed' = IF session # "open" THEN disturbed \union {id} ELSE disturbed
  /\ UNCHANGED <<vars, session>>

(* Gemini Live answers, or fails and the turn falls back to its agent      *)
(* without looking again whether Pi is ready.                              *)
LiveEnds(id) ==
  /\ step = "live"
  /\ \/ step' = "rendering" /\ reply' = [reply EXCEPT ![id] = "own"] /\ UNCHANGED <<pi, disturbed>>
     \/ step' = "exec" /\ UNCHANGED <<pi, reply, disturbed>>
     \/ /\ SendToPi(id)
        /\ disturbed' = IF run # None \/ session # "open" THEN disturbed \union {id} ELSE disturbed
  /\ UNCHANGED <<vars, session>>

(* Another agent answers, or fails, which is reported as a reply.          *)
ExecEnds(id) ==
  /\ step = "exec"
  /\ step' = "rendering"
  /\ \E r \in {"own", "notice"} : reply' = [reply EXCEPT ![id] = r]
  /\ UNCHANGED <<vars, session, pi, disturbed>>

(* The reply was rendered as audio, if that was asked for.                 *)
Rendered(id) ==
  /\ step = "rendering"
  /\ Replies(id, reply[id])
  /\ UNCHANGED <<session, pi, disturbed>>

-----------------------------------------------------------------------------
(* Pi, its sessions and its operator.                                      *)

(* The operator types, or speaks (routeVoiceInput), into an idle Pi.       *)
OperatorPrompts ==
  /\ session = "open" /\ run = None
  /\ run' = Operator
  /\ UNCHANGED <<vars, step, session, active, text, reply, disturbed>>

(* message_update and message_end: text of the run goes to the active turn *)
PiText ==
  /\ run # None /\ active # None
  /\ text' = text \union {run}
  /\ UNCHANGED <<vars, step, session, run, active, reply, disturbed>>

(* agent_end: the queue of whichever turn is active is closed, and its     *)
(* reader goes on with what it has.                                        *)
AgentEnd ==
  IF active = None THEN UNCHANGED <<active, text, reply, step>>
  ELSE /\ reply' = [reply EXCEPT ![active] =
                      IF text = {} THEN "empty" ELSE IF text = {active} THEN "own" ELSE "foreign"]
       /\ step' = "rendering"
       /\ active' = None
       /\ text' = {}

\* Mutated RunEnds: the event of the end is not passed on to the provider.
RunEndsUnnoticed ==
  /\ run # None
  /\ run' = None
  /\ UNCHANGED <<vars, session, active, text, reply, step, disturbed>>

RunEnds ==
  /\ run # None
  /\ run' = None
  /\ AgentEnd
  /\ UNCHANGED <<vars, session, disturbed>>

(* session_shutdown: the waiting turns are cancelled, the one that runs is *)
(* not (rejectPendingPhoneTurn has nothing to reject).  A run ends with    *)
(* its session, whether or not that is reported.                           *)
SessionShutdown ==
  /\ session = "open"
  /\ session' = "closed"
  /\ CancelAll \/ (queue = <<>> /\ UNCHANGED vars)
  /\ run' = None
  /\ disturbed' = IF step \in {"reading", "live"} THEN disturbed \union Running ELSE disturbed
  /\ IF run # None
       THEN AgentEnd \/ UNCHANGED <<active, text, reply, step>>
       ELSE UNCHANGED <<active, text, reply, step>>

(* session_start, of the first session or of one that was switched to: the *)
(* switch a turn asked for is over.                                        *)
SessionStart ==
  /\ session # "open"
  /\ session' = "open"
  /\ step' = IF step = "switching" THEN "rewaiting" ELSE step
  /\ UNCHANGED <<vars, pi, reply, disturbed>>

PhoneNext ==
  \/ Submit \/ CancelledByPhone \/ Routed \/ Switch
  \/ OperatorPrompts \/ PiText \/ RunEnds \/ SessionShutdown \/ SessionStart
  \/ \E id \in Id : QueueTimer(id)
  \/ \E id \in Running :
       \/ RepliesAtOnce(id) \/ RefusedBusy(id) \/ NeverReady(id) \/ UnknownTarget(id)
       \/ SwitchCancelled(id) \/ Dispatch(id) \/ LiveEnds(id) \/ ExecEnds(id) \/ Rendered(id)

(* Timers fire, the readiness check has a deadline, runs of Pi and calls   *)
(* of other agents and services end, a session that closed is followed by  *)
(* another, and the operator answers the question a switch may put.        *)
PhoneFairness ==
  /\ \A id \in Id :
       /\ WF_phoneVars(QueueTimer(id))
       /\ WF_phoneVars(id \in Running /\ (RepliesAtOnce(id) \/ RefusedBusy(id) \/ Routed))
       /\ WF_phoneVars(id \in Running /\ NeverReady(id))
       /\ WF_phoneVars(id \in Running /\ SwitchCancelled(id))
       /\ WF_phoneVars(id \in Running /\ (LiveEnds(id) \/ ExecEnds(id) \/ Rendered(id)))
  /\ WF_phoneVars(RunEnds)
  /\ WF_phoneVars(SessionStart)

PhoneSpec == PhoneInit /\ [][PhoneNext]_phoneVars /\ PhoneFairness

-----------------------------------------------------------------------------

PhoneTypeOK ==
  /\ TypeOK
  /\ step \in {"none", "routing", "waiting", "switching", "rewaiting", "live", "exec",
               "reading", "rendering"}
  /\ session \in {"none", "open", "closed"}
  /\ run \in Prompt \union {None}
  /\ active \in Id \union {None}
  /\ text \subseteq Prompt
  /\ reply \in [Id -> {"none", "notice", "own", "foreign", "empty"}]
  /\ disturbed \subseteq Id

(* A phone is never given what Pi said to somebody else, although the      *)
(* provider takes the text and the end of whatever run comes: Pi was found *)
(* idle in the step that sent the prompt, so the next run is its own.  The *)
(* exceptions are the turns whose session closed while they read, and the  *)
(* ones that fell back from Gemini Live without a new readiness check.     *)
OwnReply ==
  \A id \in Id : reply[id] = "foreign" => id \in disturbed

(* A turn that is over leaves nothing in the provider: the next prompt     *)
(* does not find an active turn it would be queued behind unanswered.      *)
NoLeftoverTurn ==
  active # None => step = "reading" /\ active \in Running

(* The queue's and the provider's bookkeeping survives everything that     *)
(* happens to turns: one of them runs, none that was accepted is lost or   *)
(* waits for a loop that has ended, the limit BusyError promises holds,    *)
(* and no turn is left behind in the provider.                             *)
Consistent ==
  /\ PhoneTypeOK
  /\ OneTurnRuns /\ NoTurnLost /\ QueueBounded /\ NoStrandedTurn
  /\ NoLeftoverTurn

(* The queue of phone turns, driven by what really happens to a turn, is   *)
(* the queue RemoteTurns specifies, fairness of its timers included.       *)
ImplementsRemoteTurns == Spec

(* Every phone turn that is accepted gets its reply or its error, whatever *)
(* Pi and the operator do and even behind a turn that hangs, unless its    *)
(* session closes while it reads: then it may wait for the end of a run    *)
(* that somebody else must start.                                          *)
EveryPhoneTurnEnds ==
  \A id \in Id : turn[id] \in Open ~> turn[id] \in Settled \/ id \in disturbed

=============================================================================
