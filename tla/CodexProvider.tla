---------------------------- MODULE CodexProvider ----------------------------
(***************************************************************************)
(* CodexAgentProvider (codex-agent-provider.ts): prompts that phone turns  *)
(* and spoken commands send at the same time, answered by one app-server   *)
(* process that is spawned on demand and spoken to in JSON-RPC, or, when   *)
(* the turn could not be started there, by a `codex exec' of their own.    *)
(* The approvals the app-server asks for go through the one slot of the    *)
(* approval registry (index.ts, voice-approval.ts).                        *)
(*                                                                         *)
(* A step is what one line, event, timer or call does up to the next       *)
(* await, continuations of the promises it settles included: promise       *)
(* reactions run before the next event.  Thread and turn ids are the       *)
(* prompts that asked for them.  `initialized' is child # NoChild and not  *)
(* booting; kill() is called on no child that stays tracked.               *)
(*                                                                         *)
(* Bounds: MaxPrompt prompts are sent, numbered in that order; MaxChild    *)
(* app-servers are spawned; each asks for at most MaxAsk approvals.        *)
(***************************************************************************)
EXTENDS Naturals, Sequences

CONSTANTS MaxPrompt, MaxChild, MaxAsk

ASSUME BoundsAssumption ==
  MaxPrompt \in Nat \ {0} /\ MaxChild \in Nat \ {0} /\ MaxAsk \in Nat

Prompt == 1 .. MaxPrompt
Child == 1 .. MaxChild
None == 0      \* no prompt, thread or active turn
NoChild == 0

VARIABLES
  child,     \* the app-server the provider tracks, or NoChild
  proc,      \* the processes: "none", "live", "killed" (exit to come) or "gone"
  booting,   \* the initialize request of the tracked child is pending
  thread,    \* threadId, or None
  active,    \* activeTurn, or None
  queue,     \* the queue of activeTurn, "closed" without one: "open", "closed", "failed"
  pc,        \* where the sendPrompt of each prompt is
  home,      \* the child and thread a prompt's turn was started on
  turn,      \* that turn: "none", "running", or "ended" or out of the provider's sight
  got,       \* the turns whose text each prompt was handed
  asked,     \* approvals each app-server asked for, in order of their request ids
  slot,      \* the approval in the registry: child and request id, or <<>>
  accepted,  \* history: the approvals the operator accepted
  lost       \* history: app-servers whose handle a late exit event cleared

server == <<child, proc, booting, thread>>
turns == <<active, queue, pc, home, turn, got>>
approvals == <<asked, slot, accepted>>
vars == <<server, turns, approvals, lost>>

Init ==
  /\ child = NoChild
  /\ proc = [c \in Child |-> "none"]
  /\ booting = FALSE
  /\ thread = None
  /\ active = None
  /\ queue = "closed"
  /\ pc = [p \in Prompt |-> "idle"]
  /\ home = [p \in Prompt |-> [child |-> NoChild, thread |-> None]]
  /\ turn = [p \in Prompt |-> "none"]
  /\ got = [p \in Prompt |-> {}]
  /\ asked = [c \in Child |-> <<>>]
  /\ slot = <<>>
  /\ accepted = {}
  /\ lost = {}

At(stage) == {p \in Prompt : pc[p] = stage}
Live == {c \in Child : proc[c] = "live"}

-----------------------------------------------------------------------------
(* Prompts.                                                                *)

\* Mutated StartTurn: activeTurn was tested before the await of ensureThread.
StartTurnUntested(p, t) ==
  /\ active' = p
  /\ queue' = "open"
  /\ pc' = [pc EXCEPT ![p] = "starting"]
  /\ home' = [home EXCEPT ![p] = [child |-> child, thread |-> t]]
  /\ turn' = [turn EXCEPT ![p] = "running"]

(* sendViaAppServer once it has its thread: refused while a turn is        *)
(* active, else the turn/start request is written.                         *)
StartTurn(p, t) ==
  IF active # None
    THEN /\ pc' = [pc EXCEPT ![p] = "failed"]
         /\ UNCHANGED <<active, queue, home, turn>>
    ELSE /\ active' = p
         /\ queue' = "open"
         /\ pc' = [pc EXCEPT ![p] = "starting"]
         /\ home' = [home EXCEPT ![p] = [child |-> child, thread |-> t]]
         /\ turn' = [turn EXCEPT ![p] = "running"]

(* ensureAppServer of a provider that is not initialized: join the boot in *)
(* progress, or spawn an app-server.                                       *)
Boot(p) ==
  /\ pc' = [pc EXCEPT ![p] = "booting"]
  /\ \/ /\ booting
        /\ UNCHANGED <<child, proc, booting>>
     \/ /\ ~booting
        /\ \E c \in Child :
             /\ proc[c] = "none" /\ \A d \in Child : d < c => proc[d] # "none"
             /\ child' = c
             /\ proc' = [proc EXCEPT ![c] = "live"]
        /\ booting' = TRUE

Send(p) ==
  /\ pc[p] = "idle" /\ \A q \in 1 .. p - 1 : pc[q] # "idle"
  /\ \/ /\ child = NoChild \/ booting
        /\ Boot(p)
        /\ UNCHANGED <<thread, active, queue, home, turn>>
     \/ /\ child # NoChild /\ ~booting /\ thread = None
        /\ pc' = [pc EXCEPT ![p] = "thread"]
        /\ UNCHANGED <<server, active, queue, home, turn>>
     \/ /\ child # NoChild /\ ~booting /\ thread # None
        /\ StartTurn(p, thread)
        /\ UNCHANGED server
  /\ UNCHANGED <<got, approvals, lost>>

(* The app-server answers initialize: every prompt that waited for the     *)
(* boot goes on to ask for a thread, each for its own.                     *)
Booted ==
  /\ booting
  /\ booting' = FALSE
  /\ pc' = [p \in Prompt |-> IF pc[p] = "booting" THEN "thread" ELSE pc[p]]
  /\ UNCHANGED <<child, proc, thread, active, queue, home, turn, got, approvals, lost>>

\* Mutated Rejected: a turn/start that failed falls back to codex exec.
RejectedToExec(P, act) ==
  [p \in Prompt |-> IF p \in P \/ act = p THEN "exec" ELSE pc[p]]

(* What becomes of prompts `P' whose requests are rejected, `act' being    *)
(* the turn that stays active: a prompt whose turn/start was written       *)
(* fails, the others fall back to codex exec unless a turn is active.      *)
Rejected(P, act) ==
  [p \in Prompt |->
     IF p \notin P THEN pc[p]
     ELSE IF pc[p] \in {"starting", "reading"} \/ act # None THEN "failed" ELSE "exec"]

(* initialize fails or is not answered within 30 seconds: the child is     *)
(* killed (disposeAppServerChild).                                         *)
BootFails ==
  /\ booting
  /\ booting' = FALSE
  /\ child' = NoChild
  /\ thread' = None
  /\ proc' = [proc EXCEPT ![child] = "killed"]
  /\ pc' = Rejected(At("booting"), active)
  /\ UNCHANGED <<active, queue, home, turn, got, approvals, lost>>

(* The app-server answers thread/start; the last answer is the thread of   *)
(* later prompts.                                                          *)
ThreadStarted(p) ==
  /\ pc[p] = "thread"
  /\ thread' = p
  /\ StartTurn(p, p)
  /\ UNCHANGED <<child, proc, booting, got, approvals, lost>>

(* The queue of the active turn has ended and its sendPrompt reads it.     *)
Answered(p, outcome) ==
  /\ pc' = [pc EXCEPT ![p] = IF outcome = "closed" THEN "answered" ELSE "failed"]
  /\ active' = None
  /\ queue' = "closed"

(* The app-server answers turn/start, and the turn's id is known from now  *)
(* on; what came before is read.                                           *)
TurnStarted(p) ==
  /\ pc[p] = "starting"
  /\ \/ /\ queue = "open"
        /\ pc' = [pc EXCEPT ![p] = "reading"]
        /\ UNCHANGED <<active, queue>>
     \/ queue # "open" /\ Answered(p, queue)
  /\ UNCHANGED <<server, home, turn, got, approvals, lost>>

(* thread/start or turn/start is answered with an error, or its timer      *)
(* fires: the app-server may run the turn nevertheless.                    *)
RequestFails(p) ==
  /\ pc[p] \in {"thread", "starting"}
  /\ active' = IF active = p THEN None ELSE active
  /\ queue' = IF active = p THEN "closed" ELSE queue
  /\ pc' = Rejected({p}, active')
  /\ UNCHANGED <<server, home, turn, got, approvals, lost>>

(* The process of a codex exec prints its answer and exits, or fails.      *)
ExecEnds(p, ok) ==
  /\ pc[p] = "exec"
  /\ pc' = [pc EXCEPT ![p] = IF ok THEN "execAnswered" ELSE "execFailed"]
  /\ UNCHANGED <<server, active, queue, home, turn, got, approvals, lost>>

-----------------------------------------------------------------------------
(* Notifications of the app-server.                                        *)

\* Mutated Heard: until turn/start is answered, any thread will do.
HeardOnAnyThread(t) == active # None /\ (pc[active] = "reading" => t = active)

(* Whether the active turn takes a notification of turn `t': the turn id   *)
(* is compared only once turn/start was answered.                          *)
Heard(t) ==
  /\ active # None
  /\ home[t].thread = home[active].thread
  /\ pc[active] = "reading" => t = active

Runs(t) == turn[t] = "running" /\ home[t].child = child

Unanswered(c) == {i \in DOMAIN asked[c] : asked[c][i].answer = "none"}

Delta(t) ==
  /\ Runs(t) /\ Heard(t) /\ queue = "open"
  /\ got' = [got EXCEPT ![active] = @ \union {t}]
  /\ UNCHANGED <<server, active, queue, pc, home, turn, approvals, lost>>

(* The queue of the active turn is closed or failed, and read if the       *)
(* prompt has come that far.                                               *)
EndQueue(outcome) ==
  /\ IF pc[active] = "reading"
       THEN Answered(active, outcome)
       ELSE /\ queue' = IF queue = "open" THEN outcome ELSE queue
            /\ UNCHANGED <<active, pc>>

(* turn/completed.  A turn that waits for an approval does not complete.   *)
Completed(t, outcome) ==
  /\ Runs(t)
  /\ \A i \in Unanswered(child) : asked[child][i].turn # t
  /\ turn' = [turn EXCEPT ![t] = "ended"]
  /\ IF Heard(t) THEN EndQueue(outcome) ELSE UNCHANGED <<active, queue, pc>>
  /\ UNCHANGED <<server, home, got, approvals, lost>>

(* An error notification fails the prompt; the turn itself may run on.     *)
ErrorNoted(t) ==
  /\ Runs(t) /\ Heard(t)
  /\ EndQueue("failed")
  /\ UNCHANGED <<server, home, turn, got, approvals, lost>>

-----------------------------------------------------------------------------
(* The process goes away.                                                  *)

(* What stop() and handleAppServerExit have in common: every pending       *)
(* request is rejected, the active queue fails, nothing is tracked.        *)
Forgotten ==
  /\ pc' = Rejected(At("booting") \union At("thread") \union At("starting") \union At("reading"),
                    None)
  /\ active' = None
  /\ queue' = "closed"
  /\ child' = NoChild
  /\ booting' = FALSE
  /\ thread' = None
  /\ turn' = [t \in Prompt |-> IF turn[t] = "none" THEN "none" ELSE "ended"]
  /\ UNCHANGED <<home, got, approvals>>

\* Mutated Exits: pending requests are rejected, but the active turn is only dropped.
ExitsSilently(c) ==
  /\ proc[c] \in {"live", "killed"}
  /\ proc' = [proc EXCEPT ![c] = "gone"]
  /\ lost' = IF child \in Live \ {c} THEN lost \union {child} ELSE lost
  /\ pc' = Rejected(At("booting") \union At("thread"), None)
  /\ active' = None
  /\ child' = NoChild
  /\ booting' = FALSE
  /\ thread' = None
  /\ UNCHANGED <<queue, turn, home, got, approvals>>

(* The exit or error event of an app-server, killed or not: the handler    *)
(* does not ask whether it is the one that is tracked.                     *)
Exits(c) ==
  /\ proc[c] \in {"live", "killed"}
  /\ proc' = [proc EXCEPT ![c] = "gone"]
  /\ lost' = IF child \in Live \ {c} THEN lost \union {child} ELSE lost
  /\ Forgotten

Stop ==
  /\ child # NoChild
  /\ proc' = [proc EXCEPT ![child] = "killed"]
  /\ Forgotten
  /\ UNCHANGED lost

-----------------------------------------------------------------------------
(* Approvals.                                                              *)

\* Mutated Ask: a second request waits for the answer to the one in the registry.
AskJoining(t, listening) ==
  LET id == Len(asked[child]) + 1
  IN  /\ Runs(t)
      /\ id <= MaxAsk
      /\ asked' = [asked EXCEPT ![child] =
                     Append(@, [turn |-> t, answer |-> IF listening THEN "none" ELSE "decline"])]
      /\ slot' = IF listening /\ slot = <<>> THEN <<child, id>> ELSE slot
      /\ UNCHANGED <<server, turns, accepted, lost>>

(* A turn asks; the request is declined at once when the wake listener is  *)
(* off or another request is in the registry, and put to the operator      *)
(* else.                                                                   *)
Ask(t, listening) ==
  LET id == Len(asked[child]) + 1
      put == listening /\ slot = <<>>
  IN  /\ Runs(t)
      /\ id <= MaxAsk
      /\ asked' = [asked EXCEPT ![child] =
                     Append(@, [turn |-> t, answer |-> IF put THEN "none" ELSE "decline"])]
      /\ slot' = IF put THEN <<child, id>> ELSE slot
      /\ UNCHANGED <<server, turns, accepted, lost>>

(* The operator answers, or the 30 seconds are over.  The response is      *)
(* written to the app-server that is tracked now, under the id the request *)
(* had where it came from; an app-server ignores an id it does not wait    *)
(* for.                                                                    *)
Decide(decision) ==
  /\ slot # <<>>
  /\ slot' = <<>>
  /\ accepted' = IF decision = "accept" THEN accepted \union {slot} ELSE accepted
  /\ asked' = IF child # NoChild /\ slot[2] \in Unanswered(child)
                THEN [asked EXCEPT ![child][slot[2]].answer = decision]
                ELSE asked
  /\ UNCHANGED <<server, turns, lost>>

Next ==
  \/ Booted \/ BootFails \/ Stop
  \/ \E p \in Prompt : \/ Send(p) \/ ThreadStarted(p) \/ TurnStarted(p) \/ RequestFails(p)
                       \/ \E ok \in BOOLEAN : ExecEnds(p, ok)
  \/ \E t \in Prompt : \/ Delta(t) \/ ErrorNoted(t)
                       \/ \E outcome \in {"closed", "failed"} : Completed(t, outcome)
                       \/ \E listening \in BOOLEAN : Ask(t, listening)
  \/ \E c \in Child : Exits(c)
  \/ \E decision \in {"accept", "decline"} : Decide(decision)

(* Requests and approvals have timers; a turn of the app-server that is    *)
(* not waiting ends, and so does codex exec.                               *)
Fairness ==
  /\ WF_vars(Booted \/ BootFails)
  /\ WF_vars(Decide("decline"))
  /\ \A p \in Prompt :
       /\ WF_vars(ThreadStarted(p) \/ TurnStarted(p) \/ RequestFails(p))
       /\ WF_vars(\E ok \in BOOLEAN : ExecEnds(p, ok))
       /\ WF_vars(\E outcome \in {"closed", "failed"} : Completed(p, outcome))

Spec == Init /\ [][Next]_vars /\ Fairness

-----------------------------------------------------------------------------

Ended == {"answered", "failed", "execAnswered", "execFailed"}

TypeOK ==
  /\ child \in Child \union {NoChild}
  /\ proc \in [Child -> {"none", "live", "killed", "gone"}]
  /\ booting \in BOOLEAN
  /\ thread \in Prompt \union {None}
  /\ active \in Prompt \union {None}
  /\ queue \in {"open", "closed", "failed"}
  /\ pc \in [Prompt -> {"idle", "booting", "thread", "starting", "reading", "exec"} \union Ended]
  /\ home \in [Prompt -> [child : Child \union {NoChild}, thread : Prompt \union {None}]]
  /\ turn \in [Prompt -> {"none", "running", "ended"}]
  /\ got \in [Prompt -> SUBSET Prompt]
  /\ asked \in [Child -> Seq([turn : Prompt, answer : {"none", "accept", "decline"}])]
  /\ slot \in {<<>>} \union (Child \X Nat)
  /\ accepted \subseteq Child \X Nat
  /\ lost \subseteq Child

(* A turn whose caller was told that it failed although the app-server     *)
(* had been asked to run it                                                *)
Abandoned(t) == turn[t] # "none" /\ pc[t] = "failed"

(* Two prompts never drive the app-server at once, although each awaits    *)
(* the boot and its thread before it looks at activeTurn: when two turns   *)
(* run there, the caller of one was told that it had failed.               *)
OneTurn ==
  \A p, t \in Prompt :
    p # t /\ Runs(p) /\ Runs(t) => \E f \in Prompt : home[f].child = child /\ Abandoned(f)

(* An answer is the text of the prompt's own turn, and all of it, although *)
(* until turn/start is answered every notification of the thread counts as *)
(* the active turn's: unless a turn of the thread was abandoned before.    *)
OwnAnswer ==
  \A p \in Prompt :
    pc[p] = "answered" /\ (\A f \in Prompt : home[f] = home[p] => ~Abandoned(f)) =>
      /\ got[p] \subseteq {p}
      /\ turn[p] = "ended"

(* No prompt is run twice: one that went to codex exec has no turn at the  *)
(* app-server, whatever failed and whoever was active meanwhile.           *)
NeverBothWays ==
  \A p \in Prompt : turn[p] # "none" => pc[p] \notin {"exec", "execAnswered", "execFailed"}

(* An app-server that lives is tracked, so that stop() reaches it, unless  *)
(* the late exit event of an older one cleared the handle: prompts that    *)
(* come while it boots share it.                                           *)
OneAppServer == Live \subseteq {child} \union lost

(* Types, one turn and one app-server: prompts that await the same boot,   *)
(* thread and turn share what each of them tested before it waited.        *)
Consistent == TypeOK /\ OneTurn /\ OneAppServer

(* An app-server is told to go ahead only where the operator said yes to   *)
(* that very request, although the response goes to whichever app-server   *)
(* is tracked by then and request ids start anew in each: the one slot of  *)
(* the registry declines what a new app-server asks meanwhile.             *)
YesReachesItsRequest ==
  \A c \in Child : \A i \in DOMAIN asked[c] :
    asked[c][i].answer = "accept" => <<c, i>> \in accepted

(* Every prompt ends, in an answer or an error: through restarts of the    *)
(* app-server, stop(), late exits and approvals nobody answers.            *)
EveryPromptEnds ==
  \A p \in Prompt : pc[p] # "idle" ~> pc[p] \in Ended

=============================================================================
