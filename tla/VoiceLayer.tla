---------------------------- MODULE VoiceLayer ----------------------------
(***************************************************************************)
(* The local voice layer of the Pi extension (index.ts, voice-mode.ts,     *)
(* voice-approval.ts, listener-control.ts): spoken replies that are        *)
(* synthesized, played and interrupted, the wake listener that runs as a   *)
(* child process, the commands that switch both, and tool approvals that   *)
(* are answered by voice.                                                  *)
(*                                                                         *)
(* A step is one command, event or continuation up to its next await.      *)
(* `audio' and `ear' hold the extension's handles next to the processes    *)
(* and directories that really exist; a handler that makes several calls   *)
(* passes them on by value (Stopped, Spoken, Asked, Started).  monoActive  *)
(* is assigned wherever listenerProcess is and stands for the same fact.   *)
(*                                                                         *)
(* Bounds: the sets Utterance and Listener are slots that are used again   *)
(* once their processes are gone; as many may overlap.                     *)
(***************************************************************************)
EXTENDS Naturals

CONSTANTS
  Utterance,   \* texts being spoken: each has a temporary directory
  Listener,    \* wake listener processes
  PiCall,      \* tool calls of Pi that ask for approval
  CodexCall,   \* approval requests of Codex
  None

ASSUME NoneAssumption == None \notin Utterance \union Listener \union PiCall \union CodexCall

Call == PiCall \union CodexCall
Mode == {"off", "tts", "stt", "combo", "realtime"}

VARIABLES
  enabled,      \* speakState.enabled
  disabled,     \* the root voice-disable sentinel, a file other programs see
  audio,        \* speech output: handles, utterances, directories
  ear,          \* the wake listener: handles, processes, readers
  savedOn,      \* some entry of the session says {listening: true}
  session,      \* "open", or "closing" between session_shutdown and session_start
  pending,      \* the request in the approval registry, or None
  granted,      \* calls that run under an approval
  question,     \* history: the question the operator was asked last and that still stands
  hardStopped   \* history: /pk-speak stop, and nothing was switched on since

vars == <<enabled, disabled, audio, ear, savedOn, session, pending, granted, question,
          hardStopped>>
switches == <<enabled, disabled, savedOn, session, hardStopped>>
approvals == <<pending, granted, question>>

Init ==
  /\ enabled = FALSE
  /\ disabled \in BOOLEAN
  /\ audio = [abort |-> None, dir |-> None, player |-> None,
              stage |-> [u \in Utterance |-> "idle"], aborted |-> {}, dirs |-> {},
              wanted |-> None, lost |-> {}]
  /\ ear = [process |-> None, reader |-> None, state |-> [l \in Listener |-> "none"],
            open |-> {}, input |-> FALSE, lost |-> {}, restored |-> FALSE]
  /\ savedOn = FALSE
  /\ session = "open"
  /\ pending = None
  /\ granted = {}
  /\ question = None
  /\ hardStopped = FALSE

-----------------------------------------------------------------------------
(* Speech.  `wanted' is the utterance the operator should be hearing;      *)
(* `lost' are players that run on although no handle leads to them.        *)

Cleaned(a) == [a EXCEPT !.dirs = @ \ {a.dir}, !.dir = None]

(* stopSpeaking *)
Stopped(a) ==
  [Cleaned(a) EXCEPT
    !.aborted = @ \union ({a.abort} \ {None}),
    !.stage = [u \in Utterance |-> IF u = a.player THEN "killed" ELSE @[u]],
    !.abort = None, !.player = None, !.wanted = None]

(* speakText, up to the await of the synthesis *)
Spoken(a, u) ==
  [Stopped(a) EXCEPT
    !.stage[u] = "synthesizing", !.abort = u, !.dir = u, !.dirs = @ \union {u},
    !.wanted = u]

(* What a call of speakText may lead to *)
Speaking(a) ==
  IF enabled /\ ~disabled THEN {Spoken(a, u) : u \in {v \in Utterance : a.stage[v] = "idle"}}
  ELSE {a}

(* A reply, a notice (notifyAudible) or a test is spoken. *)
Say ==
  /\ audio' \in Speaking(audio)
  /\ UNCHANGED <<ear, switches, approvals>>

\* Mutated SynthesisEnds: whether the utterance was aborted is not asked.
SynthesisEndsUnasked(u, ok) ==
  LET a == [audio EXCEPT !.stage[u] = "idle", !.aborted = @ \ {u},
                         !.abort = IF @ = u THEN None ELSE @]
  IN  /\ audio.stage[u] = "synthesizing"
      /\ audio' = IF ok /\ enabled /\ ~disabled THEN [a EXCEPT !.stage[u] = "playing", !.player = u]
                  ELSE [Cleaned(a) EXCEPT !.wanted = None]
      /\ UNCHANGED <<ear, switches, approvals>>

(* synthesizeToFile returns or throws: it may have been aborted meanwhile, *)
(* or speech switched off without it being aborted.                        *)
SynthesisEnds(u, ok) ==
  LET a == [audio EXCEPT !.stage[u] = "idle", !.aborted = @ \ {u},
                         !.abort = IF @ = u THEN None ELSE @]
  IN  /\ audio.stage[u] = "synthesizing"
      /\ \/ u \in audio.aborted /\ audio' = a
         \/ /\ u \notin audio.aborted
            /\ audio' = IF ok /\ enabled /\ ~disabled
                        THEN [a EXCEPT !.stage[u] = "playing", !.player = u]
                        ELSE [Cleaned(a) EXCEPT !.wanted = None]
      /\ UNCHANGED <<ear, switches, approvals>>

\* Mutated PlayerExits: the directory stays.
PlayerExitsLeaving(u) ==
  /\ audio.stage[u] \in {"playing", "killed"}
  /\ audio' = [audio EXCEPT
       !.stage[u] = "idle", !.player = None,
       !.wanted = IF @ = u THEN None ELSE @,
       !.lost = (@ \union ({audio.player} \ {None})) \ {u}]
  /\ UNCHANGED <<ear, switches, approvals>>

(* The player's exit handler clears playerProcess, whichever player that   *)
(* is by now.                                                              *)
PlayerExits(u) ==
  /\ audio.stage[u] \in {"playing", "killed"}
  /\ audio' = [(IF audio.dir = u THEN Cleaned(audio) ELSE audio) EXCEPT
       !.stage[u] = "idle", !.player = None,
       !.wanted = IF @ = u THEN None ELSE @,
       !.lost = (@ \union ({audio.player} \ {None})) \ {u}]
  /\ UNCHANGED <<ear, switches, approvals>>

-----------------------------------------------------------------------------
(* The wake listener.  A listener runs until it was asked to shut down,    *)
(* and for up to three seconds more.                                       *)

(* stopListener *)
Asked(e) ==
  [e EXCEPT
    !.open = @ \ {e.reader}, !.reader = None,
    !.state = [l \in Listener |-> IF l = e.process THEN "asked" ELSE @[l]],
    !.process = None, !.input = FALSE, !.restored = FALSE]

\* Mutated Started: a listener that runs already is not looked for.
StartedAnew(e) ==
  {[e EXCEPT !.state[l] = "running", !.process = l, !.reader = l, !.open = @ \union {l}] :
     l \in {k \in Listener : e.state[k] = "none"}}

(* startListener *)
Started(e) ==
  IF e.process # None THEN {e}
  ELSE {[e EXCEPT !.state[l] = "running", !.process = l, !.reader = l, !.open = @ \union {l}] :
          l \in {k \in Listener : e.state[k] = "none"}}

(* A listener exits, by itself or because it was asked to; its exit        *)
(* handler clears listenerProcess, whichever listener that is by now.      *)
ListenerExits(l) ==
  /\ ear.state[l] # "none"
  /\ ear' = [ear EXCEPT
       !.state[l] = "none", !.open = @ \ {l}, !.process = None, !.input = FALSE,
       !.lost = (@ \union ({ear.process} \ {None})) \ {l}, !.restored = FALSE]
  /\ UNCHANGED <<audio, switches, approvals>>

(* handleListenerEvent: wake on, which also switches speech on, and off *)
Wake(l) ==
  /\ l \in ear.open
  /\ ear' = [ear EXCEPT !.input = TRUE]
  /\ enabled' = (enabled \/ ~disabled)
  /\ hardStopped' = (hardStopped /\ enabled' = enabled)
  /\ UNCHANGED <<audio, disabled, savedOn, session, approvals>>

WakeEnds(l) ==
  /\ l \in ear.open /\ ear.input
  /\ ear' = [ear EXCEPT !.input = FALSE]
  /\ UNCHANGED <<audio, switches, approvals>>

-----------------------------------------------------------------------------
(* Commands *)

(* /speak on, /pk-speak on: transitionSpeakMode("on") lifts the sentinel *)
SpeakOn ==
  /\ session = "open"
  /\ enabled' = TRUE /\ disabled' = FALSE /\ hardStopped' = FALSE
  /\ UNCHANGED <<audio, ear, savedOn, session, approvals>>

(* /speak off *)
SpeakOff ==
  /\ session = "open"
  /\ enabled' = FALSE
  /\ audio' = Stopped(audio)
  /\ UNCHANGED <<disabled, ear, savedOn, session, hardStopped, approvals>>

(* /speak stop *)
SpeakStop ==
  /\ session = "open"
  /\ audio' = Stopped(audio)
  /\ UNCHANGED <<ear, switches, approvals>>

(* /mono on and off *)
MonoOn ==
  /\ session = "open"
  /\ ear' \in Started(ear)
  /\ savedOn' = TRUE
  /\ hardStopped' = FALSE
  /\ UNCHANGED <<enabled, disabled, audio, session, approvals>>

MonoOff ==
  /\ session = "open"
  /\ ear' = Asked(ear)
  /\ UNCHANGED <<audio, switches, approvals>>

\* Mutated HardStop: the listener is left alone.
HardStopSpeechOnly ==
  /\ session = "open"
  /\ enabled' = FALSE /\ disabled' = TRUE
  /\ audio' = Stopped(audio)
  /\ hardStopped' = TRUE
  /\ UNCHANGED <<ear, savedOn, session, approvals>>

(* /pk-speak stop: hardStopPkSpeak *)
HardStop ==
  /\ session = "open"
  /\ enabled' = FALSE /\ disabled' = TRUE
  /\ audio' = Stopped(audio)
  /\ ear' = Asked(ear)
  /\ hardStopped' = TRUE
  /\ UNCHANGED <<savedOn, session, approvals>>

(* /voice: applyVoiceMode, with what voiceModeTargets wants; the realtime  *)
(* switch itself belongs to the gateway.                                   *)
ApplyVoiceMode(mode) ==
  LET speak == mode \in {"tts", "combo"}
      listen == mode \in {"stt", "combo"}
  IN  /\ session = "open"
      /\ enabled' = speak
      /\ disabled' = (disabled /\ ~(speak /\ ~enabled))
      /\ audio' = IF enabled /\ ~speak THEN Stopped(audio) ELSE audio
      /\ IF listen THEN ear' \in Started(ear) ELSE ear' = IF ear.process # None THEN Asked(ear) ELSE ear
      /\ savedOn' = (savedOn \/ (listen /\ ear.process = None))
      /\ hardStopped' = (hardStopped /\ ~speak /\ ~listen)
      /\ UNCHANGED <<session, approvals>>

(* The pk-speak command line and the gateway set and remove the sentinel. *)
Sentinel(set) ==
  /\ disabled' = set
  /\ hardStopped' = (hardStopped /\ set)
  /\ UNCHANGED <<enabled, audio, ear, savedOn, session, approvals>>

(* session_shutdown; the listener is not stopped. *)
SessionShutdown ==
  /\ session = "open"
  /\ session' = "closing"
  /\ audio' = Stopped(audio)
  /\ UNCHANGED <<enabled, disabled, ear, savedOn, hardStopped, approvals>>

(* session_start restores what the session's entries say: any entry with   *)
(* {listening: true} starts the listener, a later {listening: false} does  *)
(* not stop it.  The session is the one that was closed or another one.    *)
SessionStart(same, speak) ==
  /\ session = "closing"
  /\ same => speak = enabled
  /\ session' = "open"
  /\ enabled' = (speak /\ ~disabled)
  /\ savedOn' \in IF same THEN {savedOn} ELSE BOOLEAN
  /\ hardStopped' = (hardStopped /\ same)
  /\ IF savedOn' /\ ear.process = None
     THEN \E e \in Started(ear) : ear' = [e EXCEPT !.restored = TRUE]
     ELSE ear' = ear
  /\ UNCHANGED <<disabled, audio, approvals>>

-----------------------------------------------------------------------------
(* Approvals by voice.  `question' is what was put to the operator last    *)
(* and was not followed by the notice that it is denied.                   *)

(* tool_call and onApprovalRequest while a listener is tracked: the        *)
(* question is spoken, and declined at once if another one is pending.     *)
Ask(c) ==
  /\ ear.process # None
  /\ c # pending /\ c \notin granted
  /\ audio' \in Speaking(audio)
  /\ IF pending = None
     THEN pending' = c /\ question' = c
     ELSE question' = (IF c \in PiCall THEN question ELSE c) /\ UNCHANGED pending
  /\ UNCHANGED <<ear, granted, switches>>

Settled == pending' = None /\ question' = None

(* The registry's timer, or get() for an answer that comes after expiresAt *)
(* but before the timer, declines the request.  Time is left out: the      *)
(* timer may fire at any time.                                             *)
Expires(c) ==
  /\ pending = c
  /\ Settled
  /\ UNCHANGED <<audio, ear, granted, switches>>

(* routeVoiceInput: the word that stops speech, yes, and no *)
HearsStop(l) ==
  /\ l \in ear.open /\ ear.input
  /\ audio' = Stopped(audio)
  /\ UNCHANGED <<ear, switches, approvals>>

HearsYes(l) ==
  /\ l \in ear.open /\ ear.input
  /\ pending # None
  /\ audio' \in Speaking(audio)
  /\ granted' = granted \union {pending}
  /\ Settled
  /\ UNCHANGED <<ear, switches>>

HearsNo(l) ==
  /\ l \in ear.open /\ ear.input
  /\ pending # None
  /\ audio' \in Speaking(audio)
  /\ Settled
  /\ UNCHANGED <<ear, granted, switches>>

(* A call that was let through is done. *)
Finish(c) ==
  /\ c \in granted
  /\ granted' = granted \ {c}
  /\ UNCHANGED <<audio, ear, switches, pending, question>>

-----------------------------------------------------------------------------

Next ==
  \/ Say
  \/ \E u \in Utterance : PlayerExits(u) \/ \E ok \in BOOLEAN : SynthesisEnds(u, ok)
  \/ \E l \in Listener :
       ListenerExits(l) \/ Wake(l) \/ WakeEnds(l) \/ HearsStop(l) \/ HearsYes(l) \/ HearsNo(l)
  \/ SpeakOn \/ SpeakOff \/ SpeakStop \/ MonoOn \/ MonoOff \/ HardStop
  \/ \E mode \in Mode : ApplyVoiceMode(mode)
  \/ \E set \in BOOLEAN : Sentinel(set)
  \/ SessionShutdown
  \/ \E same, speak \in BOOLEAN : SessionStart(same, speak)
  \/ \E c \in Call : Ask(c) \/ Expires(c) \/ Finish(c)

(* Every synthesis has a timeout, audio is finite and a killed player      *)
(* dies; the registry's timer is a live handle that fires.                 *)
Fairness ==
  /\ \A u \in Utterance :
       WF_vars(PlayerExits(u)) /\ WF_vars(\E ok \in BOOLEAN : SynthesisEnds(u, ok))
  /\ \A c \in Call : WF_vars(Expires(c))

Spec == Init /\ [][Next]_vars /\ Fairness

-----------------------------------------------------------------------------

TypeOK ==
  /\ {enabled, disabled, savedOn, hardStopped} \subseteq BOOLEAN
  /\ session \in {"open", "closing"}
  /\ audio \in [abort : Utterance \union {None}, dir : Utterance \union {None},
                player : Utterance \union {None},
                stage : [Utterance -> {"idle", "synthesizing", "playing", "killed"}],
                aborted : SUBSET Utterance, dirs : SUBSET Utterance,
                wanted : Utterance \union {None}, lost : SUBSET Utterance]
  /\ ear \in [process : Listener \union {None}, reader : Listener \union {None},
              state : [Listener -> {"none", "running", "asked"}], open : SUBSET Listener,
              input : BOOLEAN, lost : SUBSET Listener, restored : BOOLEAN]
  /\ pending \in Call \union {None}
  /\ granted \subseteq Call
  /\ question \in Call \union {None}

Playing(u) == audio.stage[u] = "playing"
ToBePlayed(u) == audio.stage[u] = "synthesizing" /\ u \notin audio.aborted
Running(l) == ear.state[l] = "running"

(* Only the newest utterance that nobody stopped is, or will be, heard: a  *)
(* synthesis that was superseded, interrupted or switched off while it was *)
(* awaited never starts to play (speakText, stopSpeaking).                 *)
OneVoice ==
  \A u \in Utterance : ToBePlayed(u) \/ (Playing(u) /\ u \notin audio.lost) => u = audio.wanted

(* The file of the utterance that is to be heard is there until it has     *)
(* been heard: the late exit of a player that was killed does not take the *)
(* directory of the next utterance (playAudioFile).                        *)
KeepsItsFile == audio.wanted # None => audio.wanted \in audio.dirs

(* Types, one voice, and its file.                                         *)
HeardAsAsked == TypeOK /\ OneVoice /\ KeepsItsFile

(* A child process that nobody stopped is reachable by the handle that     *)
(* stops it, unless the late exit of an earlier child cleared the handle:  *)
(* no other order of commands, wake words and session changes loses a      *)
(* player or a listener, and no two are tracked at once.                   *)
LostOnlyByLateExits ==
  /\ \A u \in Utterance : Playing(u) => u = audio.player \/ u \in audio.lost
  /\ \A l \in Listener : Running(l) => l = ear.process \/ l \in ear.lost

(* After /pk-speak stop nothing is spoken and no listener runs, but for    *)
(* the processes whose handle was lost and for a listener that the next    *)
(* session_start restored (hardStopPkSpeak).                               *)
HardStopSilences ==
  hardStopped =>
    /\ \A u \in Utterance : ~ToBePlayed(u) /\ (Playing(u) => u \in audio.lost)
    /\ \A l \in Listener : Running(l) => l \in ear.lost \/ (ear.restored /\ l = ear.process)

(* Every temporary directory is removed in the end, however speech is      *)
(* interrupted (cleanupAudioFiles).                                        *)
EveryDirGoes == \A u \in Utterance : u \in audio.dirs ~> u \notin audio.dirs

(* Every question about a tool call is settled, by the operator or by the  *)
(* timer, whatever other calls ask meanwhile and whether or not a listener *)
(* is left to hear the answer ("Declining on timeout is a real safety      *)
(* guard that must run": voice-approval.ts).                               *)
EveryQuestionEnds == \A c \in Call : pending = c ~> pending # c

(* Neither temporary files nor questions stay forever.                     *)
EverythingEnds == EveryDirGoes /\ EveryQuestionEnds

(* What a program statement and the docs say, and the code does not do: no *)
(* run checks these, README section 4 shows how to see each fail.          *)

(* "/pk-speak stop disables speech mode and stops the wake listener"       *)
(* (README.md): no listener runs until something is switched on again.     *)
HardStopHolds == hardStopped => \A l \in Listener : ~Running(l)

(* "Approve <call>. Say yes or no." (index.ts): the call that runs after a *)
(* yes is the one the operator was asked about last.                       *)
YesAnswersItsQuestion ==
  [][\A c \in Call : c \notin granted /\ c \in granted' => question = c]_vars

=============================================================================
