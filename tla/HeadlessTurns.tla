---------------------------- MODULE HeadlessTurns ----------------------------
(***************************************************************************)
(* What the headless gateway (headless-gateway.ts) does with the turn that *)
(* its RemoteTurnManager runs, and with the brainstorms that pass the      *)
(* queue by: which agent provider gets the prompt, what happens when that  *)
(* one fails, and which processes are started and ended on the way         *)
(* (agent-provider-factory.ts, claude-agent-provider.ts).                  *)
(*                                                                         *)
(* A provider is shared by all turns (codex, with the Pi command line as   *)
(* its fallback, or ompk), made for one turn, or made for the ompk session *)
(* that the client has selected (omp-selection.ts).  Codex answers through *)
(* an app-server it keeps, or, when that fails early enough, through a run *)
(* of codex exec: CodexProvider says when.  All others start one process   *)
(* per prompt, with a timeout; runs of ompk wait for each other.           *)
(*                                                                         *)
(* One turn runs at a time (RemoteTurns), so turns share one job; turns    *)
(* that are answered without waiting for anything leave no trace here.     *)
(* Gemini as the agent is left out.  A killed process may have children    *)
(* that keep its pipes open: it is closed late or never.                   *)
(*                                                                         *)
(* Of codex providers this module keeps the app-servers: which of them     *)
(* live, which one a provider tracks, and whose exit it will be told of.   *)
(* Bounds: the Servers there may be at once, the jobs, the sessions.       *)
(***************************************************************************)
EXTENDS Naturals, Sequences, SequencesExt

CONSTANTS Client,      \* keys of clients
          Session,     \* ompk session files
          Storm,       \* jobs of brainstorm requests
          Turn,        \* the job of the turn that runs
          Configured,  \* kinds the shared provider may be of
          Server,      \* app-servers there may be at once
          MaxPending,  \* MAX_PENDING_OMP_CLI_TURNS
          None

ASSUME ConfiguredAssumption == Configured \subseteq {"app", "cli", "claude", "omp"}
ASSUME MaxPendingAssumption == MaxPending \in Nat
ASSUME JobsAssumption == Turn \notin Storm
ASSUME NoneAssumption == None \notin Client \union Session \union Server
ASSUME ServerAssumption == Server # {}

VARIABLES
  shared,    \* the kind of the shared provider: "app" is codex
  job,       \* where each job is, and through which provider
  chain,     \* jobs behind ompCliTurnTail, the first of which runs
  child,     \* the app-server that each codex provider tracks
  booting,   \* the codex providers whose app-server is not initialized yet
  live,      \* app-servers that were not told to end
  heard,     \* app-servers whose exit the shared provider is told of
  lost,      \* history: live ones whose handle the exit of another one cleared
  selected,  \* OmpSelectionStore.byClient
  chosen,    \* history: what each client last chose
  undone     \* history: clients of whom a resumed turn failed since

env == <<shared, selected, chosen, undone>>
servers == <<child, booting, live, heard, lost>>
vars == <<shared, job, chain, servers, selected, chosen, undone>>

Job == Storm \union {Turn}
Codex == {"shared", "own"}   \* the codex providers: shared, and made for the turn

Commands == {"cli", "claude", "omp"}   \* one process per prompt
Kind == Commands \union {"app"}

Alive == {"command", "terminated", "killed"}   \* a process of the job lives

\* resumes: the client whose session the job resumed; last: no fallback is left.
Idle == [step |-> "idle", kind |-> "none", own |-> FALSE, resumes |-> None, last |-> FALSE]

Init ==
  /\ shared \in Configured
  /\ job = [s \in Job |-> Idle]
  /\ chain = <<>>
  /\ live = IF shared = "app" THEN {CHOOSE a \in Server : TRUE} ELSE {}
  /\ child = [p \in Codex |-> IF p = "shared" /\ shared = "app" THEN CHOOSE a \in Server : TRUE
                                                                ELSE None]
  /\ heard = live
  /\ booting = {}
  /\ lost = {}
  /\ selected = [c \in Client |-> None]
  /\ chosen = selected
  /\ undone = {}

-----------------------------------------------------------------------------
(* App-servers.                                                            *)

(* bootAppServer of provider `p'.                                          *)
Spawned(p) ==
  LET a == CHOOSE x \in Server : x \notin live \union heard
  IN  /\ Server \ (live \union heard) # {}
      /\ child' = [child EXCEPT ![p] = a]
      /\ booting' = booting \union {p}
      /\ live' = live \union {a}
      /\ heard' = IF p = "shared" THEN heard \union {a} ELSE heard
      /\ UNCHANGED lost

(* ensureAppServer: a boot under way is joined.                            *)
Ensured(p) == IF child[p] = None THEN Spawned(p) ELSE UNCHANGED servers

(* disposeAppServerChild, stop: what `p' tracks is told to end.  Its exit  *)
(* comes later.                                                            *)
Disposed(p) ==
  /\ live' = live \ {child[p]}
  /\ child' = [child EXCEPT ![p] = None]
  /\ booting' = booting \ {p}
  /\ UNCHANGED <<heard, lost>>

(* The answer to "initialize" comes, or an error, or none in time.         *)
Boots(p) ==
  /\ p \in booting
  /\ \/ booting' = booting \ {p} /\ UNCHANGED <<child, live, heard, lost>>
     \/ Disposed(p)
  /\ UNCHANGED <<env, job, chain>>

(* handleAppServerExit of `p', which does not ask whether it is the        *)
(* app-server it tracks that exits.                                        *)
ForgetsAtExit(p, a) ==
  /\ child' = [child EXCEPT ![p] = None]
  /\ booting' = booting \ {p}
  /\ lost' = (lost \union {child[p]}) \ {a, None}

(* An app-server exits, told to or not.  What was asked of it fails later  *)
(* (AppEnds).  Nobody hears of it if its provider was replaced or stopped. *)
ServerExits(a) ==
  /\ a \in live \union heard
  /\ live' = live \ {a}
  /\ heard' = heard \ {a}
  /\ \/ a \in heard /\ ForgetsAtExit("shared", a)
     \/ a \notin heard /\ a = child["own"] /\ ForgetsAtExit("own", a)
     \/ a \notin heard /\ a # child["own"] /\ lost' = lost \ {a} /\ UNCHANGED <<child, booting>>
  /\ UNCHANGED <<env, job, chain>>

-----------------------------------------------------------------------------
(* The providers.                                                          *)

\* Mutated Ended: the provider made for the turn is not stopped.
EndedRunning(s, j, ch) ==
  /\ job' = [j EXCEPT ![s] = Idle]
  /\ chain' = ch
  /\ UNCHANGED servers

(* Job `s' returns or throws, and runWithTurnRoute stops what it made for  *)
(* the turn.                                                               *)
Ended(s, j, ch) ==
  /\ job' = [j EXCEPT ![s] = Idle]
  /\ chain' = ch
  /\ IF s = Turn THEN Disposed("own") ELSE UNCHANGED servers

\* Mutated Cleared: the one selection of all clients is cleared.
ClearedForAll(c) ==
  /\ selected' = [other \in Client |-> None]
  /\ undone' = undone \union {c}

(* onPrimaryFailure: whatever the client has selected by now is cleared.   *)
Cleared(c) ==
  /\ selected' = [selected EXCEPT ![c] = None]
  /\ undone' = undone \union {c}

(* The prompt of job `s' failed: a resumed session is given up, another    *)
(* turn is tried once more on the fallback, if there is one.               *)
Failed(s, j, ch) ==
  \/ /\ j[s].resumes # None
     /\ Cleared(j[s].resumes)
     /\ Ended(s, j, ch)
  \/ /\ j[s].resumes = None
     /\ UNCHANGED <<selected, undone>>
     /\ IF s = Turn /\ shared = "app" /\ ~j[s].last
          THEN /\ job' = [j EXCEPT ![s] = [@ EXCEPT !.step = "command", !.kind = "cli", !.last = TRUE]]
               /\ chain' = ch
               /\ UNCHANGED servers
          ELSE Ended(s, j, ch)

(* The chain and the jobs once `s' has left the head of the chain.         *)
Unchained(s) == IF job[s].kind = "omp" THEN Tail(chain) ELSE chain

NextInChain(s) ==
  IF job[s].kind = "omp" /\ Len(chain) > 1
    THEN [job EXCEPT ![chain[2]].step = "command"]
    ELSE job

\* Mutated Chained: ompk runs do not wait for each other.
ChainedAtOnce(s, b) ==
  /\ Len(chain) < MaxPending
  /\ chain' = Append(chain, s)
  /\ job' = [job EXCEPT ![s] = [b EXCEPT !.step = "command"]]
  /\ UNCHANGED <<servers, selected, undone>>

(* runOmpCli: the run waits for the ones before it.                        *)
Chained(s, b) ==
  /\ Len(chain) < MaxPending
  /\ chain' = Append(chain, s)
  /\ job' = [job EXCEPT ![s] = [b EXCEPT !.step = IF chain = <<>> THEN "command" ELSE "chain"]]
  /\ UNCHANGED <<servers, selected, undone>>

(* The codex provider that `b' describes.                                  *)
ProviderOf(b) == IF b.own THEN "own" ELSE "shared"

(* sendPrompt of the provider that `b' describes: an app-server is booted  *)
(* if none is tracked, a command is started, or a run of ompk is put in    *)
(* the chain, which fails when too many are there.                         *)
Prompted(s, b) ==
  \/ /\ b.kind = "app"
     /\ job' = [job EXCEPT ![s] = [b EXCEPT !.step = "app"]]
     /\ Ensured(ProviderOf(b))
     /\ UNCHANGED <<chain, selected, undone>>
  \/ /\ b.kind \in {"cli", "claude"}
     /\ job' = [job EXCEPT ![s] = [b EXCEPT !.step = "command"]]
     /\ UNCHANGED <<chain, servers, selected, undone>>
  \/ /\ b.kind = "omp"
     /\ \/ Chained(s, b)
        \/ Len(chain) >= MaxPending /\ Failed(s, [job EXCEPT ![s] = b], chain)

ByShared == [Idle EXCEPT !.kind = shared]
BySelection(c) == [Idle EXCEPT !.kind = "omp", !.resumes = c]

(* createTurnAgentProvider: a new provider, or the shared fallback.        *)
ByBackend == {[Idle EXCEPT !.kind = k, !.own = (k = "app")] : k \in Kind}

-----------------------------------------------------------------------------
(* Turns and brainstorms.                                                  *)

(* runTextTurn: the session its client has selected, unless the turn names *)
(* a backend or a target; else the shared provider.                        *)
TextTurn(c) ==
  /\ job[Turn].step = "idle"
  /\ \/ Prompted(Turn, IF selected[c] # None THEN BySelection(c) ELSE ByShared)
     \/ \E b \in ByBackend : Prompted(Turn, b)
  /\ UNCHANGED <<shared, chosen>>

VoiceTurn ==
  /\ job[Turn].step = "idle"
  /\ job' = [job EXCEPT ![Turn].step = "hearing"]
  /\ UNCHANGED <<env, chain, servers>>

(* The transcription ended: it failed, which is told, perhaps aloud; it    *)
(* was empty; the client has selected a session; or the turn is reduced.   *)
Heard ==
  /\ job[Turn].step = "hearing"
  /\ \/ job' = [job EXCEPT ![Turn] = [Idle EXCEPT !.step = "rendering"]]
        /\ UNCHANGED <<chain, servers, selected, undone>>
     \/ Ended(Turn, job, chain) /\ UNCHANGED <<selected, undone>>
     \/ \E c \in Client : selected[c] # None /\ Prompted(Turn, BySelection(c))
     \/ job' = [job EXCEPT ![Turn].step = "reducing"]
        /\ UNCHANGED <<chain, servers, selected, undone>>
  /\ UNCHANGED <<shared, chosen>>

(* The reducer answered: the shared provider, if nothing is to be          *)
(* dispatched or its backend is asked for, or another one.                 *)
Reduced ==
  /\ job[Turn].step = "reducing"
  /\ \E b \in ByBackend \union {ByShared} : Prompted(Turn, b)
  /\ UNCHANGED <<shared, chosen>>

(* onBrainstorm: the text goes to the shared provider beside the queue.    *)
Brainstorm(s) ==
  /\ job[s].step = "idle"
  /\ Prompted(s, ByShared)
  /\ UNCHANGED <<shared, chosen>>

(* The prompt of job `s' was answered: the reply may be rendered as audio. *)
Answered(s) ==
  /\ UNCHANGED <<selected, undone>>
  /\ \/ Ended(s, NextInChain(s), Unchained(s))
     \/ /\ s = Turn
        /\ job' = [NextInChain(s) EXCEPT ![s].step = "rendering"]
        /\ chain' = Unchained(s)
        /\ UNCHANGED servers

Rendered ==
  /\ job[Turn].step = "rendering"
  /\ Ended(Turn, job, chain)
  /\ UNCHANGED env

-----------------------------------------------------------------------------
(* Commands.                                                               *)

(* The command closes, in time with an answer or an error, or too late.    *)
CommandCloses(s) ==
  /\ job[s].step \in Alive
  /\ \/ job[s].step = "command" /\ Answered(s)
     \/ Failed(s, NextInChain(s), Unchained(s))
  /\ UNCHANGED <<shared, chosen>>

(* The timeout: claude is told to end and given up, the others are waited  *)
(* for.                                                                    *)
TimesOut(s) ==
  /\ job[s].step = "command"
  /\ IF job[s].kind = "claude"
       THEN Failed(s, job, chain)
       ELSE /\ job' = [job EXCEPT ![s].step = "terminated"]
            /\ UNCHANGED <<chain, servers, selected, undone>>
  /\ UNCHANGED <<shared, chosen>>

ForceKill(s) ==
  /\ job[s].step = "terminated"
  /\ job' = [job EXCEPT ![s].step = "killed"]
  /\ UNCHANGED <<env, chain, servers>>

\* Mutated Deadline: only a process that closes ends the wait.
DeadlineWaits(s) == job[s].step = "killed" /\ UNCHANGED vars

(* The deadline: the job goes on without the process.                      *)
Deadline(s) ==
  /\ job[s].step = "killed"
  /\ Failed(s, NextInChain(s), Unchained(s))
  /\ UNCHANGED <<shared, chosen>>

-----------------------------------------------------------------------------
(* Codex, and cancelling.                                                  *)

(* The turn of the app-server ends, or it is not accepted, which starts    *)
(* codex exec, when no other turn is active, or fails.                     *)
AppEnds(s) ==
  /\ job[s].step = "app"
  /\ \/ child[ProviderOf(job[s])] # None /\ ProviderOf(job[s]) \notin booting /\ Answered(s)
     \/ job' = [job EXCEPT ![s].step = "exec"] /\ UNCHANGED <<chain, servers, selected, undone>>
     \/ Failed(s, job, chain)
  /\ UNCHANGED <<shared, chosen>>

ExecEnds(s) ==
  /\ job[s].step = "exec"
  /\ Answered(s) \/ Failed(s, job, chain)
  /\ UNCHANGED <<shared, chosen>>

(* The shared provider is replaced and the new one boots; `kept' are the   *)
(* app-servers that live on.                                               *)
Replaced(kept) ==
  LET a == CHOOSE x \in Server : x \notin kept
  IN  /\ Server \ kept # {}
      /\ child' = [child EXCEPT !["shared"] = a]
      /\ booting' = booting \union {"shared"}
      /\ live' = kept \union {a}
      /\ heard' = {a}
      /\ UNCHANGED lost

\* Mutated CancelCurrentTurn: the old provider is not stopped.
CancelWithoutStop ==
  /\ shared = "app"
  /\ Replaced(live)
  /\ UNCHANGED <<env, job, chain>>

(* cancelCurrentTurn: the shared provider is stopped and replaced, and the *)
(* new one boots.  Jobs that wait for the old one fail, or go on with      *)
(* codex exec; all other jobs go on as they are.                           *)
CancelCurrentTurn ==
  /\ shared = "app"
  /\ Replaced(live \ {child["shared"]})
  /\ \E execs \in SUBSET {s \in Job : job[s].step = "app" /\ ~job[s].own} :
       job' = [s \in Job |->
                 IF job[s].step # "app" \/ job[s].own THEN job[s]
                 ELSE IF s \in execs THEN [job[s] EXCEPT !.step = "exec"]
                 ELSE IF s = Turn THEN [job[s] EXCEPT !.step = "command", !.kind = "cli", !.last = TRUE]
                 ELSE Idle]
  /\ UNCHANGED <<env, chain>>

(* A client selects an ompk session, or none.                              *)
Select(c, x) ==
  /\ x # chosen[c] \/ x # selected[c]
  /\ selected' = [selected EXCEPT ![c] = x]
  /\ chosen' = [chosen EXCEPT ![c] = x]
  /\ undone' = undone \ {c}
  /\ UNCHANGED <<shared, job, chain, servers>>

Next ==
  \/ VoiceTurn \/ Heard \/ Reduced \/ Rendered \/ CancelCurrentTurn
  \/ \E c \in Client : TextTurn(c) \/ \E x \in Session \union {None} : Select(c, x)
  \/ \E s \in Storm : Brainstorm(s)
  \/ \E s \in Job : CommandCloses(s) \/ TimesOut(s) \/ ForceKill(s) \/ Deadline(s)
                    \/ AppEnds(s) \/ ExecEnds(s)
  \/ \E p \in Codex : Boots(p)
  \/ \E a \in Server : ServerExits(a)

(* Timers fire, and transcription, reducer, speech synthesis and codex     *)
(* answer or fail in the end.  Commands need not.                          *)
Fairness ==
  /\ WF_vars(Heard) /\ WF_vars(Reduced) /\ WF_vars(Rendered)
  /\ \A s \in Job :
       /\ WF_vars(TimesOut(s)) /\ WF_vars(ForceKill(s)) /\ WF_vars(Deadline(s))
       /\ WF_vars(AppEnds(s)) /\ WF_vars(ExecEnds(s))

Spec == Init /\ [][Next]_vars /\ Fairness

-----------------------------------------------------------------------------

TypeOK ==
  /\ shared \in Configured
  /\ job \in [Job -> [step : {"idle", "hearing", "reducing", "app", "exec", "chain", "rendering"}
                               \union Alive,
                      kind : Kind \union {"none"}, own : BOOLEAN,
                      resumes : Client \union {None}, last : BOOLEAN]]
  /\ chain \in Seq(Job)
  /\ child \in [Codex -> Server \union {None}]
  /\ booting \subseteq Codex
  /\ {live, heard, lost} \subseteq SUBSET Server
  /\ selected \in [Client -> Session \union {None}]
  /\ chosen \in [Client -> Session \union {None}]
  /\ undone \subseteq Client

(* The jobs that wait in the chain or run at its head.                     *)
InOmp == {s \in Job : job[s].kind = "omp" /\ job[s].step \in Alive \union {"chain"}}

(* Two runs of ompk never work on the same files at once: turns and        *)
(* brainstorms wait for each other, also when a run fails or is killed,    *)
(* and a run that is over never keeps a place that another is refused for. *)
(* A process that is not gone at its deadline is no longer counted.        *)
OneOmpAtATime ==
  /\ IsInjective(chain) /\ ToSet(chain) = InOmp
  /\ \A s \in InOmp : job[s].step \in Alive <=> s = Head(chain)

(* Every app-server that lives is tracked by the provider that is shared   *)
(* now, or by that of the turn that made it, each of which will stop it:   *)
(* neither failing boots, fallbacks nor cancels leave one behind.  The     *)
(* exception: a provider forgets the one it tracks when it hears of the    *)
(* late exit of an older one, which it had stopped or forgotten before.    *)
NoServerLeftBehind ==
  /\ live \subseteq {child["shared"], child["own"]} \union lost
  /\ child["own"] # None => job[Turn].own

(* Not so in the code, for that exception.                                 *)
NoServerLost == lost = {}

(* Nothing runs that the gateway would not wait for, stop or replace.      *)
ProcessesAccounted == OneOmpAtATime /\ NoServerLeftBehind

(* The session a client has selected stays selected until the client       *)
(* selects another or a turn that had resumed a session of that client     *)
(* fails: turns of other clients, cancels and fallbacks do not change it.  *)
ChoiceKept ==
  \A c \in Client :
    selected[c] = chosen[c] \/ (selected[c] = None /\ c \in undone)

(* Every turn and every brainstorm ends, through all its fallbacks, even   *)
(* when no command ever closes and kills have no effect.                   *)
EveryTurnEnds ==
  \A s \in Job : job[s].step # "idle" ~> job[s].step = "idle"

=============================================================================
