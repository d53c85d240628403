# Verification of pk-speak

TLA+ models of the parts of this repository where order, failure and time
decide whether the program is right, TLC configurations that check them on
small instances, and TLAPS proofs of theorems that hold for every instance.
Paths in this document and in the modules' comments are relative to the
repository (`index.ts` and the other top-level TypeScript files are in `src/`).

```
tlc -workers 2 -config PhoneTurns.cfg PhoneTurns       # a run
tlapm PhoneTurns_proofs.tla                            # a proof
```

## 1. The system

pk-speak gives coding agents a voice. A *Pi extension* speaks replies and
listens for a wake word; a *remote gateway* lets phones, browsers and Telegram
send turns to the agent; a *headless gateway* does the same without Pi, over
other agents; a *live gateway* connects a client to a realtime voice model that
calls tools on the host; an *agent hub* shows and steers several agent sessions,
kept in Herdr workspaces. Everything on the host is single-threaded Node.js:
code runs undisturbed from one `await` or callback to the next, and all the
difficulty is in what happens between. The other processes (the agents, Python
workers, players, Herdr, other gateways on the same files) run truly in parallel.

### Components

| component | state it keeps | operations | what is hard | what makes it correct | modelled by |
|---|---|---|---|---|---|
| remote turn queue (`remote-turn-manager.ts`) | queue, `processing`, timers | `enqueue`, the loop, queue timeout, `cancelAll` | re-entrant loop, timers against the loop, a run that hangs | one turn at a time, in order; no caller left without an answer | `RemoteTurns` |
| phone turns and session routing (`index.ts`, `pi-agent-provider.ts`) | the turn that runs, the provider's `activeTurn`, the Pi session | `executePhoneTurn`, `agent_end`, `session_start`, `session_shutdown` | Pi's events name no turn; the session ends or is switched while a turn runs | a phone gets its own turn's reply, or an error | `PhoneTurns` (over `RemoteTurns`) |
| agent providers (`codex-`, `claude-`, `omp-`, `gemini-agent-provider.ts`, `agent-provider-factory.ts`) | child process, thread, `activeTurn`, approvals; the chain of ompk runs | `prompt`, `stop`, protocol events, timeouts | concurrent first prompts, late exits, answers out of order | each prompt gets its own answer, once | `CodexProvider`, `HeadlessTurns`, `PhoneTurns` |
| headless gateway (`headless-gateway.ts`, `omp-selection.ts`) | the shared provider, the selection of each client | text and voice turns, brainstorms, `cancelCurrentTurn`, select | failover from provider to provider, replacement across awaits | every turn ends, no process left behind but by a late exit, a client keeps its choice | `HeadlessTurns` (with `RemoteTurns`, `PhoneBridge`) |
| live session link (`realtime-gateway.ts`, `app.js`, `RealtimeVoiceSession.kt`) | sessions, resume token, message counter and buffer, grace timer, upstream handle; the client's cursor | hello, resume, start, send, close, grace, upstream connect/setup/goAway/close | sockets that die silently, two sockets of one session, messages numbered over reconnections | one open socket, no silent loss, no duplicates, no session kept forever | `LiveLink` |
| deferred tool calls and approval (`realtime-gateway.ts`, `realtime-terminal-approval.ts`, `realtime-command-approval.ts`) | two registries, three maps of pending calls, timers, the response queue | request, approve, reject, expire, run, narrate, snapshot, answer | late timers, repeated decisions, the upstream being replaced | runs once, only if approved in time; what runs is answered | `ToolApproval`, `ApprovalGate` |
| mutations of live sessions (`session-workspace.ts`) | mutation lock, receipts in memory and on disk | prompt, focus, resume | retries, timeouts with a late effect, failing saves, restarts | one effect per idempotency key; an acknowledged success is remembered once it is saved | `SessionMutations` |
| local voice layer (`index.ts`, `voice-mode.ts`, `voice-approval.ts`, `listener-control.ts`) | handles of player, synthesis and listener; switches; sentinel file; approval registry | speak, stop, `/mono`, `/voice`, `/pk-speak stop`, session start and end, spoken yes and no | handles that outlive or lose their process, results after an await | the newest utterance is the one heard; stop means silence | `VoiceLayer` |
| Telegram phone bridge (`phone-bridge.ts`) | update offset, link code, tries, lockout | poll, handle, link, unpair, start, stop | crash between mark and handle, a second loop | an update makes at most one turn; a code has few tries | `PhoneBridge` |
| session worktrees (`session-worktree.ts`, `session-transfer.ts`) | leases, worktrees, rescue bundles | pick up, sweep, rescue | several processes, crash between steps, work begun during a sweep | no work is lost; every worktree is managed | `SessionWorktree` |
| Herdr task store (`herdr-task-service.ts`) | a file, its lock, its reclaim lock, receipts | open, create, close | a stale lock taken over by several | one owner, one task per key | `HubTaskStore`, `HubTasks` |
| control server (`control-server.ts`) | speech artifacts, rate windows | HTTP routes, WebSocket upgrade | - | delegates to the components above | no |
| attention broker (`attention-broker.ts`) | a lease file shared by processes | claim, focus, renew, release | read-modify-write without a lock | one leader | no (section 7) |
| session event log (`session-events.ts`) | a file shared by processes | append, read since | the same | no event lost, numbers unique | no (section 7) |
| agent hub gateway (`herdr-agent-hub-gateway.ts`) | idempotency keys, kill confirmations | chat, kill, rename | key tested before, stored after an await | one chat per key | no (section 7) |
| hub handoff | the set of busy owners | hand off | - | one operation per owner | no: a guard and a `finally` |
| conversation routing and reduction | none shared | decide over text | text | - | no: sequential, text |
| speech synthesis and recognition | none shared | calls of services | failures | - | environment of `VoiceLayer`, `HeadlessTurns` |
| realtime backends | item and truncation bookkeeping | barge-in, events | order of events | heard = remembered | environment of `LiveLink`, `ToolApproval` |
| realtime helpers | an append-only log | resolve, brief, classify | text | - | no: pure functions |
| command line, MCP server, tray | configuration | start, stop | other programs | - | no: I/O; the sentinel is in `VoiceLayer` |
| pairing and discovery (`pairing.ts`) | token file, sentinel | probe, create | two first starts | one token | no; the sentinel is in `VoiceLayer` |
| wake listener and speech workers | audio state | wake, hear | audio | - | a process of `VoiceLayer` |
| web clients | cursor, token | reconnect | - | - | the web client of `LiveLink` |
| Android client | cursor, token | reconnect | - | - | the android client of `LiveLink` |

### How they interact

- Phone, browser and Telegram turns end in `RemoteTurnManager.enqueue`; its
  `run` is `executePhoneTurn` in the extension and `runTextTurn` or the voice turn
  in the headless gateway, promises the manager awaits. `PhoneTurns` and
  `HeadlessTurns` are these two bodies.
- A turn reaches its agent through a provider. The Pi provider listens to the
  events of the Pi session it lives in; Codex keeps an app-server process; the
  others start a command per prompt. The Codex provider's approval requests
  and Pi's `tool_call` hook share one slot of the voice approval registry.
- The headless gateway uses the same turn manager, the same Codex provider and
  the same phone bridge as the extension. Brainstorm requests reach its shared
  provider beside the turn queue.
- The live gateway shares one process with the control server (which hands it
  upgraded sockets). Its sessions survive their socket for the grace period
  and own one upstream connection each; tool calls of the model arrive there
  and are answered there, or queued while it is replaced.
- The session workspace is called by HTTP routes; it starts Herdr command
  lines and persists its receipts to a file.
- The extension owns child processes (players, listeners) through variables
  that the children's exit events clear. The command line, the gateway and the
  extension share the voice-disable sentinel file.
- Pi processes share the worktrees and leases of picked up sessions, gateway
  processes the file of hub tasks: both through the file system only.

## 2. The modules

One step of a model is what the program runs between two awaits or callbacks,
or, where processes share files, one access to a file. Time, where a property
needs it, is a counter of ticks; timers are due from their tick on, and fire
when the event loop gets to them, possibly later than other events of the same
tick.

`map` in `PROJECT.json` names the lines behind every definition. A definition
commented "Mutated X" is a plausible wrong version of X; substituted for X it
breaks a property, which shows that the property depends on the code being
as it is. A variable commented "history" is not in the code.

### RemoteTurns (`remote-turn-manager.ts`)

`queue`, `processing` and `armed` (the queue timers) are the manager's fields,
`turn` the promise of each caller. `Enqueue` runs on into `ProcessQueue` and, if
no loop is alive, on to the await of `run()`; `RunSettles` continues the loop.
`QueueTimeout` is `removeQueuedTurn`; `CancelAll` rejects the waiting turns
only. Left out: timestamps, timings and `lastError`, which nothing reads back.

### PhoneTurns (`index.ts`, `pi-agent-provider.ts`), EXTENDS RemoteTurns

What `run()` is in the extension. `step` is where `executePhoneTurn` of the running
turn is; `session` and `run` are Pi's; `active` and `text` are `activeTurn` and its
queue in the provider; `reply` is what the caller gets. `Submit`, `QueueTimer` and
`CancelledByPhone` are the actions of the queue; `Replies` and `Throws` settle the
run and let the queue go on, possibly into the next turn. `Dispatch` finds Pi
ready and sends the prompt in one step, as the code does between two awaits;
`LiveEnds` is the fallback from Gemini Live. `PiText`, `RunEnds`, `SessionShutdown`
and `SessionStart` are Pi's events, which name no turn. `disturbed` is history. That
the whole drives the queue as `RemoteTurns` says is `ImplementsRemoteTurns`.

### CodexProvider (`codex-agent-provider.ts`, `async-queue.ts`)

`child`, `thread`, `active` and `queue` are fields of the provider, `proc` the
processes themselves, `home` and `turn` what the app-server knows, `pc` where each
`sendPrompt` is. `Send` goes to the await of `ensureThread`, `ThreadStarted` and
`TurnStarted` are the JSON-RPC answers, `Delta`, `Completed` and `ErrorNoted` the notifications, which
count for the active turn until its turn id is known; `ExecEnds` is `codex exec`.
`Stop` kills and forgets; `Exits` is the exit event, on time or after the successor
was spawned. `Ask` and `Decide` are the approvals over the registry's one slot.

### HeadlessTurns (`headless-gateway.ts`, `agent-provider-factory.ts`, `claude-agent-provider.ts`, `omp-selection.ts`)

One turn runs at a time, so the turns share one job, `Turn`; each of `Storm` is a
brainstorm. A job's record says at which step it is, through which kind of
provider, whether the turn made the provider for itself (`own`), whose selected
session it resumed, and whether a fallback is left. `Prompted` is `sendPrompt` of
whichever provider, `Failed` what `runWithTurnRoute`, `onPrimaryFailure` and the
fallback do with a failure, `chain` the jobs behind `ompCliTurnTail`. `TimesOut`,
`ForceKill` and `Deadline` are the three timers of a command that does not close.
`child` is the handle (`this.child`) of the shared Codex provider and of the turn's
own, `live` the app-servers nobody told to end, `heard` those whose exit event the
shared provider still gets; `Boots` ends a boot, well or by disposing of the child,
and `ServerExits` clears the provider's handle, whichever child exited. What
such an exit makes it forget is `lost`. `CancelCurrentTurn` replaces the shared
provider. `AppEnds` leaves open when Codex falls back to `codex exec`:
`CodexProvider` says when.

### LiveLink (`realtime-gateway.ts`, `web/remote/app.js`, `RealtimeVoiceSession.kt`)

`session` is the array of `ActiveSession` objects, `ready` the gateway's view of
each socket, `watched` the sockets that got a close handler, `down` and `hello`
what is in flight, `cut` the connections that are gone whether or not anybody
noticed, `client` what the client remembers. `FirstMessage` and `InitTimeout` are
`handleRealtimeGateway`; `ResumeSession`/`TakeOver` are `resumeSession` with its
flush, its new token and its start; `SendToClient` numbers, sends, or buffers
with `Capped`; `SendLiveStartWhenReady` is called from both places the code calls
it; `GoAway` is `reconnectLiveSession`. `Client` chooses which client's cursor
rule applies (`Counts`): the web client keeps the highest number, Android the last
one and does not count audio. `copies` and `lost` are history, and so are
`client.of` (the session the client's number belongs to), `strayed` (a session that
was resumed with another session's number) and `untold` (one whose end was told to
a socket that its client had left).

### ToolApproval and ApprovalGate

`registry` stands for both approval registries (`SameRegistry` keeps them
apart), `pending` for the three maps of pending calls, `timer` for the cards' and
the camera's timers, `queue` for `pendingToolResponses`, `upstream` for the session
object. `Pruned` is what `request` and `resolve` do to all expired entries of their
registry; `CardTimesOut` is `expire`, which does not prune. `Respond` is
`sendRealtimeToolResponse`. `ApprovalGate` is the promise in a page: asked, executed
once and only then answered, or refused and answered; `ToolApproval` refines it
(`ImplementsGate`), with the stage of a call (`Stage`) computed from its final
answers, sent or queued (`Finals`).

### SessionMutations (`session-workspace.ts`)

`chain` is the promise chain of `withMutationLock`, `memory` and `file` the receipts
(`#mutations`, the store), `command` the Herdr process of a request. `Guard` is
`mutationGuard`; `Found` continues after `findSession`, writes the receipt and starts
the command; `Succeeds`, `Rejected` and `FailsUnclearly` are the three ways the
await ends; `HerdrActs` is the effect, which may precede, replace or follow the
answer and survives a `Restart`. Saving may throw at any write; a completed receipt
whose save threw (`unsaved`) is replayed from the memory. `until` is how long the
receipt lives on which a client was told of a success, at once or as a replay.

### VoiceLayer (`index.ts`, `voice-mode.ts`, `voice-approval.ts`, `listener-control.ts`)

`audio` and `ear` hold the extension's handles beside the processes, readers and
directories that really exist, so that the two can disagree. `Spoken` is
`speakText` up to its await, `SynthesisEnds` its continuation, `Stopped` is
`stopSpeaking`, `PlayerExits` and `ListenerExits` the exit handlers,
`Asked`/`Started` are `stopListener`/`startListener`. `Ask` is the `tool_call` hook or
Codex's `onApprovalRequest`; `Expires`, `HearsYes`, `HearsNo` settle the request.
`monoActive` is assigned wherever `listenerProcess` is and is folded into it. The
realtime switch of `/voice` belongs to the gateway and is left out, as is what a
spoken sentence that is not a command is routed to.

### PhoneBridge (`phone-bridge.ts` and the two hosts' bridge commands)

`loop` holds the poll loops (two, when `start` comes while `stop` awaits the old
one), each with the rest of its batch; `last` is `lastUpdateId`, `confirmed` what
Telegram will not deliver again; `link` holds the linking fields, all persisted:
by the gateway in one file, by the extension as JSON entries of its session, which
`session_start` merges (`index.ts:4652`). A field that was cleared is missing from
an entry, and `kept` is what the merge gives for it: the chat that was unpaired,
the code and the lockout that were given up (`Restored`). `Earlier` is what an older
session gives back. An update is marked, then handled, so that a failing one is
not tried again and the rest of its batch is. `shouted` is a wrong code after
`/LINK`: line 166 compares without case, line 171 counts only `/link `. `tries`,
`lockedUntil` and `turns` are history.

### SessionWorktree (`session-worktree.ts`, `session-transfer.ts`, `index.ts`)

Each pickup and each sweep is one synchronous call in its own process, but a
step is one git command or one access to a lease, since other processes and the
agents go on meanwhile; `Crash` may come between any two. `tree` holds the work in
a worktree as sets: the tracked diff, untracked files, commits. Git may fail at
each look: an unreadable status counts as dirty (`List`), and a rescue for which
`captureGitState` got no diff succeeds with an empty bundle (`Rescue`). `unseen`
(work that a process was not shown: done since it looked, or in a diff git failed
to give), `overlap` (sessions two processes worked on at once) and `orphan` (pickups
that died before the lease) are history and bound what the properties excuse.

### HubTaskStore and HubTasks (`herdr-task-service.ts`)

A step is one access to the file system. `reclaim` and `lock` are the two lock
files (`"empty"`: made, not yet named), `seen` what `removeStaleLock` read, `disk` and
`mem` the receipts, `pc` where each process's constructor or `createTask` is, and
`left` (history) the lock files whose maker crashed under them. `Crash` stands for
every end without `close`: a kill, a `load` that throws (`herdr-task-service.ts:360`),
a step of `shutdown` before `close` that fails (`headless-gateway.ts:1277`). Naming a
lock file may fail; removing one is taken to succeed.
`HubTasks` is the promise: a key makes one task, which stays, and clients are told
the truth. `KeepsPromise` is the refinement, with `made <- disk`.

## 3. The runs

| run | question | instance | states | result |
|---|---|---|---|---|
| `phone_turns` | do phones, timers, cancels, Pi's operator and closing sessions leave a turn lost, doubled, stranded or with somebody else's reply? | 2 places, 4 turns | 105,000 | holds |
| `codex_provider` | do overlapping prompts share what each tested before it waited? | 3 prompts, 2 app-servers, 1 approval each | 426,000 | holds |
| `headless_turns` | do failing, late and replaced providers leave a turn, a place in the chain or a process behind? | 1 turn, 2 brainstorms, chain of 2, 2 app-servers, 2 clients, 1 session, Codex or ompk shared | 158,000 | holds |
| `live_link` | one web session over three sockets: who is open, who waits, what is lost or reordered, who hears of the end? | 3 sockets, 1 session, 2 messages, buffer 2, 1 goAway | 450,000 | holds |
| `live_link_restarts` | does an Android client, which does not count audio, get a message twice over two sessions? | 4 sockets, 2 sessions, 1 message, buffer 1, no goAway | 2,080,000 | holds |
| `tool_approval` | can late timers and repeated decisions run a call twice, late or unapproved? Is what runs answered? Does the gateway implement `ApprovalGate`? | 2 mutations (one a launch), an allowed command, a camera call, cards of 1 tick, 2 ticks, 1 goAway | 283,000 | holds |
| `session_mutations` | can retries, failures, late effects and a restart break the idempotency receipts? | 3 requests, 1 key, 2 revisions, 1 restart | 110,000 | holds |
| `voice_layer` | do overlapping utterances, listeners, commands and questions leave a voice, a process, a directory or a question behind? | 2 utterances, 2 listeners, 1 Pi and 1 Codex call | 271,000 | holds |
| `phone_bridge` | do crashes, failures and two loops handle an update twice or give a code more counted tries? | 3 updates, 2 loops, 2 codes of 2 tries | 478,000 | holds |
| `worktrees` | do pickups, sweeps and crashes of two processes remove what is used, or leave what nobody manages? | 2 processes, 2 sessions, 1 piece of work | 4,290,000 | holds |
| `worktrees_lossy` | is cleanup "never lossy"? | 1 process, 1 session, 1 piece of work | | violated (section 4) |
| `task_store` | can two gateways own the store, a lock file outlive its owner but by a crash, or a key make two tasks? | 3 processes, 2 keys, 2 arguments | 27,000 | holds |

Some properties are conjunctions of named parts that belong together, so that a
run states what a component keeps up as a whole:

- `Consistent` (`PhoneTurns`): types, `OneTurnRuns`, `NoTurnLost`, `QueueBounded`,
  `NoStrandedTurn`, `NoLeftoverTurn`. `Consistent` (`CodexProvider`): types, `OneTurn`,
  `OneAppServer`.
- `Attended` (`LiveLink`): types, `OneOpenSocket`, `GraceOnlyWhenGone`,
  `DisconnectArmsGrace`, `AnnouncedWhenReady`, `BufferInOrder`.
- `ProcessesAccounted` (`HeadlessTurns`): `OneOmpAtATime`, `NoServerLeftBehind`.
- `HeardAsAsked` and `EverythingEnds` (`VoiceLayer`): types, `OneVoice`, `KeepsItsFile`;
  `EveryDirGoes`, `EveryQuestionEnds`.
- `EveryCallAnswered` (`ToolApproval`): `RunIsAnswered`, `CameraIsAnswered`.

### Why the bounds are enough

- *PhoneTurns*: of four turns one runs, two fill the two places, and the fourth
  is refused or follows; turns are taken from the middle by a timer, and the
  places filled again. One operator prompt at a time is what Pi allows.
- *CodexProvider*: three prompts are one that waits for the boot, one that joins
  it and one that comes while the first's turn runs; a second app-server is what
  a late exit needs; two requests in all are what the one slot has to refuse.
- *HeadlessTurns*: one turn and two brainstorms overrun a chain of two (the code's
  limit is 3). Two app-servers at once are one that was told to end and its
  successor, or the shared one and the turn's own; with three, the invariants
  hold as well (900,000 states). A second client shows that one's failure is not
  the other's. The Pi command line and claude as the shared provider are left
  to the proofs: a turn can ask for them as its own.
- *LiveLink*: three sockets are the superseded one, the current one and the
  next; two messages with a buffer of two, and one with a buffer of one, both
  fill and overflow the buffer, since announcements are numbered too.
  Two sessions are needed for what a client carries from one to the next, and a
  fourth socket for a message that was flushed once to be flushed again. The two
  runs split the bounds because one instance with all of them is too large; the
  theorems hold for any.
- *ToolApproval*: the two mutations share a registry, so that one prunes the
  other's card; terminal commands have a registry of their own that behaves
  alike. Cards live one tick of two, so they can be decided before, in and after
  the tick they expire. The directory is not varied: only `RunsWhereShown`
  (section 4) is about it. The proofs hold for both registries and any sets.
- *SessionMutations*: three requests with one key are the original, its retry
  and a conflicting one, which differs by its revision. More keys interact
  through the lock and the file, whose every save writes all receipts; with two
  keys (1.4 million states) nothing else is found.
- *VoiceLayer*: its sets are slots that are used again, so behaviours have no
  end; two of each are what a late exit event needs to hit another's handle.
- *PhoneBridge*: three updates make a batch with a failing update in its middle;
  two tries are a wrong one and the one that burns the code; a second code shows
  that tries start anew. Codes expire at once or not (`CodeTTL` 0 in 2 ticks). After
  a second loop, or an older state, neither comes again.
- *SessionWorktree*: a second process is all that overlap needs; a second session
  shows that one's leftovers do not reach the other. `Large` changes are in the
  proofs only.
- *HubTaskStore*: three processes are the dead owner, the one that takes the lock
  over and the one that tries the same at once.

### Fairness

What the runtime does by itself: armed timers fire, an awaited promise with a
timeout settles, a killed or finished player exits, the close event of a dead
socket comes, the event loop goes on. Beyond that, per model:

- `PhoneTurns`: runs of Pi and calls of other agents end, a closed session is
  followed by another one (Pi replaces it), the operator answers the question a
  session switch may ask. Phones may do anything or nothing.
- `CodexProvider`: requests to the app-server and turns end, or its process exits.
- `HeadlessTurns`: transcription, reducer, speech synthesis and Codex answer or
  fail. Commands need *not* close: their timers end the wait.
- `LiveLink`, `ToolApproval`: the upstream connect resolves or fails, what was
  started completes. Operator, phone, network and model may stay silent forever.
- `SessionMutations`: Herdr's commands end by their timeout.
- `PhoneBridge`: a poll that is tried again and again is answered in the end (strong
  fairness of `Delivered`: failing polls alternate with it).
- `SessionWorktree`, `HubTaskStore`, `HubTasks`: safety only, none.

Deadlock is checked for `VoiceLayer` and `HeadlessTurns`; the other models stop
where their bounds run out.

## 4. What the checks found

**Worktree cleanup loses work** (`session-worktree.ts:407`, run `worktrees_lossy`).
`rescueWorktree` bundles the tracked diff but of untracked files only the names,
drops the warning that says so, and the worktree is then removed with `--force`.
The code's comment (`session-worktree.ts:24`) and `docs/SESSION_OPERATIONS.md:129`
say cleanup is never lossy. The same holds of diffs over the size limit and of
commits on a detached head, and a second rescue of the same name overwrites the
first bundle. It holds of every tracked change when `git diff` or `git rev-parse`
fails: `captureGitState` (`session-transfer.ts:191`, `:202`) then returns no patch and
no error, and the worktree, which counts as dirty because its status cannot be
read (`session-worktree.ts:293`), is removed with nothing rescued.

### Disagreements that can be reproduced

The modules state properties that documents or comments claim and the code does
not keep, and that no run checks. Each fails when it is added to the instance
named here.

| property | instance | what happens |
|---|---|---|
| `CursorIsOwn` of `LiveLink` | either client, 3 sockets, 2 sessions, `MaxSeq = 2`, `BufferCap = 2`, no goAway | neither client resets its number when a reconnect is answered with a new session (`web/remote/app.js:1787`, `RealtimeVoiceSession.kt:203`), and numbering restarts there: a later resume asks for what comes after a number of the old session, against `docs/realtime-readiness-evidence.md:12` |
| `EveryCardIsSettled` of `ToolApproval` | `Terminal = {t1}`, no other calls | a decision, or another request, that comes after a card's expiry and before its timer prunes the approval; the timer then finds nothing, and the model never gets its deferred answer (`realtime-command-approval.ts:38`, against `docs/AGENT_REFERENCE.md:92`) |
| `RunsWhereShown` of `ToolApproval` | `Terminal = {t1}`, `Dir = {d1, d2}` | an approved terminal command runs in the directory of the session selected by then (`realtime-gateway.ts:395`, against the comment at 1382); `switch_session` needs no approval |
| `EveryGuessCounts` of `PhoneBridge` | `PhoneBridge.cfg` | a wrong code after `/LINK` is compared with the code (`phone-bridge.ts:166` ignores case), but neither counted nor answered (`:171` does not), against the comment at `:162` and `tests/phone-bridge.test.mjs:110`; while locked, no guess is compared at all |
| `UnpairedForGood` of `PhoneBridge` | `PhoneBridge.cfg` | `/unpair`, which is there "to revoke this phone" (`phone-bridge.ts:205`), clears `linkedChatId`; the JSON entry of a cleared field does not hold it, so that after a restart `session_start` (`index.ts:4652`) takes the chat from an earlier entry and it is linked again. The headless gateway writes its state whole |
| `EverySuccessIsKept` of `SessionMutations` | `SessionMutations.cfg` | a completed receipt whose save throws (`session-workspace.ts:432`) stays in memory while the file says pending: a retry is told of the success (`:370`), and after a restart, unless another save went through, the same request gets `mutation_outcome_unknown`, against `docs/AGENT_REFERENCE.md:86` ("pending and successful receipts persist") |
| `HardStopHolds` of `VoiceLayer` | `VoiceLayer.cfg` | a later `session_start` replays every stored `{listening: true}` and starts the listener again (`index.ts:4646`, against `README.md:387`) |
| `YesAnswersItsQuestion` of `VoiceLayer` | `VoiceLayer.cfg` | a Codex request that is declined at once because another one is pending has already been asked aloud; a yes to it approves the earlier call (`index.ts:909`, `voice-approval.ts:60`) |

### Behaviour the models contain and no property forbids

Known limits of the code, kept in the models as they are.

Live link, tool calls, mutations and voice:

- A message sent on a connection that died but still reads as open is not sent
  again, although the reconnect message exists "to prevent duplicate or dropped
  packets" (`docs/realtime-readiness-evidence.md:12`); `NoSilentLoss` counts it in
  `lost`, with what a full buffer drops, and says that nothing else is.
- After a resume with another session's number (`CursorIsOwn`), the web client,
  whose number is then too high, never gets messages that were buffered for it;
  Android, which counts the last text it saw, may get a message twice (this takes
  four sockets). `NoSilentLoss`, `NoDuplicate` and `InOrder` are about the sessions
  that were resumed with their own numbers.
- The token rotates before the start that carries it arrives. A client that
  loses that start is refused (1008) until the grace period is over.
- A client lost before the upstream connect resolves leaves a session without a
  grace timer (`DisconnectArmsGrace` is about announced clients).
- When the grace period ends while the upstream is being replaced, the timer
  finds no upstream to close; the replacement then connects, and a second
  goAway registers the session again without a timer (`DisconnectArmsGrace` is
  limited to one goAway).
- A failed upstream reconnect closes the socket captured before the await; a
  client that resumed meanwhile on another socket is not told (`untold`).
  `EndReachesClient` says that every other client is.
- A line of a launched agent that arrives after its exit event is narrated
  after the final response.
- An empty camera frame that arrives after the call timed out is answered a
  second time.
- The session revision is compared before the Herdr command starts; Herdr has
  no compare-and-prompt (`session-workspace.ts:210`), so the session may move on
  in between.
- Clients make a new idempotency key for every press (`web/remote/hub.js:325`,
  `unified-remote/Pi Speak/remote.lua:429`): receipts protect a request that is sent again, not an
  operator who presses again.
- The exit event of a killed player, or of a listener (which may take three
  seconds), clears the handle of the one started meanwhile (`index.ts:1422`,
  `3179`): that process runs on, no stop reaches it, and while no listener is
  tracked tool calls are not gated by voice. `LostOnlyByLateExits` says that
  nothing else loses a process.
- Removing the directory of a killed player may fail where open files cannot be
  deleted; the code swallows it (`index.ts:1386`). Removal succeeds in the model.
- `/pk-speak stop` does not disconnect realtime clients (`index.ts:4497`).

Phone turns and Codex:

- `pendingRemoteTurn` is never set, so `rejectPendingPhoneTurn` rejects nothing: a
  turn whose Pi session closes while it reads waits for the end of a run that
  somebody else starts, and takes that run's text for its reply. These turns
  are in `disturbed`, with the ones that fell back from Gemini Live, which does
  not look again whether Pi is ready.
- A phone turn that names another session switches to it, and the shutdown of
  the old one cancels all queued phone turns and stops Codex.
- A failing agent is reported as a reply; `BusyError` is thrown.
- `stop()` while a prompt waits for the boot or its thread makes that prompt fall
  back to `codex exec`: it runs after the stop.
- The late exit of a stopped app-server, as after a boot that failed, clears the
  handle of its successor, which runs on and is stopped by nobody (`lost` in
  `CodexProvider` and, for the headless gateway's shared provider, in
  `HeadlessTurns`, whose `NoServerLost` fails). Two first prompts start two threads, the later of
  which is kept. Text of a turn whose caller was told it failed may reach the
  next answer, until that one's turn id is known (`Abandoned`).

Headless gateway:

- A cancelled Codex turn counts as failed and is run again by the Pi fallback, or
  goes on in `codex exec`, although the answer says that it was stopped; turns in
  transcription, reduction or a command are not stopped by a cancel at all.
- A resumed ompk turn that fails, also when it was only refused as busy, clears
  whatever session its client has selected by then (`headless-gateway.ts:463`);
  `ChoiceKept` confines the loss to such clients. A queued turn uses the selection
  of the time it runs.
- A voice turn that was routed to the fallback and fails is tried on it again.
- `codex exec` has no timeout of its own; a claude run is given up with one
  SIGTERM; processes may outlive their deadline and are no longer counted then.
- HTTP answers 504 after 180 seconds while the turn goes on
  (`control-server.ts:1533`, `2670`). An interrupt over the WebSocket awaits the new
  provider's boot before it aborts speech, then aborts whatever is spoken by
  then, and nothing when the boot fails (`control-server.ts:652`).
- Two brainstorms that end in the same second write the same file.

Phone bridge, worktrees and task store:

- `start` during the await of `stop` revives the old loop beside the new one:
  an update may make two turns, and the offset may go back (`excused`). The
  headless gateway does not persist the offset (`headless-gateway.ts:106`), so that
  its last batch is handled again after a restart, as it is when a session that
  never used the bridge is resumed. An older session that is resumed also brings
  back its link state, with fewer tries of the same code or with a code that was
  replaced: `GuessesAreLimited` says nothing from then on (`Unrecorded`). A
  `sendChatAction` that fails loses its update. The gateway does not catch `BusyError`: no reply.
- `git worktree add -B` resets the base branch and drops commits nobody pushed; a
  crash between it and the lease leaves a directory that nothing manages and
  later pickups refuse (`orphan`). Reuse is keyed by a sanitised name. Only a
  pickup refreshes a lease. Two processes that sweep one session may remove the
  lease of a worktree that a third has just added, or overwrite its bundle with
  an empty one (`overlap`).
- A crash of a constructor leaves the reclaim lock, or an unnamed lock, forever:
  no later gateway opens the store until somebody deletes it. A live process
  that has the dead owner's pid has the same effect. A retry that carries a
  refreshed revision is a conflict (`canonicalCreateInput` hashes the revision).

## 5. What is proved

Eight modules hold proofs: `PhoneTurns_proofs` (with those about `RemoteTurns`),
`CodexProvider_proofs`, `HeadlessTurns_proofs`, `Voice_proofs` (`LiveLink` and
`VoiceLayer`), `ToolApproval_proofs`, `HerdrStores_proofs` (`SessionMutations` and
`HubTaskStore`), `PhoneBridge_proofs`, `SessionWorktree_proofs`. The theorems hold
for all values of the constants that satisfy the named assumptions. The only
assumptions are the ASSUMEs of the modules, which TLC evaluates on the runs. The
theorems are listed in `PROJECT.json`.

Each proof shows that a strengthened invariant holds initially and is preserved
by every action, one step per action, and that it implies the property. What had
to be added tells why the property holds:

- **RemoteTurns**: `OneTurnRuns`, `NoTurnLost`, `NoStrandedTurn`, `QueueBounded`,
  `StartsInOrder`. Added: the queue is increasing and below `nextId`
  (`QueueOrdered`); without it a turn could be in the queue twice, and removing it
  once would strand it. Lemmas on `RemoveAt`, `Tail` and `Append` on increasing
  sequences are stated once here.
- **PhoneTurns**: every step of the composition is a step of the queue or none
  (`PhoneStepIsQueueStep`, `DrivesTheQueue`: the safety part of
  `ImplementsRemoteTurns`), so that the queue's theorems carry over
  (`PhonesKeepTheQueue`). `OwnReply` and `Consistent` rest on `ProviderServes`: an
  active turn is the running one, which reads, and unless it was disturbed Pi's
  run is its own.
- **HeadlessTurns**: `ProcessesAccounted` and `ChoiceKept`. Added: `Ordered` (the
  chain holds each ompk job exactly once, and the first one alone runs), since
  "the next one starts" is a step on another job than the one that ended;
  `OwnIsRouted` (a turn has a provider of its own only after it was routed) and
  `Tracked` (an app-server that lives is a provider's child, or lost).
- **CodexProvider**: `Consistent`, `OwnAnswer`, `NeverBothWays`,
  `YesReachesItsRequest`. `Tracked` (which app-servers live, and that whatever lives
  is tracked or lost), `PromptInv` (only turns of the tracked app-server run, and
  the one prompt that waits for `turn/start` or reads its queue is the active one),
  `TextInv`: a turn that runs without being active shares its app-server and thread
  with one whose caller was told that it failed, and nothing else can end, or
  write into, another's answer. `Requests`: of the tracked app-server only the
  request in the slot is unanswered.
- **ToolApproval**: `CardsBacked`, `OneVerdict`, `RunsBeforeExpiry`. An invariant per
  call (`CallInv`), since calls touch each other only by pruning; added: a call
  that waits was not refused. `GateImplemented`: every step maps to a step of
  `ApprovalGate` or a stutter. It rests on `GateInv` (a call that waits or runs has
  no final answer, and none has two) and on how final answers are counted when
  an answer is sent, queued, or the queue is flushed.
- **LiveLink**: `Attended`, `NoSilentLoss`, `InOrder`, `NoDuplicate` and
  `EndReachesClient`, for both clients and any number of sockets, sessions,
  messages and upstream replacements. `SocketInv` says which sockets may carry
  messages (only the client's own, of all it opened), `SessionInv` what the
  handlers of one session keep up, `OwnSocket` that a socket speaks for one
  session, `WireInv` that what is in flight or buffered was numbered, in order, by
  the session whose it is. `LossInv` and `OrderInv` follow one session: a number
  that was not sent is in the buffer behind everything that was, and what is in
  flight comes after everything received. That a flushed message, which stays in
  the buffer, is not flushed to the client again has two reasons. The web client
  remembers a number at least as high as any it received (`WebInv`). The Android
  client may remember less, since audio does not count; but whoever holds the
  current token, or is about to get it, remembers a number behind everything in
  the buffer that was ever sent, because the start that carries the token comes
  behind it (`AndroidInv`, `Passed`). The token's rotation is what this rests on:
  without it the run finds the duplicate. The proof also says why the bound
  `LastSeq` on numbers is never reached (`SeqBound`).
- **VoiceLayer**: `HeardAsAsked`, `LostOnlyByLateExits`, `HardStopSilences`. `AudioInv`
  says what the handles of the speech output stand for, utterance by utterance
  (`Traced`): one still to be played is the one the abort handle leads to, one that
  plays is the player's or lost, both are wanted and have their directory. `EarInv`
  says the same of the listener's handles, `HardStopInv` that after a hard stop no
  utterance is tracked, and a listener only if a `session_start` restored it.
- **SessionMutations**: `OneEffectPerKey`, `ToldTrue`, `AcknowledgedIsKept`. `Locked`
  (only the head of the chain is inside), `Covered` (a command that was begun has
  a receipt on disk for its whole life), `Exclusive`, `Apart`, `Truthful`,
  `Written` (a completed receipt is in the file unless its save threw),
  `Remembered` (a told success has its receipt in both): an effect may come after the answer and after a restart, so the
  receipt has to be tied to the command and not to the request.
- **PhoneBridge**: `GuessesAreLimited` from `Guarded` (what the link remembers is
  never more generous than the counted tries its code had, and neither is what the
  session's entries give back), `HandledOnce` from `InOrder`
  (a loop hands out updates beyond the last one marked) with one loop at a time
  until `excused`.
- **SessionWorktree**: types, `WorktreesAreManaged`, `PickupFindsItsTree`,
  `RemovesIdleAndRescued`. `Alone` (who works on a session that never overlapped
  is the only one) and `Knows` (what it read or did at each stage still holds when
  it acts on it), with `DiffBegun` for the size limit.
- **HubTaskStore**: types, `OneOwner`, `LeftOnlyByCrash` and the refinement of
  `HubTasks`. `OneConstructor` (the reclaim lock is held by one), `LockFile`,
  `StaleLock` (a lock about to be removed is still the one that was read, and
  nobody owns the store), `LeftAlone` (nobody works under a file that was left),
  `Loaded` (an owner's memory is the file). `OneOwner` alone
  is not inductive: between reading a dead owner's lock and removing it, only
  the reclaim lock keeps others away.

Every invariant and every action property of the passing runs is proved, and of
the three refinements the safety part. Only model-checked: all liveness (no
ENABLED in the prover), that is `EveryPhoneTurnEnds`, `EveryPromptEnds`,
`EveryTurnEnds`, `EveryCallAnswered`, `EveryRequestEnds`, `EverythingEnds` and
`EveryUpdateTaken`, and the fairness part of `ImplementsRemoteTurns`. The types of
`PhoneTurns`, `RemoteTurns`, `CodexProvider`, `LiveLink` and `VoiceLayer` are proved in
`Consistent`, `Attended` and `HeardAsAsked`, those of `SessionWorktree` and
`HubTaskStore` as `TypeCorrect` and `StoreTypeCorrect`, those of `ToolApproval` and
`SessionMutations` as conjuncts of their invariants; `PhoneBridge_proofs` and
`HeadlessTurns_proofs` use types of their own, and the modules' `TypeOK` is a
description there.

## 6. Where the models end

The models cover the code that several actors reach at once, and about a tenth
of the source. The largest files are long for other reasons: `index.ts` and
`control-server.ts` are routes, commands and wording around the modelled parts,
`pk-speak.ts`, the text-to-speech and recognition modules, the web pages and the
Android application are I/O and user interface.

Within modelled components: `LiveLink` leaves out the client's own audio upload
with its de-duplication (`realtime-gateway.ts:1034`), voice metrics and barge-in;
`HeadlessTurns` Gemini as the agent, dashboards and slash commands; `CodexProvider`
`turn/steer`, which nothing calls; `SessionWorktree` how bundles are made and sent,
and that a lease is truncated before it is written (`session-worktree.ts:103`);
`PhoneBridge` the linked chat's `/status`, `/help` and empty messages, which make no
turn;
`PhoneTurns` the parsing of names and commands; `SessionMutations` what only reads.

## 7. Not modelled, and why

Some components have races that are plain from the code, promise nothing
against them, and have no other state whose correctness a model would show.
They are listed as hazards and described here instead.

- **Attention lease** (`attention-broker.ts:112`): two processes that read before
  either writes both lead. `renew` reads, then writes: it can take the focus back
  from whoever claimed it in between, although its comment (line 132) says it
  does not. The file is removed before its successor is renamed into place
  (line 61): a reader in between finds no lease. `claimAttentionLeader` is unused.
- **Session event log** (`session-events.ts:75`): two processes that append at once
  write two events with one number, or lose one; one that reads between the
  truncation and the write of another starts again at number 1, and pollers
  that wait for higher numbers starve, against the comments at lines 11 and 99.
- **Agent Hub chat** (`herdr-agent-hub-gateway.ts:229`): the idempotency key is looked
  up before the await and stored after it, so that two overlapping requests with
  one key both send their text.
- **OpenAI realtime backend**: a barge-in forgets an earlier item that still plays
  when a new response is created, and tool results and texts always ask for a
  response, also while one is active. It is an adapter to one client's events.
- **Pairing** (`pairing.ts:71`): two programs that start first create different
  tokens.
- **Speech workers** (`moonshine-stt.ts`, `stt.ts`): the late exit of an old worker
  rejects the requests of its successor, or clears its handle; aborting one
  caller during the boot fails all of them. The pattern is the one that
  `CodexProvider` and `VoiceLayer` model, with less at stake.
- **Control server**: routes, input checks and a table of expiring speech artifacts
  that one process uses.

Pure text work (routing, briefs, classification, names) has no state that a
second actor could disturb. Audio, recognition and synthesis appear as processes
and promises that end. User interfaces, configuration, packaging, discovery and
the scripts are I/O. Security of tokens and addresses is out of scope: the models
only say what the protocol does for clients that follow it.
