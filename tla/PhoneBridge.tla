---------------------------- MODULE PhoneBridge ----------------------------
(***************************************************************************)
(* The Telegram phone bridge (phone-bridge.ts) and the commands of its two *)
(* hosts that start, stop and unpair it (index.ts, headless-gateway.ts):   *)
(* one loop polls for updates and handles them in order; a chat links      *)
(* itself with a code that is good for a few tries; a text of the linked   *)
(* chat becomes a turn.                                                    *)
(*                                                                         *)
(* A step is what runs up to the next await.  All the bridge remembers is  *)
(* persisted before each await: by the headless gateway in a file, without *)
(* lastUpdateId, by the extension in its session, entry after entry.  An   *)
(* entry is JSON: a field that was cleared is not in it, and comes back    *)
(* with the session from the entries before.  Start while stop still       *)
(* awaits the loop makes a second loop.  One bridge object; a turn is an   *)
(* await that ends (see PhoneTurns).  What an update says is chosen when   *)
(* it is handled: nothing looks at it earlier.                             *)
(*                                                                         *)
(* Bounds: MaxUpdate updates, MaxCode link codes, MaxTime ticks, MaxLoop   *)
(* loops at once.  Once something is excused (a further loop, an older     *)
(* state), no further loop is started and no older state resumed.          *)
(***************************************************************************)
EXTENDS Naturals, Sequences, FiniteSetsExt

CONSTANTS MaxAttempts,    \* MAX_LINK_ATTEMPTS
          Lockout,        \* LINK_LOCKOUT_MS
          CodeTTL,        \* LINK_CODE_TTL_MS
          MaxUpdate, MaxCode, MaxTime, MaxLoop

ASSUME BridgeAssumption ==
  /\ {MaxAttempts, MaxUpdate, MaxCode, MaxLoop} \subseteq Nat \ {0}
  /\ {Lockout, CodeTTL, MaxTime} \subseteq Nat

VARIABLES
  now,
  sent,         \* the number of updates clients have sent: their update_ids are 1 .. sent
  confirmed,    \* the last update Telegram will not deliver again
  running,
  loop,         \* the poll loops: where each is, the rest of its batch, the update it types for
  last,         \* lastUpdateId
  link,         \* whether there is a linkedChatId; linkCode, linkAttempts, ...
  kept,         \* what the session's entries, merged, give for the fields that are cleared
  turns,        \* history: turns each update has caused, until excused
  excused,      \* history: a second loop was started, or an older state resumed
  tries,        \* history: the code tried last and the tries it has had, until Unrecorded
  lockedUntil   \* history: end of the lockout after the last burned code

linking == <<link, kept, tries, lockedUntil>>
vars == <<now, sent, confirmed, running, loop, last, linking, turns, excused>>

Loop == 1 .. MaxLoop
Try == {"right", "wrong"}      \* the current code, or `/link ' with another
(* `/LINK' with another code is no Try; `ask' is /status or /help; the     *)
(* linked chat hears of no `other': not from it, or without text and voice.*)
Kind == Try \union {"shouted", "unpair", "ask", "say", "other"}
Idle == [pc |-> "off", batch |-> <<>>, id |-> 0]
Fresh(code) ==
  [linked |-> FALSE, code |-> code, attempts |-> 0, locked |-> 0, issued |-> now]
Unrecorded == [code |-> 0, count |-> 0]
Entries(l) == [linked |-> l.linked, code |-> l.code, locked |-> l.locked]

Init ==
  /\ now = 0 /\ sent = 0 /\ confirmed = 0
  /\ running = FALSE
  /\ loop = [l \in Loop |-> Idle]
  /\ last = 0
  /\ link = Fresh(1)
  /\ kept = Entries(link)
  /\ turns = [u \in 1 .. MaxUpdate |-> 0]
  /\ excused = FALSE
  /\ tries = [code |-> 1, count |-> 0]
  /\ lockedUntil = 0

At(l, pc) == loop[l].pc = pc
(* The link state goes into an entry: what it clears stays as it was.      *)
Saves == kept' = [linked |-> kept.linked \/ link'.linked, code |-> link'.code,
                  locked |-> IF link'.locked > 0 THEN link'.locked ELSE kept.locked]
Goes(l, pc) == loop' = [loop EXCEPT ![l].pc = pc]
Excuses == turns' = [u \in 1 .. MaxUpdate |-> 0] /\ excused' = TRUE
(* The rest of the batch is dropped: the next poll asks for it again.      *)
Throws(l) == loop' = [loop EXCEPT ![l] = [Idle EXCEPT !.pc = "pause"]]

-----------------------------------------------------------------------------
(* The outside: clients, the operator, the process.                        *)

Send ==
  /\ sent < MaxUpdate
  /\ sent' = sent + 1
  /\ UNCHANGED <<now, confirmed, running, loop, last, linking, turns, excused>>

(* start: when an earlier stop still awaits its loop, that loop goes on.   *)
Start(l) ==
  /\ ~running /\ At(l, "off") /\ \A k \in Loop : k < l => ~At(k, "off")
  /\ l = 1 \/ ~excused
  /\ running' = TRUE
  /\ Goes(l, "poll")
  /\ UNCHANGED link /\ Saves
  /\ IF \E k \in Loop : ~At(k, "off") THEN Excuses ELSE UNCHANGED <<turns, excused>>
  /\ UNCHANGED <<now, sent, confirmed, last, tries, lockedUntil>>

Stop ==
  /\ running
  /\ running' = FALSE
  /\ UNCHANGED <<now, sent, confirmed, loop, last, linking, turns, excused>>

(* resetLink; without a bridge, only the link and the code are forgotten.  *)
Unpair ==
  /\ link.code < MaxCode
  /\ IF running \/ \E l \in Loop : ~At(l, "off")
       THEN link' = Fresh(link.code + 1) /\ Saves /\ lockedUntil' = 0
       ELSE /\ link' = [link EXCEPT !.linked = FALSE, !.code = @ + 1]
            /\ UNCHANGED <<kept, lockedUntil>>
  /\ UNCHANGED <<now, sent, confirmed, running, loop, last, tries, turns, excused>>

(* What its own session gives the extension back.                          *)
Restored == [link EXCEPT !.linked = kept.linked, !.code = kept.code, !.locked = kept.locked]

(* What an earlier session may give it back: the code of now before some   *)
(* of its tries, or the first one.                                         *)
Earlier ==
  {[link EXCEPT !.linked = FALSE, !.attempts = a] : a \in 0 .. link.attempts}
    \union {[Fresh(1) EXCEPT !.issued = 0]}

(* The process dies.  The gateway reads its file, where `last' is what was *)
(* written along with other changes (before the updates that Telegram has  *)
(* dropped it is all the same); the extension resumes its session, one     *)
(* without a bridge, or an earlier one.                                    *)
Crash ==
  /\ running' = FALSE
  /\ loop' = [l \in Loop |-> Idle]
  /\ \/ /\ link' \in {link, Restored}
        /\ Saves
        /\ UNCHANGED <<last, tries, lockedUntil, turns, excused>>
     \/ /\ link.code < MaxCode
        /\ last' = 0
        /\ link' = Fresh(link.code + 1)
        /\ kept' = Entries(link')
        /\ lockedUntil' = 0
        /\ Excuses
        /\ UNCHANGED tries
     \/ /\ ~excused
        /\ last' \in Min({confirmed, last}) .. last
        /\ Excuses
        /\ \/ UNCHANGED linking
           \/ /\ link' \in Earlier
              /\ kept' = Entries(link')
              /\ tries' = Unrecorded
              /\ lockedUntil' = 0
  /\ UNCHANGED <<now, sent, confirmed>>

Tick ==
  /\ now < MaxTime
  /\ now' = now + 1
  /\ UNCHANGED <<sent, confirmed, running, loop, last, linking, turns, excused>>

-----------------------------------------------------------------------------
(* pollLoop.                                                               *)

(* The test of the while, and the call of getUpdates.                      *)
Again(l) == Goes(l, IF running THEN "poll" ELSE "off")

\* Mutated Delivered: the offset is the last update, not the one after it.
DeliveredAgain(l) ==
  LET from == Max({confirmed + 1, last})
      ids == [i \in 1 .. (sent + 1 - from) |-> from + i - 1]
  IN  /\ At(l, "poll")
      /\ confirmed' = from - 1
      /\ loop' = [loop EXCEPT ![l] = [pc |-> "batch", batch |-> ids, id |-> 0]]
      /\ UNCHANGED <<now, sent, running, last, linking, turns, excused>>

(* getUpdates: asking for the updates after `last' confirms those up to it.*)
Delivered(l) ==
  LET from == Max({confirmed, last}) + 1
      ids == [i \in 1 .. (sent + 1 - from) |-> from + i - 1]
  IN  /\ At(l, "poll")
      /\ confirmed' = from - 1
      /\ loop' = [loop EXCEPT ![l] = [pc |-> "batch", batch |-> ids, id |-> 0]]
      /\ UNCHANGED <<now, sent, running, last, linking, turns, excused>>

\* Mutated PollFails: the error ends the loop.
PollFailsForGood(l) ==
  /\ At(l, "poll")
  /\ Goes(l, "off")
  /\ UNCHANGED <<now, sent, confirmed, running, last, linking, turns, excused>>

PollFails(l) ==
  /\ At(l, "poll")
  /\ Throws(l)
  /\ UNCHANGED <<now, sent, confirmed, running, last, linking, turns, excused>>

BatchEnds(l) ==
  /\ At(l, "batch") /\ loop[l].batch = <<>> /\ Again(l)
  /\ UNCHANGED <<now, sent, confirmed, running, last, linking, turns, excused>>

Resumes(l) ==
  /\ At(l, "pause") /\ Again(l)
  /\ UNCHANGED <<now, sent, confirmed, running, last, linking, turns, excused>>

(* What an update finds when its turn comes: a code past its time is       *)
(* replaced first.                                                         *)
Current == IF now > link.issued + CodeTTL THEN Fresh(link.code + 1) ELSE link
Locked == now < link.locked
Tried(code) ==
  tries' = IF tries = Unrecorded THEN tries
           ELSE IF tries.code = code THEN [tries EXCEPT !.count = @ + 1]
           ELSE [code |-> code, count |-> 1]

\* Mutated Burned: the lockout is set first, and the new code clears it.
BurnedLockFirst(old) == Fresh(old.code + 1)

(* The last try: a new code, then the lockout.                             *)
Burned(old) == [Fresh(old.code + 1) EXCEPT !.locked = now + Lockout]

(* handleUpdate of the next update, marked as seen, to its first await.    *)
Take(l, kind) ==
  LET u == Head(loop[l].batch)
      To(pc) == loop' = [loop EXCEPT ![l] = [pc |-> pc, batch |-> Tail(@.batch),
                                             id |-> IF pc = "typing" THEN u ELSE 0]]
  IN  /\ At(l, "batch") /\ loop[l].batch # <<>>
      /\ last' = u
      /\ \/ /\ ~link.linked /\ Locked
            /\ To(IF kind \in Try THEN "reply" ELSE "batch")
            /\ UNCHANGED linking
         \/ /\ ~link.linked /\ ~Locked /\ kind \notin Try
            /\ To("batch")
            /\ link' = Current /\ Saves
            /\ UNCHANGED <<tries, lockedUntil>>
         \/ /\ ~link.linked /\ ~Locked /\ kind \in Try
            /\ To("reply")
            /\ Tried(Current.code)
            /\ link' = IF kind = "right" THEN [Current EXCEPT !.linked = TRUE, !.attempts = 0]
                       ELSE IF Current.attempts + 1 >= MaxAttempts THEN Burned(Current)
                       ELSE [Current EXCEPT !.attempts = @ + 1]
            /\ Saves
            /\ lockedUntil' = IF kind = "wrong" /\ tries'.count = MaxAttempts
                                THEN now + Lockout ELSE lockedUntil
         \/ /\ link.linked /\ kind = "other"
            /\ To("batch")
            /\ UNCHANGED linking
         \/ /\ link.linked /\ kind = "unpair"
            /\ link' = Fresh(link.code + 1) /\ Saves
            /\ lockedUntil' = 0
            /\ To("reply")
            /\ UNCHANGED tries
         \/ /\ link.linked /\ kind \notin {"unpair", "other"}
            /\ To(IF kind = "ask" THEN "reply" ELSE "typing")
            /\ UNCHANGED linking
      /\ UNCHANGED <<now, sent, confirmed, running, turns, excused>>

(* sendChatAction, and the download of a voice message, before the turn.   *)
Types(l) ==
  /\ At(l, "typing")
  /\ \/ Throws(l) /\ UNCHANGED turns
     \/ /\ loop' = [loop EXCEPT ![l].pc = "turn", ![l].id = 0]
        /\ turns' = IF excused THEN turns ELSE [turns EXCEPT ![loop[l].id] = Min({2, @ + 1})]
  /\ UNCHANGED <<now, sent, confirmed, running, last, linking, excused>>

(* The extension turns an error into a reply; the gateway lets it pass.    *)
TurnEnds(l) ==
  /\ At(l, "turn")
  /\ Goes(l, "reply") \/ Throws(l)
  /\ UNCHANGED <<now, sent, confirmed, running, last, linking, turns, excused>>

(* sendMessage, and the audio of a result.                                 *)
Replies(l) ==
  /\ At(l, "reply")
  /\ Goes(l, "batch") \/ Throws(l)
  /\ UNCHANGED <<now, sent, confirmed, running, last, linking, turns, excused>>

-----------------------------------------------------------------------------

LoopStep(l) ==
  \/ Delivered(l) \/ PollFails(l) \/ BatchEnds(l) \/ Resumes(l)
  \/ \E kind \in Kind : Take(l, kind)
  \/ Types(l) \/ TurnEnds(l) \/ Replies(l)

Next ==
  \/ Send \/ Stop \/ Unpair \/ Crash \/ Tick
  \/ \E l \in Loop : Start(l) \/ LoopStep(l)

(* The event loop takes each loop on, and Telegram answers in the end.     *)
Fairness == \A l \in Loop : WF_vars(LoopStep(l)) /\ SF_vars(Delivered(l))

Spec == Init /\ [][Next]_vars /\ Fairness

-----------------------------------------------------------------------------

TypeOK ==
  /\ now \in 0 .. MaxTime /\ confirmed \in 0 .. MaxUpdate /\ last \in 0 .. MaxUpdate
  /\ sent \in 0 .. MaxUpdate
  /\ running \in BOOLEAN /\ excused \in BOOLEAN
  /\ \A l \in Loop :
       /\ loop[l].pc \in {"off", "poll", "batch", "typing", "turn", "reply", "pause"}
       /\ \A i \in 1 .. Len(loop[l].batch) : loop[l].batch[i] \in 1 .. sent
  /\ link.linked \in BOOLEAN
  /\ link.attempts \in 0 .. MaxAttempts - 1
  /\ turns \in [1 .. MaxUpdate -> 0 .. 2]

(* No update makes two turns, whenever the extension dies and resumes its  *)
(* session: as long as no second loop was started by /phone on during a    *)
(* /phone off, and no other session (nor the gateway's file) is resumed.   *)
HandledOnce == \A u \in 1 .. MaxUpdate : turns[u] <= 1

(* A link code has at most MaxAttempts tries, over all restarts and loops, *)
(* and after the last of them nobody links for the lockout time, unless a  *)
(* new code was asked for.  A wrong code after `/LINK' is no try (see      *)
(* EveryGuessCounts), and nothing is said from when the extension resumes  *)
(* an earlier session, which knows fewer tries.                            *)
GuessesAreLimited ==
  [][tries' # tries /\ tries' # Unrecorded
       => tries'.count <= MaxAttempts /\ now >= lockedUntil]_vars

(* Not so in the code: every message that is compared with the link code   *)
(* is counted.  A right one is found in any case of its letters, a wrong   *)
(* one is counted after `/link ' alone.                                    *)
EveryGuessCounts ==
  [][\A l \in Loop :
       ~link.linked /\ ~Locked /\ Take(l, "shouted") => tries' # tries]_vars

(* Not so in the code: only a right code links a chat.  The extension      *)
(* finds the chat that was unpaired in the entries of its session again.   *)
UnpairedForGood ==
  [][~link.linked /\ link'.linked
       => \E l \in Loop : Take(l, "right")]_vars

(* While the bridge stays on it catches up with what was sent, again and   *)
(* again, also after polls, replies and earlier updates that failed.       *)
EveryUpdateTaken == []<>(~running \/ Max({last, confirmed}) = sent)

=============================================================================
