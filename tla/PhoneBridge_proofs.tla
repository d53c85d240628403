------------------------- MODULE PhoneBridge_proofs -------------------------
(***************************************************************************)
(* Theorems about the phone bridge, for every number of updates, codes,    *)
(* loops and tries.  Its two promises rest on two independent invariants:  *)
(* what the link remembers is never more generous than the tries the code  *)
(* really had (Guarded), and the loop hands out only updates beyond the    *)
(* last one it marked (InOrder).                                           *)
(***************************************************************************)
EXTENDS PhoneBridge, SequenceTheorems, TLAPS

Links ==
  [linked : BOOLEAN, code : Nat, attempts : 0 .. MaxAttempts - 1, locked : Nat, issued : Nat]

(* The linking state has its type, ...                                     *)
LinkTypes ==
  /\ now \in Nat
  /\ link \in Links
  /\ kept \in [linked : BOOLEAN, code : Nat, locked : Nat]
  /\ tries \in [code : Nat, count : Nat]
  /\ lockedUntil \in Nat

(* ... the attempts it counts are at least the tries its code has had, and *)
(* it stays locked until the lockout of the last burned code is over; the  *)
(* same holds of what the session's entries would give back.               *)
Guarded ==
  /\ tries.code <= kept.code /\ kept.code <= link.code
  /\ ~link.linked /\ tries.code = link.code => tries.count <= link.attempts
  /\ ~kept.linked /\ tries.code = kept.code => tries.count <= link.attempts
  /\ now >= lockedUntil \/ (link.locked >= lockedUntil /\ kept.locked >= lockedUntil)

LinkInv == LinkTypes /\ Guarded

-----------------------------------------------------------------------------

LEMMA FreshType ==
  ASSUME now \in Nat, NEW code \in Nat, NEW n, n = code + 1
  PROVE  /\ Fresh(n) \in Links
         /\ Fresh(n).code = n /\ Fresh(n).attempts = 0
         /\ Fresh(n).locked = 0 /\ Fresh(n).linked = FALSE
         /\ n \in Nat /\ n > code
BY BridgeAssumption DEF Fresh, Links

LEMMA LinkFields ==
  ASSUME NEW c \in Links
  PROVE  /\ c.linked \in BOOLEAN /\ c.code \in Nat /\ c.locked \in Nat
         /\ c.attempts \in Nat /\ c.attempts < MaxAttempts
BY BridgeAssumption DEF Links

LEMMA LinkedType ==
  ASSUME NEW c \in Links, NEW d, d = [c EXCEPT !.linked = TRUE, !.attempts = 0]
  PROVE  d \in Links /\ d.linked /\ d.code = c.code
<1>1. 0 \in 0 .. MaxAttempts - 1
  BY BridgeAssumption
<1> QED
  BY <1>1 DEF Links

LEMMA AttemptType ==
  ASSUME NEW c \in Links, NEW n \in 0 .. MaxAttempts - 1, NEW d, d = [c EXCEPT !.attempts = n]
  PROVE  d \in Links /\ d.attempts = n /\ d.code = c.code
BY DEF Links

LEMMA LockType ==
  ASSUME NEW c \in Links, NEW n \in Nat, NEW d, d = [c EXCEPT !.locked = n]
  PROVE  d \in Links /\ d.locked = n /\ d.code = c.code /\ d.linked = c.linked
BY DEF Links

LEMMA UnlinkType ==
  ASSUME NEW c \in Links, NEW d, d = [c EXCEPT !.linked = FALSE, !.code = @ + 1]
  PROVE  d \in Links /\ ~d.linked /\ d.code = c.code + 1 /\ d.locked = c.locked
<1>1. c.code \in Nat /\ c.code + 1 \in Nat
  BY LinkFields
<1> QED
  BY <1>1 DEF Links

(* After a step that saves the link, what is saved is as good as the link. *)
LEMMA SavedGuarded ==
  ASSUME LinkTypes, Saves, link' \in Links, now' = now,
         tries' \in [code : Nat, count : Nat], lockedUntil' \in Nat,
         tries'.code <= link'.code,
         ~link'.linked /\ tries'.code = link'.code => tries'.count <= link'.attempts,
         now >= lockedUntil' \/ link'.locked >= lockedUntil'
  PROVE  LinkInv'
<1>1. /\ link'.linked \in BOOLEAN /\ link'.code \in Nat /\ link'.locked \in Nat
      /\ link'.attempts \in Nat
  BY LinkFields
<1>2. /\ kept.linked \in BOOLEAN /\ kept.locked \in Nat /\ now \in Nat
      /\ tries'.code \in Nat /\ tries'.count \in Nat
  BY DEF LinkTypes
<1>3. kept' \in [linked : BOOLEAN, code : Nat, locked : Nat]
  BY <1>1, <1>2 DEF Saves
<1>4. /\ kept'.linked <=> (kept.linked \/ link'.linked)
      /\ kept'.code = link'.code
      /\ kept'.locked = IF link'.locked > 0 THEN link'.locked ELSE kept.locked
  BY DEF Saves
<1>5. LinkTypes'
  BY <1>2, <1>3 DEF LinkTypes
<1>6. Guarded'
  <2>1. now >= lockedUntil' \/ (link'.locked >= lockedUntil' /\ kept'.locked >= lockedUntil')
    BY <1>1, <1>2, <1>4
  <2> HIDE DEF Saves
  <2> QED
    BY <1>1, <1>2, <1>4, <2>1 DEF Guarded
<1> QED
  BY <1>5, <1>6 DEF LinkInv

(* What the taking of an update leaves of the link.                        *)
LEMMA TakeGuarded ==
  ASSUME LinkInv, NEW l \in Loop, NEW kind \in Kind, Take(l, kind)
  PROVE  /\ LinkInv'
         /\ tries' # tries => tries'.count <= MaxAttempts /\ now >= lockedUntil
<1>0. /\ now \in Nat /\ now' = now /\ lockedUntil \in Nat /\ link \in Links
      /\ tries \in [code : Nat, count : Nat] /\ LinkTypes
      /\ MaxAttempts \in Nat \ {0} /\ Lockout \in Nat
  BY BridgeAssumption DEF LinkInv, LinkTypes, Take
<1>0a. /\ link.linked \in BOOLEAN /\ link.code \in Nat /\ link.locked \in Nat
       /\ link.attempts \in Nat /\ link.attempts < MaxAttempts
       /\ tries.code \in Nat /\ tries.count \in Nat
  BY <1>0, LinkFields
<1>0b. /\ tries.code <= link.code
       /\ ~link.linked /\ tries.code = link.code => tries.count <= link.attempts
       /\ now >= lockedUntil \/ link.locked >= lockedUntil
  <2>1. kept.code \in Nat
    BY <1>0 DEF LinkTypes
  <2> QED
    BY <1>0, <1>0a, <2>1 DEF LinkInv, Guarded
<1>1. CASE UNCHANGED linking
  BY <1>0, <1>1 DEF linking, LinkInv, LinkTypes, Guarded
<1>a. Current \in Links
      /\ (Current = link \/ (Current.code = link.code + 1 /\ Current.attempts = 0 /\ ~Current.linked
                             /\ Current.locked = 0))
  <2>1. CASE now > link.issued + CodeTTL
    <3>1. Current = Fresh(link.code + 1)
      BY <2>1 DEF Current
    <3> QED
      BY <1>0, <1>0a, <3>1, FreshType
  <2>2. CASE ~(now > link.issued + CodeTTL)
    BY <1>0, <2>2 DEF Current
  <2> QED
    BY <2>1, <2>2
<1>c. /\ Current.code \in Nat /\ Current.attempts \in Nat /\ Current.attempts < MaxAttempts
  BY <1>a, LinkFields
<1>b. ASSUME ~link.linked, ~Locked PROVE now >= lockedUntil
  BY <1>0, <1>0a, <1>0b, <1>b DEF Locked
<1>2. CASE ~link.linked /\ ~Locked /\ link' = Current /\ Saves /\ UNCHANGED <<tries, lockedUntil>>
  <2>1. /\ tries'.code <= link'.code
        /\ ~link'.linked /\ tries'.code = link'.code => tries'.count <= link'.attempts
    BY <1>0, <1>0a, <1>0b, <1>2, <1>a
  <2> QED
    BY <1>0, <1>2, <1>a, <1>b, <2>1, SavedGuarded
<1>3. CASE /\ ~link.linked /\ ~Locked
           /\ Tried(Current.code)
           /\ link' = IF kind = "right" THEN [Current EXCEPT !.linked = TRUE, !.attempts = 0]
                      ELSE IF Current.attempts + 1 >= MaxAttempts THEN Burned(Current)
                      ELSE [Current EXCEPT !.attempts = @ + 1]
           /\ Saves
           /\ lockedUntil' = IF kind = "wrong" /\ tries'.count = MaxAttempts
                               THEN now + Lockout ELSE lockedUntil
           /\ kind \in Try
  <2>1. now >= lockedUntil
    BY <1>3, <1>b
  <2>2. /\ tries' \in [code : Nat, count : Nat]
        /\ tries'.code <= Current.code
        /\ tries'.count <= Current.attempts + 1
    <3>0. CASE tries = Unrecorded
      BY <1>0, <1>0a, <1>3, <1>c, <3>0 DEF Tried, Unrecorded
    <3>1. CASE tries # Unrecorded /\ tries.code = Current.code
      <4>1. Current = link
        BY <1>0a, <1>0b, <1>a, <3>1
      <4>2. tries' = [tries EXCEPT !.count = @ + 1] /\ tries.count <= Current.attempts
        BY <1>3, <3>1, <4>1, <1>0b DEF Tried
      <4> QED
        BY <1>0, <1>0a, <1>c, <3>1, <4>2
    <3>2. CASE tries # Unrecorded /\ tries.code # Current.code
      BY <1>0, <1>3, <1>c, <3>2 DEF Tried
    <3> QED
      BY <3>0, <3>1, <3>2
  <2>3. Current.attempts + 1 <= MaxAttempts /\ tries'.count <= MaxAttempts
    BY <1>0, <1>c, <2>2
  <2>4. CASE kind = "right"
    <3>1. link' \in Links /\ link'.linked /\ link'.code = Current.code /\ UNCHANGED lockedUntil
      <4>1. link' = [Current EXCEPT !.linked = TRUE, !.attempts = 0]
        BY <1>3, <2>4
      <4> QED
        BY <1>3, <1>a, <2>4, <4>1, LinkedType DEF Try
    <3> QED
      BY <1>0, <1>3, <2>1, <2>2, <2>3, <3>1, SavedGuarded
  <2>5. CASE kind # "right" /\ Current.attempts + 1 >= MaxAttempts
    <3>1. /\ link' \in Links /\ ~link'.linked /\ link'.code = Current.code + 1
          /\ link'.locked = now + Lockout
      <4>1. link' = [Fresh(Current.code + 1) EXCEPT !.locked = now + Lockout]
        BY <1>3, <2>5 DEF Burned
      <4>2. Fresh(Current.code + 1) \in Links /\ Fresh(Current.code + 1).code = Current.code + 1
            /\ Fresh(Current.code + 1).linked = FALSE
        BY <1>0, <1>c, FreshType
      <4> QED
        BY <1>0, <4>1, <4>2, LockType
    <3>2. lockedUntil' \in Nat /\ lockedUntil' <= now + Lockout
      BY <1>0, <1>3, <2>1
    <3>3. tries'.code < link'.code
      BY <1>c, <2>2, <3>1
    <3>4. LinkInv'
      BY <1>0, <1>3, <1>c, <2>2, <3>1, <3>2, <3>3, SavedGuarded
    <3> QED
      BY <2>1, <2>3, <3>4
  <2>6. CASE kind # "right" /\ ~(Current.attempts + 1 >= MaxAttempts)
    <3>1. /\ link' \in Links /\ link'.code = Current.code
          /\ link'.attempts = Current.attempts + 1
      <4>1. link' = [Current EXCEPT !.attempts = Current.attempts + 1]
        BY <1>3, <2>6
      <4>2. Current.attempts + 1 \in 0 .. MaxAttempts - 1
        BY <1>0, <1>c, <2>6
      <4> QED
        BY <1>a, <4>1, <4>2, AttemptType
    <3>2. lockedUntil' = lockedUntil
      BY <1>0, <1>3, <1>c, <2>2, <2>6
    <3>3. LinkInv'
      BY <1>0, <1>3, <2>1, <2>2, <3>1, <3>2, SavedGuarded
    <3> QED
      BY <2>1, <2>3, <3>3
  <2> QED
    BY <2>4, <2>5, <2>6
<1>4. CASE link.linked /\ link' = Fresh(link.code + 1) /\ Saves /\ lockedUntil' = 0 /\ UNCHANGED tries
  <2>1. link' \in Links /\ link'.code = link.code + 1
    BY <1>0, <1>0a, <1>4, FreshType
  <2>2. tries'.code < link'.code /\ now >= lockedUntil' /\ lockedUntil' \in Nat
    BY <1>0, <1>0a, <1>0b, <1>4, <2>1
  <2> QED
    BY <1>0, <1>0a, <1>4, <2>1, <2>2, SavedGuarded
<1> QED
  BY <1>1, <1>2, <1>3, <1>4 DEF Take

(* A crash leaves the link, what the session gives back, or an older state *)
(* with which the tries are not recorded any longer.                       *)
LEMMA CrashGuarded ==
  ASSUME LinkInv, Crash
  PROVE  LinkInv' /\ (tries' = tries \/ tries' = Unrecorded)
<1>0. /\ LinkTypes /\ now \in Nat /\ now' = now /\ lockedUntil \in Nat /\ link \in Links
      /\ tries \in [code : Nat, count : Nat]
      /\ kept.linked \in BOOLEAN /\ kept.code \in Nat /\ kept.locked \in Nat
  BY DEF LinkInv, LinkTypes, Crash
<1>1. /\ link.linked \in BOOLEAN /\ link.code \in Nat /\ link.locked \in Nat
      /\ link.attempts \in 0 .. MaxAttempts - 1
      /\ tries.code \in Nat /\ tries.count \in Nat
  BY <1>0, LinkFields DEF Links
<1>2. CASE link' \in {link, Restored} /\ Saves /\ UNCHANGED <<tries, lockedUntil>>
  <2>1. CASE link' = link
    <3>1. /\ tries'.code <= link'.code
          /\ ~link'.linked /\ tries'.code = link'.code => tries'.count <= link'.attempts
          /\ now >= lockedUntil' \/ link'.locked >= lockedUntil'
      BY <1>0, <1>1, <1>2, <2>1 DEF LinkInv, Guarded
    <3> QED
      BY <1>0, <1>2, <2>1, <3>1, SavedGuarded
  <2>2. CASE link' = Restored
    <3>1. /\ link' \in Links
          /\ link'.linked <=> kept.linked
          /\ link'.code = kept.code /\ link'.locked = kept.locked /\ link'.attempts = link.attempts
      BY <1>0, <2>2 DEF Restored, Links
    <3>2. /\ tries'.code <= link'.code
          /\ ~link'.linked /\ tries'.code = link'.code => tries'.count <= link'.attempts
          /\ now >= lockedUntil' \/ link'.locked >= lockedUntil'
      BY <1>0, <1>1, <1>2, <3>1 DEF LinkInv, Guarded
    <3> QED
      BY <1>0, <1>2, <3>1, <3>2, SavedGuarded
  <2> QED
    BY <1>2, <2>1, <2>2
<1>3. CASE link' = Fresh(link.code + 1) /\ kept' = Entries(link)' /\ lockedUntil' = 0 /\ UNCHANGED tries
  <2>1. link' \in Links /\ link'.code = link.code + 1 /\ link'.locked = 0
    BY <1>0, <1>1, <1>3, FreshType
  <2>2. /\ kept' \in [linked : BOOLEAN, code : Nat, locked : Nat]
        /\ kept'.code = link.code + 1
    BY <1>0, <1>1, <1>3, <2>1 DEF Entries, Links
  <2>3. tries.code <= link.code
    BY <1>0, <1>1 DEF LinkInv, Guarded
  <2> QED
    BY <1>0, <1>1, <1>3, <2>1, <2>2, <2>3 DEF LinkInv, LinkTypes, Guarded
<1>4. CASE UNCHANGED linking
  BY <1>0, <1>4 DEF linking, LinkInv, LinkTypes, Guarded
<1>5. CASE link' \in Earlier /\ kept' = Entries(link)' /\ tries' = Unrecorded /\ lockedUntil' = 0
  <2>1. link' \in Links
    <3>1. ASSUME NEW a \in 0 .. link.attempts
          PROVE  [link EXCEPT !.linked = FALSE, !.attempts = a] \in Links
      <4>1. a \in 0 .. MaxAttempts - 1
        BY <1>1, BridgeAssumption
      <4> QED
        BY <1>0, <4>1 DEF Links
    <3>2. [Fresh(1) EXCEPT !.issued = 0] \in Links
      <4>1. 1 = 0 + 1 /\ 0 \in Nat
        OBVIOUS
      <4>2. Fresh(1) \in Links
        BY <1>0, <4>1, FreshType
      <4> QED
        BY <4>2 DEF Links
    <3> QED
      BY <1>5, <3>1, <3>2 DEF Earlier
  <2>2. link'.code \in Nat /\ link'.attempts \in Nat /\ link'.locked \in Nat
    BY <2>1, LinkFields
  <2>3. /\ kept' \in [linked : BOOLEAN, code : Nat, locked : Nat]
        /\ kept'.code = link'.code
    BY <1>5, <2>1, <2>2 DEF Entries, Links
  <2>4. tries' \in [code : Nat, count : Nat] /\ tries'.code = 0 /\ tries'.count = 0
    BY <1>5 DEF Unrecorded
  <2> QED
    BY <1>0, <1>5, <2>1, <2>2, <2>3, <2>4 DEF LinkInv, LinkTypes, Guarded
<1> QED
  BY <1>2, <1>3, <1>4, <1>5 DEF Crash, Entries

LEMMA LinkStep ==
  ASSUME LinkInv, [Next]_vars
  PROVE  /\ LinkInv'
         /\ tries' # tries /\ tries' # Unrecorded
              => tries'.count <= MaxAttempts /\ now >= lockedUntil
<1>0. /\ LinkTypes /\ now \in Nat /\ lockedUntil \in Nat /\ link \in Links
      /\ tries \in [code : Nat, count : Nat] /\ tries.code \in Nat /\ kept.code \in Nat
      /\ kept.locked \in Nat
      /\ link.code \in Nat /\ link.locked \in Nat /\ link.attempts \in Nat
  BY LinkFields DEF LinkInv, LinkTypes
<1>1. CASE Tick
  BY <1>0, <1>1 DEF Tick, linking, LinkInv, LinkTypes, Guarded
<1>2. CASE Unpair
  <2>1. CASE link' = [link EXCEPT !.linked = FALSE, !.code = @ + 1]
             /\ UNCHANGED <<now, tries, kept, lockedUntil>>
    <3>1. /\ link' \in Links
          /\ ~link'.linked /\ link'.code = link.code + 1 /\ link'.locked = link.locked
      BY <1>0, <2>1, UnlinkType
    <3> QED
      BY <1>0, <2>1, <3>1 DEF LinkInv, LinkTypes, Guarded
  <2>2. CASE link' = Fresh(link.code + 1) /\ Saves /\ lockedUntil' = 0 /\ UNCHANGED <<now, tries>>
    <3>1. link'.code = link.code + 1 /\ link' \in Links
      BY <1>0, <2>2, FreshType
    <3>2. tries'.code < link'.code /\ now >= lockedUntil' /\ lockedUntil' \in Nat
      BY <1>0, <2>2, <3>1 DEF LinkInv, Guarded
    <3> QED
      BY <1>0, <2>2, <3>1, <3>2, SavedGuarded
  <2> QED
    BY <1>2, <2>1, <2>2 DEF Unpair
<1>3. CASE Crash
  BY <1>3, CrashGuarded
<1>4. CASE \E l \in Loop : Start(l)
  <2>1. UNCHANGED <<now, link, tries, lockedUntil>> /\ Saves
    BY <1>4 DEF Start
  <2>2. /\ tries'.code <= link'.code
        /\ ~link'.linked /\ tries'.code = link'.code => tries'.count <= link'.attempts
        /\ now >= lockedUntil' \/ link'.locked >= lockedUntil'
    BY <1>0, <2>1 DEF LinkInv, Guarded
  <2> QED
    BY <1>0, <2>1, <2>2, SavedGuarded
<1>5. CASE \E l \in Loop, kind \in Kind : Take(l, kind)
  BY <1>5, TakeGuarded
<1>6. CASE UNCHANGED <<now, linking>>
  BY <1>6 DEF linking, LinkInv, LinkTypes, Guarded
<1> QED
  BY <1>1, <1>2, <1>3, <1>4, <1>5, <1>6
     DEF Next, LoopStep, Send, Stop, Delivered, PollFails, BatchEnds, Resumes, Types,
         TurnEnds, Replies, vars

(* A code is tried MaxAttempts times at most, over all restarts and loops, *)
(* and none is tried while the lockout lasts, until the extension resumes  *)
(* an earlier session.                                                     *)
THEOREM GuessesAreLimitedAlways == Spec => GuessesAreLimited
<1>1. Init => LinkInv
  <2> SUFFICES ASSUME Init PROVE LinkInv
    OBVIOUS
  <2>1. now \in Nat /\ 1 = 0 + 1 /\ link = Fresh(1)
    BY DEF Init
  <2>2. link \in Links /\ link.code = 1 /\ link.attempts = 0 /\ link.locked = 0
        /\ link.linked = FALSE
    BY <2>1, FreshType
  <2>3. kept \in [linked : BOOLEAN, code : Nat, locked : Nat] /\ kept.code = 1
    <3>1. /\ link.linked \in BOOLEAN /\ link.code \in Nat /\ link.locked \in Nat
          /\ link.code = 1
      BY <2>2, LinkFields
    <3>2. kept = [linked |-> link.linked, code |-> link.code, locked |-> link.locked]
      BY DEF Init, Entries
    <3> QED
      BY <3>1, <3>2
  <2>4. /\ tries \in [code : Nat, count : Nat] /\ tries.count = 0
        /\ tries.code = 1 /\ lockedUntil = 0
    BY DEF Init
  <2> QED
    BY <2>1, <2>2, <2>3, <2>4 DEF LinkInv, LinkTypes, Guarded
<1>2. LinkInv /\ [Next]_vars => LinkInv'
  BY LinkStep
<1>3. LinkInv /\ [Next]_vars =>
        [tries' # tries /\ tries' # Unrecorded
           => tries'.count <= MaxAttempts /\ now >= lockedUntil]_vars
  BY LinkStep
<1> QED
  BY <1>1, <1>2, <1>3, PTL DEF Spec, GuessesAreLimited

-----------------------------------------------------------------------------

Pc == {"off", "poll", "batch", "typing", "turn", "reply", "pause"}
Loops == [pc : Pc, batch : Seq(Nat), id : Nat]

OrderTypes ==
  /\ sent \in 0 .. MaxUpdate /\ confirmed \in 0 .. sent /\ last \in 0 .. sent
  /\ excused \in BOOLEAN
  /\ loop \in [Loop -> Loops]
  /\ turns \in [1 .. MaxUpdate -> 0 .. 2]

(* A batch is increasing and holds updates that were sent, ...             *)
Batched(l) ==
  /\ loop[l].pc \in {"off", "poll", "pause"} => loop[l].batch = <<>>
  /\ \A i \in 1 .. Len(loop[l].batch) : loop[l].batch[i] \in 1 .. sent
  /\ \A i, j \in 1 .. Len(loop[l].batch) : i < j => loop[l].batch[i] < loop[l].batch[j]

(* ... all beyond the last one marked; an update that the loop types for   *)
(* is marked, and has made no turn yet.                                    *)
Ahead(l) ==
  /\ \A i \in 1 .. Len(loop[l].batch) : loop[l].batch[i] > last
  /\ loop[l].pc = "typing" => loop[l].id \in 1 .. last /\ turns[loop[l].id] = 0

Turned ==
  /\ excused => \A u \in 1 .. MaxUpdate : turns[u] = 0
  /\ \A u \in 1 .. MaxUpdate : turns[u] > 0 => u <= last
  /\ HandledOnce

(* As long as nothing is excused, one loop is alive.                       *)
OneLoop == ~excused => \A l, k \in Loop : ~At(l, "off") /\ ~At(k, "off") => l = k

OrderInv ==
  /\ OrderTypes /\ OneLoop /\ Turned
  /\ \A l \in Loop : Batched(l) /\ (~excused => Ahead(l))

(* A step of one loop that is alive disturbs no other: the others are off  *)
(* and hold no batch, or are excused.                                      *)
LEMMA OneLoopMoves ==
  ASSUME OrderInv, NEW l \in Loop, ~At(l, "off"),
         \A k \in Loop \ {l} : loop'[k] = loop[k],
         OrderTypes', UNCHANGED <<sent, excused>>,
         Batched(l)', ~excused => Ahead(l)', Turned'
  PROVE  OrderInv'
<1>1. OneLoop'
  BY DEF OrderInv, OneLoop, At
<1>2. ASSUME NEW k \in Loop PROVE Batched(k)' /\ (~excused' => Ahead(k)')
  <2>1. CASE k = l
    BY <2>1
  <2>2. CASE k # l
    <3>1. loop'[k] = loop[k] /\ Batched(k)
      BY <2>2 DEF OrderInv
    <3>2. Batched(k)'
      BY <3>1 DEF Batched
    <3>3. ASSUME ~excused PROVE Ahead(k)'
      <4>1. loop[k].pc = "off"
        BY <2>2, <3>3 DEF OrderInv, OneLoop, At
      <4>2. loop[k].batch = <<>>
        BY <3>1, <4>1 DEF Batched
      <4> QED
        BY <3>1, <4>1, <4>2 DEF Ahead
    <3> QED
      BY <3>2, <3>3
  <2> QED
    BY <2>1, <2>2
<1> QED
  BY <1>1, <1>2 DEF OrderInv

LEMMA MaxOfTwo ==
  ASSUME NEW a \in Nat, NEW b \in Nat
  PROVE  Max({a, b}) \in {a, b} /\ Max({a, b}) >= a /\ Max({a, b}) >= b
<1>1. \E x \in {a, b} : \A y \in {a, b} : x >= y
  <2>1. CASE a >= b
    BY <2>1
  <2>2. CASE b >= a
    BY <2>2
  <2> QED
    BY <2>1, <2>2
<1>2. Max({a, b}) \in {a, b} /\ \A y \in {a, b} : Max({a, b}) >= y
  BY <1>1 DEF Max
<1> QED
  BY <1>2

LEMMA MinOfTwo ==
  ASSUME NEW a \in Nat, NEW b \in Nat
  PROVE  Min({a, b}) \in {a, b} /\ Min({a, b}) <= a /\ Min({a, b}) <= b
<1>1. \E x \in {a, b} : \A y \in {a, b} : x <= y
  <2>1. CASE a <= b
    BY <2>1
  <2>2. CASE b <= a
    BY <2>2
  <2> QED
    BY <2>1, <2>2
<1>2. Min({a, b}) \in {a, b} /\ \A y \in {a, b} : Min({a, b}) <= y
  BY <1>1 DEF Min
<1> QED
  BY <1>2

LEMMA GoesLoop ==
  ASSUME loop \in [Loop -> Loops], NEW l \in Loop, NEW pc \in Pc, Goes(l, pc)
  PROVE  /\ loop' \in [Loop -> Loops]
         /\ \A k \in Loop \ {l} : loop'[k] = loop[k]
         /\ loop'[l].pc = pc /\ loop'[l].batch = loop[l].batch /\ loop'[l].id = loop[l].id
BY DEF Goes, Loops

LEMMA ThrowsLoop ==
  ASSUME loop \in [Loop -> Loops], NEW l \in Loop, Throws(l)
  PROVE  /\ loop' \in [Loop -> Loops]
         /\ \A k \in Loop \ {l} : loop'[k] = loop[k]
         /\ loop'[l].pc = "pause" /\ loop'[l].batch = <<>>
<1>1. /\ [Idle EXCEPT !.pc = "pause"] \in Loops
      /\ [Idle EXCEPT !.pc = "pause"].pc = "pause" /\ [Idle EXCEPT !.pc = "pause"].batch = <<>>
  BY EmptySeq DEF Idle, Loops, Pc
<1> QED
  BY <1>1 DEF Throws

(* A step that moves the loop on, without a batch, with the one it has, or *)
(* after an error, and marks and turns nothing.                            *)
LEMMA PlainStep ==
  ASSUME OrderInv, NEW l \in Loop,
         \/ PollFails(l) \/ BatchEnds(l) \/ Resumes(l) \/ TurnEnds(l) \/ Replies(l)
         \/ (At(l, "typing") /\ Throws(l) /\ UNCHANGED <<sent, confirmed, last, turns, excused>>)
  PROVE  OrderInv'
<1>0. loop \in [Loop -> Loops] /\ Batched(l) /\ (~excused => Ahead(l))
  BY DEF OrderInv, OrderTypes
<1>1. UNCHANGED <<sent, confirmed, last, turns, excused>> /\ ~At(l, "off")
  BY DEF PollFails, BatchEnds, Resumes, TurnEnds, Replies, At
<1>2. /\ loop' \in [Loop -> Loops]
      /\ \A k \in Loop \ {l} : loop'[k] = loop[k]
      /\ loop'[l].pc # "typing"
      /\ \/ loop'[l].batch = <<>>
         \/ loop'[l].batch = loop[l].batch /\ loop'[l].pc \in {"reply", "batch"}
  <2>1. CASE PollFails(l) \/ (At(l, "typing") /\ Throws(l))
    BY <1>0, <2>1, ThrowsLoop DEF PollFails
  <2>2. CASE BatchEnds(l) \/ Resumes(l)
    <3>1. loop[l].batch = <<>>
      BY <1>0, <2>2 DEF BatchEnds, Resumes, At, Batched
    <3>2. PICK pc \in {"off", "poll"} : Goes(l, pc)
      BY <2>2 DEF BatchEnds, Resumes, Again
    <3> QED
      BY <1>0, <3>1, <3>2, GoesLoop DEF Pc
  <2>3. CASE TurnEnds(l)
    BY <1>0, <2>3, GoesLoop, ThrowsLoop DEF TurnEnds, Pc
  <2>4. CASE Replies(l)
    BY <1>0, <2>4, GoesLoop, ThrowsLoop DEF Replies, Pc
  <2> QED
    BY <2>1, <2>2, <2>3, <2>4
<1>3. Batched(l)' /\ (~excused => Ahead(l)')
  <2>1. CASE loop'[l].batch = <<>>
    BY <1>1, <1>2, <2>1 DEF Batched, Ahead
  <2>2. CASE loop'[l].batch = loop[l].batch /\ loop'[l].pc \in {"reply", "batch"}
    BY <1>0, <1>1, <1>2, <2>2 DEF Batched, Ahead
  <2> QED
    BY <1>2, <2>1, <2>2
<1>4. OrderTypes' /\ Turned'
  BY <1>1, <1>2 DEF OrderInv, OrderTypes, Turned, HandledOnce
<1> QED
  BY <1>1, <1>2, <1>3, <1>4, OneLoopMoves

(* The updates after the last one marked, in order.                        *)
LEMMA DeliveredStep ==
  ASSUME OrderInv, NEW l \in Loop, Delivered(l)
  PROVE  OrderInv'
<1> DEFINE from == Max({confirmed, last}) + 1
           ids == [i \in 1 .. (sent + 1 - from) |-> from + i - 1]
<1>0. /\ loop \in [Loop -> Loops] /\ sent \in Nat /\ confirmed \in Nat /\ last \in Nat
      /\ confirmed <= sent /\ last <= sent /\ ~At(l, "off")
  BY BridgeAssumption DEF OrderInv, OrderTypes, Delivered, At
<1>1. from \in Nat /\ from > last /\ from > confirmed /\ from <= sent + 1 /\ from \in Nat \ {0}
  BY <1>0, MaxOfTwo
<1>2. /\ loop' = [loop EXCEPT ![l] = [pc |-> "batch", batch |-> ids, id |-> 0]]
      /\ confirmed' = from - 1 /\ UNCHANGED <<sent, last, turns, excused>>
  BY DEF Delivered
<1> HIDE DEF from
<1>3. ids \in Seq(Nat) /\ Len(ids) = sent + 1 - from
  <2>1. sent + 1 - from \in Nat
    BY <1>0, <1>1
  <2>2. \A i \in 1 .. (sent + 1 - from) : from + i - 1 \in Nat
    BY <1>1
  <2> QED
    BY <2>1, <2>2
<1>4. \A i \in 1 .. Len(ids) : ids[i] = from + i - 1
  BY <1>3
<1>5. \A i \in 1 .. Len(ids) : ids[i] > last /\ ids[i] \in 1 .. sent
  BY <1>0, <1>1, <1>3, <1>4
<1>6. \A i, j \in 1 .. Len(ids) : i < j => ids[i] < ids[j]
  BY <1>0, <1>1, <1>3, <1>4
<1> HIDE DEF ids
<1>7. /\ loop' \in [Loop -> Loops]
      /\ \A k \in Loop \ {l} : loop'[k] = loop[k]
      /\ loop'[l].pc = "batch" /\ loop'[l].batch = ids
  BY <1>0, <1>2, <1>3 DEF Loops, Pc
<1>8. Batched(l)' /\ Ahead(l)'
  BY <1>2, <1>5, <1>6, <1>7 DEF Batched, Ahead
<1>9. OrderTypes' /\ Turned'
  BY <1>0, <1>1, <1>2, <1>7 DEF OrderInv, OrderTypes, Turned, HandledOnce
<1> QED
  BY <1>0, <1>2, <1>7, <1>8, <1>9, OneLoopMoves

(* The first update of the batch is marked; the rest is beyond it.         *)
LEMMA TakeStep ==
  ASSUME OrderInv, NEW l \in Loop, NEW kind \in Kind, Take(l, kind)
  PROVE  OrderInv'
<1> DEFINE b == loop[l].batch
<1>0. /\ loop \in [Loop -> Loops] /\ Batched(l) /\ (~excused => Ahead(l)) /\ ~At(l, "off")
      /\ b \in Seq(Nat) /\ b # <<>>
      /\ sent \in 0 .. MaxUpdate /\ last \in Nat
      /\ turns \in [1 .. MaxUpdate -> 0 .. 2] /\ Turned
  BY BridgeAssumption DEF OrderInv, OrderTypes, Take, At, Loops
<1>1. /\ last' = Head(b)
      /\ UNCHANGED <<sent, confirmed, turns, excused>>
      /\ \E pc \in {"reply", "batch", "typing"} :
           loop' = [loop EXCEPT ![l] = [pc |-> pc, batch |-> Tail(@.batch),
                                        id |-> IF pc = "typing" THEN Head(b) ELSE 0]]
  BY DEF Take
<1>2. PICK pc \in {"reply", "batch", "typing"} :
        loop' = [loop EXCEPT ![l] = [pc |-> pc, batch |-> Tail(b),
                                     id |-> IF pc = "typing" THEN Head(b) ELSE 0]]
  BY <1>1
<1>3. /\ Len(b) \in Nat \ {0} /\ Head(b) = b[1] /\ Tail(b) \in Seq(Nat) /\ Len(Tail(b)) = Len(b) - 1
      /\ \A i \in 1 .. Len(Tail(b)) : Tail(b)[i] = b[i + 1]
  BY <1>0, HeadTailProperties, EmptySeq
<1>4. /\ \A i \in 1 .. Len(b) : b[i] \in 1 .. sent
      /\ \A i, j \in 1 .. Len(b) : i < j => b[i] < b[j]
      /\ ~excused => \A i \in 1 .. Len(b) : b[i] > last
  BY <1>0 DEF Batched, Ahead
<1> HIDE DEF b
<1>5. Head(b) \in 1 .. sent /\ (~excused => Head(b) > last) /\ Head(b) \in Nat
  BY <1>0, <1>3, <1>4
<1>6. \A i \in 1 .. Len(Tail(b)) : Tail(b)[i] \in 1 .. sent /\ Tail(b)[i] > Head(b)
  BY <1>3, <1>4
<1>7. \A i, j \in 1 .. Len(Tail(b)) : i < j => Tail(b)[i] < Tail(b)[j]
  BY <1>3, <1>4
<1>8. /\ loop' \in [Loop -> Loops]
      /\ \A k \in Loop \ {l} : loop'[k] = loop[k]
      /\ loop'[l].pc = pc /\ loop'[l].batch = Tail(b)
      /\ pc = "typing" => loop'[l].id = Head(b)
  BY <1>0, <1>2, <1>3, <1>5 DEF Loops, Pc
<1>9. ~excused => turns[Head(b)] = 0
  <2>1. Head(b) \in 1 .. MaxUpdate /\ MaxUpdate \in Nat
    BY <1>0, <1>5, BridgeAssumption
  <2>2. turns[Head(b)] \in 0 .. 2 /\ (turns[Head(b)] > 0 => Head(b) <= last)
    BY <1>0, <2>1 DEF Turned
  <2> QED
    BY <1>0, <1>5, <2>2
<1>10. Batched(l)'
  BY <1>1, <1>6, <1>7, <1>8 DEF Batched
<1>11. ~excused => Ahead(l)'
  <2>1. \A i \in 1 .. Len(loop'[l].batch) : loop'[l].batch[i] > last'
    BY <1>1, <1>6, <1>8
  <2>2. ASSUME ~excused, loop'[l].pc = "typing"
        PROVE  loop'[l].id \in 1 .. last' /\ turns'[loop'[l].id] = 0
    <3>1. loop'[l].id = Head(b) /\ last' = Head(b) /\ turns' = turns
      BY <1>1, <1>8, <2>2
    <3>2. Head(b) \in 1 .. Head(b)
      BY <1>0, <1>5
    <3> QED
      BY <1>9, <2>2, <3>1, <3>2
  <2> QED
    BY <2>1, <2>2 DEF Ahead
<1>12. Turned'
  BY <1>0, <1>1, <1>5 DEF Turned, HandledOnce
<1>13. OrderTypes'
  BY <1>0, <1>1, <1>5, <1>8 DEF OrderInv, OrderTypes
<1> QED
  BY <1>0, <1>1, <1>8, <1>10, <1>11, <1>12, <1>13, OneLoopMoves

(* The update that the loop typed for makes its turn.                      *)
LEMMA TypesStep ==
  ASSUME OrderInv, NEW l \in Loop, Types(l)
  PROVE  OrderInv'
<1>0. /\ loop \in [Loop -> Loops] /\ Batched(l) /\ (~excused => Ahead(l)) /\ At(l, "typing")
      /\ turns \in [1 .. MaxUpdate -> 0 .. 2] /\ Turned /\ last \in Nat /\ last <= MaxUpdate
      /\ UNCHANGED <<sent, confirmed, last, excused>>
  BY BridgeAssumption DEF OrderInv, OrderTypes, Types
<1>1. CASE Throws(l) /\ UNCHANGED turns
  BY <1>0, <1>1, PlainStep
<1>2. CASE /\ loop' = [loop EXCEPT ![l].pc = "turn", ![l].id = 0]
           /\ turns' = IF excused THEN turns ELSE [turns EXCEPT ![loop[l].id] = Min({2, @ + 1})]
  <2>1. /\ loop' \in [Loop -> Loops]
        /\ \A k \in Loop \ {l} : loop'[k] = loop[k]
        /\ loop'[l].pc = "turn" /\ loop'[l].batch = loop[l].batch
    BY <1>0, <1>2 DEF Loops, Pc
  <2>2. CASE excused
    <3>1. turns' = turns
      BY <1>2, <2>2
    <3>2. Batched(l)' /\ OrderTypes' /\ Turned'
      BY <1>0, <2>1, <3>1 DEF Batched, OrderInv, OrderTypes, Turned, HandledOnce
    <3> QED
      BY <1>0, <2>1, <2>2, <3>2, OneLoopMoves DEF At
  <2>3. CASE ~excused
    <3>1. loop[l].id \in 1 .. last /\ turns[loop[l].id] = 0
      BY <1>0, <2>3 DEF Ahead, At
    <3>2. turns' = [turns EXCEPT ![loop[l].id] = 1]
      <4>1. Min({2, 1}) = 1
        BY MinOfTwo
      <4>2. turns' = [turns EXCEPT ![loop[l].id] = Min({2, turns[loop[l].id] + 1})]
        BY <1>2, <2>3
      <4>3. {2, turns[loop[l].id] + 1} = {2, 1}
        BY <3>1
      <4> QED
        BY <4>1, <4>2, <4>3
    <3>3. Turned' /\ turns' \in [1 .. MaxUpdate -> 0 .. 2]
      <4>1. \A u \in 1 .. MaxUpdate :
              turns'[u] = IF u = loop[l].id THEN 1 ELSE turns[u]
        BY <1>0, <3>2
      <4>2. turns' \in [1 .. MaxUpdate -> 0 .. 2]
        <5>1. 1 \in 0 .. 2
          OBVIOUS
        <5> QED
          BY <1>0, <3>2, <5>1
      <4>3. loop[l].id <= last /\ \A u \in 1 .. MaxUpdate : turns[u] <= 1 /\ (turns[u] > 0 => u <= last)
        BY <1>0, <3>1 DEF Turned, HandledOnce
      <4> QED
        BY <1>0, <2>3, <4>1, <4>2, <4>3 DEF Turned, HandledOnce
    <3>4. Batched(l)' /\ Ahead(l)'
      BY <1>0, <2>1, <2>3 DEF Batched, Ahead
    <3>5. OrderTypes'
      BY <1>0, <2>1, <3>3 DEF OrderInv, OrderTypes
    <3> QED
      BY <1>0, <2>1, <3>3, <3>4, <3>5, OneLoopMoves DEF At
  <2> QED
    BY <2>2, <2>3
<1> QED
  BY <1>0, <1>1, <1>2 DEF Types

(* What starts, ends and surrounds the loops.                              *)
LEMMA OutsideStep ==
  ASSUME OrderInv, Send \/ Stop \/ Unpair \/ Tick \/ UNCHANGED vars
  PROVE  OrderInv'
<1>0. /\ sent \in Nat /\ sent <= MaxUpdate /\ confirmed \in 0 .. sent /\ last \in 0 .. sent
      /\ MaxUpdate \in Nat
  BY BridgeAssumption DEF OrderInv, OrderTypes
<1>1. UNCHANGED <<confirmed, loop, last, turns, excused>>
  BY DEF Send, Stop, Unpair, Tick, vars
<1>2. sent' \in 0 .. MaxUpdate /\ sent <= sent'
  BY <1>0 DEF Send, Stop, Unpair, Tick, vars
<1>3. OrderTypes'
  BY <1>0, <1>1, <1>2 DEF OrderInv, OrderTypes
<1>4. ASSUME NEW l \in Loop PROVE Batched(l)' /\ (~excused' => Ahead(l)')
  <2>1. Batched(l) /\ (~excused => Ahead(l))
    BY DEF OrderInv
  <2>2. Batched(l)'
    BY <1>0, <1>1, <1>2, <2>1 DEF Batched
  <2>3. ~excused' => Ahead(l)'
    BY <1>1, <2>1 DEF Ahead
  <2> QED
    BY <2>2, <2>3
<1>5. OneLoop' /\ Turned'
  BY <1>1 DEF OrderInv, OneLoop, Turned, HandledOnce, At
<1> QED
  BY <1>3, <1>4, <1>5 DEF OrderInv

(* A second loop is excused; the first one is alone.                       *)
LEMMA StartStep ==
  ASSUME OrderInv, NEW l \in Loop, Start(l)
  PROVE  OrderInv'
<1>0. /\ loop \in [Loop -> Loops] /\ \A k \in Loop : Batched(k) /\ (~excused => Ahead(k))
      /\ At(l, "off") /\ UNCHANGED <<sent, confirmed, last>>
      /\ turns \in [1 .. MaxUpdate -> 0 .. 2] /\ Turned
  BY DEF OrderInv, OrderTypes, Start
<1>1. /\ loop' \in [Loop -> Loops]
      /\ \A k \in Loop \ {l} : loop'[k] = loop[k]
      /\ loop'[l].pc = "poll" /\ loop'[l].batch = <<>>
  BY <1>0, GoesLoop DEF Start, Pc, Batched, At
<1>2. ASSUME NEW k \in Loop PROVE Batched(k)'
  <2>1. CASE k = l
    BY <1>1, <2>1 DEF Batched
  <2>2. CASE k # l
    BY <1>0, <1>1, <2>2 DEF Batched
  <2> QED
    BY <2>1, <2>2
<1>3. CASE \E k \in Loop : ~At(k, "off")
  <2>1. turns' = [u \in 1 .. MaxUpdate |-> 0] /\ excused' = TRUE
    BY <1>3 DEF Start, Excuses
  <2>2. turns' \in [1 .. MaxUpdate -> 0 .. 2] /\ Turned'
    BY <2>1 DEF Turned, HandledOnce
  <2> QED
    BY <1>0, <1>1, <1>2, <2>1, <2>2 DEF OrderInv, OrderTypes, OneLoop
<1>4. CASE \A k \in Loop : At(k, "off")
  <2>1. UNCHANGED <<turns, excused>>
    BY <1>4 DEF Start
  <2>2. ASSUME ~excused, NEW k \in Loop PROVE Ahead(k)'
    <3>1. CASE k = l
      BY <1>1, <3>1 DEF Ahead
    <3>2. CASE k # l
      BY <1>0, <1>1, <2>1, <2>2, <3>2 DEF Ahead
    <3> QED
      BY <3>1, <3>2
  <2>3. OneLoop' /\ Turned'
    BY <1>0, <1>1, <1>4, <2>1 DEF OneLoop, At, Turned, HandledOnce
  <2>4. OrderTypes'
    BY <1>0, <1>1, <2>1 DEF OrderInv, OrderTypes
  <2> QED
    BY <1>2, <2>1, <2>2, <2>3, <2>4 DEF OrderInv
<1> QED
  BY <1>3, <1>4

(* A crash drops every batch; an older state that is resumed is excused.   *)
LEMMA CrashStep ==
  ASSUME OrderInv, Crash
  PROVE  OrderInv'
<1>0. /\ sent \in Nat /\ confirmed \in 0 .. sent /\ last \in 0 .. sent
      /\ UNCHANGED <<sent, confirmed>> /\ Turned /\ excused \in BOOLEAN
      /\ turns \in [1 .. MaxUpdate -> 0 .. 2]
  BY BridgeAssumption DEF OrderInv, OrderTypes, Crash
<1>1. loop' = [l \in Loop |-> Idle] /\ Idle \in Loops /\ Idle.pc = "off" /\ Idle.batch = <<>>
  BY EmptySeq DEF Crash, Idle, Loops, Pc
<1>2. loop' \in [Loop -> Loops] /\ \A l \in Loop : At(l, "off")' /\ Batched(l)' /\ Ahead(l)'
  BY <1>1 DEF At, Batched, Ahead
<1>3. CASE UNCHANGED <<last, turns, excused>>
  BY <1>0, <1>2, <1>3 DEF OrderInv, OrderTypes, OneLoop, Turned, HandledOnce
<1>4. CASE Excuses /\ last' \in 0 .. last
  <2>1. turns' \in [1 .. MaxUpdate -> 0 .. 2] /\ Turned' /\ excused' = TRUE
    BY <1>4 DEF Excuses, Turned, HandledOnce
  <2>2. last' \in 0 .. sent
    BY <1>0, <1>4
  <2> QED
    BY <1>0, <1>2, <2>1, <2>2 DEF OrderInv, OrderTypes, OneLoop
<1>5. Min({confirmed, last}) \in 0 .. last
  BY <1>0, MinOfTwo
<1> QED
  BY <1>0, <1>3, <1>4, <1>5 DEF Crash

(* No update makes two turns, whenever the process dies, unless a second   *)
(* loop was started or an older state resumed.                             *)
THEOREM HandledOnceAlways == Spec => []HandledOnce
<1>1. Init => OrderInv
  <2> SUFFICES ASSUME Init PROVE OrderInv
    OBVIOUS
  <2>1. Idle \in Loops /\ Idle.pc = "off" /\ Idle.batch = <<>>
    BY EmptySeq DEF Idle, Loops, Pc
  <2>2. loop \in [Loop -> Loops] /\ \A l \in Loop : At(l, "off") /\ Batched(l) /\ Ahead(l)
    BY <2>1 DEF Init, At, Batched, Ahead
  <2> QED
    <3>1. MaxUpdate \in Nat /\ 0 \in 0 .. MaxUpdate /\ 0 \in 0 .. 0 /\ 0 \in 0 .. 2
      BY BridgeAssumption
    <3>2. OrderTypes
      BY <2>2, <3>1 DEF Init, OrderTypes
    <3>3. Turned
      BY DEF Init, Turned, HandledOnce
    <3> QED
      BY <2>2, <3>2, <3>3 DEF OrderInv, OneLoop
<1>2. OrderInv /\ [Next]_vars => OrderInv'
  <2> SUFFICES ASSUME OrderInv, [Next]_vars PROVE OrderInv'
    OBVIOUS
  <2>1. ASSUME NEW l \in Loop, LoopStep(l) PROVE OrderInv'
    BY <2>1, PlainStep, DeliveredStep, TakeStep, TypesStep DEF LoopStep
  <2> QED
    BY <2>1, OutsideStep, StartStep, CrashStep DEF Next
<1>3. OrderInv => HandledOnce
  BY DEF OrderInv, Turned
<1> QED
  BY <1>1, <1>2, <1>3, PTL DEF Spec

=============================================================================
