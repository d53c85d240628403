---------------------------- MODULE HerdrStores_proofs ----------------------------
(***************************************************************************)
(* Proofs about the two stores the gateway keeps for Herdr, for all        *)
(* values of the constants.                                                *)
(*                                                                         *)
(* SessionMutations: OneEffectPerKey is not inductive.  What makes it so:  *)
(* a command is covered, in memory and in the file, by a receipt of its    *)
(* key for a lifetime after it was begun (Covered), and the one request    *)
(* that holds the lock found no such receipt before it begins, or had      *)
(* found none before it began (Exclusive).                                 *)
(*                                                                         *)
(* HubTaskStore: OneOwner is not inductive: why nobody takes the lock away *)
(* from its owner rests on the reclaim lock, which one constructor holds   *)
(* at a time (OneConstructor), and on what that constructor has read of    *)
(* the lock file (StaleLock).                                              *)
(***************************************************************************)
EXTENDS SessionMutations, HubTaskStore, SequenceTheorems, TLAPS

-----------------------------------------------------------------------------
(* The mutations of live sessions.                                         *)

Active(r) == stage[r] \in {"finding", "acting"}
Begun(r) == command[r] # "none"
SameKey(r, q) == r # q /\ key[r] = key[q]

(* Only the request at the head of the chain is past the guard.            *)
Locked == \A r \in Request : Active(r) => HoldsLock(r)

(* For its lifetime, a command is covered by a receipt of its key.         *)
Covered ==
  \A r \in Request : Begun(r) =>
    /\ begun[r] <= now
    /\ now < begun[r] + TTL =>
         memory[key[r]].expires >= begun[r] + TTL /\ file[key[r]].expires >= begun[r] + TTL

(* What the request that holds the lock knows of its key.                  *)
Exclusive ==
  \A r \in Request :
    /\ stage[r] = "finding" => memory[key[r]].expires <= now
    /\ stage[r] \in {"new", "waiting", "finding"} => ~Begun(r)
    /\ stage[r] = "acting" =>
         /\ Begun(r)
         /\ \A q \in Request : SameKey(r, q) /\ Begun(q) => begun[r] >= begun[q] + TTL
         /\ \A q \in Request : key[q] = key[r] => until[q] <= now

Apart ==
  \A r, q \in Request : SameKey(r, q) /\ Begun(r) /\ Begun(q) =>
    begun[r] >= begun[q] + TTL \/ begun[q] >= begun[r] + TTL

Effective(c, k, a) == \E q \in Request : key[q] = k /\ args[q] = a /\ c[q] = "done"

(* A receipt of a completed mutation, and the success a client was told    *)
(* of, stand for an effect.                                                *)
Truthful ==
  /\ \A k \in Key : /\ memory[k].completed => Effective(command, k, memory[k].args)
                    /\ file[k].completed => Effective(command, k, file[k].args)
  /\ \A r \in Request : reply[r] \in {"ok", "replayed"} => Effective(command, key[r], args[r])

(* A completed receipt is in the file, unless its save threw, ...          *)
Written == \A k \in Key : memory[k].completed /\ k \notin unsaved => file[k] = memory[k]

(* ... and a success that was told is recorded likewise.                   *)
Recorded(m, r) ==
  m[key[r]].completed /\ m[key[r]].args = args[r] /\ m[key[r]].expires >= until[r]
Remembered ==
  \A r \in Request : now < until[r] =>
    Recorded(memory, r) /\ (key[r] \notin unsaved => Recorded(file, r))

IInv ==
  /\ TypeOK /\ Locked /\ Covered /\ Exclusive /\ Apart /\ Truthful
  /\ Written /\ Remembered

-----------------------------------------------------------------------------

LEMMA NoReceiptType == NoReceipt \in Receipt /\ NoReceipt.expires = 0 /\ NoReceipt.completed = FALSE
<1>1. 0 \in 0 .. MaxRevision /\ 0 \in 0 .. MaxTime + TTL
  BY TimeAssumption
<1>2. \E f \in Fingerprint : TRUE
  <2>1. PICK p \in Payload : TRUE
    BY RequestAssumption
  <2>2. [payload |-> p, revision |-> 0] \in Fingerprint
    BY <1>1, <2>1 DEF Fingerprint
  <2> QED
    BY <2>2
<1>3. (CHOOSE f \in Fingerprint : TRUE) \in Fingerprint
  BY <1>2
<1> QED
  BY <1>1, <1>3 DEF NoReceipt, Receipt

LEMMA ReceiptOfType ==
  ASSUME TypeOK, NEW r \in Request, NEW c \in BOOLEAN
  PROVE  ReceiptOf(r, c) \in Receipt
<1>1. now + TTL \in 0 .. MaxTime + TTL
  BY TimeAssumption DEF TypeOK
<1>2. args[r] \in Fingerprint
  BY DEF TypeOK
<1> QED
  BY <1>1, <1>2 DEF ReceiptOf, Receipt

LEMMA InitIInv == Init => IInv
<1> SUFFICES ASSUME Init PROVE IInv
  OBVIOUS
<1>1. TypeOK
  <2>1. memory \in [Key -> Receipt] /\ file \in [Key -> Receipt]
    BY NoReceiptType DEF Init
  <2>2. /\ 0 \in 0 .. MaxTime /\ 0 \in 0 .. MaxRevision /\ 0 \in 0 .. MaxCrash
        /\ 0 \in 0 .. MaxTime + TTL
    BY TimeAssumption
  <2>3. chain \in Seq(Request)
    BY EmptySeq DEF Init
  <2> QED
    BY <2>1, <2>2, <2>3 DEF Init, TypeOK
<1>2. Locked /\ Covered /\ Exclusive /\ Apart /\ Written /\ Remembered
  BY DEF Init, Locked, Active, Covered, Exclusive, Apart, Written, Remembered, Begun
<1>3. Truthful
  BY NoReceiptType DEF Init, Truthful
<1> QED
  BY <1>1, <1>2, <1>3 DEF IInv

-----------------------------------------------------------------------------

(* Two requests are never past the guard together.                         *)
LEMMA OneActive ==
  ASSUME Locked, NEW r \in Request, HoldsLock(r), NEW q \in Request, Active(q)
  PROVE  q = r
BY DEF Locked, HoldsLock

(* When r answers, nobody is past the guard.                               *)
LEMMA AnswerUnlocks ==
  ASSUME TypeOK, Locked, NEW r \in Request, HoldsLock(r), NEW text, Answer(r, text),
         text \in {"ok", "replayed", "unknown", "conflict", "refused", "failed"}
  PROVE  /\ \A q \in Request : ~Active(q)'
         /\ chain' \in Seq(Request)
         /\ stage' \in [Request -> {"new", "waiting", "finding", "acting", "answered", "lost"}]
         /\ reply' \in [Request -> {"none", "ok", "replayed", "unknown", "conflict", "refused", "failed"}]
         /\ stage'[r] = "answered" /\ reply'[r] = text
         /\ \A q \in Request : q # r => stage'[q] = stage[q] /\ reply'[q] = reply[q]
<1>1. chain' \in Seq(Request)
  BY HeadTailProperties DEF Answer, HoldsLock, TypeOK
<1>2. /\ stage'[r] = "answered" /\ reply'[r] = text
      /\ \A q \in Request : q # r => stage'[q] = stage[q] /\ reply'[q] = reply[q]
  BY DEF Answer, TypeOK
<1>3. \A q \in Request : ~Active(q)'
  BY <1>2, OneActive DEF Active
<1> QED
  BY <1>1, <1>2, <1>3 DEF Answer, TypeOK

(* What Keep does to the receipts of other keys.                           *)
LEMMA KeepOthers ==
  ASSUME TypeOK, NEW k \in Key, NEW receipt \in Receipt, NEW saved \in BOOLEAN,
         Keep(k, receipt, saved)
  PROVE  /\ memory' \in [Key -> Receipt] /\ file' \in [Key -> Receipt]
         /\ \A j \in Key : memory'[j] = IF j = k THEN receipt ELSE memory[j]
         /\ \A j \in Key : file'[j] = IF saved THEN memory'[j] ELSE file[j]
         /\ unsaved' \subseteq Key
         /\ ~saved => unsaved \subseteq unsaved'
         /\ ~saved /\ receipt.completed => k \in unsaved'
BY DEF Keep, TypeOK

(* Steps that change neither receipts nor commands.                        *)
LEMMA Quiet ==
  ASSUME IInv, UNCHANGED <<now, key, args, memory, file, command, begun, unsaved>>
  PROVE  Covered' /\ Apart' /\ Written'
BY DEF IInv, Covered, Apart, Begun, SameKey, Written

LEMMA ArrivesStep ==
  ASSUME IInv, NEW r \in Request, Arrives(r)
  PROVE  IInv'
<1> USE DEF IInv
<1>1. /\ stage'[r] = "waiting"
      /\ \A q \in Request : q # r => stage'[q] = stage[q]
      /\ UNCHANGED <<now, key, args, reply, memory, file, command, begun, until, unsaved>>
  BY DEF Arrives, TypeOK
<1>2. /\ chain' \in Seq(Request)
      /\ \A q \in Request : HoldsLock(q) => HoldsLock(q)'
  <2>1. chain' = Append(chain, r) /\ chain \in Seq(Request)
    BY DEF Arrives, TypeOK
  <2>2. chain # <<>> => Append(chain, r)[1] = chain[1]
    BY <2>1, AppendProperties, EmptySeq, LenProperties
  <2> QED
    BY <2>1, <2>2, AppendProperties DEF HoldsLock
<1>3. TypeOK'
  BY <1>2 DEF Arrives, TypeOK
<1>4. Locked'
  BY <1>1, <1>2 DEF Locked, Active
<1>5. Covered' /\ Apart' /\ Written'
  BY <1>1, Quiet
<1>6. Exclusive'
  BY <1>1 DEF Exclusive, Begun, SameKey, Arrives
<1>7. Truthful' /\ Remembered'
  BY <1>1 DEF Truthful, Effective, Remembered, Recorded, Begun, Arrives
<1> QED
  BY <1>3, <1>4, <1>5, <1>6, <1>7

(* A request that ends without success and without touching the receipts.  *)
LEMMA QuietAnswer ==
  ASSUME IInv, NEW r \in Request, HoldsLock(r), NEW text, Answer(r, text),
         text \in {"unknown", "conflict", "refused", "failed"}
         \/ (text = "replayed" /\ Effective(command, key[r], args[r])),
         \/ UNCHANGED until
         \/ /\ memory[key[r]].completed /\ memory[key[r]].args = args[r]
            /\ until' = [until EXCEPT ![r] = memory[key[r]].expires],
         stage[r] \in {"waiting", "finding", "acting"},
         UNCHANGED <<now, revision, key, args, memory, file, command, begun, unsaved, crashes>>
  PROVE  IInv'
<1> USE DEF IInv
<1>1. /\ \A q \in Request : ~Active(q)'
      /\ chain' \in Seq(Request)
      /\ stage' \in [Request -> {"new", "waiting", "finding", "acting", "answered", "lost"}]
      /\ reply' \in [Request -> {"none", "ok", "replayed", "unknown", "conflict", "refused", "failed"}]
      /\ stage'[r] = "answered" /\ reply'[r] = text
      /\ \A q \in Request : q # r => stage'[q] = stage[q] /\ reply'[q] = reply[q]
  BY AnswerUnlocks
<1>a. /\ until' \in [Request -> 0 .. MaxTime + TTL]
      /\ \A q \in Request : q # r => until'[q] = until[q]
      /\ \/ until'[r] = until[r]
         \/ /\ memory[key[r]].completed /\ memory[key[r]].args = args[r]
            /\ until'[r] = memory[key[r]].expires
  <2>1. memory[key[r]].expires \in 0 .. MaxTime + TTL
    BY DEF TypeOK, Receipt
  <2> QED
    BY <2>1 DEF TypeOK
<1>2. TypeOK'
  BY <1>1, <1>a DEF TypeOK
<1>3. Locked'
  BY <1>1 DEF Locked
<1>4. Covered' /\ Apart' /\ Written'
  BY Quiet
<1>5. Exclusive'
  BY <1>1 DEF Exclusive, Begun, SameKey, Active
<1>6. Truthful'
  BY <1>1 DEF Truthful, Effective
<1>7. Remembered'
  <2>1. ASSUME NEW q \in Request, now < until'[q]
        PROVE  /\ Recorded(memory, q)' /\ (key[q] \notin unsaved => Recorded(file, q)')
    <3>1. CASE until'[q] = until[q]
      BY <2>1, <3>1 DEF Remembered, Recorded
    <3>2. CASE until'[q] # until[q]
      <4>1. /\ memory[key[q]].completed /\ memory[key[q]].args = args[q]
            /\ until'[q] = memory[key[q]].expires
        BY <1>a, <3>2
      <4>2. key[q] \in Key /\ memory[key[q]].expires \in Nat
        BY TimeAssumption DEF TypeOK, Receipt
      <4>3. memory[key[q]].expires >= until'[q]
        BY <4>1, <4>2
      <4>4. key[q] \notin unsaved => file[key[q]] = memory[key[q]]
        BY <4>1, <4>2 DEF Written
      <4> QED
        BY <4>1, <4>3, <4>4 DEF Recorded
    <3> QED
      BY <3>1, <3>2
  <2> QED
    BY <2>1 DEF Remembered
<1> QED
  BY <1>2, <1>3, <1>4, <1>5, <1>6, <1>7

LEMMA GuardStep ==
  ASSUME IInv, NEW r \in Request, Guard(r)
  PROVE  IInv'
<1> USE DEF IInv
<1>0. /\ HoldsLock(r) /\ stage[r] = "waiting"
      /\ UNCHANGED <<now, revision, key, args, memory, file, command, begun, unsaved, crashes>>
  BY DEF Guard
<1>1. CASE ~Standing(r) /\ stage' = [stage EXCEPT ![r] = "finding"] /\ UNCHANGED <<reply, chain, until>>
  <2>1. /\ stage'[r] = "finding"
        /\ \A q \in Request : q # r => stage'[q] = stage[q]
    BY <1>1 DEF TypeOK
  <2>2. memory[key[r]].expires <= now
    <3>1. memory[key[r]].expires \in Nat /\ now \in Nat
      BY TimeAssumption DEF TypeOK, Receipt
    <3> QED
      BY <1>1, <3>1 DEF Standing
  <2>3. TypeOK'
    BY <1>0, <1>1 DEF TypeOK
  <2>4. Locked'
    BY <1>0, <1>1, <2>1 DEF Locked, Active, HoldsLock
  <2>5. Covered' /\ Apart' /\ Written'
    BY <1>0, Quiet
  <2>6. Exclusive'
    BY <1>0, <1>1, <2>1, <2>2 DEF Exclusive, Begun, SameKey
  <2>7. Truthful' /\ Remembered'
    BY <1>0, <1>1, <2>1 DEF Truthful, Effective, Remembered, Recorded, Begun
  <2> QED
    BY <2>3, <2>4, <2>5, <2>6, <2>7
<1>2. CASE Standing(r)
  <2> DEFINE m == memory[key[r]]
             text == IF m.args # args[r] THEN "conflict"
                     ELSE IF m.completed THEN "replayed" ELSE "unknown"
  <2>1. Answer(r, text)
    BY <1>2 DEF Guard
  <2>2. text = "replayed" => Effective(command, key[r], args[r])
    BY DEF Truthful, TypeOK
  <2>3. /\ text \in {"conflict", "replayed", "unknown"}
        /\ text = "replayed" => m.completed /\ m.args = args[r]
    OBVIOUS
  <2>4. UNCHANGED until \/ (text = "replayed" /\ until' = [until EXCEPT ![r] = m.expires])
    <3>1. reply'[r] = text
      BY <2>1 DEF Answer, TypeOK
    <3>2. Acknowledges(r, reply'[r] = "replayed", m)
      BY <1>2 DEF Guard
    <3> HIDE DEF text, m
    <3> QED
      BY <3>1, <3>2 DEF Acknowledges
  <2> HIDE DEF text
  <2> QED
    BY <1>0, <2>1, <2>2, <2>3, <2>4, QuietAnswer
<1> QED
  BY <1>1, <1>2 DEF Guard

(* The request that holds the lock is alone with its key.                  *)
LEMMA Alone ==
  ASSUME IInv, NEW r \in Request, Active(r)
  PROVE  /\ \A q \in Request : SameKey(r, q) /\ Begun(q) =>
              /\ begun[q] + TTL <= now
              /\ stage[r] = "acting" => begun[q] + TTL <= begun[r]
         /\ \A q \in Request : key[q] = key[r] => until[q] <= now
<1>4. ASSUME NEW q \in Request, key[q] = key[r] PROVE until[q] <= now
  <2>1. now \in Nat /\ until[q] \in Nat /\ memory[key[r]].expires \in Nat
    BY TimeAssumption DEF IInv, TypeOK, Receipt
  <2>2. CASE stage[r] = "finding"
    <3>1. memory[key[r]].expires <= now
      BY <2>2 DEF IInv, Exclusive
    <3>2. now < until[q] => memory[key[q]].expires >= until[q]
      BY DEF IInv, Remembered, Recorded
    <3> QED
      BY <1>4, <2>1, <3>1, <3>2
  <2>3. CASE stage[r] = "acting"
    BY <1>4, <2>3 DEF IInv, Exclusive
  <2> QED
    BY <2>2, <2>3 DEF Active
<1> SUFFICES ASSUME NEW q \in Request, SameKey(r, q), Begun(q)
             PROVE  /\ begun[q] + TTL <= now
                    /\ stage[r] = "acting" => begun[q] + TTL <= begun[r]
  BY <1>4
<1>1. /\ now \in Nat /\ begun[q] \in Nat /\ begun[r] \in Nat /\ TTL \in Nat
      /\ memory[key[r]].expires \in Nat
  BY TimeAssumption DEF IInv, TypeOK, Receipt
<1>2. CASE stage[r] = "finding"
  <2>1. memory[key[r]].expires <= now /\ key[q] = key[r]
    BY <1>2 DEF IInv, Exclusive, SameKey
  <2>2. now < begun[q] + TTL => memory[key[q]].expires >= begun[q] + TTL
    BY DEF IInv, Covered
  <2> QED
    BY <1>1, <1>2, <2>1, <2>2
<1>3. CASE stage[r] = "acting"
  <2>1. begun[r] >= begun[q] + TTL /\ begun[r] <= now
    BY <1>3 DEF IInv, Exclusive, Covered
  <2> QED
    BY <1>1, <2>1
<1> QED
  BY <1>2, <1>3 DEF Active

(* Replacing the receipt of the request that holds the lock by one that    *)
(* covers its command, or by none if it has no command, keeps every        *)
(* command covered and every success recorded.                             *)
LEMMA KeepCovers ==
  ASSUME IInv, NEW r \in Request, Active(r),
         NEW receipt \in Receipt, NEW saved \in BOOLEAN, Keep(key[r], receipt, saved),
         UNCHANGED <<now, key, args>>,
         \A q \in Request : q # r => until'[q] = until[q],
         now < until'[r] => saved /\ receipt.completed /\ receipt.args = args[r]
                              /\ receipt.expires >= until'[r],
         \A q \in Request : q # r => begun'[q] = begun[q] /\ command'[q] = command[q],
         command'[r] # "none" =>
           /\ begun'[r] <= now
           /\ receipt.expires >= begun'[r] + TTL
           /\ saved \/ (Begun(r) /\ begun'[r] = begun[r])
  PROVE  Covered' /\ Written' /\ Remembered'
<1>1. /\ key[r] \in Key /\ \A q \in Request : key[q] \in Key
      /\ \A j \in Key : memory'[j] = IF j = key[r] THEN receipt ELSE memory[j]
      /\ \A j \in Key : file'[j] = IF saved THEN memory'[j] ELSE file[j]
      /\ ~saved => unsaved \subseteq unsaved'
      /\ ~saved /\ receipt.completed => key[r] \in unsaved'
  BY KeepOthers DEF IInv, TypeOK
<1>2. \A q \in Request : now \in Nat /\ begun[q] \in Nat /\ TTL \in Nat
  BY TimeAssumption DEF IInv, TypeOK
<1>3. ASSUME NEW q \in Request, Begun(q)'
      PROVE  /\ begun'[q] <= now
             /\ now < begun'[q] + TTL =>
                  memory'[key[q]].expires >= begun'[q] + TTL /\ file'[key[q]].expires >= begun'[q] + TTL
  <2>1. CASE q = r
    BY <1>1, <1>3, <2>1 DEF IInv, Covered, Begun
  <2>2. CASE q # r /\ key[q] = key[r]
    <3>1. begun[q] + TTL <= now /\ begun'[q] = begun[q] /\ begun[q] <= now
      BY <1>3, <2>2, Alone DEF SameKey, Begun, IInv, Covered
    <3> QED
      BY <1>2, <3>1
  <2>3. CASE q # r /\ key[q] # key[r]
    BY <1>1, <1>3, <2>3 DEF IInv, Covered, Begun
  <2> QED
    BY <2>1, <2>2, <2>3
<1>4. Covered'
  BY <1>3 DEF Covered
<1>5. Written'
  BY <1>1 DEF IInv, Written
<1>6. ASSUME NEW q \in Request, now < until'[q]
      PROVE  Recorded(memory, q)' /\ (key[q] \notin unsaved' => Recorded(file, q)')
  <2>1. CASE q = r
    BY <1>1, <1>6, <2>1 DEF Recorded
  <2>2. CASE q # r
    <3>1. /\ until'[q] = until[q] /\ Recorded(memory, q)
          /\ key[q] \notin unsaved => Recorded(file, q)
      BY <1>6, <2>2 DEF IInv, Remembered
    <3>2. key[q] # key[r]
      <4>1. key[q] = key[r] => until[q] <= now
        BY Alone
      <4>2. until[q] \in Nat
        BY TimeAssumption DEF IInv, TypeOK
      <4> QED
        BY <1>2, <1>6, <3>1, <4>1, <4>2
    <3>3. memory'[key[q]] = memory[key[q]]
      BY <1>1, <3>2
    <3>4. Recorded(memory, q)'
      BY <3>1, <3>3 DEF Recorded
    <3>5. CASE saved
      <4>1. file'[key[q]] = memory'[key[q]]
        BY <1>1, <3>5
      <4> QED
        BY <3>4, <4>1 DEF Recorded
    <3>6. CASE ~saved
      <4>1. file'[key[q]] = file[key[q]] /\ (key[q] \notin unsaved' => key[q] \notin unsaved)
        BY <1>1, <3>6
      <4> QED
        BY <3>1, <3>4, <4>1 DEF Recorded
    <3> QED
      BY <3>5, <3>6
  <2> QED
    BY <2>1, <2>2
<1> QED
  BY <1>4, <1>5, <1>6 DEF Remembered

(* The command of r starts, its receipt saved.                             *)
LEMMA BeginStep ==
  ASSUME IInv, NEW r \in Request, HoldsLock(r), stage[r] = "finding",
         Keep(key[r], ReceiptOf(r, FALSE), TRUE),
         stage' = [stage EXCEPT ![r] = "acting"],
         command' = [command EXCEPT ![r] = "sent"],
         begun' = [begun EXCEPT ![r] = now],
         UNCHANGED <<now, revision, key, args, reply, chain, until, crashes>>
  PROVE  IInv'
<1> USE DEF IInv
<1>1. /\ Active(r) /\ key[r] \in Key /\ ReceiptOf(r, FALSE) \in Receipt /\ ~Begun(r)
  BY ReceiptOfType DEF Active, TypeOK, Exclusive
<1>2. /\ stage'[r] = "acting" /\ command'[r] = "sent" /\ begun'[r] = now
      /\ \A q \in Request : q # r => stage'[q] = stage[q] /\ command'[q] = command[q] /\ begun'[q] = begun[q]
  BY DEF TypeOK
<1>3. /\ memory' \in [Key -> Receipt] /\ file' \in [Key -> Receipt]
      /\ \A j \in Key : memory'[j] = IF j = key[r] THEN ReceiptOf(r, FALSE) ELSE memory[j]
      /\ \A j \in Key : file'[j] = memory'[j]
      /\ unsaved' \subseteq Key
  BY <1>1, KeepOthers
<1>4. /\ now \in Nat /\ TTL \in Nat /\ now <= now
      /\ ReceiptOf(r, FALSE).expires >= now + TTL
  BY TimeAssumption DEF TypeOK, ReceiptOf
<1>5. TypeOK'
  BY <1>3 DEF TypeOK
<1>6. Locked'
  BY <1>2 DEF Locked, Active, HoldsLock
<1>a. \A q \in Request : key[q] = key[r] => until[q] <= now
  BY <1>1, Alone
<1>7. Covered' /\ Written' /\ Remembered'
  <2>1. begun'[r] <= now /\ ReceiptOf(r, FALSE).expires >= begun'[r] + TTL
    BY <1>2, <1>4
  <2> DEFINE saved == TRUE
  <2>2. saved \in BOOLEAN /\ saved = TRUE
    OBVIOUS
  <2> HIDE DEF saved
  <2>3. Keep(key[r], ReceiptOf(r, FALSE), saved)
    BY <2>2
  <2>4. ~(now < until'[r])
    <3>1. until[r] <= now /\ until[r] \in Nat /\ now \in Nat /\ until' = until
      BY <1>a, TimeAssumption DEF TypeOK
    <3> QED
      BY <3>1
  <2> QED
    BY <1>1, <1>2, <2>1, <2>2, <2>3, <2>4, KeepCovers
<1>8. \A q \in Request : SameKey(r, q) /\ Begun(q) => begun[q] + TTL <= now
  BY <1>1, Alone
<1>9. \A q \in Request : q # r => stage[q] \notin {"finding", "acting"}
  BY OneActive DEF Active
<1>10. Exclusive'
  BY <1>2, <1>4, <1>8, <1>9, <1>a DEF Exclusive, Begun, SameKey
<1>11. Apart'
  BY <1>2, <1>4, <1>8 DEF Apart, Begun, SameKey, TypeOK
<1>12. \A k, a : Effective(command, k, a) => Effective(command', k, a)
  BY <1>1, <1>2 DEF Effective, Begun
<1>13. Truthful'
  <2>1. ReceiptOf(r, FALSE).completed = FALSE
    BY DEF ReceiptOf
  <2>2. \A k \in Key : /\ memory'[k].completed => Effective(command', k, memory'[k].args)
                       /\ file'[k].completed => Effective(command', k, file'[k].args)
    BY <1>3, <1>12, <2>1 DEF Truthful
  <2>3. \A q \in Request : reply'[q] \in {"ok", "replayed"} => Effective(command', key[q], args[q])
    BY <1>12 DEF Truthful
  <2> QED
    BY <2>2, <2>3 DEF Truthful, Effective
<1> QED
  BY <1>5, <1>6, <1>7, <1>10, <1>11, <1>13

(* A request ends that has replaced its receipt.                           *)
LEMMA KeepAnswer ==
  ASSUME IInv, NEW r \in Request, HoldsLock(r), Active(r),
         NEW receipt \in Receipt, NEW saved \in BOOLEAN, Keep(key[r], receipt, saved),
         NEW text \in {"ok", "failed"}, Answer(r, text),
         UNCHANGED <<now, revision, key, args, begun, crashes>>,
         command' \in [Request -> {"none", "sent", "done"}],
         \A q \in Request : q # r => command'[q] = command[q],
         command[r] = "done" => command'[r] = "done",
         command'[r] # "none" => Begun(r) /\ receipt.expires >= begun[r] + TTL,
         receipt.completed => receipt.args = args[r] /\ command'[r] = "done",
         text = "ok" => receipt.completed /\ saved,
         \/ UNCHANGED until
         \/ text = "ok" /\ until' = [until EXCEPT ![r] = receipt.expires]
  PROVE  IInv'
<1> USE DEF IInv
<1>1. /\ \A q \in Request : ~Active(q)'
      /\ chain' \in Seq(Request)
      /\ stage' \in [Request -> {"new", "waiting", "finding", "acting", "answered", "lost"}]
      /\ reply' \in [Request -> {"none", "ok", "replayed", "unknown", "conflict", "refused", "failed"}]
      /\ stage'[r] = "answered" /\ reply'[r] = text
      /\ \A q \in Request : q # r => stage'[q] = stage[q] /\ reply'[q] = reply[q]
  BY AnswerUnlocks
<1>2. /\ memory' \in [Key -> Receipt] /\ file' \in [Key -> Receipt]
      /\ \A j \in Key : memory'[j] = IF j = key[r] THEN receipt ELSE memory[j]
      /\ \A j \in Key : file'[j] = IF saved THEN memory'[j] ELSE file[j]
      /\ key[r] \in Key /\ unsaved' \subseteq Key
  BY KeepOthers DEF TypeOK
<1>a. /\ until' \in [Request -> 0 .. MaxTime + TTL]
      /\ \A q \in Request : q # r => until'[q] = until[q]
      /\ until'[r] = until[r] \/ (text = "ok" /\ until'[r] = receipt.expires)
  BY DEF TypeOK, Receipt
<1>b. now < until'[r] => /\ saved /\ receipt.completed /\ receipt.args = args[r]
                         /\ receipt.expires >= until'[r]
  <2>1. until[r] <= now
    BY Alone
  <2>2. now \in Nat /\ until[r] \in Nat /\ receipt.expires \in Nat
    BY TimeAssumption DEF TypeOK, Receipt
  <2>3. CASE until'[r] = until[r]
    BY <2>1, <2>2, <2>3
  <2>4. CASE text = "ok" /\ until'[r] = receipt.expires
    BY <2>2, <2>4
  <2> QED
    BY <1>a, <2>3, <2>4
<1>3. TypeOK'
  BY <1>1, <1>2, <1>a DEF TypeOK
<1>4. Locked'
  BY <1>1 DEF Locked
<1>5. command'[r] # "none" =>
        /\ begun'[r] <= now
        /\ receipt.expires >= begun'[r] + TTL
        /\ saved \/ (Begun(r) /\ begun'[r] = begun[r])
  BY DEF Covered, Begun
<1>6. Covered' /\ Written' /\ Remembered'
  BY <1>5, <1>a, <1>b, KeepCovers
<1>7. Exclusive'
  BY <1>1 DEF Exclusive, Begun, Active
<1>8. Apart'
  BY DEF Apart, Begun, SameKey
<1>9. \A k, a : Effective(command, k, a) => Effective(command', k, a)
  BY DEF Effective
<1>10. receipt.completed => receipt.args = args[r] /\ Effective(command', key[r], args[r])
  BY DEF Effective
<1>11. Truthful'
  <2>1. \A k \in Key : /\ memory'[k].completed => Effective(command', k, memory'[k].args)
                       /\ file'[k].completed => Effective(command', k, file'[k].args)
    BY <1>2, <1>9, <1>10 DEF Truthful
  <2>2. \A q \in Request : reply'[q] \in {"ok", "replayed"} => Effective(command', key[q], args[q])
    BY <1>1, <1>9, <1>10 DEF Truthful
  <2> QED
    BY <2>1, <2>2 DEF Truthful, Effective
<1> QED
  BY <1>3, <1>4, <1>6, <1>7, <1>8, <1>11

LEMMA FoundStep ==
  ASSUME IInv, NEW r \in Request, NEW able \in BOOLEAN, NEW saved \in BOOLEAN, Found(r, able, saved)
  PROVE  IInv'
<1>1. /\ HoldsLock(r) /\ stage[r] = "finding"
      /\ UNCHANGED <<now, revision, key, args, until, crashes>>
  BY DEF Found
<1>2. CASE Answer(r, "refused") /\ UNCHANGED <<memory, file, unsaved, command, begun>>
  BY <1>1, <1>2, QuietAnswer
<1>3. CASE saved /\ Keep(key[r], ReceiptOf(r, FALSE), saved)
           /\ stage' = [stage EXCEPT ![r] = "acting"]
           /\ command' = [command EXCEPT ![r] = "sent"]
           /\ begun' = [begun EXCEPT ![r] = now]
           /\ UNCHANGED <<reply, chain>>
  <2>1. Keep(key[r], ReceiptOf(r, FALSE), TRUE)
    BY <1>3
  <2> QED
    BY <1>1, <1>3, <2>1, BeginStep
<1>4. CASE ~saved /\ Keep(key[r], ReceiptOf(r, FALSE), saved)
           /\ Answer(r, "failed") /\ UNCHANGED <<command, begun>>
  <2>1. command'[r] = "none" /\ command' \in [Request -> {"none", "sent", "done"}]
    BY <1>1, <1>4 DEF IInv, Exclusive, Begun, TypeOK
  <2>2. ReceiptOf(r, FALSE) \in Receipt /\ ReceiptOf(r, FALSE).completed = FALSE
    BY ReceiptOfType DEF IInv, ReceiptOf
  <2> DEFINE receipt == ReceiptOf(r, FALSE)
             text == "failed"
  <2>3. receipt \in Receipt /\ receipt.completed = FALSE /\ Keep(key[r], receipt, saved)
    BY <1>4, <2>2
  <2>4. text \in {"ok", "failed"} /\ text # "ok" /\ Answer(r, text)
    BY <1>4
  <2>5. Active(r) /\ command' = command /\ begun' = begun
    BY <1>1, <1>4 DEF Active
  <2> HIDE DEF receipt, text
  <2> QED
    BY <1>1, <2>1, <2>3, <2>4, <2>5, KeepAnswer
<1> QED
  BY <1>2, <1>3, <1>4 DEF Found

LEMMA HerdrActsStep ==
  ASSUME IInv, NEW r \in Request, NEW moves \in BOOLEAN, HerdrActs(r, moves)
  PROVE  IInv'
<1> USE DEF IInv
<1>1. /\ command[r] = "sent" /\ command'[r] = "done"
      /\ \A q \in Request : q # r => command'[q] = command[q]
      /\ \A q \in Request : Begun(q)' <=> Begun(q)
      /\ UNCHANGED <<now, key, args, stage, reply, chain, memory, file, begun, until, unsaved, crashes>>
  BY DEF HerdrActs, Begun, TypeOK
<1>2. TypeOK'
  <2>1. revision' \in 0 .. MaxRevision
    BY TimeAssumption DEF HerdrActs, TypeOK
  <2> QED
    BY <1>1, <2>1 DEF HerdrActs, TypeOK
<1>3. Locked'
  BY <1>1 DEF Locked, Active, HoldsLock
<1>4. Covered' /\ Exclusive' /\ Apart'
  BY <1>1 DEF Covered, Exclusive, Apart, SameKey
<1>5. \A k, a : Effective(command, k, a) => Effective(command', k, a)
  BY <1>1 DEF Effective
<1>6. Truthful'
  <2>1. /\ \A k \in Key : /\ memory[k].completed => Effective(command', k, memory[k].args)
                          /\ file[k].completed => Effective(command', k, file[k].args)
        /\ \A q \in Request : reply[q] \in {"ok", "replayed"} => Effective(command', key[q], args[q])
    BY <1>5 DEF Truthful
  <2> QED
    BY <1>1, <2>1 DEF Truthful, Effective
<1>7. Written' /\ Remembered'
  BY <1>1 DEF Written, Remembered, Recorded
<1> QED
  BY <1>2, <1>3, <1>4, <1>6, <1>7

LEMMA SucceedsStep ==
  ASSUME IInv, NEW r \in Request, NEW saved \in BOOLEAN, Succeeds(r, saved)
  PROVE  IInv'
<1> DEFINE receipt == ReceiptOf(r, TRUE)
           text == IF saved THEN "ok" ELSE "failed"
<1>1. /\ HoldsLock(r) /\ stage[r] = "acting" /\ Active(r) /\ command[r] = "done"
      /\ Keep(key[r], receipt, saved) /\ Answer(r, text)
      /\ UNCHANGED until \/ (saved /\ until' = [until EXCEPT ![r] = receipt.expires])
      /\ UNCHANGED <<now, revision, key, args, command, begun, crashes>>
  BY DEF Succeeds, Active, Acknowledges
<1>2. receipt \in Receipt
  BY ReceiptOfType DEF IInv
<1>3. receipt.expires >= begun[r] + TTL /\ receipt.args = args[r]
  <2>1. now \in Nat /\ TTL \in Nat /\ begun[r] \in Nat /\ receipt.expires = now + TTL
    BY TimeAssumption DEF IInv, TypeOK, ReceiptOf
  <2>2. begun[r] <= now
    BY <1>1 DEF IInv, Covered, Begun
  <2> QED
    BY <2>1, <2>2 DEF ReceiptOf
<1>4. receipt.completed /\ text \in {"ok", "failed"} /\ (text = "ok" <=> saved)
  BY DEF ReceiptOf
<1>5. command' \in [Request -> {"none", "sent", "done"}] /\ Begun(r)
  BY <1>1 DEF IInv, TypeOK, Begun
<1> HIDE DEF receipt, text
<1> QED
  BY <1>1, <1>2, <1>3, <1>4, <1>5, KeepAnswer

LEMMA RejectedStep ==
  ASSUME IInv, NEW r \in Request, NEW saved \in BOOLEAN, Rejected(r, saved)
  PROVE  IInv'
<1> DEFINE text == "failed"
<1>1. /\ HoldsLock(r) /\ Active(r) /\ command[r] = "sent"
      /\ Keep(key[r], NoReceipt, saved) /\ Answer(r, text)
      /\ UNCHANGED <<now, revision, key, args, begun, until, crashes>>
  BY DEF Rejected, Active
<1>2. /\ command' \in [Request -> {"none", "sent", "done"}] /\ command'[r] = "none"
      /\ \A q \in Request : q # r => command'[q] = command[q]
  BY DEF Rejected, IInv, TypeOK
<1>3. text \in {"ok", "failed"} /\ text # "ok"
  OBVIOUS
<1> HIDE DEF text
<1> QED
  BY <1>1, <1>2, <1>3, NoReceiptType, KeepAnswer

LEMMA FailsUnclearlyStep ==
  ASSUME IInv, NEW r \in Request, FailsUnclearly(r)
  PROVE  IInv'
BY QuietAnswer DEF FailsUnclearly

(* The file covers and remembers all that the memory did.                  *)
LEMMA RestartStep ==
  ASSUME IInv, Restart
  PROVE  IInv'
<1> USE DEF IInv
<1>1. /\ memory' = file /\ chain' = <<>>
      /\ UNCHANGED <<now, revision, key, args, reply, file, command, begun>>
      /\ \A q \in Request :
           stage'[q] = IF stage[q] \in {"new", "answered"} THEN stage[q] ELSE "lost"
      /\ unsaved' = {}
      /\ until' \in [Request -> 0 .. MaxTime + TTL]
      /\ \A q \in Request : until'[q] = IF key[q] \in unsaved THEN 0 ELSE until[q]
  <2>1. 0 \in 0 .. MaxTime + TTL
    BY TimeAssumption
  <2> QED
    BY <2>1 DEF Restart, Forgets, TypeOK
<1>2. TypeOK'
  <2>1. crashes' \in 0 .. MaxCrash
    BY TimeAssumption DEF Restart, TypeOK
  <2>2. stage' \in [Request -> {"new", "waiting", "finding", "acting", "answered", "lost"}]
    BY DEF Restart, TypeOK
  <2> QED
    BY <1>1, <2>1, <2>2, EmptySeq DEF TypeOK
<1>3. Locked' /\ Exclusive'
  BY <1>1 DEF Locked, Exclusive, Active, Begun
<1>4. Covered' /\ Apart' /\ Truthful'
  BY <1>1 DEF Covered, Apart, Truthful, Begun, SameKey, Effective
<1>5. Written'
  BY <1>1 DEF Written
<1>6. Remembered'
  <2>1. now \in Nat
    BY TimeAssumption DEF TypeOK
  <2>2. \A q \in Request : now < until'[q] => until'[q] = until[q] /\ key[q] \notin unsaved
    BY <1>1, <2>1
  <2> QED
    BY <1>1, <2>2 DEF Remembered, Recorded
<1> QED
  BY <1>2, <1>3, <1>4, <1>5, <1>6

LEMMA SessionMovesStep ==
  ASSUME IInv, SessionMoves
  PROVE  IInv'
<1> USE DEF IInv
<1>1. UNCHANGED <<now, key, args, stage, reply, chain, memory, file, command, begun, until, unsaved, crashes>>
  BY DEF SessionMoves
<1>2. revision' \in 0 .. MaxRevision
  BY TimeAssumption DEF SessionMoves, TypeOK
<1>3. TypeOK'
  BY <1>1, <1>2 DEF TypeOK
<1>4. Locked' /\ Covered' /\ Exclusive' /\ Apart' /\ Truthful' /\ Written' /\ Remembered'
  BY <1>1 DEF Locked, Active, HoldsLock, Covered, Exclusive, Apart, Truthful, Effective,
              Written, Remembered, Recorded, Begun, SameKey
<1> QED
  BY <1>3, <1>4

LEMMA TickStep ==
  ASSUME IInv, Tick
  PROVE  IInv'
<1> USE DEF IInv
<1>1. /\ now' = now + 1 /\ now < MaxTime
      /\ UNCHANGED <<revision, key, args, stage, reply, chain, memory, file, command, begun, until, unsaved, crashes>>
  BY DEF Tick
<1>2. now \in Nat /\ TTL \in Nat /\ MaxTime \in Nat
  BY TimeAssumption DEF TypeOK
<1>3. \A q \in Request : begun[q] \in Nat /\ until[q] \in Nat /\ memory[key[q]].expires \in Nat
  BY TimeAssumption DEF TypeOK, Receipt
<1>4. TypeOK'
  BY <1>1, <1>2 DEF TypeOK
<1>5. Locked' /\ Apart' /\ Truthful'
  BY <1>1 DEF Locked, Active, HoldsLock, Apart, Truthful, Effective, Begun, SameKey
<1>6. Covered'
  BY <1>1, <1>2, <1>3 DEF Covered, Begun
<1>7. Exclusive'
  BY <1>1, <1>2, <1>3 DEF Exclusive, Begun, SameKey
<1>8. Written' /\ Remembered'
  BY <1>1, <1>2, <1>3 DEF Written, Remembered, Recorded
<1> QED
  BY <1>4, <1>5, <1>6, <1>7, <1>8

-----------------------------------------------------------------------------

LEMMA NextIInv == IInv /\ [Next]_vars => IInv'
<1> SUFFICES ASSUME IInv, [Next]_vars PROVE IInv'
  OBVIOUS
<1>1. CASE UNCHANGED vars
  BY <1>1 DEF vars, IInv, TypeOK, Locked, Covered, Exclusive, Apart, Truthful, Effective, Written, Remembered,
              Recorded, Active, Begun, SameKey, HoldsLock
<1>2. CASE Next
  <2>1. ASSUME NEW r \in Request, Arrives(r) PROVE IInv'
    BY <2>1, ArrivesStep
  <2>2. ASSUME NEW r \in Request, Guard(r) PROVE IInv'
    BY <2>2, GuardStep
  <2>3. ASSUME NEW r \in Request, FailsUnclearly(r) PROVE IInv'
    BY <2>3, FailsUnclearlyStep
  <2>4. ASSUME NEW r \in Request, NEW able \in BOOLEAN, NEW saved \in BOOLEAN, Found(r, able, saved)
        PROVE  IInv'
    BY <2>4, FoundStep
  <2>5. ASSUME NEW r \in Request, NEW moves \in BOOLEAN, HerdrActs(r, moves) PROVE IInv'
    BY <2>5, HerdrActsStep
  <2>6. ASSUME NEW r \in Request, NEW saved \in BOOLEAN, Succeeds(r, saved) PROVE IInv'
    BY <2>6, SucceedsStep
  <2>7. ASSUME NEW r \in Request, NEW saved \in BOOLEAN, Rejected(r, saved) PROVE IInv'
    BY <2>7, RejectedStep
  <2> QED
    BY <1>2, <2>1, <2>2, <2>3, <2>4, <2>5, <2>6, <2>7, RestartStep, SessionMovesStep, TickStep DEF Next
<1> QED
  BY <1>1, <1>2

LEMMA IInvAlways == Spec => []IInv
BY InitIInv, NextIInv, PTL DEF Spec

(* However many requests share a key, time out, are retried after a        *)
(* restart or have their effect late, no two of them have an effect within *)
(* the lifetime of a receipt (session-workspace.ts, mutationGuard).        *)
THEOREM OneEffectPerKeyAlways == Spec => []OneEffectPerKey
<1>1. IInv => OneEffectPerKey
  BY DEF IInv, Apart, OneEffectPerKey, SameKey, Begun
<1> QED
  BY <1>1, IInvAlways, PTL

(* Every success that is told, replays included, stands for an effect with *)
(* the very arguments of the client it is told to.                         *)
THEOREM ToldTrueAlways == Spec => []ToldTrue
<1>1. IInv => ToldTrue
  BY DEF IInv, Truthful, Effective, ToldTrue
<1> QED
  BY <1>1, IInvAlways, PTL

(* The receipt of a success that was told, replays included, is in the     *)
(* file for as long as it lives, so that the gateway may die at any time   *)
(* after it: but for receipts whose save threw.                            *)
THEOREM AcknowledgedIsKeptAlways == Spec => []AcknowledgedIsKept
<1>1. IInv => AcknowledgedIsKept
  <2> SUFFICES ASSUME IInv, NEW r \in Request, now < until[r], key[r] \notin unsaved
               PROVE  IsKept(r)
    BY DEF AcknowledgedIsKept
  <2>1. Recorded(file, r)
    BY DEF IInv, Remembered
  <2>2. now \in Nat /\ until[r] \in Nat /\ file[key[r]].expires \in Nat
    BY TimeAssumption DEF IInv, TypeOK, Receipt
  <2> QED
    BY <2>1, <2>2 DEF Recorded, IsKept
<1> QED
  BY <1>1, IInvAlways, PTL

-----------------------------------------------------------------------------
(* The task store.                                                         *)

(* One constructor at a time works under the reclaim lock.                 *)
OneConstructor ==
  \A p \in Process : Constructing(p) =>
    /\ reclaim = IF pc[p] = "nameReclaim" THEN "empty" ELSE p
    /\ \A q \in Process : Constructing(q) => p = q

(* The lock file of an owner names it, one that is being made is empty.    *)
LockFile ==
  \A p \in Process :
    /\ Owns(p) => lock = p
    /\ pc[p] = "nameLock" => lock = "empty"

(* A lock that is about to be removed is still the one that was read, and  *)
(* who it names does not own the store, even if it runs again.             *)
StaleLock ==
  \A p \in Process : pc[p] \in {"compare", "remove"} =>
    /\ lock = seen[p]
    /\ \A q \in Process : ~Owns(q)

(* An owner that has loaded the store has in memory what is in the file,   *)
(* and its job is not done yet, or just done.                              *)
Loaded ==
  \A p \in Process :
    /\ pc[p] \in {"serving", "writing", "answering"} => mem[p] = disk
    /\ pc[p] = "writing" => job[p] \in TaskKey \X Arg /\ disk[job[p][1]] = None
    /\ pc[p] = "answering" => job[p] \in TaskKey \X Arg /\ disk[job[p][1]] = job[p][2]

(* Nobody works under a file that was left.                                *)
LeftAlone ==
  \A p \in Process :
    /\ Constructing(p) => "reclaim" \notin left
    /\ Locking(p) => "lock" \notin left

StoreIInv ==
  StoreTypeOK /\ OneConstructor /\ LockFile /\ StaleLock /\ LeftOnlyByCrash /\ LeftAlone /\ Loaded

LEMMA InitStore == StoreInit => StoreIInv
<1> SUFFICES ASSUME StoreInit PROVE StoreIInv
  OBVIOUS
<1>1. StoreTypeOK
  BY DEF StoreInit, StoreTypeOK, File, Receipts, Stage, NoReceipts
<1>2. \A p \in Process : ~Constructing(p) /\ ~Owns(p)
  BY DEF StoreInit, Constructing, Owns
<1>3. OneConstructor /\ LockFile /\ StaleLock /\ Loaded
  BY <1>2 DEF StoreInit, OneConstructor, LockFile, StaleLock, Loaded
<1>4. LeftOnlyByCrash /\ LeftAlone
  BY <1>2 DEF StoreInit, LeftOnlyByCrash, LeftAlone, Locking
<1> QED
  BY <1>1, <1>3, <1>4 DEF StoreIInv

LEMMA StoreTypeStep == StoreIInv /\ [StoreNext]_storeVars => StoreTypeOK'
<1> SUFFICES ASSUME StoreIInv, [StoreNext]_storeVars PROVE StoreTypeOK'
  OBVIOUS
<1> USE DEF StoreIInv, StoreTypeOK, Stage, File, Receipts, NoReceipts, NoJob, locks, data, Goes
<1>0. CASE UNCHANGED storeVars
  BY <1>0 DEF storeVars
<1>1. ASSUME NEW p \in Process, Start(p) PROVE StoreTypeOK'
  BY <1>1 DEF Start
<1>2. ASSUME NEW p \in Process, OpenReclaim(p) PROVE StoreTypeOK'
  BY <1>2 DEF OpenReclaim
<1>3. ASSUME NEW p \in Process, NameReclaim(p) PROVE StoreTypeOK'
  BY <1>3 DEF NameReclaim
<1>4. ASSUME NEW p \in Process, OpenLock(p) PROVE StoreTypeOK'
  BY <1>4 DEF OpenLock
<1>5. ASSUME NEW p \in Process, NameLock(p) PROVE StoreTypeOK'
  BY <1>5 DEF NameLock
<1>6. ASSUME NEW p \in Process, ReadStale(p) PROVE StoreTypeOK'
  BY <1>6 DEF ReadStale
<1>7. ASSUME NEW p \in Process, CompareStale(p) PROVE StoreTypeOK'
  BY <1>7 DEF CompareStale
<1>8. ASSUME NEW p \in Process, RemoveStale(p) PROVE StoreTypeOK'
  BY <1>8 DEF RemoveStale
<1>9. ASSUME NEW p \in Process, Release(p) PROVE StoreTypeOK'
  BY <1>9 DEF Release
<1>10. ASSUME NEW p \in Process, Load(p) PROVE StoreTypeOK'
  BY <1>10 DEF Load
<1>11. ASSUME NEW p \in Process, Write(p) PROVE StoreTypeOK'
  BY <1>11 DEF Write, Loaded
<1>12. ASSUME NEW p \in Process, AnswerTask(p) PROVE StoreTypeOK'
  BY <1>12 DEF AnswerTask, Loaded
<1>13. ASSUME NEW p \in Process, Close(p) PROVE StoreTypeOK'
  BY <1>13 DEF Close
<1>14. ASSUME NEW p \in Process, Unlink(p) PROVE StoreTypeOK'
  BY <1>14 DEF Unlink
<1>15. ASSUME NEW p \in Process, Crash(p) PROVE StoreTypeOK'
  BY <1>15 DEF Crash
<1>16. ASSUME NEW p \in Process, NEW k \in TaskKey, NEW a \in Arg, CreateTask(p, k, a) PROVE StoreTypeOK'
  <2>1. /\ job' = [job EXCEPT ![p] = <<k, a>>]
        /\ \E s \in {"answering", "writing"} : pc' = [pc EXCEPT ![p] = s]
        /\ UNCHANGED <<reclaim, lock, seen, disk, mem, told, left>>
    BY <1>16 DEF CreateTask
  <2> QED
    BY <2>1
<1> QED
  BY <1>0, <1>1, <1>2, <1>3, <1>4, <1>5, <1>6, <1>7, <1>8, <1>9, <1>10, <1>11, <1>12, <1>13, <1>14, <1>15, <1>16 DEF StoreNext

(* The lock files: what each step does to who constructs and who owns.     *)
StoreLocks == OneConstructor /\ LockFile /\ StaleLock

LEMMA LocksStep == StoreIInv /\ [StoreNext]_storeVars => StoreLocks'
<1> SUFFICES ASSUME StoreIInv, [StoreNext]_storeVars PROVE StoreLocks'
  OBVIOUS
<1> USE NoneAssumption, EmptyAssumption
        DEF StoreIInv, StoreTypeOK, StoreLocks, OneConstructor, LockFile, StaleLock, Constructing, Owns, Stage,
            File, locks, data, Goes, Alive
<1>0. CASE UNCHANGED storeVars
  BY <1>0 DEF storeVars
<1>1. ASSUME NEW p \in Process, Start(p) PROVE StoreLocks'
  BY <1>1 DEF Start
<1>2. ASSUME NEW p \in Process, OpenReclaim(p) PROVE StoreLocks'
  BY <1>2 DEF OpenReclaim
<1>3. ASSUME NEW p \in Process, NameReclaim(p) PROVE StoreLocks'
  BY <1>3 DEF NameReclaim
<1>4. ASSUME NEW p \in Process, OpenLock(p) PROVE StoreLocks'
  BY <1>4 DEF OpenLock
<1>5. ASSUME NEW p \in Process, NameLock(p) PROVE StoreLocks'
  BY <1>5 DEF NameLock
<1>6. ASSUME NEW p \in Process, ReadStale(p) PROVE StoreLocks'
  BY <1>6 DEF ReadStale
<1>7. ASSUME NEW p \in Process, CompareStale(p) PROVE StoreLocks'
  BY <1>7 DEF CompareStale
<1>8. ASSUME NEW p \in Process, RemoveStale(p) PROVE StoreLocks'
  BY <1>8 DEF RemoveStale
<1>9. ASSUME NEW p \in Process, Release(p) PROVE StoreLocks'
  BY <1>9 DEF Release
<1>10. ASSUME NEW p \in Process, Load(p) PROVE StoreLocks'
  BY <1>10 DEF Load
<1>11. ASSUME NEW p \in Process, Write(p) PROVE StoreLocks'
  BY <1>11 DEF Write
<1>12. ASSUME NEW p \in Process, AnswerTask(p) PROVE StoreLocks'
  BY <1>12 DEF AnswerTask
<1>13. ASSUME NEW p \in Process, Close(p) PROVE StoreLocks'
  BY <1>13 DEF Close
<1>14. ASSUME NEW p \in Process, Unlink(p) PROVE StoreLocks'
  BY <1>14 DEF Unlink
<1>15. ASSUME NEW p \in Process, Crash(p) PROVE StoreLocks'
  BY <1>15 DEF Crash
<1>16. ASSUME NEW p \in Process, NEW k \in TaskKey, NEW a \in Arg, CreateTask(p, k, a) PROVE StoreLocks'
  BY <1>16 DEF CreateTask
<1> QED
  BY <1>0, <1>1, <1>2, <1>3, <1>4, <1>5, <1>6, <1>7, <1>8, <1>9, <1>10, <1>11, <1>12, <1>13, <1>14, <1>15, <1>16 DEF StoreNext

(* One process at a time makes or owns the lock file.                      *)
LEMMA OneMaker ==
  ASSUME StoreIInv, NEW p \in Process, NEW q \in Process
  PROVE  /\ Constructing(p) /\ Constructing(q) => p = q
         /\ Locking(p) /\ Locking(q) => p = q
<1>1. Constructing(p) /\ Constructing(q) => p = q
  BY DEF StoreIInv, OneConstructor
<1>2. pc[p] = "nameLock" /\ pc[q] = "nameLock" => p = q
  BY <1>1 DEF Constructing
<1>3. Locking(p) /\ Locking(q) => p = q
  BY <1>2, EmptyAssumption DEF StoreIInv, LockFile, Locking
<1> QED
  BY <1>1, <1>3

LeftFiles == LeftOnlyByCrash /\ LeftAlone

(* A step changes the stage of one process, and for the others nothing.    *)
LEMMA LeftFilesStep == StoreIInv /\ [StoreNext]_storeVars => LeftFiles'
<1> SUFFICES ASSUME StoreIInv, [StoreNext]_storeVars PROVE LeftFiles'
  OBVIOUS
<1> USE NoneAssumption, EmptyAssumption DEF LeftFiles, LeftOnlyByCrash, LeftAlone
<1>0. CASE UNCHANGED storeVars
  BY <1>0 DEF storeVars, locks, data, StoreIInv, Constructing, Locking, Owns
<1>a. ASSUME NEW p \in Process, NEW s, pc' = [pc EXCEPT ![p] = s]
      PROVE  /\ pc'[p] = s
             /\ \A q \in Process \ {p} : /\ Constructing(q)' = Constructing(q)
                                        /\ Locking(q)' = Locking(q)
  BY <1>a DEF StoreIInv, StoreTypeOK, Constructing, Locking, Owns
<1>1. ASSUME NEW p \in Process, Start(p) PROVE LeftFiles'
  BY <1>1, <1>a, OneMaker DEF Start, StoreIInv, StoreTypeOK, LockFile, Constructing, Owns, Locking, Stage, File, locks, data, Goes, Alive
<1>2. ASSUME NEW p \in Process, OpenReclaim(p) PROVE LeftFiles'
  BY <1>2, <1>a, OneMaker DEF OpenReclaim, StoreIInv, StoreTypeOK, LockFile, Constructing, Owns, Locking, Stage, File, locks, data, Goes, Alive
<1>3. ASSUME NEW p \in Process, NameReclaim(p) PROVE LeftFiles'
  BY <1>3, <1>a, OneMaker DEF NameReclaim, StoreIInv, StoreTypeOK, LockFile, Constructing, Owns, Locking, Stage, File, locks, data, Goes, Alive
<1>4. ASSUME NEW p \in Process, OpenLock(p) PROVE LeftFiles'
  BY <1>4, <1>a, OneMaker DEF OpenLock, StoreIInv, StoreTypeOK, LockFile, Constructing, Owns, Locking, Stage, File, locks, data, Goes, Alive
<1>5. ASSUME NEW p \in Process, NameLock(p) PROVE LeftFiles'
  BY <1>5, <1>a, OneMaker DEF NameLock, StoreIInv, StoreTypeOK, LockFile, Constructing, Owns, Locking, Stage, File, locks, data, Goes, Alive
<1>6. ASSUME NEW p \in Process, ReadStale(p) PROVE LeftFiles'
  BY <1>6, <1>a, OneMaker DEF ReadStale, StoreIInv, StoreTypeOK, LockFile, Constructing, Owns, Locking, Stage, File, locks, data, Goes, Alive
<1>7. ASSUME NEW p \in Process, CompareStale(p) PROVE LeftFiles'
  BY <1>7, <1>a, OneMaker DEF CompareStale, StoreIInv, StoreTypeOK, LockFile, Constructing, Owns, Locking, Stage, File, locks, data, Goes, Alive
<1>8. ASSUME NEW p \in Process, RemoveStale(p) PROVE LeftFiles'
  <2>1. Constructing(p) /\ ~Locking(p)
    BY <1>8 DEF RemoveStale, Constructing, Locking, Owns
  <2>2. \A q \in Process : ~Locking(q)
    BY <1>8, <2>1, OneMaker DEF RemoveStale, StoreIInv, StaleLock, Locking, Constructing
  <2>3. Constructing(p)' /\ ~Locking(p)'
    BY <1>8, <1>a DEF RemoveStale, Goes, Constructing, Locking, Owns, StoreIInv, StoreTypeOK
  <2>4. \A q \in Process : (Constructing(q)' <=> Constructing(q)) /\ ~Locking(q)'
    BY <1>8, <1>a, <2>1, <2>2, <2>3 DEF RemoveStale, Goes
  <2>5. lock' = None /\ reclaim' = reclaim /\ left' = left \ {"lock"}
    BY <1>8 DEF RemoveStale
  <2> QED
    BY <2>4, <2>5 DEF StoreIInv
<1>9. ASSUME NEW p \in Process, Release(p) PROVE LeftFiles'
  <2>1. Constructing(p) /\ reclaim = p /\ "reclaim" \notin left
    BY <1>9 DEF Release, Constructing, StoreIInv, OneConstructor
  <2>2. ~Constructing(p)' /\ Locking(p)' = Locking(p)
    BY <1>9, <1>a DEF Release, Goes, Constructing, Locking, Owns, StoreIInv, StoreTypeOK
  <2>3. \A q \in Process : ~Constructing(q)' /\ Locking(q)' = Locking(q)
    BY <1>9, <1>a, <2>1, <2>2, OneMaker DEF Release, Goes
  <2>4. reclaim' = None /\ lock' = lock /\ left' = left
    BY <1>9, <2>1 DEF Release
  <2> QED
    BY <2>1, <2>3, <2>4 DEF StoreIInv
<1>10. ASSUME NEW p \in Process, Load(p) PROVE LeftFiles'
  BY <1>10, <1>a, OneMaker DEF Load, StoreIInv, StoreTypeOK, LockFile, Constructing, Owns, Locking, Stage, File, locks, data, Goes, Alive
<1>11. ASSUME NEW p \in Process, Write(p) PROVE LeftFiles'
  BY <1>11, <1>a, OneMaker DEF Write, StoreIInv, StoreTypeOK, LockFile, Constructing, Owns, Locking, Stage, File, locks, data, Goes, Alive
<1>12. ASSUME NEW p \in Process, AnswerTask(p) PROVE LeftFiles'
  BY <1>12, <1>a, OneMaker DEF AnswerTask, StoreIInv, StoreTypeOK, LockFile, Constructing, Owns, Locking, Stage, File, locks, data, Goes, Alive
<1>13. ASSUME NEW p \in Process, Close(p) PROVE LeftFiles'
  BY <1>13, <1>a, OneMaker DEF Close, StoreIInv, StoreTypeOK, LockFile, Constructing, Owns, Locking, Stage, File, locks, data, Goes, Alive
<1>14. ASSUME NEW p \in Process, Unlink(p) PROVE LeftFiles'
  BY <1>14, <1>a, OneMaker DEF Unlink, StoreIInv, StoreTypeOK, LockFile, Constructing, Owns, Locking, Stage, File, locks, data, Goes, Alive
<1>15. ASSUME NEW p \in Process, Crash(p) PROVE LeftFiles'
  BY <1>15, <1>a, OneMaker DEF Crash, StoreIInv, StoreTypeOK, LockFile, Constructing, Owns, Locking, Stage, File, locks, data, Goes, Alive
<1>16. ASSUME NEW p \in Process, NEW k \in TaskKey, NEW a \in Arg, CreateTask(p, k, a) PROVE LeftFiles'
  BY <1>16, <1>a, OneMaker DEF CreateTask, StoreIInv, StoreTypeOK, Constructing, Owns, Locking, Stage, locks, data, Goes
<1> QED
  BY <1>0, <1>1, <1>2, <1>3, <1>4, <1>5, <1>6, <1>7, <1>8, <1>9, <1>10, <1>11, <1>12, <1>13, <1>14, <1>15, <1>16 DEF StoreNext

LEMMA LoadedStep == StoreIInv /\ [StoreNext]_storeVars => Loaded'
<1> SUFFICES ASSUME StoreIInv, [StoreNext]_storeVars PROVE Loaded'
  OBVIOUS
<1> USE NoneAssumption
        DEF StoreIInv, StoreTypeOK, Loaded, Stage, Receipts, locks, data, Goes
<1>0. CASE UNCHANGED storeVars
  BY <1>0 DEF storeVars
<1>1. ASSUME NEW p \in Process, Start(p) PROVE Loaded'
  BY <1>1 DEF Start
<1>2. ASSUME NEW p \in Process, OpenReclaim(p) PROVE Loaded'
  BY <1>2 DEF OpenReclaim
<1>3. ASSUME NEW p \in Process, NameReclaim(p) PROVE Loaded'
  BY <1>3 DEF NameReclaim
<1>4. ASSUME NEW p \in Process, OpenLock(p) PROVE Loaded'
  BY <1>4 DEF OpenLock
<1>5. ASSUME NEW p \in Process, NameLock(p) PROVE Loaded'
  BY <1>5 DEF NameLock
<1>6. ASSUME NEW p \in Process, ReadStale(p) PROVE Loaded'
  BY <1>6 DEF ReadStale
<1>7. ASSUME NEW p \in Process, CompareStale(p) PROVE Loaded'
  BY <1>7 DEF CompareStale
<1>8. ASSUME NEW p \in Process, RemoveStale(p) PROVE Loaded'
  BY <1>8 DEF RemoveStale
<1>9. ASSUME NEW p \in Process, Release(p) PROVE Loaded'
  BY <1>9 DEF Release
<1>10. ASSUME NEW p \in Process, Load(p) PROVE Loaded'
  BY <1>10 DEF Load, LockFile, Owns
<1>11. ASSUME NEW p \in Process, Write(p) PROVE Loaded'
  BY <1>11 DEF Write, LockFile, Owns
<1>12. ASSUME NEW p \in Process, AnswerTask(p) PROVE Loaded'
  BY <1>12 DEF AnswerTask, LockFile, Owns
<1>13. ASSUME NEW p \in Process, Close(p) PROVE Loaded'
  BY <1>13 DEF Close
<1>14. ASSUME NEW p \in Process, Unlink(p) PROVE Loaded'
  BY <1>14 DEF Unlink
<1>15. ASSUME NEW p \in Process, Crash(p) PROVE Loaded'
  BY <1>15 DEF Crash
<1>16. ASSUME NEW p \in Process, NEW k \in TaskKey, NEW a \in Arg, CreateTask(p, k, a) PROVE Loaded'
  BY <1>16 DEF CreateTask
<1> QED
  BY <1>0, <1>1, <1>2, <1>3, <1>4, <1>5, <1>6, <1>7, <1>8, <1>9, <1>10, <1>11, <1>12, <1>13, <1>14, <1>15, <1>16 DEF StoreNext

LEMMA StoreStep == StoreIInv /\ [StoreNext]_storeVars => StoreIInv'
BY StoreTypeStep, LocksStep, LeftFilesStep, LoadedStep DEF StoreIInv, StoreLocks, LeftFiles

(* Every variable of the model keeps its type, for any number of processes *)
(* and tasks.                                                              *)
THEOREM StoreTypeCorrect == StoreSpec => []StoreTypeOK
<1>1. StoreIInv => StoreTypeOK
  BY DEF StoreIInv
<1> QED
  BY InitStore, StoreStep, <1>1, PTL DEF StoreSpec

(* Whatever gateways start, crash and close, and in whatever order they    *)
(* look at the lock files, one at a time owns the store.                   *)
THEOREM StoreHasOneOwner == StoreSpec => []OneOwner
<1>1. StoreIInv => OneOwner
  BY DEF StoreIInv, LockFile, OneOwner
<1> QED
  BY InitStore, StoreStep, <1>1, PTL DEF StoreSpec

(* A lock file exists just while the gateway that made it works under it,  *)
(* or after that gateway crashed under it, and a left lock file until it   *)
(* is taken over: no constructor that is refused and no owner that closes  *)
(* leaves one.                                                             *)
THEOREM LocksLeftOnlyByCrash == StoreSpec => []LeftOnlyByCrash
<1>1. StoreIInv => LeftOnlyByCrash
  BY DEF StoreIInv
<1> QED
  BY InitStore, StoreStep, <1>1, PTL DEF StoreSpec

-----------------------------------------------------------------------------
(* The refinement: a write creates, an answer tells, and nothing else      *)
(* touches the file or what clients know.                                  *)

LEMMA PromiseStep == StoreIInv /\ [StoreNext]_storeVars => [Promise!Next]_<<disk, told>>
<1> SUFFICES ASSUME StoreIInv, [StoreNext]_storeVars PROVE [Promise!Next]_<<disk, told>>
  OBVIOUS
<1>1. ASSUME NEW p \in Process, Write(p) PROVE Promise!Next
  <2> DEFINE k == job[p][1]
             a == job[p][2]
  <2>1. k \in TaskKey /\ a \in Arg /\ disk[k] = None /\ mem[p] = disk
    BY <1>1 DEF Write, StoreIInv, Loaded
  <2>2. disk' = [disk EXCEPT ![k] = a] /\ told' = told
    BY <1>1, <2>1 DEF Write
  <2>3. Promise!Create(k, a)
    BY <2>1, <2>2 DEF Promise!Create
  <2> QED
    BY <2>1, <2>3 DEF Promise!Next
<1>2. ASSUME NEW p \in Process, AnswerTask(p) PROVE Promise!Next
  <2> DEFINE k == job[p][1]
             a == job[p][2]
  <2>1. k \in TaskKey /\ a \in Arg /\ disk[k] = a /\ job[p] = <<k, a>>
    BY <1>2 DEF AnswerTask, StoreIInv, Loaded
  <2>2. Promise!Tell(k, a)
    BY <1>2, <2>1 DEF AnswerTask, Promise!Tell
  <2> QED
    BY <2>1, <2>2 DEF Promise!Next
<1>3. ASSUME NEW p \in Process,
             \/ Start(p) \/ OpenReclaim(p) \/ NameReclaim(p) \/ OpenLock(p) \/ NameLock(p)
             \/ ReadStale(p) \/ CompareStale(p) \/ RemoveStale(p) \/ Release(p) \/ Load(p)
             \/ Close(p) \/ Unlink(p) \/ Crash(p)
             \/ \E k \in TaskKey, a \in Arg : CreateTask(p, k, a)
      PROVE  UNCHANGED <<disk, told>>
  BY <1>3 DEF Start, OpenReclaim, NameReclaim, OpenLock, NameLock, ReadStale, CompareStale,
       RemoveStale, Release, Load, Close, Unlink, Crash, CreateTask, data
<1>4. CASE UNCHANGED storeVars
  BY <1>4 DEF storeVars, data
<1> QED
  BY <1>1, <1>2, <1>3, <1>4 DEF StoreNext

(* The gateway keeps its promise for any number of processes, keys and     *)
(* arguments: a key makes one task at most, no task is lost, and nobody    *)
(* was told of a task that is not there.                                   *)
THEOREM StoreKeepsPromise == StoreSpec => KeepsPromise
<1>1. StoreInit => Promise!Init
  BY DEF StoreInit, Promise!Init, NoReceipts
<1> QED
  BY InitStore, StoreStep, PromiseStep, <1>1, PTL DEF StoreSpec, KeepsPromise, Promise!Spec, Promise!hubVars

=============================================================================
