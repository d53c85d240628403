------------------------- MODULE PhoneTurns_proofs -------------------------
(***************************************************************************)
(* Theorems about RemoteTurns, the queue, and about PhoneTurns, which      *)
(* composes it with the provider and with Pi, for every queue limit and    *)
(* every number of turns.                                                  *)
(*                                                                         *)
(* The queue: the inductive invariant adds to the properties that the      *)
(* queue is increasing and holds only ids already handed out: without that *)
(* an enqueue could put a turn in the queue twice.                         *)
(*                                                                         *)
(* The composition: whatever happens to a turn that runs is a step of its  *)
(* queue or none, so what holds of the queue holds of the whole system.    *)
(* Then OwnReply: Pi's run and the text the provider collects are those of *)
(* the active turn, unless that turn was disturbed.                        *)
(***************************************************************************)
EXTENDS PhoneTurns, SequenceTheorems, TLAPS

-----------------------------------------------------------------------------
(* The queue                                                               *)

(* Ids wait in increasing order, and turns not handed out are untouched.   *)
QueueOrdered ==
  /\ \A i, j \in 1 .. Len(queue) : i < j => queue[i] < queue[j]
  /\ \A id \in Id : id >= nextId => turn[id] = "none"

IInv ==
  /\ TypeOK
  /\ QueueOrdered
  /\ OneTurnRuns
  /\ NoTurnLost
  /\ NoStrandedTurn

-----------------------------------------------------------------------------

(* Taking the i-th element out of a sequence of increasing ids keeps it    *)
(* increasing and takes exactly that id out of its range.                  *)
LEMMA RemoveAtIncreasing ==
  ASSUME NEW S \in SUBSET Nat, NEW s \in Seq(S), NEW i \in 1 .. Len(s),
         \A a, b \in 1 .. Len(s) : a < b => s[a] < s[b]
  PROVE  /\ RemoveAt(s, i) \in Seq(S)
         /\ Len(RemoveAt(s, i)) = Len(s) - 1
         /\ \A a, b \in 1 .. Len(RemoveAt(s, i)) :
              a < b => RemoveAt(s, i)[a] < RemoveAt(s, i)[b]
         /\ ToSet(RemoveAt(s, i)) = ToSet(s) \ {s[i]}
<1> DEFINE l == SubSeq(s, 1, i - 1)
           r == SubSeq(s, i + 1, Len(s))
           t == RemoveAt(s, i)
<1>0. /\ Len(s) \in Nat /\ DOMAIN s = 1 .. Len(s)
      /\ \A k \in 1 .. Len(s) : s[k] \in S /\ s[k] \in Nat
  BY LenProperties
<1>1. /\ l \in Seq(S) /\ Len(l) = i - 1
      /\ \A k \in 1 .. i - 1 : l[k] = s[k]
  <2>1. \A k \in 1 .. i - 1 : s[k] \in S
    BY <1>0
  <2> QED
    BY <1>0, <2>1, SubSeqProperties
<1>2. /\ r \in Seq(S) /\ Len(r) = Len(s) - i
      /\ \A k \in 1 .. Len(s) - i : r[k] = s[i + k]
  <2>1. \A k \in i + 1 .. Len(s) : s[k] \in S
    BY <1>0
  <2>2. i + 1 \in Int /\ Len(s) \in Int
    BY <1>0
  <2>3. /\ r \in Seq(S)
        /\ Len(r) = IF i + 1 <= Len(s) THEN Len(s) - (i + 1) + 1 ELSE 0
        /\ \A k \in 1 .. Len(s) - (i + 1) + 1 : r[k] = s[(i + 1) + k - 1]
    BY <2>1, <2>2, SubSeqProperties
  <2> HIDE DEF r
  <2>4. /\ Len(s) - (i + 1) + 1 = Len(s) - i
        /\ \A k \in 1 .. Len(s) - i : (i + 1) + k - 1 = i + k
        /\ i + 1 <= Len(s) \/ Len(s) - i = 0
    <3> DEFINE n == Len(s)
    <3>1. n \in Nat /\ i \in Nat /\ i <= n
      BY <1>0
    <3> HIDE DEF n
    <3>2. \A k \in 1 .. n - i : (i + 1) + k - 1 = i + k
      BY <3>1
    <3>3. n - (i + 1) + 1 = n - i /\ (i + 1 <= n \/ n - i = 0)
      BY <3>1
    <3> QED
      BY <3>2, <3>3 DEF n
  <2>5. Len(r) = Len(s) - i
    BY <2>3, <2>4
  <2> QED
    BY <2>3, <2>4, <2>5
<1>3. /\ t \in Seq(S) /\ Len(t) = Len(s) - 1 /\ DOMAIN t = 1 .. Len(s) - 1
      /\ \A k \in 1 .. Len(s) - 1 : t[k] = IF k < i THEN s[k] ELSE s[k + 1]
  <2>1. t = l \o r
    BY DEF RemoveAt
  <2> HIDE DEF l, r, t
  <2>2. /\ t \in Seq(S) /\ Len(t) = Len(l) + Len(r)
        /\ \A k \in 1 .. Len(l) + Len(r) :
             t[k] = IF k <= Len(l) THEN l[k] ELSE r[k - Len(l)]
    BY <1>1, <1>2, <2>1, ConcatProperties
  <2>3. Len(t) = Len(s) - 1 /\ DOMAIN t = 1 .. Len(s) - 1
    BY <1>0, <1>1, <1>2, <2>2, LenProperties
  <2>4. ASSUME NEW k \in 1 .. Len(s) - 1
        PROVE  t[k] = IF k < i THEN s[k] ELSE s[k + 1]
    <3>1. k \in 1 .. Len(l) + Len(r)
      BY <1>0, <1>1, <1>2
    <3>2. CASE k < i
      BY <3>1, <3>2, <1>0, <1>1, <2>2
    <3>3. CASE k >= i
      <4>1. k - Len(l) \in 1 .. Len(s) - i /\ i + (k - Len(l)) = k + 1
        BY <3>3, <1>0, <1>1
      <4>2. t[k] = r[k - Len(l)]
        BY <3>1, <3>3, <1>0, <1>1, <2>2
      <4>3. r[k - Len(l)] = s[i + (k - Len(l))]
        BY <4>1, <1>2
      <4>4. ~(k < i)
        BY <3>3, <1>0
      <4> QED
        BY <4>1, <4>2, <4>3, <4>4
    <3> QED
      BY <3>2, <3>3, <1>0
  <2> QED
    BY <2>2, <2>3, <2>4
<1> HIDE DEF t
<1>4. \A a, b \in 1 .. Len(t) : a < b => t[a] < t[b]
  BY <1>0, <1>3
<1>5. ToSet(t) = ToSet(s) \ {s[i]}
  <2>1. \A k \in 1 .. Len(s) : k # i => s[k] # s[i]
    BY <1>0
  <2>2. ToSet(t) \subseteq ToSet(s) \ {s[i]}
    <3>1. ASSUME NEW k \in 1 .. Len(s) - 1
          PROVE  t[k] \in ToSet(s) \ {s[i]}
      <4>1. CASE k < i
        <5>1. k \in 1 .. Len(s) /\ k # i /\ t[k] = s[k]
          BY <4>1, <1>0, <1>3
        <5> QED
          BY <5>1, <1>0, <2>1 DEF ToSet
      <4>2. CASE k >= i
        <5>1. k + 1 \in 1 .. Len(s) /\ k + 1 # i /\ t[k] = s[k + 1]
          BY <4>2, <1>0, <1>3
        <5> QED
          BY <5>1, <1>0, <2>1 DEF ToSet
      <4> QED
        BY <4>1, <4>2, <1>0
    <3> QED
      BY <3>1, <1>3 DEF ToSet
  <2>3. ASSUME NEW k \in 1 .. Len(s), s[k] # s[i]
        PROVE  s[k] \in ToSet(t)
    <3>1. CASE k < i
      <4>1. k \in 1 .. Len(s) - 1 /\ t[k] = s[k]
        BY <3>1, <1>0, <1>3
      <4> QED
        BY <4>1, <1>3 DEF ToSet
    <3>2. CASE k > i
      <4>1. k - 1 \in 1 .. Len(s) - 1 /\ t[k - 1] = s[k]
        BY <3>2, <1>0, <1>3
      <4> QED
        BY <4>1, <1>3 DEF ToSet
    <3> QED
      BY <3>1, <3>2, <2>3, <1>0
  <2>4. ToSet(s) \ {s[i]} \subseteq ToSet(t)
    BY <2>3, <1>0 DEF ToSet
  <2> QED
    BY <2>2, <2>4
<1> QED
  BY <1>3, <1>4, <1>5 DEF t

(* Taking the oldest id: what is left is increasing and has lost just it.  *)
LEMMA TailIncreasing ==
  ASSUME NEW S \in SUBSET Nat, NEW s \in Seq(S), s # <<>>,
         \A a, b \in 1 .. Len(s) : a < b => s[a] < s[b]
  PROVE  /\ Head(s) \in S
         /\ Head(s) \in ToSet(s)
         /\ Tail(s) \in Seq(S)
         /\ \A a, b \in 1 .. Len(Tail(s)) : a < b => Tail(s)[a] < Tail(s)[b]
         /\ ToSet(Tail(s)) = ToSet(s) \ {Head(s)}
         /\ \A id \in ToSet(Tail(s)) : Head(s) < id
<1> DEFINE t == Tail(s)
           n == Len(s)
<1>1. /\ n \in Nat /\ n > 0 /\ DOMAIN s = 1 .. n
      /\ \A k \in 1 .. n : s[k] \in S /\ s[k] \in Nat
      /\ Head(s) = s[1]
  <2>1. n \in Nat /\ DOMAIN s = 1 .. n /\ s \in [1 .. n -> S]
    BY LenProperties
  <2>2. n \in Nat \ {0}
    BY EmptySeq
  <2>3. Head(s) = s[1]
    OBVIOUS
  <2> HIDE DEF n
  <2>4. n > 0
    BY <2>2
  <2>5. \A k \in 1 .. n : s[k] \in S
    BY <2>1
  <2> QED
    BY <2>1, <2>3, <2>4, <2>5
<1>2. /\ t \in Seq(S) /\ Len(t) = n - 1 /\ DOMAIN t = 1 .. n - 1
      /\ \A k \in 1 .. n - 1 : t[k] = s[k + 1]
  BY HeadTailProperties, LenProperties
<1>3. \A a, b \in 1 .. n : a < b => s[a] < s[b]
  OBVIOUS
<1> HIDE DEF t, n
<1>4. \A a, b \in 1 .. n - 1 : a < b => t[a] < t[b]
  BY <1>1, <1>2, <1>3
<1>5. ToSet(t) \subseteq ToSet(s) /\ \A id \in ToSet(t) : s[1] < id
  <2> SUFFICES ASSUME NEW k \in 1 .. n - 1
               PROVE  t[k] \in ToSet(s) /\ s[1] < t[k]
    BY <1>2 DEF ToSet
  <2>1. k + 1 \in 1 .. n /\ 1 \in 1 .. n /\ 1 < k + 1
    BY <1>1
  <2> QED
    BY <2>1, <1>1, <1>2, <1>3 DEF ToSet
<1>6. ASSUME NEW k \in 1 .. n, s[k] # s[1]
      PROVE  s[k] \in ToSet(t)
  <2>1. k - 1 \in 1 .. n - 1 /\ t[k - 1] = s[k]
    BY <1>1, <1>2, <1>6
  <2> QED
    BY <2>1, <1>2 DEF ToSet
<1>7. s[1] \in ToSet(s) /\ s[1] \in S /\ s[1] \in Nat
  BY <1>1 DEF ToSet
<1>8. ToSet(t) = ToSet(s) \ {s[1]}
  <2>1. \A id \in ToSet(t) : id \in Nat /\ id # s[1]
    <3>1. \A id \in ToSet(t) : id \in S
      BY <1>2 DEF ToSet
    <3> SUFFICES ASSUME NEW id \in ToSet(t)
                 PROVE  id \in Nat /\ id # s[1]
      OBVIOUS
    <3>2. id \in Nat /\ s[1] < id /\ s[1] \in Nat
      BY <3>1, <1>5, <1>7
    <3> QED
      BY <3>2
  <2>2. ToSet(s) \ {s[1]} \subseteq ToSet(t)
    BY <1>6, <1>1 DEF ToSet
  <2> QED
    BY <2>1, <2>2, <1>5
<1> QED
  BY <1>1, <1>2, <1>4, <1>5, <1>7, <1>8 DEF t

(* Appending an id above all the others keeps the sequence increasing.     *)
LEMMA AppendIncreasing ==
  ASSUME NEW S \in SUBSET Nat, NEW s \in Seq(S), NEW e \in S,
         \A id \in ToSet(s) : id < e,
         \A a, b \in 1 .. Len(s) : a < b => s[a] < s[b]
  PROVE  /\ Append(s, e) \in Seq(S)
         /\ \A a, b \in 1 .. Len(Append(s, e)) :
              a < b => Append(s, e)[a] < Append(s, e)[b]
         /\ ToSet(Append(s, e)) = ToSet(s) \union {e}
<1> DEFINE t == Append(s, e)
           n == Len(s)
<1>1. /\ n \in Nat /\ DOMAIN s = 1 .. n
      /\ \A k \in 1 .. n : s[k] \in S /\ s[k] \in Nat
  BY LenProperties
<1>2. /\ t \in Seq(S) /\ Len(t) = n + 1 /\ DOMAIN t = 1 .. n + 1
      /\ \A k \in 1 .. n : t[k] = s[k]
      /\ t[n + 1] = e
  BY AppendProperties, LenProperties
<1>3. \A k \in 1 .. n : s[k] < e
  BY <1>1 DEF ToSet
<1>4. \A a, b \in 1 .. n : a < b => s[a] < s[b]
  OBVIOUS
<1> HIDE DEF t, n
<1>5. ASSUME NEW a \in 1 .. n + 1, NEW b \in 1 .. n + 1, a < b
      PROVE  t[a] < t[b]
  <2>1. a \in 1 .. n /\ t[a] = s[a]
    BY <1>1, <1>2, <1>5
  <2>2. CASE b = n + 1
    BY <2>1, <2>2, <1>2, <1>3
  <2>3. CASE b # n + 1
    <3>1. b \in 1 .. n /\ t[b] = s[b]
      BY <2>3, <1>1, <1>2
    <3> QED
      BY <3>1, <2>1, <1>4, <1>5
  <2> QED
    BY <2>2, <2>3
<1>6. ToSet(t) = ToSet(s) \union {e}
  <2>1. 1 .. n + 1 = (1 .. n) \union {n + 1}
    BY <1>1
  <2> QED
    BY <2>1, <1>1, <1>2 DEF ToSet
<1> QED
  BY <1>2, <1>5, <1>6 DEF t

-----------------------------------------------------------------------------

(* What processQueue finds when it is about to run a round of its loop: no *)
(* turn runs, `q` waits, `a` are the armed timers and `t` the turns.       *)
Ready(q, a, t, next) ==
  /\ q \in Seq(Id)
  /\ t \in [Id -> {"none"} \union Open \union Settled]
  /\ \A i, j \in 1 .. Len(q) : i < j => q[i] < q[j]
  /\ \A id \in Id : t[id] = "queued" <=> id \in ToSet(q)
  /\ \A id \in Id : t[id] # "running"
  /\ \A id \in Id : id >= next => t[id] = "none"
  /\ a = ToSet(q)

LEMMA IncreasingIsInjective ==
  ASSUME NEW s \in Seq(Id), \A i, j \in 1 .. Len(s) : i < j => s[i] < s[j]
  PROVE  IsInjective(s) /\ ToSet(s) \subseteq Id
<1> DEFINE n == Len(s)
<1>1. n \in Nat /\ DOMAIN s = 1 .. n /\ \A k \in 1 .. n : s[k] \in Id
  BY LenProperties
<1>2. \A i, j \in 1 .. n : i < j => s[i] < s[j]
  OBVIOUS
<1> HIDE DEF n
<1>3. \A k \in 1 .. n : s[k] \in Nat
  BY <1>1, MaxTurnsAssumption DEF Id
<1>4. ASSUME NEW i \in 1 .. n, NEW j \in 1 .. n, s[i] = s[j]
      PROVE  i = j
  <2>1. CASE i < j
    BY <2>1, <1>2, <1>3, <1>4
  <2>2. CASE j < i
    BY <2>2, <1>2, <1>3, <1>4
  <2> QED
    BY <2>1, <2>2, <1>1
<1> QED
  BY <1>1, <1>4 DEF IsInjective, ToSet

(* One round of the loop from a ready state restores the invariant.        *)
LEMMA LoopRestores ==
  ASSUME NEW q, NEW a, NEW t, Ready(q, a, t, nextId'), Loop(q, a, t),
         nextId' \in 1 .. MaxTurns + 1
  PROVE  IInv'
<1> USE MaxTurnsAssumption DEF Ready
<1>0. Id \in SUBSET Nat
  BY DEF Id
<1>1. CASE q # <<>>
  <2> DEFINE h == Head(q)
  <2>1. /\ h \in Id /\ h \in ToSet(q)
        /\ Tail(q) \in Seq(Id)
        /\ \A i, j \in 1 .. Len(Tail(q)) : i < j => Tail(q)[i] < Tail(q)[j]
        /\ ToSet(Tail(q)) = ToSet(q) \ {h}
    BY <1>0, <1>1, TailIncreasing
  <2>2. /\ queue' = Tail(q) /\ armed' = a \ {h} /\ processing' = TRUE
        /\ turn' = [t EXCEPT ![h] = "running"]
    BY <1>1 DEF Loop
  <2> HIDE DEF h
  <2>3. IsInjective(queue') /\ ToSet(queue') \subseteq Id
    BY <2>1, <2>2, IncreasingIsInjective
  <2>4. TypeOK'
    BY <2>1, <2>2, <2>3 DEF TypeOK, Open, Settled
  <2>5. QueueOrdered'
    BY <2>1, <2>2 DEF QueueOrdered
  <2>6. OneTurnRuns'
    BY <2>1, <2>2 DEF OneTurnRuns, Running
  <2>7. NoTurnLost'
    BY <2>1, <2>2, <2>3 DEF NoTurnLost, Waiting
  <2>8. NoStrandedTurn'
    BY <2>2 DEF NoStrandedTurn
  <2> QED
    BY <2>4, <2>5, <2>6, <2>7, <2>8 DEF IInv
<1>2. CASE q = <<>>
  <2>1. queue' = <<>> /\ armed' = a /\ processing' = FALSE /\ turn' = t
    BY <1>2 DEF Loop
  <2>2. ToSet(q) = {} /\ Len(q) = 0 /\ DOMAIN q = {}
    BY <1>2 DEF ToSet
  <2>3. TypeOK'
    <3>1. queue' \in Seq(Id)
      BY <2>1
    <3>2. armed' \subseteq Id /\ turn' \in [Id -> {"none"} \union Open \union Settled]
      BY <2>1, <2>2
    <3> QED
      BY <3>1, <3>2, <2>1 DEF TypeOK
  <2>4. QueueOrdered'
    BY <2>1, <1>2 DEF QueueOrdered
  <2>5. OneTurnRuns'
    BY <2>1 DEF OneTurnRuns, Running
  <2>6. NoTurnLost'
    BY <1>2, <2>1, <2>2 DEF NoTurnLost, Waiting, IsInjective
  <2>7. NoStrandedTurn'
    BY <2>1 DEF NoStrandedTurn
  <2> QED
    BY <2>3, <2>4, <2>5, <2>6, <2>7 DEF IInv
<1> QED
  BY <1>1, <1>2

(* IInv holds initially and every step preserves it.                       *)
THEOREM InitIInv == Init => IInv
<1> SUFFICES ASSUME Init PROVE IInv
  OBVIOUS
<1> USE MaxTurnsAssumption DEF Init
<1>1. <<>> \in Seq(Id) /\ Len(<<>>) = 0 /\ ToSet(<<>>) = {} /\ IsInjective(<<>>)
  BY DEF ToSet, IsInjective
<1>2. TypeOK
  <2>1. 1 \in 1 .. MaxTurns + 1
    OBVIOUS
  <2> QED
    BY <1>1, <2>1 DEF TypeOK
<1>3. QueueOrdered
  BY <1>1 DEF QueueOrdered
<1>4. OneTurnRuns
  BY DEF OneTurnRuns, Running
<1>5. NoTurnLost
  BY <1>1 DEF NoTurnLost, Waiting
<1>6. NoStrandedTurn
  BY DEF NoStrandedTurn
<1> QED
  BY <1>2, <1>3, <1>4, <1>5, <1>6 DEF IInv

THEOREM NextIInv == IInv /\ [Next]_vars => IInv'
<1> SUFFICES ASSUME IInv, [Next]_vars PROVE IInv'
  OBVIOUS
<1> USE MaxTurnsAssumption
<1>0. Id \in SUBSET Nat
  BY DEF Id
<1>a. /\ TypeOK /\ QueueOrdered /\ OneTurnRuns /\ NoTurnLost /\ NoStrandedTurn
  BY DEF IInv
<1>1. CASE Enqueue
  <2> DEFINE q == Append(queue, nextId)
             a == armed \union {nextId}
             t == [turn EXCEPT ![nextId] = "queued"]
  <2>1. /\ nextId \in Id /\ nextId' = nextId + 1 /\ ProcessQueue(q, a, t)
    BY <1>1 DEF Enqueue
  <2>2. nextId' \in 1 .. MaxTurns + 1
    BY <2>1 DEF Id
  <2>3. \A id \in ToSet(queue) : id < nextId
    <3> SUFFICES ASSUME NEW id \in ToSet(queue) PROVE id < nextId
      OBVIOUS
    <3>1. id \in Id
      BY <1>a, IncreasingIsInjective DEF TypeOK, QueueOrdered
    <3>2. turn[id] = "queued"
      BY <1>a, <3>1 DEF NoTurnLost, Waiting
    <3>3. ~(id >= nextId)
      BY <1>a, <3>1, <3>2 DEF QueueOrdered
    <3> QED
      BY <3>1, <3>3, <2>1 DEF Id
  <2>4. /\ q \in Seq(Id)
        /\ \A i, j \in 1 .. Len(q) : i < j => q[i] < q[j]
        /\ ToSet(q) = ToSet(queue) \union {nextId}
    BY <1>0, <1>a, <2>1, <2>3, AppendIncreasing DEF TypeOK, QueueOrdered
  <2>5. /\ t \in [Id -> {"none"} \union Open \union Settled]
        /\ \A id \in Id : t[id] = IF id = nextId THEN "queued" ELSE turn[id]
    BY <1>a, <2>1 DEF TypeOK, Open
  <2>6. /\ \A id \in Id : t[id] = "queued" <=> id \in ToSet(q)
        /\ a = ToSet(q)
    BY <1>a, <2>4, <2>5 DEF NoTurnLost, Waiting
  <2>7. \A id \in Id : id >= nextId' => t[id] = "none"
    BY <1>0, <1>a, <2>1, <2>5 DEF QueueOrdered
  <2> HIDE DEF q, a, t
  <2>8. CASE processing
    <3>1. queue' = q /\ armed' = a /\ turn' = t /\ processing' = processing
      BY <2>1, <2>8 DEF ProcessQueue
    <3>2. IsInjective(q) /\ ToSet(q) \subseteq Id
      BY <2>4, IncreasingIsInjective
    <3>3. TypeOK'
      BY <1>a, <2>2, <2>4, <2>5, <2>6, <3>1, <3>2 DEF TypeOK
    <3>4. QueueOrdered'
      BY <2>4, <2>7, <3>1 DEF QueueOrdered
    <3>5. OneTurnRuns'
      <4>1. turn[nextId] = "none"
        BY <1>0, <1>a, <2>1 DEF QueueOrdered
      <4>2. Running' = Running
        BY <2>5, <3>1, <4>1 DEF Running
      <4> QED
        BY <1>a, <3>1, <4>2 DEF OneTurnRuns
    <3>6. NoTurnLost'
      BY <2>6, <3>1, <3>2 DEF NoTurnLost, Waiting
    <3>7. NoStrandedTurn'
      BY <2>8, <3>1 DEF NoStrandedTurn
    <3> QED
      BY <3>3, <3>4, <3>5, <3>6, <3>7 DEF IInv
  <2>9. CASE ~processing
    <3>1. Loop(q, a, t)
      BY <2>1, <2>9 DEF ProcessQueue
    <3>2. \A id \in Id : t[id] # "running"
      BY <1>a, <2>5, <2>9 DEF OneTurnRuns, Running
    <3>3. Ready(q, a, t, nextId')
      BY <2>4, <2>5, <2>6, <2>7, <3>2 DEF Ready
    <3> QED
      BY <2>2, <3>1, <3>3, LoopRestores
  <2> QED
    BY <2>8, <2>9
<1>2. ASSUME NEW id \in Id, NEW result \in {"resolved", "failed"}, RunSettles(id, result)
      PROVE  IInv'
  <2> DEFINE t == [turn EXCEPT ![id] = result]
  <2>1. turn[id] = "running" /\ Loop(queue, armed, t) /\ nextId' = nextId
    BY <1>2 DEF RunSettles
  <2>2. /\ t \in [Id -> {"none"} \union Open \union Settled]
        /\ \A other \in Id : t[other] = IF other = id THEN result ELSE turn[other]
    BY <1>a DEF TypeOK, Settled
  <2> HIDE DEF t
  <2>3. \A other \in Id : t[other] # "running"
    BY <1>a, <2>1, <2>2 DEF OneTurnRuns, Running
  <2>4. \A other \in Id : t[other] = "queued" <=> other \in ToSet(queue)
    BY <1>a, <2>1, <2>2 DEF NoTurnLost, Waiting
  <2>5. \A other \in Id : other >= nextId' => t[other] = "none"
    BY <1>a, <2>1, <2>2 DEF QueueOrdered
  <2>6. Ready(queue, armed, t, nextId')
    BY <1>a, <2>2, <2>3, <2>4, <2>5 DEF Ready, TypeOK, QueueOrdered, NoTurnLost, Waiting
  <2>7. nextId' \in 1 .. MaxTurns + 1
    BY <1>a, <2>1 DEF TypeOK
  <2> QED
    BY <2>1, <2>6, <2>7, LoopRestores
<1>3. ASSUME NEW id \in Id, QueueTimeout(id)
      PROVE  IInv'
  <2>1. id \in Waiting
    BY <1>a, <1>3 DEF QueueTimeout, NoTurnLost
  <2>2. PICK i \in DOMAIN queue : queue[i] = id /\ queue' = RemoveAt(queue, i)
    BY <2>1, <1>3 DEF QueueTimeout
  <2>3. /\ armed' = armed \ {id} /\ turn' = [turn EXCEPT ![id] = "timedOut"]
        /\ processing' = processing /\ nextId' = nextId
    BY <2>1, <1>3 DEF QueueTimeout
  <2>4. /\ queue' \in Seq(Id)
        /\ \A k, l \in 1 .. Len(queue') : k < l => queue'[k] < queue'[l]
        /\ ToSet(queue') = ToSet(queue) \ {id}
    <3>1. queue \in Seq(Id) /\ i \in 1 .. Len(queue)
          /\ \A k, l \in 1 .. Len(queue) : k < l => queue[k] < queue[l]
      BY <1>a, LenProperties DEF TypeOK, QueueOrdered
    <3> QED
      BY <1>0, <2>2, <3>1, RemoveAtIncreasing
  <2>5. turn[id] = "queued"
    BY <1>a, <2>1 DEF NoTurnLost
  <2>6. TypeOK'
    BY <1>a, <2>3, <2>4 DEF TypeOK, Settled
  <2>7. QueueOrdered'
    BY <1>a, <2>3, <2>4, <2>5 DEF QueueOrdered, TypeOK
  <2>8. OneTurnRuns'
    <3>1. Running' = Running
      BY <1>a, <2>3, <2>5 DEF Running, TypeOK
    <3> QED
      BY <1>a, <2>3, <3>1 DEF OneTurnRuns
  <2>9. NoTurnLost'
    <3>1. IsInjective(queue')
      BY <2>4, IncreasingIsInjective
    <3> QED
      BY <1>a, <2>3, <2>4, <3>1 DEF NoTurnLost, Waiting, TypeOK
  <2>10. NoStrandedTurn'
    <3>1. queue # <<>>
      BY <2>1 DEF Waiting, ToSet
    <3> QED
      BY <1>a, <2>3, <3>1 DEF NoStrandedTurn
  <2> QED
    BY <2>6, <2>7, <2>8, <2>9, <2>10 DEF IInv
<1>4. CASE CancelAll
  <2>1. /\ queue' = <<>> /\ armed' = armed \ Waiting
        /\ turn' = [id \in Id |-> IF id \in Waiting THEN "cancelled" ELSE turn[id]]
        /\ processing' = processing /\ nextId' = nextId
    BY <1>4 DEF CancelAll
  <2>2. <<>> \in Seq(Id) /\ Len(<<>>) = 0 /\ ToSet(<<>>) = {} /\ IsInjective(<<>>)
    BY DEF ToSet, IsInjective
  <2>3. TypeOK'
    BY <1>a, <2>1, <2>2 DEF TypeOK, Settled
  <2>4. QueueOrdered'
    BY <1>a, <2>1, <2>2 DEF QueueOrdered, NoTurnLost
  <2>5. OneTurnRuns'
    <3>1. Running' = Running
      BY <1>a, <2>1 DEF Running, NoTurnLost
    <3> QED
      BY <1>a, <2>1, <3>1 DEF OneTurnRuns
  <2>6. NoTurnLost'
    BY <1>a, <2>1, <2>2 DEF NoTurnLost, Waiting
  <2>7. NoStrandedTurn'
    BY <2>1 DEF NoStrandedTurn
  <2> QED
    BY <2>3, <2>4, <2>5, <2>6, <2>7 DEF IInv
<1>5. CASE UNCHANGED vars
  BY <1>5 DEF vars, IInv, TypeOK, QueueOrdered, OneTurnRuns, Running, NoTurnLost,
              Waiting, NoStrandedTurn
<1> QED
  BY <1>1, <1>2, <1>3, <1>4, <1>5 DEF Next

(* One turn runs at a time, and the processing flag says so, whatever the  *)
(* limit of the queue.                                                     *)
THEOREM OneTurnRunsAlways == Spec => []OneTurnRuns
<1>1. IInv => OneTurnRuns
  BY DEF IInv
<1> QED
  BY InitIInv, NextIInv, <1>1, PTL DEF Spec

(* Every accepted turn waits exactly once with its timer armed, runs, or   *)
(* is settled.                                                             *)
THEOREM NoTurnLostAlways == Spec => [](NoTurnLost /\ NoStrandedTurn)
<1>1. IInv => NoTurnLost /\ NoStrandedTurn
  BY DEF IInv
<1> QED
  BY InitIInv, NextIInv, <1>1, PTL DEF Spec

-----------------------------------------------------------------------------

(* A turn is put in a queue that has room, or in an empty one that the     *)
(* loop empties again in the same step.                                    *)
LEMMA QueueBoundedStep == IInv /\ QueueBounded /\ [Next]_vars => QueueBounded'
<1> SUFFICES ASSUME IInv, QueueBounded, [Next]_vars PROVE QueueBounded'
  OBVIOUS
<1> USE MaxQueuedAssumption
<1>0. queue \in Seq(Id) /\ Len(queue) \in Nat /\ Len(queue) <= MaxQueued
  BY LenProperties DEF IInv, TypeOK, QueueBounded
<1>a. ASSUME NEW q \in Seq(Id), NEW a, NEW t, Loop(q, a, t)
      PROVE  Len(queue') = IF q = <<>> THEN 0 ELSE Len(q) - 1
  BY <1>a, HeadTailProperties DEF Loop
<1>1. CASE Enqueue
  <2>1. /\ nextId \in Id
        /\ ProcessQueue(Append(queue, nextId), armed \union {nextId},
                        [turn EXCEPT ![nextId] = "queued"])
    BY <1>1 DEF Enqueue
  <2>2. /\ Append(queue, nextId) \in Seq(Id)
        /\ Len(Append(queue, nextId)) = Len(queue) + 1
        /\ Append(queue, nextId) # <<>>
    BY <1>0, <2>1, AppendProperties
  <2>3. CASE processing
    <3>1. queue' = Append(queue, nextId)
      BY <2>1, <2>3 DEF ProcessQueue
    <3>2. ~(Len(queue) >= MaxQueued)
      BY <1>1, <2>3 DEF Enqueue, Busy
    <3>3. Len(queue') <= MaxQueued
      BY <1>0, <2>2, <3>1, <3>2
    <3> QED
      BY <3>3 DEF QueueBounded
  <2>4. CASE ~processing
    <3>1. Len(queue) = 0
      BY <2>4 DEF IInv, NoStrandedTurn
    <3>2. Loop(Append(queue, nextId), armed \union {nextId}, [turn EXCEPT ![nextId] = "queued"])
      BY <2>1, <2>4 DEF ProcessQueue
    <3>3. Len(queue') = Len(Append(queue, nextId)) - 1
      BY <1>a, <2>2, <3>2
    <3>4. Len(queue') <= MaxQueued
      BY <2>2, <3>1, <3>3
    <3> QED
      BY <3>4 DEF QueueBounded
  <2> QED
    BY <2>3, <2>4
<1>2. ASSUME NEW id \in Id, NEW result \in {"resolved", "failed"}, RunSettles(id, result)
      PROVE  QueueBounded'
  BY <1>0, <1>2, <1>a DEF RunSettles, QueueBounded
<1>3. ASSUME NEW id \in Id, QueueTimeout(id)
      PROVE  QueueBounded'
  <2>1. CASE id \in Waiting
    <3>1. PICK i \in DOMAIN queue : queue' = RemoveAt(queue, i)
      BY <1>3, <2>1 DEF QueueTimeout
    <3>2. Id \in SUBSET Nat /\ i \in 1 .. Len(queue)
          /\ \A a, b \in 1 .. Len(queue) : a < b => queue[a] < queue[b]
      BY <1>0, LenProperties DEF Id, IInv, QueueOrdered
    <3>3. Len(queue') = Len(queue) - 1
      BY <1>0, <3>1, <3>2, RemoveAtIncreasing
    <3> QED
      BY <1>0, <3>3 DEF QueueBounded
  <2>2. CASE id \notin Waiting
    BY <1>0, <1>3, <2>2 DEF QueueTimeout, QueueBounded
  <2> QED
    BY <2>1, <2>2
<1>4. CASE CancelAll
  BY <1>4 DEF CancelAll, QueueBounded
<1>5. CASE UNCHANGED vars
  BY <1>0, <1>5 DEF vars, QueueBounded
<1> QED
  BY <1>1, <1>2, <1>3, <1>4, <1>5 DEF Next

(* The limit that BusyError promises is never exceeded, whatever it is.    *)
THEOREM QueueBoundedAlways == Spec => []QueueBounded
<1>1. Init => QueueBounded
  BY MaxQueuedAssumption DEF Init, QueueBounded
<1> QED
  BY InitIInv, NextIInv, QueueBoundedStep, <1>1, PTL DEF Spec

(* The turn that a round of the loop starts is the oldest.                 *)
StartsOldest == \A id \in Running' \ Running : \A other \in Waiting' : id < other

TurnState == {"none"} \union Open \union Settled

LEMMA LoopStartsOldest ==
  ASSUME NEW q \in Seq(Id), NEW a, NEW t \in [Id -> TurnState], Loop(q, a, t),
         \A i, j \in 1 .. Len(q) : i < j => q[i] < q[j],
         \A id \in Id : t[id] # "running"
  PROVE  StartsOldest
<1>0. Id \in SUBSET Nat
  BY DEF Id
<1>1. CASE q # <<>>
  <2>1. /\ Head(q) \in Id
        /\ \A id \in ToSet(Tail(q)) : Head(q) < id
    BY <1>0, <1>1, TailIncreasing
  <2>2. queue' = Tail(q) /\ turn' = [t EXCEPT ![Head(q)] = "running"]
    BY <1>1 DEF Loop
  <2>3. \A id \in Running' : id = Head(q)
    BY <2>1, <2>2 DEF Running
  <2> QED
    BY <2>1, <2>2, <2>3 DEF StartsOldest, Waiting
<1>2. CASE q = <<>>
  BY <1>2 DEF Loop, StartsOldest, Running
<1> QED
  BY <1>1, <1>2

LEMMA NothingNewRuns ==
  ASSUME \A id \in Id : turn'[id] = "running" => id \in Running
  PROVE  StartsOldest
<1>1. \A id \in Running' : id \in Running
  BY DEF Running
<1> QED
  BY <1>1 DEF StartsOldest

LEMMA StartsOldestStep == IInv /\ [Next]_vars => StartsOldest
<1> SUFFICES ASSUME IInv, [Next]_vars PROVE StartsOldest
  OBVIOUS
<1>0. /\ queue \in Seq(Id) /\ turn \in [Id -> TurnState]
      /\ \A i, j \in 1 .. Len(queue) : i < j => queue[i] < queue[j]
      /\ \A id, other \in Running : id = other
      /\ processing <=> Running # {}
  BY DEF IInv, TypeOK, QueueOrdered, OneTurnRuns, TurnState
<1>1. CASE Enqueue
  <2> DEFINE t == [turn EXCEPT ![nextId] = "queued"]
  <2>1. /\ nextId \in Id
        /\ ProcessQueue(Append(queue, nextId), armed \union {nextId}, t)
    BY <1>1 DEF Enqueue
  <2>2. t \in [Id -> TurnState] /\ \A id \in Id : t[id] = "running" => id \in Running
    BY <1>0 DEF Running, TurnState, Open, Settled
  <2>3. CASE processing
    <3>1. turn' = t
      BY <2>1, <2>3 DEF ProcessQueue
    <3>2. \A id \in Id : turn'[id] = "running" => id \in Running
      BY <2>2, <3>1
    <3> QED
      BY <3>2, NothingNewRuns
  <2>4. CASE ~processing
    <3>1. queue = <<>>
      BY <2>4 DEF IInv, NoStrandedTurn
    <3>2. Append(queue, nextId) = <<nextId>> /\ <<nextId>> \in Seq(Id) /\ Len(<<nextId>>) = 1
      BY <2>1, <3>1
    <3>3. \A i, j \in 1 .. Len(<<nextId>>) : i < j => <<nextId>>[i] < <<nextId>>[j]
      BY <3>2
    <3>4. \A id \in Id : t[id] # "running"
      BY <1>0, <2>2, <2>4
    <3>5. Loop(<<nextId>>, armed \union {nextId}, t)
      BY <2>1, <2>4, <3>2 DEF ProcessQueue
    <3> HIDE DEF t
    <3> QED
      BY <2>2, <3>2, <3>3, <3>4, <3>5, LoopStartsOldest
  <2> QED
    BY <2>3, <2>4
<1>2. ASSUME NEW id \in Id, NEW result \in {"resolved", "failed"}, RunSettles(id, result)
      PROVE  StartsOldest
  <2> DEFINE t == [turn EXCEPT ![id] = result]
  <2>1. turn[id] = "running" /\ Loop(queue, armed, t)
    BY <1>2 DEF RunSettles
  <2>2. t \in [Id -> TurnState] /\ \A other \in Id : t[other] # "running"
    BY <1>0, <2>1 DEF Running, TurnState, Open, Settled
  <2> HIDE DEF t
  <2> QED
    BY <1>0, <2>1, <2>2, LoopStartsOldest
<1>3. ASSUME NEW id \in Id, QueueTimeout(id)
      PROVE  StartsOldest
  <2>1. \A other \in Id : turn'[other] = "running" => turn[other] = "running"
    BY <1>0, <1>3 DEF QueueTimeout
  <2> QED
    BY <2>1, NothingNewRuns DEF Running
<1>4. CASE CancelAll
  BY <1>0, <1>4 DEF CancelAll, StartsOldest, Running
<1>5. CASE UNCHANGED vars
  BY <1>5 DEF vars, StartsOldest, Running
<1> QED
  BY <1>1, <1>2, <1>3, <1>4, <1>5 DEF Next

(* Turns start in the order they came, whatever timers and cancels take    *)
(* out of the queue.                                                       *)
THEOREM StartsInOrderAlways == Spec => StartsInOrder
<1>1. IInv /\ [Next]_vars =>
        [\A id \in Running' \ Running : \A other \in Waiting' : id < other]_vars
  BY StartsOldestStep DEF StartsOldest
<1> QED
  BY InitIInv, NextIInv, <1>1, PTL DEF Spec, StartsInOrder

-----------------------------------------------------------------------------
(* Phone turns: the queue, the provider and Pi                             *)

(* The provider serves the turn that runs, while it reads, and nobody      *)
(* else's text is in its queue.                                            *)
ProviderServes ==
  /\ Running = {} <=> step = "none"
  /\ active # None <=> step = "reading"
  /\ active # None => active \in Running
  /\ active # None /\ active \notin disturbed => run = active /\ text \subseteq {active}

PhoneIInv == IInv /\ QueueBounded /\ PhoneTypeOK /\ ProviderServes /\ OwnReply

-----------------------------------------------------------------------------
(* The composition drives the queue as RemoteTurns says.                   *)

LEMMA PhoneStepIsQueueStep == [PhoneNext]_phoneVars => [Next]_vars
<1> SUFFICES ASSUME [PhoneNext]_phoneVars PROVE [Next]_vars
  OBVIOUS
<1>1. CASE Submit
  BY <1>1 DEF Submit, Next
<1>2. CASE CancelledByPhone
  BY <1>2 DEF CancelledByPhone, Next
<1>3. CASE Routed \/ Switch \/ OperatorPrompts \/ PiText \/ RunEnds \/ SessionStart
  BY <1>3 DEF Routed, Switch, OperatorPrompts, PiText, RunEnds, SessionStart
<1>4. CASE SessionShutdown
  BY <1>4 DEF SessionShutdown, Next
<1>5. ASSUME NEW id \in Id, QueueTimer(id) PROVE [Next]_vars
  BY <1>5 DEF QueueTimer, Next
<1>6. ASSUME NEW id \in Running,
             \/ RepliesAtOnce(id) \/ RefusedBusy(id) \/ NeverReady(id) \/ UnknownTarget(id)
             \/ SwitchCancelled(id) \/ Rendered(id)
      PROVE  [Next]_vars
  <2>1. id \in Id
    BY DEF Running
  <2>2. RunSettles(id, "resolved") \/ RunSettles(id, "failed")
    BY <1>6 DEF RepliesAtOnce, RefusedBusy, NeverReady, UnknownTarget, SwitchCancelled, Rendered,
                Replies, Throws
  <2> QED
    BY <2>1, <2>2 DEF Next
<1>7. ASSUME NEW id \in Running, Dispatch(id) \/ LiveEnds(id) \/ ExecEnds(id)
      PROVE  [Next]_vars
  BY <1>7 DEF Dispatch, LiveEnds, ExecEnds
<1>8. CASE UNCHANGED phoneVars
  BY <1>8 DEF phoneVars
<1> QED
  BY <1>1, <1>2, <1>3, <1>4, <1>5, <1>6, <1>7, <1>8 DEF PhoneNext

(* The queue inside the running system behaves as the queue RemoteTurns    *)
(* specifies: the safety part of ImplementsRemoteTurns.                    *)
THEOREM DrivesTheQueue == PhoneSpec => Init /\ [][Next]_vars
<1>1. PhoneInit => Init
  BY DEF PhoneInit
<1> QED
  BY <1>1, PhoneStepIsQueueStep, PTL DEF PhoneSpec

LEMMA InitBounded == Init => QueueBounded
BY MaxQueuedAssumption DEF Init, QueueBounded

(* What the queue promises, it promises to the phones: one turn runs, no   *)
(* accepted turn is lost, the limit holds.                                 *)
THEOREM PhonesKeepTheQueue ==
  PhoneSpec => [](OneTurnRuns /\ NoTurnLost /\ QueueBounded)
<1>1. IInv => OneTurnRuns /\ NoTurnLost
  BY DEF IInv
<1> QED
  BY DrivesTheQueue, InitIInv, InitBounded, NextIInv, QueueBoundedStep, <1>1, PTL

(* Phone turns start in the order they were accepted.                      *)
THEOREM PhonesStartInOrder == PhoneSpec => StartsInOrder
<1>1. IInv /\ [Next]_vars =>
        [\A id \in Running' \ Running : \A other \in Waiting' : id < other]_vars
  BY StartsOldestStep DEF StartsOldest
<1> QED
  BY DrivesTheQueue, InitIInv, NextIInv, <1>1, PTL DEF StartsInOrder

-----------------------------------------------------------------------------
(* Whose text a turn is given.                                             *)

LEMMA QueueKeepsRunning ==
  ASSUME IInv, \/ CancelAll \/ \E id \in Id : QueueTimeout(id)
  PROVE  Running' = Running
<1>0. /\ turn \in [Id -> {"none"} \union Open \union Settled]
      /\ \A id \in Id : turn[id] = "queued" <=> id \in Waiting
  BY DEF IInv, TypeOK, NoTurnLost
<1>1. \A id \in Id : turn'[id] = "running" <=> turn[id] = "running"
  BY <1>0 DEF CancelAll, QueueTimeout
<1> QED
  BY <1>1 DEF Running

LEMMA EnqueueKeepsRunning ==
  ASSUME IInv, Enqueue
  PROVE  IF processing THEN Running' = Running ELSE Running = {}
<1>0. /\ turn \in [Id -> {"none"} \union Open \union Settled]
      /\ \A id \in Id : id >= nextId => turn[id] = "none"
      /\ processing <=> Running # {}
  BY DEF IInv, TypeOK, QueueOrdered, OneTurnRuns
<1>1. CASE processing
  <2>1. /\ nextId \in Id
        /\ turn' = [turn EXCEPT ![nextId] = "queued"]
    BY <1>1 DEF Enqueue, ProcessQueue
  <2>2. turn[nextId] = "none"
    BY <1>0, <2>1 DEF Id
  <2> QED
    BY <1>0, <1>1, <2>1, <2>2 DEF Running
<1> QED
  BY <1>0, <1>1

(* A turn that ends while nothing of it is left in the provider.           *)
LEMMA EndKeepsProvider ==
  ASSUME ProviderServes, step # "reading", step # "none", StepOfRunning,
         UNCHANGED <<pi, disturbed>>
  PROVE  ProviderServes'
<1>1. active = None
  BY DEF ProviderServes
<1>2. step' # "reading" /\ (Running' = {} <=> step' = "none")
  BY DEF StepOfRunning
<1> QED
  BY <1>1, <1>2 DEF ProviderServes, pi

LEMMA PhoneTypeOKStep == PhoneIInv /\ [PhoneNext]_phoneVars => PhoneTypeOK'
<1> SUFFICES ASSUME PhoneIInv, [PhoneNext]_phoneVars PROVE PhoneTypeOK'
  OBVIOUS
<1>0. TypeOK' /\ PhoneTypeOK /\ Running \subseteq Id /\ ProviderServes
  BY PhoneStepIsQueueStep, NextIInv DEF PhoneIInv, IInv, Running
<1> USE <1>0 DEF PhoneTypeOK
<1>1. CASE Submit \/ CancelledByPhone \/ Routed \/ Switch \/ OperatorPrompts \/ PiText
           \/ SessionStart
  BY <1>1 DEF Submit, CancelledByPhone, Routed, Switch, OperatorPrompts, PiText, SessionStart,
              StepOfRunning, pi, Prompt
<1>2. CASE RunEnds \/ SessionShutdown
  BY <1>2 DEF RunEnds, SessionShutdown, AgentEnd, ProviderServes
<1>3. ASSUME NEW id \in Id, QueueTimer(id) PROVE PhoneTypeOK'
  BY <1>3 DEF QueueTimer, pi
<1>4. ASSUME NEW id \in Running,
             \/ RepliesAtOnce(id) \/ RefusedBusy(id) \/ NeverReady(id) \/ UnknownTarget(id)
             \/ SwitchCancelled(id) \/ Rendered(id)
      PROVE  PhoneTypeOK'
  BY <1>4 DEF RepliesAtOnce, RefusedBusy, NeverReady, UnknownTarget, SwitchCancelled, Rendered,
              Replies, Throws, StepOfRunning, pi
<1>5. ASSUME NEW id \in Running, Dispatch(id) \/ LiveEnds(id) \/ ExecEnds(id)
      PROVE  PhoneTypeOK'
  BY <1>5 DEF Dispatch, LiveEnds, ExecEnds, SendToPi, pi, Prompt
<1>6. CASE UNCHANGED phoneVars
  BY <1>6 DEF phoneVars, pi
<1> QED
  BY <1>1, <1>2, <1>3, <1>4, <1>5, <1>6 DEF PhoneNext

LEMMA ProviderServesStep == PhoneIInv /\ [PhoneNext]_phoneVars => ProviderServes' /\ OwnReply'
<1> SUFFICES ASSUME PhoneIInv, [PhoneNext]_phoneVars PROVE ProviderServes' /\ OwnReply'
  OBVIOUS
<1>0. /\ IInv /\ ProviderServes /\ OwnReply /\ PhoneTypeOK
      /\ Running \subseteq Id
      /\ \A id, other \in Running : id = other
      /\ processing <=> Running # {}
  BY DEF PhoneIInv, IInv, OneTurnRuns, Running
<1>a. ASSUME UNCHANGED turn PROVE Running' = Running
  BY <1>a DEF Running
<1>1. CASE Submit
  <2>1. IF processing THEN Running' = Running ELSE Running = {}
    BY <1>0, <1>1, EnqueueKeepsRunning DEF Submit
  <2>2. ProviderServes'
    BY <1>0, <1>1, <2>1 DEF Submit, StepOfRunning, ProviderServes, pi
  <2> QED
    BY <1>0, <1>1, <2>2 DEF Submit, OwnReply
<1>2. ASSUME CancelledByPhone \/ \E id \in Id : QueueTimer(id)
      PROVE  ProviderServes' /\ OwnReply'
  <2>1. Running' = Running
    BY <1>0, <1>2, QueueKeepsRunning DEF CancelledByPhone, QueueTimer
  <2> QED
    BY <1>0, <1>2, <2>1 DEF CancelledByPhone, QueueTimer, ProviderServes, OwnReply, pi
<1>3. CASE Routed \/ Switch \/ OperatorPrompts \/ PiText \/ SessionStart
  <2>1. Running' = Running
    BY <1>3, <1>a DEF Routed, Switch, OperatorPrompts, PiText, SessionStart, vars
  <2>2. OwnReply'
    BY <1>0, <1>3 DEF Routed, Switch, OperatorPrompts, PiText, SessionStart, OwnReply
  <2>3. CASE Routed \/ Switch \/ SessionStart
    BY <1>0, <2>1, <2>2, <2>3 DEF Routed, Switch, SessionStart, ProviderServes, pi
  <2>4. CASE OperatorPrompts \/ PiText
    BY <1>0, <2>1, <2>2, <2>4, ActorsAssumption DEF OperatorPrompts, PiText, ProviderServes
  <2> QED
    BY <1>3, <2>3, <2>4
<1>4. CASE RunEnds
  <2>1. Running' = Running
    BY <1>4, <1>a DEF RunEnds, vars
  <2>2. UNCHANGED <<turn, disturbed>> /\ AgentEnd
    BY <1>4 DEF RunEnds, vars
  <2>3. ProviderServes'
    BY <1>0, <2>1, <2>2 DEF AgentEnd, ProviderServes
  <2>4. ASSUME active # None, active \notin disturbed
        PROVE  text = {} \/ text = {active}
    BY <1>0, <2>4 DEF ProviderServes
  <2>5. OwnReply'
    BY <1>0, <2>2, <2>4 DEF AgentEnd, OwnReply, PhoneTypeOK
  <2> QED
    BY <2>3, <2>5
<1>5. CASE SessionShutdown
  <2>1. Running' = Running
    BY <1>0, <1>5, <1>a, QueueKeepsRunning DEF SessionShutdown, vars
  <2>2. active # None => active \in disturbed'
    BY <1>0, <1>5 DEF SessionShutdown, ProviderServes
  <2>3. disturbed \subseteq disturbed'
    BY <1>5 DEF SessionShutdown
  <2>4. CASE UNCHANGED <<active, text, reply, step>>
    BY <1>0, <2>1, <2>2, <2>3, <2>4 DEF ProviderServes, OwnReply
  <2>5. CASE AgentEnd
    BY <1>0, <2>1, <2>2, <2>3, <2>5 DEF AgentEnd, ProviderServes, OwnReply, PhoneTypeOK
  <2> QED
    BY <1>5, <2>4, <2>5 DEF SessionShutdown
<1>6. ASSUME NEW id \in Running,
             \/ RepliesAtOnce(id) \/ RefusedBusy(id) \/ NeverReady(id) \/ UnknownTarget(id)
             \/ SwitchCancelled(id) \/ Rendered(id)
      PROVE  ProviderServes' /\ OwnReply'
  <2> USE DEF RepliesAtOnce, RefusedBusy, NeverReady, UnknownTarget, SwitchCancelled, Rendered,
              Replies, Throws
  <2>1. step # "reading" /\ step # "none" /\ StepOfRunning /\ UNCHANGED <<pi, disturbed>>
    BY <1>6
  <2>2. OwnReply'
    BY <1>0, <1>6 DEF OwnReply, PhoneTypeOK
  <2> QED
    BY <1>0, <2>1, <2>2, EndKeepsProvider
<1>7. ASSUME NEW id \in Running, Dispatch(id) \/ LiveEnds(id) \/ ExecEnds(id)
      PROVE  ProviderServes' /\ OwnReply'
  <2>1. Running' = Running
    BY <1>7, <1>a DEF Dispatch, LiveEnds, ExecEnds, vars
  <2>2. step \notin {"reading", "none"} /\ active = None
    BY <1>0, <1>7 DEF Dispatch, LiveEnds, ExecEnds, ProviderServes
  <2>3. CASE SendToPi(id) /\ disturbed' = IF run # None \/ session # "open"
                                            THEN disturbed \union {id} ELSE disturbed
    BY <1>0, <2>1, <2>2, <2>3, ActorsAssumption DEF SendToPi, ProviderServes, OwnReply
  <2>4. CASE UNCHANGED <<pi, disturbed>> /\ step' \in {"live", "exec", "rendering"}
    BY <1>0, <1>7, <2>1, <2>2, <2>4 DEF Dispatch, LiveEnds, ExecEnds, ProviderServes, OwnReply, pi,
                                        PhoneTypeOK, SendToPi
  <2> QED
    BY <1>7, <2>3, <2>4 DEF Dispatch, LiveEnds, ExecEnds
<1>8. CASE UNCHANGED phoneVars
  BY <1>0, <1>8, <1>a DEF phoneVars, vars, pi, ProviderServes, OwnReply
<1> QED
  BY <1>1, <1>2, <1>3, <1>4, <1>5, <1>6, <1>7, <1>8 DEF PhoneNext

LEMMA PhoneInvariant == PhoneSpec => []PhoneIInv
<1>1. PhoneInit => PhoneIInv
  <2> SUFFICES ASSUME PhoneInit PROVE PhoneIInv
    OBVIOUS
  <2>1. IInv /\ QueueBounded
    BY InitIInv, InitBounded DEF PhoneInit
  <2>2. Running = {}
    BY DEF PhoneInit, Init, Running
  <2> QED
    BY <2>1, <2>2 DEF PhoneInit, PhoneIInv, IInv, PhoneTypeOK, ProviderServes, OwnReply
<1>2. PhoneIInv /\ [PhoneNext]_phoneVars => PhoneIInv'
  BY PhoneStepIsQueueStep, NextIInv, QueueBoundedStep, PhoneTypeOKStep, ProviderServesStep
     DEF PhoneIInv
<1> QED
  BY <1>1, <1>2, PTL DEF PhoneSpec

(* No phone is given what Pi said to somebody else, except the disturbed   *)
(* turns.                                                                  *)
THEOREM OwnReplyAlways == PhoneSpec => []OwnReply
<1>1. PhoneIInv => OwnReply
  BY DEF PhoneIInv
<1> QED
  BY PhoneInvariant, <1>1, PTL

(* The bookkeeping of the queue and of the provider stays consistent.      *)
THEOREM ConsistentAlways == PhoneSpec => []Consistent
<1>1. PhoneIInv => Consistent
  BY DEF PhoneIInv, IInv, Consistent, ProviderServes, NoLeftoverTurn
<1> QED
  BY PhoneInvariant, <1>1, PTL

=============================================================================
