------------------------ MODULE ToolApproval_proofs ------------------------
(***************************************************************************)
(* Theorems about ToolApproval for all sets of calls and all lifetimes.    *)
(* The inductive invariant adds to CardsBacked and OneVerdict that a call  *)
(* still waiting was not refused, and that nothing happens to a call       *)
(* before its card is up.                                                  *)
(***************************************************************************)
EXTENDS ToolApproval, SequenceTheorems, FiniteSetTheorems, FunctionTheorems, TLAPS

(* What the invariant says of one gated call.                              *)
CallInv(c) ==
  /\ registry[c] # Absent => c \in pending /\ timer[c] = registry[c] /\ registry[c] = Expiry(c)
  /\ c \in pending /\ registry[c] = Absent => now >= Expiry(c)
  /\ c \in pending => runs[c] = <<>> /\ ~Refused(c) /\ Asked(c)
  /\ Len(runs[c]) <= 1
  /\ runs[c] # <<>> => c \in yes /\ ~Refused(c)
  /\ ~Asked(c) => runs[c] = <<>> /\ ~Refused(c)
  /\ Asked(c) => card[c].dir \in Dir

IInv == TypeOK /\ \A c \in Gated : CallInv(c)

-----------------------------------------------------------------------------

LEMMA AppendToSet ==
  ASSUME NEW S, NEW s \in Seq(S), NEW x \in S
  PROVE  Append(s, x) \in Seq(S) /\ ToSet(Append(s, x)) = ToSet(s) \union {x}
<1>1. /\ Len(s) \in Nat
      /\ DOMAIN s = 1 .. Len(s)
      /\ Append(s, x) \in Seq(S)
      /\ DOMAIN Append(s, x) = 1 .. Len(s) + 1
      /\ \A i \in 1 .. Len(s) : Append(s, x)[i] = s[i]
      /\ Append(s, x)[Len(s) + 1] = x
  BY AppendProperties, LenProperties
<1>2. 1 .. Len(s) + 1 = (1 .. Len(s)) \union {Len(s) + 1}
  BY <1>1
<1> DEFINE u == Append(s, x)
           D == 1 .. Len(s)
           e == Len(s) + 1
<1>3. /\ DOMAIN u = D \union {e} /\ DOMAIN s = D
      /\ \A i \in D : u[i] = s[i]
      /\ u[e] = x
  BY <1>1, <1>2
<1> HIDE DEF u, D, e
<1>4. ToSet(u) = ToSet(s) \union {x}
  BY <1>3 DEF ToSet
<1> QED
  BY <1>1, <1>4 DEF u

LEMMA ConcatToSet ==
  ASSUME NEW S, NEW s \in Seq(S), NEW t \in Seq(S)
  PROVE  s \o t \in Seq(S) /\ ToSet(s \o t) = ToSet(s) \union ToSet(t)
<1> DEFINE m == Len(s)
           n == Len(t)
           u == s \o t
<1>1. /\ m \in Nat /\ n \in Nat
      /\ DOMAIN s = 1 .. m /\ DOMAIN t = 1 .. n
  BY LenProperties
<1>2. /\ u \in Seq(S)
      /\ Len(u) = m + n
      /\ \A i \in 1 .. m + n : u[i] = IF i <= m THEN s[i] ELSE t[i - m]
  BY ConcatProperties
<1>3. DOMAIN u = 1 .. m + n
  BY <1>2, LenProperties
<1> HIDE DEF m, n, u
<1>4. ToSet(u) \subseteq ToSet(s) \union ToSet(t)
  <2> SUFFICES ASSUME NEW i \in 1 .. m + n
               PROVE  u[i] \in ToSet(s) \union ToSet(t)
    BY <1>3 DEF ToSet
  <2>1. CASE i <= m
    <3>1. i \in 1 .. m /\ u[i] = s[i]
      BY <2>1, <1>1, <1>2
    <3> QED
      BY <3>1, <1>1 DEF ToSet
  <2>2. CASE ~(i <= m)
    <3>1. i - m \in 1 .. n /\ u[i] = t[i - m]
      BY <2>2, <1>1, <1>2
    <3> QED
      BY <3>1, <1>1 DEF ToSet
  <2> QED
    BY <2>1, <2>2
<1>5. ToSet(s) \subseteq ToSet(u)
  <2> SUFFICES ASSUME NEW i \in 1 .. m PROVE s[i] \in ToSet(u)
    BY <1>1 DEF ToSet
  <2>1. i \in 1 .. m + n /\ u[i] = s[i]
    BY <1>1, <1>2
  <2> QED
    BY <2>1, <1>3 DEF ToSet
<1>6. ToSet(t) \subseteq ToSet(u)
  <2> SUFFICES ASSUME NEW i \in 1 .. n PROVE t[i] \in ToSet(u)
    BY <1>1 DEF ToSet
  <2>1. i + m \in 1 .. m + n /\ u[i + m] = t[(i + m) - m] /\ (i + m) - m = i
    BY <1>1, <1>2
  <2> QED
    BY <2>1, <1>3 DEF ToSet
<1> QED
  BY <1>2, <1>4, <1>5, <1>6 DEF u

(* A response is with the model or in the queue, and adds nothing else.    *)
LEMMA RespondAdds ==
  ASSUME TypeOK, NEW c \in Call, NEW kind \in Kind, Respond(c, kind)
  PROVE  /\ answers' \in [Call -> Seq(Kind)]
         /\ queue' \in [Call -> Seq(Kind)]
         /\ \A d \in Call : Refused(d)' <=> Refused(d) \/ (d = c /\ kind = "refused")
<1>0. /\ answers \in [Call -> Seq(Kind)] /\ queue \in [Call -> Seq(Kind)]
      /\ answers[c] \in Seq(Kind) /\ queue[c] \in Seq(Kind)
  BY DEF TypeOK
<1>1. /\ Append(answers[c], kind) \in Seq(Kind)
      /\ ToSet(Append(answers[c], kind)) = ToSet(answers[c]) \union {kind}
      /\ Append(queue[c], kind) \in Seq(Kind)
      /\ ToSet(Append(queue[c], kind)) = ToSet(queue[c]) \union {kind}
  BY <1>0, AppendToSet
<1>2. CASE upstream = "open"
  <2>1. /\ answers' = [answers EXCEPT ![c] = Append(answers[c], kind)]
        /\ queue' = queue
    BY <1>2 DEF Respond
  <2>2. /\ answers' \in [Call -> Seq(Kind)]
        /\ \A d \in Call : answers'[d] = IF d = c THEN Append(answers[c], kind) ELSE answers[d]
    BY <1>0, <1>1, <2>1
  <2> QED
    BY <1>0, <1>1, <2>1, <2>2 DEF Refused
<1>3. CASE upstream # "open"
  <2>1. /\ queue' = [queue EXCEPT ![c] = Append(queue[c], kind)]
        /\ answers' = answers
    BY <1>3 DEF Respond
  <2>2. /\ queue' \in [Call -> Seq(Kind)]
        /\ \A d \in Call : queue'[d] = IF d = c THEN Append(queue[c], kind) ELSE queue[d]
    BY <1>0, <1>1, <2>1
  <2> QED
    BY <1>0, <1>1, <2>1, <2>2 DEF Refused
<1> QED
  BY <1>2, <1>3

(* Delivering the queue moves refusals but neither adds nor drops one.     *)
LEMMA ReconnectedKeeps ==
  ASSUME TypeOK, Reconnected
  PROVE  /\ answers' \in [Call -> Seq(Kind)]
         /\ queue' \in [Call -> Seq(Kind)]
         /\ \A d \in Call : Refused(d)' <=> Refused(d)
<1>1. /\ answers' = [c \in Call |-> answers[c] \o queue[c]]
      /\ queue' = [c \in Call |-> <<>>]
  BY DEF Reconnected
<1>2. \A c \in Call : answers[c] \in Seq(Kind) /\ queue[c] \in Seq(Kind)
  BY DEF TypeOK
<1>3. \A c \in Call : /\ answers[c] \o queue[c] \in Seq(Kind)
                      /\ ToSet(answers[c] \o queue[c]) = ToSet(answers[c]) \union ToSet(queue[c])
  BY <1>2, ConcatToSet
<1>4. <<>> \in Seq(Kind) /\ ToSet(<<>>) = {}
  BY EmptySeq DEF ToSet
<1> QED
  BY <1>1, <1>3, <1>4 DEF Refused

(* Pruning only ever drops approvals that have expired.                    *)
LEMMA PrunedDrops ==
  ASSUME TypeOK, NEW c
  PROVE  /\ Pruned(c) \in [Gated -> 0 .. MaxTime]
         /\ \A d \in Gated : Pruned(c)[d] = registry[d]
                             \/ (Pruned(c)[d] = Absent /\ registry[d] <= now)
BY TimeAssumption DEF TypeOK, Pruned, Absent

LEMMA GatedIsApart == Gated \intersect Allowed = {} /\ Gated \intersect Camera = {} /\ Launch \subseteq Gated
BY KindsAssumption DEF Gated

-----------------------------------------------------------------------------

THEOREM InitIInv == Init => IInv
<1> SUFFICES ASSUME Init PROVE IInv
  OBVIOUS
<1>1. TypeOK
  BY DirAssumption, TimeAssumption DEF Init, TypeOK, NoCard, Absent
<1>2. ASSUME NEW c \in Gated PROVE CallInv(c)
  BY DEF Init, CallInv, Refused, Asked, NoCard, ToSet, Call
<1> QED
  BY <1>1, <1>2 DEF IInv

(* A step that leaves the cards, the approvals, the executions and the     *)
(* refusals of gated calls alone keeps what the invariant says of them.    *)
LEMMA CardsUntouched ==
  ASSUME IInv,
         UNCHANGED <<now, card, registry, runs, yes>>,
         \A d \in Gated : /\ d \in pending' <=> d \in pending
                          /\ timer'[d] = timer[d]
                          /\ Refused(d)' <=> Refused(d)
  PROVE  \A d \in Gated : CallInv(d)'
BY DEF IInv, CallInv, Expiry, Asked

LEMMA RefusedStays ==
  ASSUME UNCHANGED <<answers, queue>>
  PROVE  \A d : Refused(d)' <=> Refused(d)
BY DEF Refused

(* Adding a directory to the executions of a call.                         *)
LEMMA RunAdds ==
  ASSUME TypeOK, NEW c \in Gated, NEW d \in Dir, runs' = [runs EXCEPT ![c] = Append(@, d)]
  PROVE  /\ runs' \in [Gated -> Seq(Dir)]
         /\ \A g \in Gated : g # c => runs'[g] = runs[g]
         /\ runs[c] = <<>> => Len(runs'[c]) = 1
<1>1. runs \in [Gated -> Seq(Dir)] /\ runs[c] \in Seq(Dir)
  BY DEF TypeOK
<1>2. /\ Append(runs[c], d) \in Seq(Dir)
      /\ Len(Append(runs[c], d)) = Len(runs[c]) + 1
  BY <1>1, AppendProperties
<1>3. runs[c] = <<>> => Len(runs[c]) = 0
  OBVIOUS
<1> QED
  BY <1>1, <1>2, <1>3

-----------------------------------------------------------------------------

LEMMA RequestApprovalStep ==
  ASSUME IInv, NEW c \in Gated, RequestApproval(c)
  PROVE  IInv'
<1> USE TimeAssumption, DirAssumption
<1>0. TypeOK /\ \A d \in Gated : CallInv(d)
  BY DEF IInv
<1>1. TypeOK'
  <2>1. registry' \in [Gated -> 0 .. MaxTime]
    <3>1. Pruned(c) \in [Gated -> 0 .. MaxTime]
      BY <1>0, PrunedDrops
    <3>2. now + ApprovalTime \in 0 .. MaxTime
      BY <1>0 DEF RequestApproval, TypeOK
    <3> QED
      BY <3>1, <3>2 DEF RequestApproval
  <2>2. timer' \in [Gated \union Camera -> 0 .. MaxTime]
    <3>1. now + ApprovalTime \in 0 .. MaxTime
      BY <1>0 DEF RequestApproval, TypeOK
    <3> QED
      BY <1>0, <3>1 DEF RequestApproval, TypeOK
  <2>3. card' \in [Gated -> [at : 0 .. MaxTime, dir : Dir \union {NoDir}]]
    BY <1>0 DEF RequestApproval, TypeOK
  <2> QED
    BY <1>0, <2>1, <2>2, <2>3 DEF RequestApproval, TypeOK
<1>2. ASSUME NEW d \in Gated PROVE CallInv(d)'
  <2>1. Refused(d)' <=> Refused(d)
    BY RefusedStays DEF RequestApproval
  <2>2. CASE d = c
    <3>1. /\ card'[c] = [at |-> now, dir |-> dir]
          /\ registry'[c] = now + ApprovalTime
          /\ timer'[c] = now + ApprovalTime
          /\ c \in pending' /\ runs' = runs
      BY <1>0, PrunedDrops DEF RequestApproval, TypeOK
    <3>2. runs[c] = <<>> /\ ~Refused(c)
      BY <1>0 DEF CallInv, RequestApproval
    <3>3. card'[c] # NoCard
      BY <3>1, <1>0 DEF NoCard, TypeOK
    <3> QED
      BY <1>0, <2>1, <2>2, <3>1, <3>2, <3>3 DEF CallInv, Expiry, Asked, TypeOK, Absent
  <2>3. CASE d # c
    <3>1. /\ card'[d] = card[d] /\ timer'[d] = timer[d] /\ registry'[d] = Pruned(c)[d]
          /\ d \in pending' <=> d \in pending
          /\ UNCHANGED <<now, runs, yes>>
      BY <1>0, <2>3, PrunedDrops DEF RequestApproval, TypeOK
    <3> QED
      BY <1>0, <2>1, <3>1, PrunedDrops DEF CallInv, Expiry, Asked, TypeOK, Absent
  <2> QED
    BY <2>2, <2>3
<1> QED
  BY <1>1, <1>2 DEF IInv

(* What a decision does to the cards other than its own.                   *)
LEMMA OthersPruned ==
  ASSUME IInv, NEW c \in Gated, NEW d \in Gated,
         registry'[d] = Pruned(c)[d],
         UNCHANGED <<now, card>>,
         timer'[d] = timer[d], runs'[d] = runs[d],
         d \in pending' <=> d \in pending,
         d \in yes => d \in yes',
         Refused(d)' <=> Refused(d)
  PROVE  CallInv(d)'
BY PrunedDrops DEF IInv, CallInv, Expiry, Asked, TypeOK, Absent

LEMMA ApproveStep ==
  ASSUME IInv, NEW c \in Gated, Approve(c)
  PROVE  IInv'
<1> USE TimeAssumption, DirAssumption
<1>0. TypeOK /\ \A d \in Gated : CallInv(d)
  BY DEF IInv
<1>1. /\ UNCHANGED <<now, card, answers, queue>>
      /\ yes' = yes \union {c}
      /\ \A d : Refused(d)' <=> Refused(d)
  BY RefusedStays DEF Approve
<1>2. CASE Pruned(c)[c] # Absent
  <2>1. /\ registry' = [Pruned(c) EXCEPT ![c] = Absent]
        /\ pending' = pending \ {c}
        /\ timer' = [timer EXCEPT ![c] = Absent]
        /\ running' = running \union {c}
        /\ runs' = [runs EXCEPT ![c] = Append(@, IF c \in Terminal THEN dir ELSE card[c].dir)]
    BY <1>2 DEF Approve, Settle
  <2>2. registry[c] # Absent
    BY <1>0, <1>2, PrunedDrops DEF TypeOK
  <2>3. c \in pending /\ runs[c] = <<>> /\ ~Refused(c) /\ Asked(c)
    BY <1>0, <2>2 DEF CallInv
  <2>4. card[c].dir \in Dir
    BY <1>0, <2>3 DEF CallInv
  <2>5. (IF c \in Terminal THEN dir ELSE card[c].dir) \in Dir
    BY <2>4, <1>0 DEF TypeOK
  <2>6. /\ runs' \in [Gated -> Seq(Dir)]
        /\ \A g \in Gated : g # c => runs'[g] = runs[g]
        /\ Len(runs'[c]) = 1
    BY <1>0, <2>1, <2>3, <2>5, RunAdds
  <2>7. TypeOK'
    <3>1. registry' \in [Gated -> 0 .. MaxTime]
      BY <1>0, <2>1, PrunedDrops DEF Absent
    <3> QED
      BY <1>0, <1>1, <2>1, <2>6, <3>1 DEF Approve, TypeOK, Absent
  <2>8. CallInv(c)'
    <3>1. registry'[c] = Absent /\ c \notin pending' /\ c \in yes'
      BY <1>0, <1>1, <2>1, PrunedDrops
    <3> QED
      BY <1>1, <2>3, <2>4, <2>6, <3>1 DEF CallInv, Asked
  <2>9. ASSUME NEW d \in Gated, d # c PROVE CallInv(d)'
    <3>1. /\ registry'[d] = Pruned(c)[d] /\ timer'[d] = timer[d] /\ runs'[d] = runs[d]
          /\ d \in pending' <=> d \in pending
          /\ d \in yes => d \in yes'
      BY <1>0, <1>1, <2>1, <2>6, <2>9, PrunedDrops DEF TypeOK
    <3> QED
      BY <1>1, <3>1, OthersPruned
  <2> QED
    BY <2>7, <2>8, <2>9 DEF IInv
<1>3. CASE Pruned(c)[c] = Absent
  <2>1. registry' = Pruned(c) /\ UNCHANGED <<pending, timer, running, runs>>
    BY <1>3 DEF Approve
  <2>2. TypeOK'
    <3>1. registry' \in [Gated -> 0 .. MaxTime]
      BY <1>0, <2>1, PrunedDrops
    <3> QED
      BY <1>0, <1>1, <2>1, <3>1 DEF Approve, TypeOK
  <2>3. ASSUME NEW d \in Gated PROVE CallInv(d)'
    BY <1>1, <2>1, OthersPruned
  <2> QED
    BY <2>2, <2>3 DEF IInv
<1> QED
  BY <1>2, <1>3

LEMMA RejectStep ==
  ASSUME IInv, NEW c \in Gated, Reject(c)
  PROVE  IInv'
<1> USE TimeAssumption
<1>0. TypeOK /\ \A d \in Gated : CallInv(d)
  BY DEF IInv
<1>1. UNCHANGED <<now, card, runs, yes>>
  BY DEF Reject
<1>2. CASE Pruned(c)[c] # Absent
  <2>1. /\ registry' = [Pruned(c) EXCEPT ![c] = Absent]
        /\ pending' = pending \ {c}
        /\ timer' = [timer EXCEPT ![c] = Absent]
        /\ Respond(c, "refused")
    BY <1>2 DEF Reject, Settle
  <2>2. c \in pending /\ runs[c] = <<>> /\ Asked(c) /\ card[c].dir \in Dir
    BY <1>0, <1>2, PrunedDrops DEF TypeOK, CallInv
  <2>3. /\ answers' \in [Call -> Seq(Kind)] /\ queue' \in [Call -> Seq(Kind)]
        /\ \A d \in Gated : d # c => (Refused(d)' <=> Refused(d))
    BY <1>0, <2>1, RespondAdds DEF Kind, Call
  <2>4. TypeOK'
    <3>1. registry' \in [Gated -> 0 .. MaxTime]
      BY <1>0, <2>1, PrunedDrops DEF Absent
    <3> QED
      BY <1>0, <2>1, <2>3, <3>1 DEF Reject, TypeOK, Absent
  <2>5. CallInv(c)'
    <3>1. registry'[c] = Absent /\ c \notin pending'
      BY <1>0, <2>1, PrunedDrops
    <3>2. runs'[c] = <<>> /\ Len(runs'[c]) = 0 /\ Asked(c)' /\ card'[c].dir \in Dir
      BY <1>1, <2>2 DEF Asked
    <3> QED
      BY <3>1, <3>2 DEF CallInv
  <2>6. ASSUME NEW d \in Gated, d # c PROVE CallInv(d)'
    <3>1. /\ registry'[d] = Pruned(c)[d] /\ timer'[d] = timer[d]
          /\ d \in pending' <=> d \in pending
      BY <1>0, <2>1, <2>6, PrunedDrops DEF TypeOK
    <3> QED
      BY <1>1, <2>3, <2>6, <3>1, OthersPruned
  <2> QED
    BY <2>4, <2>5, <2>6 DEF IInv
<1>3. CASE Pruned(c)[c] = Absent
  <2>1. registry' = Pruned(c) /\ UNCHANGED <<pending, timer, answers, queue>>
    BY <1>3 DEF Reject, Silent
  <2>2. TypeOK'
    <3>1. registry' \in [Gated -> 0 .. MaxTime]
      BY <1>0, <2>1, PrunedDrops
    <3> QED
      BY <1>0, <2>1, <3>1 DEF Reject, TypeOK
  <2>3. ASSUME NEW d \in Gated PROVE CallInv(d)'
    BY <1>1, <2>1, OthersPruned, RefusedStays
  <2> QED
    BY <2>2, <2>3 DEF IInv
<1> QED
  BY <1>2, <1>3

LEMMA CardTimesOutStep ==
  ASSUME IInv, NEW c \in Gated, CardTimesOut(c)
  PROVE  IInv'
<1> USE TimeAssumption
<1>0. TypeOK /\ \A d \in Gated : CallInv(d)
  BY DEF IInv
<1>1. UNCHANGED <<now, card, runs, yes>> /\ timer' = [timer EXCEPT ![c] = Absent]
  BY DEF CardTimesOut
<1>2. CASE registry[c] # Absent
  <2>1. /\ registry' = [registry EXCEPT ![c] = Absent]
        /\ pending' = pending \ {c}
        /\ Respond(c, "refused")
    BY <1>2 DEF CardTimesOut
  <2>2. c \in pending /\ runs[c] = <<>> /\ Asked(c) /\ card[c].dir \in Dir
    BY <1>0, <1>2 DEF CallInv
  <2>3. /\ answers' \in [Call -> Seq(Kind)] /\ queue' \in [Call -> Seq(Kind)]
        /\ \A d \in Gated : d # c => (Refused(d)' <=> Refused(d))
    BY <1>0, <2>1, RespondAdds DEF Kind, Call
  <2>4. TypeOK'
    <3>1. registry' \in [Gated -> 0 .. MaxTime] /\ timer' \in [Gated \union Camera -> 0 .. MaxTime]
      BY <1>0, <1>1, <2>1 DEF TypeOK, Absent
    <3>2. UNCHANGED <<now, card, running, lines, exited, asked, replied, upstream, goAways, runs, yes, dir>>
      BY DEF CardTimesOut
    <3> QED
      BY <1>0, <2>1, <2>3, <3>1, <3>2 DEF TypeOK
  <2>5. CallInv(c)'
    <3>1. registry'[c] = Absent /\ c \notin pending'
      BY <1>0, <2>1 DEF TypeOK
    <3>2. runs'[c] = <<>> /\ Len(runs'[c]) = 0 /\ Asked(c)' /\ card'[c].dir \in Dir
      BY <1>1, <2>2 DEF Asked
    <3> QED
      BY <3>1, <3>2 DEF CallInv
  <2>6. ASSUME NEW d \in Gated, d # c PROVE CallInv(d)'
    <3>1. /\ registry'[d] = registry[d] /\ timer'[d] = timer[d]
          /\ d \in pending' <=> d \in pending
      BY <1>0, <1>1, <2>1, <2>6 DEF TypeOK
    <3> QED
      BY <1>0, <1>1, <2>3, <2>6, <3>1 DEF CallInv, Expiry, Asked
  <2> QED
    BY <2>4, <2>5, <2>6 DEF IInv
<1>3. CASE registry[c] = Absent
  <2>1. UNCHANGED <<registry, pending, answers, queue>>
    BY <1>3 DEF CardTimesOut, Silent
  <2>2. TypeOK'
    BY <1>0, <2>1 DEF CardTimesOut, TypeOK, Absent
  <2>3. ASSUME NEW d \in Gated PROVE CallInv(d)'
    <3>1. Refused(d)' <=> Refused(d)
      BY <2>1, RefusedStays
    <3>2. registry[d] # Absent => timer'[d] = timer[d]
      BY <1>0, <1>1, <1>3 DEF TypeOK
    <3> QED
      BY <1>0, <1>1, <2>1, <3>1, <3>2 DEF CallInv, Expiry, Asked
  <2> QED
    BY <2>2, <2>3 DEF IInv
<1> QED
  BY <1>2, <1>3

-----------------------------------------------------------------------------

(* The actions that answer a call without touching any card.               *)
LEMMA AnswerStep ==
  ASSUME IInv, NEW c \in Call, NEW kind \in Kind \ {"refused"}, Respond(c, kind),
         UNCHANGED <<now, card, registry, runs, yes>>,
         \A d \in Gated : (d \in pending' <=> d \in pending) /\ timer'[d] = timer[d]
  PROVE  /\ answers' \in [Call -> Seq(Kind)]
         /\ queue' \in [Call -> Seq(Kind)]
         /\ \A d \in Gated : CallInv(d)'
<1>1. TypeOK
  BY DEF IInv
<1>2. /\ answers' \in [Call -> Seq(Kind)]
      /\ queue' \in [Call -> Seq(Kind)]
      /\ \A d \in Call : Refused(d)' <=> Refused(d)
  BY <1>1, RespondAdds
<1> QED
  BY <1>2, CardsUntouched DEF Call

LEMMA ExecutionStep ==
  ASSUME IInv,
         \/ \E c \in Allowed : RunAllowed(c)
         \/ \E c \in Gated \union Allowed : Completes(c)
         \/ \E c \in Launch : ChildWrites(c) \/ ChildExits(c) \/ ChildCloses(c)
  PROVE  IInv'
<1> USE GatedIsApart
<1>0. TypeOK
  BY DEF IInv
<1>1. ASSUME NEW c \in Allowed, RunAllowed(c) PROVE IInv'
  <2>1. TypeOK'
    BY <1>0, <1>1 DEF RunAllowed, TypeOK
  <2> QED
    BY <1>1, <2>1, CardsUntouched, RefusedStays DEF RunAllowed, IInv
<1>2. ASSUME NEW c \in Gated \union Allowed, Completes(c) PROVE IInv'
  <2>1. /\ answers' \in [Call -> Seq(Kind)]
        /\ queue' \in [Call -> Seq(Kind)]
        /\ \A d \in Gated : CallInv(d)'
    BY <1>2, AnswerStep DEF Completes, Call, Kind
  <2>2. TypeOK'
    BY <1>0, <1>2, <2>1 DEF Completes, TypeOK
  <2> QED
    BY <2>1, <2>2 DEF IInv
<1>3. ASSUME NEW c \in Launch, ChildWrites(c) PROVE IInv'
  <2>1. /\ answers' \in [Call -> Seq(Kind)]
        /\ queue' \in [Call -> Seq(Kind)]
        /\ \A d \in Gated : CallInv(d)'
    BY <1>3, AnswerStep DEF ChildWrites, Call, Kind
  <2>2. TypeOK'
    <3>1. lines' \in [Launch -> 0 .. MaxLines]
      BY <1>0, <1>3, TimeAssumption DEF ChildWrites, TypeOK
    <3>2. UNCHANGED <<now, card, registry, pending, timer, running, exited, asked, replied,
                      upstream, goAways, runs, yes, dir>>
      BY <1>3 DEF ChildWrites
    <3> QED
      BY <1>0, <2>1, <3>1, <3>2 DEF TypeOK
  <2> QED
    BY <2>1, <2>2 DEF IInv
<1>4. ASSUME NEW c \in Launch, ChildExits(c) PROVE IInv'
  <2>1. /\ answers' \in [Call -> Seq(Kind)]
        /\ queue' \in [Call -> Seq(Kind)]
        /\ \A d \in Gated : CallInv(d)'
    BY <1>4, AnswerStep DEF ChildExits, Call, Kind
  <2>2. TypeOK'
    BY <1>0, <1>4, <2>1 DEF ChildExits, TypeOK
  <2> QED
    BY <2>1, <2>2 DEF IInv
<1>5. ASSUME NEW c \in Launch, ChildCloses(c) PROVE IInv'
  <2>1. TypeOK'
    BY <1>0, <1>5 DEF ChildCloses, TypeOK
  <2> QED
    BY <1>5, <2>1, CardsUntouched, RefusedStays DEF ChildCloses, IInv
<1> QED
  BY <1>1, <1>2, <1>3, <1>4, <1>5

LEMMA CameraStep ==
  ASSUME IInv, NEW c \in Camera,
         \/ RequestCameraSnapshot(c) \/ CameraTimesOut(c)
         \/ \E empty \in BOOLEAN : ClientFrame(c, empty)
  PROVE  IInv'
<1> USE GatedIsApart, TimeAssumption
<1>0. TypeOK /\ c \notin Gated /\ c \in Call
  BY DEF IInv, Call
<1>1. CASE RequestCameraSnapshot(c)
  <2>1. TypeOK'
    BY <1>0, <1>1 DEF RequestCameraSnapshot, TypeOK
  <2>2. \A d \in Gated : (d \in pending' <=> d \in pending) /\ timer'[d] = timer[d]
    BY <1>0, <1>1 DEF RequestCameraSnapshot, TypeOK
  <2> QED
    BY <1>1, <2>1, <2>2, CardsUntouched, RefusedStays DEF RequestCameraSnapshot, IInv
<1>2. CASE CameraTimesOut(c)
  <2>1. \A d \in Gated : (d \in pending' <=> d \in pending) /\ timer'[d] = timer[d]
    BY <1>0, <1>2 DEF CameraTimesOut, TypeOK
  <2>2. /\ answers' \in [Call -> Seq(Kind)]
        /\ queue' \in [Call -> Seq(Kind)]
        /\ \A d \in Gated : CallInv(d)'
    BY <1>0, <1>2, <2>1, AnswerStep DEF CameraTimesOut, Kind
  <2>3. TypeOK'
    BY <1>0, <1>2, <2>2 DEF CameraTimesOut, TypeOK, Absent
  <2> QED
    BY <2>2, <2>3 DEF IInv
<1>3. ASSUME NEW empty \in BOOLEAN, ClientFrame(c, empty) PROVE IInv'
  <2>1. \A d \in Gated : (d \in pending' <=> d \in pending) /\ timer'[d] = timer[d]
    BY <1>0, <1>3 DEF ClientFrame, TypeOK
  <2>2. CASE empty \/ c \in pending
    <3>1. Respond(c, "result")
      BY <1>3, <2>2 DEF ClientFrame
    <3>2. /\ answers' \in [Call -> Seq(Kind)]
          /\ queue' \in [Call -> Seq(Kind)]
          /\ \A d \in Gated : CallInv(d)'
      BY <1>0, <1>3, <2>1, <3>1, AnswerStep DEF ClientFrame, Kind
    <3>3. TypeOK'
      BY <1>0, <1>3, <3>2 DEF ClientFrame, TypeOK, Absent
    <3> QED
      BY <3>2, <3>3 DEF IInv
  <2>3. CASE ~(empty \/ c \in pending)
    <3>1. UNCHANGED <<answers, queue>>
      BY <1>3, <2>3 DEF ClientFrame, Silent
    <3>2. TypeOK'
      BY <1>0, <1>3, <3>1 DEF ClientFrame, TypeOK, Absent
    <3> QED
      BY <1>3, <2>1, <3>1, <3>2, CardsUntouched, RefusedStays DEF ClientFrame, IInv
  <2> QED
    BY <2>2, <2>3
<1> QED
  BY <1>1, <1>2, <1>3

LEMMA SessionStep ==
  ASSUME IInv,
         (\E d \in Dir : SwitchSession(d)) \/ GoAway \/ Reconnected \/ SessionEnds
  PROVE  IInv'
<1>0. TypeOK
  BY DEF IInv
<1>1. ASSUME NEW d \in Dir, SwitchSession(d) PROVE IInv'
  <2>1. TypeOK'
    BY <1>0, <1>1 DEF SwitchSession, TypeOK
  <2> QED
    BY <1>1, <2>1, CardsUntouched, RefusedStays DEF SwitchSession, IInv
<1>2. CASE GoAway
  <2>1. TypeOK'
    BY <1>0, <1>2, TimeAssumption DEF GoAway, TypeOK
  <2> QED
    BY <1>2, <2>1, CardsUntouched, RefusedStays DEF GoAway, IInv
<1>3. CASE Reconnected
  <2>1. /\ answers' \in [Call -> Seq(Kind)]
        /\ queue' \in [Call -> Seq(Kind)]
        /\ \A c \in Gated : Refused(c)' <=> Refused(c)
    BY <1>0, <1>3, ReconnectedKeeps DEF Call
  <2>2. TypeOK'
    BY <1>0, <1>3, <2>1 DEF Reconnected, TypeOK
  <2> QED
    BY <1>3, <2>1, <2>2, CardsUntouched DEF Reconnected, IInv
<1>4. CASE SessionEnds
  <2>1. TypeOK'
    BY <1>0, <1>4 DEF SessionEnds, TypeOK
  <2> QED
    BY <1>4, <2>1, CardsUntouched, RefusedStays DEF SessionEnds, IInv
<1> QED
  BY <1>1, <1>2, <1>3, <1>4

LEMMA TickStep ==
  ASSUME IInv, Tick
  PROVE  IInv'
<1> USE TimeAssumption
<1>1. TypeOK'
  BY DEF IInv, Tick, TypeOK
<1>2. ASSUME NEW d \in Gated PROVE CallInv(d)'
  <2>1. now \in 0 .. MaxTime /\ now' = now + 1 /\ Expiry(d) \in Nat /\ Expiry(d)' = Expiry(d)
    BY DEF IInv, Tick, TypeOK, Expiry
  <2>2. Refused(d)' <=> Refused(d)
    BY RefusedStays DEF Tick
  <2> QED
    BY <2>1, <2>2 DEF IInv, Tick, CallInv, Asked
<1> QED
  BY <1>1, <1>2 DEF IInv

-----------------------------------------------------------------------------

THEOREM NextIInv == IInv /\ [Next]_vars => IInv'
<1> SUFFICES ASSUME IInv, [Next]_vars PROVE IInv'
  OBVIOUS
<1>1. ASSUME NEW c \in Gated,
             RequestApproval(c) \/ Approve(c) \/ Reject(c) \/ CardTimesOut(c)
      PROVE  IInv'
  BY <1>1, RequestApprovalStep, ApproveStep, RejectStep, CardTimesOutStep
<1>2. CASE UNCHANGED vars
  <2>1. TypeOK'
    BY <1>2 DEF IInv, TypeOK, vars
  <2> QED
    BY <1>2, <2>1, CardsUntouched, RefusedStays DEF IInv, vars
<1> QED
  BY <1>1, <1>2, ExecutionStep, CameraStep, SessionStep, TickStep DEF Next

(* A gated call runs only when the operator approved it, at most once, and *)
(* not when the model was told that it was refused (resolveTerminalApproval *)
(* and resolveCommandApproval).                                            *)
THEOREM OneVerdictAlways == Spec => []OneVerdict
<1>1. IInv => OneVerdict
  BY DEF IInv, CallInv, OneVerdict
<1> QED
  BY <1>1, InitIInv, NextIInv, PTL DEF Spec

(* Every approval that can be decided has its call waiting and its timer   *)
(* armed (the registries, the pending maps and the timers).                *)
THEOREM CardsBackedAlways == Spec => []CardsBacked
<1>1. IInv => CardsBacked
  BY DEF IInv, CallInv, CardsBacked
<1> QED
  BY <1>1, InitIInv, NextIInv, PTL DEF Spec

(* No step executes a call whose card has expired (pruneExpired).          *)
THEOREM RunsBeforeExpiryAlways == Spec => RunsBeforeExpiry
<1>1. ASSUME IInv, [Next]_vars, NEW c \in Gated, runs'[c] # runs[c]
      PROVE  now < Expiry(c)
  <2>0. TypeOK /\ \A d \in Gated : CallInv(d)
    BY <1>1 DEF IInv
  <2>1. PICK d \in Gated : Approve(d) /\ Pruned(d)[d] # Absent
                           /\ runs' = [runs EXCEPT ![d] = Append(@, IF d \in Terminal THEN dir ELSE card[d].dir)]
    BY <1>1 DEF Next, vars, RequestApproval, Approve, Reject, CardTimesOut, RunAllowed, Completes,
       ChildWrites, ChildExits, ChildCloses, RequestCameraSnapshot, CameraTimesOut, ClientFrame,
       SwitchSession, GoAway, Reconnected, SessionEnds, Tick
  <2>2. d = c
    BY <1>1, <2>0, <2>1 DEF TypeOK
  <2>3. registry[c] # Absent /\ ~(registry[c] <= now)
    BY <2>0, <2>1, <2>2 DEF Pruned, SameRegistry, TypeOK, Gated
  <2>4. registry[c] = Expiry(c) /\ registry[c] \in Nat /\ now \in Nat
    BY <2>0, <2>3, TimeAssumption DEF CallInv, TypeOK
  <2> QED
    BY <2>3, <2>4
<1>2. IInv /\ [Next]_vars => [\A c \in Gated : runs'[c] # runs[c] => now < Expiry(c)]_vars
  BY <1>1
<1> QED
  BY <1>2, InitIInv, NextIInv, PTL DEF Spec, RunsBeforeExpiry

-----------------------------------------------------------------------------
(* The refinement of ApprovalGate.  It counts the answers of a call, so it *)
(* rests on how FinalsIn counts.                                           *)

LEMMA DisjointCardinality ==
  ASSUME NEW S, NEW T, IsFiniteSet(S), IsFiniteSet(T), S \intersect T = {}
  PROVE  Cardinality(S \union T) = Cardinality(S) + Cardinality(T)
<1> DEFINE m == Cardinality(S)
           n == Cardinality(T)
<1>1. m \in Nat /\ n \in Nat
  BY FS_CardinalityType
<1>2. PICK f \in Bijection(1 .. m, S) : TRUE
  BY FS_CardinalityType, Fun_ExistsBij
<1>3. PICK g \in Bijection(1 .. n, T) : TRUE
  BY FS_CardinalityType, Fun_ExistsBij
<1> HIDE DEF m, n
<1>4. /\ f \in [1 .. m -> S] /\ \A i, j \in 1 .. m : f[i] = f[j] => i = j
      /\ \A x \in S : \E i \in 1 .. m : f[i] = x
  BY <1>2 DEF Bijection, Injection, Surjection, IsInjective
<1>5. /\ g \in [1 .. n -> T] /\ \A i, j \in 1 .. n : g[i] = g[j] => i = j
      /\ \A x \in T : \E i \in 1 .. n : g[i] = x
  BY <1>3 DEF Bijection, Injection, Surjection, IsInjective
<1> DEFINE h == [i \in 1 .. m + n |-> IF i <= m THEN f[i] ELSE g[i - m]]
<1>6. h \in [1 .. m + n -> S \union T]
  BY <1>1, <1>4, <1>5
<1>7. ASSUME NEW i \in 1 .. m + n, NEW j \in 1 .. m + n, h[i] = h[j] PROVE i = j
  <2>1. i <= m => i \in 1 .. m /\ h[i] = f[i] /\ h[i] \in S
    BY <1>1, <1>4
  <2>2. j <= m => j \in 1 .. m /\ h[j] = f[j] /\ h[j] \in S
    BY <1>1, <1>4
  <2>3. ~(i <= m) => i - m \in 1 .. n /\ h[i] = g[i - m] /\ h[i] \in T
    BY <1>1, <1>5
  <2>4. ~(j <= m) => j - m \in 1 .. n /\ h[j] = g[j - m] /\ h[j] \in T
    BY <1>1, <1>5
  <2>5. CASE i <= m /\ j <= m
    BY <2>1, <2>2, <2>5, <1>4, <1>7
  <2>6. CASE ~(i <= m) /\ ~(j <= m)
    <3>1. i - m = j - m
      BY <2>3, <2>4, <2>6, <1>5, <1>7
    <3> QED
      BY <3>1, <1>1
  <2> QED
    BY <2>1, <2>2, <2>3, <2>4, <2>5, <2>6, <1>7
<1>8. ASSUME NEW x \in S \union T PROVE \E i \in 1 .. m + n : h[i] = x
  <2>1. CASE x \in S
    <3>1. PICK i \in 1 .. m : f[i] = x
      BY <2>1, <1>4
    <3>2. i \in 1 .. m + n /\ h[i] = x
      BY <3>1, <1>1
    <3> QED
      BY <3>2
  <2>2. CASE x \in T
    <3>1. PICK i \in 1 .. n : g[i] = x
      BY <2>2, <1>5
    <3>2. i + m \in 1 .. m + n /\ ~(i + m <= m) /\ (i + m) - m = i
      BY <3>1, <1>1
    <3>3. h[i + m] = x
      BY <3>1, <3>2
    <3> QED
      BY <3>2, <3>3
  <2> QED
    BY <2>1, <2>2
<1>9. h \in Bijection(1 .. m + n, S \union T)
  BY <1>6, <1>7, <1>8, Fun_IsBij
<1> HIDE DEF h
<1> QED
  BY <1>1, <1>9, Fun_ExistsBij, FS_CountingElements DEF m, n

LEMMA FinalsInType ==
  ASSUME NEW S, NEW s \in Seq(S)
  PROVE  IsFiniteSet({i \in DOMAIN s : s[i] # "progress"}) /\ FinalsIn(s) \in Nat
<1>1. IsFiniteSet(DOMAIN s)
  BY LenProperties, FS_Interval
<1> QED
  BY <1>1, FS_Subset, FS_CardinalityType DEF FinalsIn

(* A response counts unless it is a narrated line.                         *)
LEMMA AppendFinals ==
  ASSUME NEW S, NEW s \in Seq(S), NEW x \in S
  PROVE  FinalsIn(Append(s, x)) = IF x = "progress" THEN FinalsIn(s) ELSE FinalsIn(s) + 1
<1> DEFINE n == Len(s)
           K == {i \in DOMAIN s : s[i] # "progress"}
           L == {i \in DOMAIN Append(s, x) : Append(s, x)[i] # "progress"}
<1>1. /\ n \in Nat
      /\ DOMAIN s = 1 .. n
      /\ DOMAIN Append(s, x) = 1 .. n + 1
      /\ \A i \in 1 .. n : Append(s, x)[i] = s[i]
      /\ Append(s, x)[n + 1] = x
  BY AppendProperties, LenProperties
<1>2. IsFiniteSet(K) /\ n + 1 \notin K
  BY <1>1, FinalsInType
<1>3. L = IF x = "progress" THEN K ELSE K \union {n + 1}
  BY <1>1
<1> HIDE DEF n, K, L
<1>4. Cardinality(K \union {n + 1}) = Cardinality(K) + 1
  BY <1>2, FS_AddElement
<1> QED
  BY <1>3, <1>4 DEF FinalsIn, K, L

LEMMA ConcatFinals ==
  ASSUME NEW S, NEW s \in Seq(S), NEW t \in Seq(S)
  PROVE  FinalsIn(s \o t) = FinalsIn(s) + FinalsIn(t)
<1> DEFINE m == Len(s)
           n == Len(t)
           u == s \o t
           K == {i \in 1 .. m : s[i] # "progress"}
           L == {i \in 1 .. n : t[i] # "progress"}
           M == {i \in m + 1 .. m + n : t[i - m] # "progress"}
<1>1. /\ m \in Nat /\ n \in Nat
      /\ DOMAIN s = 1 .. m /\ DOMAIN t = 1 .. n
  BY LenProperties
<1>2. /\ DOMAIN u = 1 .. m + n
      /\ \A i \in 1 .. m + n : u[i] = IF i <= m THEN s[i] ELSE t[i - m]
  BY ConcatProperties, LenProperties
<1>3. IsFiniteSet(K) /\ IsFiniteSet(L)
  BY <1>1, FinalsInType
<1>4. IsFiniteSet(M) /\ Cardinality(M) = Cardinality(L)
  <2> DEFINE h == [i \in L |-> i + m]
  <2>1. h \in [L -> M] /\ \A i, j \in L : h[i] = h[j] => i = j
    BY <1>1
  <2>2. ASSUME NEW k \in M PROVE \E i \in L : h[i] = k
    <3>1. k - m \in L /\ h[k - m] = k
      BY <1>1
    <3> QED
      BY <3>1
  <2>3. ExistsBijection(L, M)
    <3> HIDE DEF h, L, M
    <3> QED
      BY <2>1, <2>2, Fun_IsBij, Fun_ExistsBij
  <2> QED
    BY <1>3, <2>3, FS_Bijection
<1>5. {i \in DOMAIN u : u[i] # "progress"} = K \union M /\ K \intersect M = {}
  BY <1>1, <1>2
<1> HIDE DEF K, L, M, u
<1>6. Cardinality(K \union M) = Cardinality(K) + Cardinality(L)
  BY <1>3, <1>4, <1>5, DisjointCardinality
<1> QED
  BY <1>1, <1>5, <1>6 DEF FinalsIn, K, L, u

-----------------------------------------------------------------------------

(* What the refinement needs of one gated call besides CallInv: one answer *)
(* at most, none while the call waits or executes, and an execution only   *)
(* of what was run.                                                        *)
GateInv(c) ==
  /\ Finals(c) <= 1
  /\ c \in pending => Finals(c) = 0
  /\ c \in running \ exited => Finals(c) = 0
  /\ c \in running \union exited => runs[c] # <<>>
  /\ ~Asked(c) => Finals(c) = 0

GInv == \A c \in Gated : GateInv(c)

LEMMA FinalsType ==
  ASSUME TypeOK, NEW c \in Call
  PROVE  Finals(c) \in Nat
<1>1. answers[c] \in Seq(Kind) /\ queue[c] \in Seq(Kind)
  BY DEF TypeOK
<1>2. FinalsIn(answers[c]) \in Nat /\ FinalsIn(queue[c]) \in Nat
  BY <1>1, FinalsInType
<1> QED
  BY <1>2 DEF Finals

LEMMA RespondCounts ==
  ASSUME TypeOK, NEW c \in Call, NEW kind \in Kind, Respond(c, kind), NEW d \in Call
  PROVE  Finals(d)' = IF d = c /\ kind # "progress" THEN Finals(d) + 1 ELSE Finals(d)
<1>1. /\ answers \in [Call -> Seq(Kind)] /\ queue \in [Call -> Seq(Kind)]
      /\ answers[d] \in Seq(Kind) /\ queue[d] \in Seq(Kind)
  BY DEF TypeOK
<1>2. FinalsIn(answers[d]) \in Nat /\ FinalsIn(queue[d]) \in Nat
  BY <1>1, FinalsInType
<1>3. /\ FinalsIn(Append(answers[d], kind))
           = IF kind = "progress" THEN FinalsIn(answers[d]) ELSE FinalsIn(answers[d]) + 1
      /\ FinalsIn(Append(queue[d], kind))
           = IF kind = "progress" THEN FinalsIn(queue[d]) ELSE FinalsIn(queue[d]) + 1
  BY <1>1, AppendFinals
<1>4. CASE upstream = "open"
  <2>1. queue'[d] = queue[d] /\ answers'[d] = IF d = c THEN Append(answers[d], kind) ELSE answers[d]
    BY <1>1, <1>4 DEF Respond
  <2> QED
    BY <1>2, <1>3, <2>1 DEF Finals
<1>5. CASE upstream # "open"
  <2>1. answers'[d] = answers[d] /\ queue'[d] = IF d = c THEN Append(queue[d], kind) ELSE queue[d]
    BY <1>1, <1>5 DEF Respond
  <2> QED
    BY <1>2, <1>3, <2>1 DEF Finals
<1> QED
  BY <1>4, <1>5

LEMMA ReconnectedCounts ==
  ASSUME TypeOK, Reconnected, NEW d \in Call
  PROVE  Finals(d)' = Finals(d)
<1>1. answers[d] \in Seq(Kind) /\ queue[d] \in Seq(Kind)
  BY DEF TypeOK
<1>2. answers'[d] = answers[d] \o queue[d] /\ queue'[d] = <<>>
  BY DEF Reconnected
<1>3. FinalsIn(<<>>) = 0
  BY FS_EmptySet DEF FinalsIn
<1>4. FinalsIn(answers[d] \o queue[d]) \in Nat
  BY <1>1, ConcatProperties, FinalsInType
<1> QED
  BY <1>1, <1>2, <1>3, <1>4, ConcatFinals DEF Finals

(* A call that a step leaves alone stays where it is.                      *)
LEMMA GateKept ==
  ASSUME NEW d, GateInv(d), Finals(d)' = Finals(d), Asked(d)' <=> Asked(d), runs'[d] = runs[d],
         d \in pending' => d \in pending,
         d \in running' \ exited' => d \in running \ exited,
         d \in running' \union exited' => d \in running \union exited
  PROVE  GateInv(d)' /\ Stage(d)' = Stage(d)
BY DEF GateInv, Stage

LEMMA GateStutters ==
  ASSUME \A d \in Gated : Stage(d)' = Stage(d) /\ runs'[d] = runs[d] /\ Finals(d)' = Finals(d)
  PROVE  UNCHANGED Gate!vars
BY DEF Gate!vars

(* One call moves on: it is asked about, executed or answered.             *)
LEMMA GateMoves ==
  ASSUME NEW c \in Gated,
         \A d \in Gated : d # c =>
           Stage(d)' = Stage(d) /\ runs'[d] = runs[d] /\ Finals(d)' = Finals(d),
         \/ /\ Stage(c) = "idle" /\ Stage(c)' = "asked"
            /\ runs'[c] = runs[c] /\ Finals(c)' = Finals(c)
         \/ /\ Stage(c) = "asked" /\ Stage(c)' = "executing"
            /\ Len(runs'[c]) = Len(runs[c]) + 1 /\ Finals(c)' = Finals(c)
         \/ /\ Stage(c) \in {"asked", "executing"} /\ Stage(c)' = "answered"
            /\ runs'[c] = runs[c] /\ Finals(c)' = Finals(c) + 1
  PROVE  Gate!Next
BY DEF Gate!Next, Gate!Ask, Gate!Execute, Gate!Answer

-----------------------------------------------------------------------------

LEMMA InitGate ==
  ASSUME Init
  PROVE  GInv /\ Gate!Init
<1>1. FinalsIn(<<>>) = 0
  BY FS_EmptySet DEF FinalsIn
<1>2. \A c \in Gated : answers[c] = <<>> /\ queue[c] = <<>> /\ runs[c] = <<>> /\ ~Asked(c)
  BY DEF Init, Call, Asked
<1>3. \A c \in Gated : Finals(c) = 0 /\ Stage(c) = "idle"
  BY <1>1, <1>2 DEF Finals, Stage
<1> QED
  BY <1>2, <1>3 DEF Init, GInv, GateInv, Gate!Init

(* A step that answers no gated call and runs none stutters at the gate.   *)
LEMMA GateUntouched ==
  ASSUME GInv,
         \A d \in Gated :
           /\ Finals(d)' = Finals(d) /\ (Asked(d)' <=> Asked(d)) /\ runs'[d] = runs[d]
           /\ d \in pending' => d \in pending
           /\ d \in running' \ exited' => d \in running \ exited
           /\ d \in running' \union exited' => d \in running \union exited
  PROVE  GInv' /\ UNCHANGED Gate!vars
<1>1. \A d \in Gated : GateInv(d)' /\ Stage(d)' = Stage(d)
  BY GateKept DEF GInv
<1> QED
  BY <1>1, GateStutters DEF GInv

LEMMA SilentCounts ==
  ASSUME UNCHANGED <<answers, queue>>
  PROVE  \A d : Finals(d)' = Finals(d)
BY DEF Finals

LEMMA GateRequestApproval ==
  ASSUME IInv, GInv, NEW c \in Gated, RequestApproval(c)
  PROVE  GInv' /\ Gate!Next
<1>0. TypeOK /\ CallInv(c) /\ GateInv(c)
  BY DEF IInv, GInv
<1>1. \A d : Finals(d)' = Finals(d)
  BY SilentCounts DEF RequestApproval
<1>2. ~Asked(c) /\ Asked(c)' /\ \A d \in Gated : d # c => (Asked(d)' <=> Asked(d))
  BY <1>0, DirAssumption DEF RequestApproval, Asked, NoCard, TypeOK
<1>3. /\ UNCHANGED <<runs, running, exited>>
      /\ \A d \in Gated : d # c => (d \in pending' <=> d \in pending)
  BY DEF RequestApproval
<1>4. runs[c] = <<>> /\ Finals(c) = 0
  BY <1>0, <1>2 DEF CallInv, GateInv
<1>5. GateInv(c)' /\ Stage(c) = "idle" /\ Stage(c)' = "asked"
  BY <1>0, <1>1, <1>2, <1>3, <1>4 DEF GateInv, Stage
<1>6. \A d \in Gated : d # c => GateInv(d)' /\ Stage(d)' = Stage(d)
  BY <1>1, <1>2, <1>3, GateKept DEF GInv
<1> QED
  BY <1>1, <1>3, <1>5, <1>6, GateMoves DEF GInv

LEMMA GateApprove ==
  ASSUME IInv, GInv, NEW c \in Gated, Approve(c)
  PROVE  GInv' /\ [Gate!Next]_(Gate!vars)
<1>0. TypeOK /\ CallInv(c) /\ GateInv(c)
  BY DEF IInv, GInv
<1>1. /\ \A d : Finals(d)' = Finals(d)
      /\ \A d \in Gated : Asked(d)' <=> Asked(d)
      /\ exited' = exited
  BY SilentCounts DEF Approve, Asked
<1>2. CASE Pruned(c)[c] # Absent
  <2>1. /\ pending' = pending \ {c}
        /\ running' = running \union {c}
        /\ runs' = [runs EXCEPT ![c] = Append(@, IF c \in Terminal THEN dir ELSE card[c].dir)]
    BY <1>2 DEF Approve, Settle
  <2>2. c \in pending /\ runs[c] = <<>> /\ Asked(c) /\ card[c].dir \in Dir
    BY <1>0, <1>2, PrunedDrops DEF TypeOK, CallInv
  <2>3. (IF c \in Terminal THEN dir ELSE card[c].dir) \in Dir
    BY <1>0, <2>2 DEF TypeOK
  <2>4. (\A d \in Gated : d # c => runs'[d] = runs[d]) /\ Len(runs'[c]) = 1
    BY <1>0, <2>1, <2>2, <2>3, RunAdds
  <2>5. runs'[c] # <<>> /\ Len(runs[c]) = 0
    BY <2>2, <2>4
  <2>6. Finals(c) = 0
    BY <1>0, <2>2 DEF GateInv
  <2>7. GateInv(c)' /\ Stage(c) = "asked" /\ Stage(c)' = "executing"
    BY <1>1, <2>1, <2>2, <2>5, <2>6 DEF GateInv, Stage
  <2>8. \A d \in Gated : d # c => GateInv(d)' /\ Stage(d)' = Stage(d)
    BY <1>1, <2>1, <2>4, GateKept DEF GInv
  <2>9. Gate!Next
    <3>1. Len(runs'[c]) = Len(runs[c]) + 1
      BY <2>4, <2>5
    <3> QED
      BY <1>1, <2>4, <2>7, <2>8, <3>1, GateMoves
  <2> QED
    BY <2>7, <2>8, <2>9 DEF GInv
<1>3. CASE Pruned(c)[c] = Absent
  BY <1>1, <1>3, GateUntouched DEF Approve
<1> QED
  BY <1>2, <1>3

(* The answer of a call that waits or executes.                            *)
LEMMA GateAnswers ==
  ASSUME IInv, GInv, NEW c \in Gated, NEW kind \in {"refused", "result"}, Respond(c, kind),
         UNCHANGED <<card, runs>>,
         c \in pending \/ c \in running \ exited,
         c \notin pending', c \notin running' \ exited',
         c \in running' \union exited' => c \in running \union exited,
         \A d \in Gated : d # c => /\ d \in pending' => d \in pending
                                   /\ d \in running' <=> d \in running
                                   /\ d \in exited' <=> d \in exited
  PROVE  GInv' /\ Gate!Next
<1>0. TypeOK /\ CallInv(c) /\ GateInv(c) /\ c \in Call /\ kind \in Kind
  BY DEF IInv, GInv, Call, Kind
<1>1. /\ Finals(c)' = Finals(c) + 1
      /\ \A d \in Gated : d # c => Finals(d)' = Finals(d)
  BY <1>0, RespondCounts DEF Call
<1>2. Finals(c) = 0 /\ Finals(c)' = 1
  BY <1>0, <1>1 DEF GateInv
<1>3. \A d \in Gated : Asked(d)' <=> Asked(d)
  BY DEF Asked
<1>4. Asked(c)
  BY <1>0 DEF CallInv, GateInv
<1>5. Stage(c) \in {"asked", "executing"} /\ Stage(c)' = "answered"
  BY <1>2, <1>4 DEF Stage
<1>6. GateInv(c)'
  BY <1>0, <1>2, <1>3, <1>4 DEF GateInv
<1>7. ASSUME NEW d \in Gated, d # c PROVE GateInv(d)' /\ Stage(d)' = Stage(d)
  <2>1. /\ d \in running' \ exited' => d \in running \ exited
        /\ d \in running' \union exited' => d \in running \union exited
        /\ d \in pending' => d \in pending
    BY <1>7
  <2> QED
    BY <1>1, <1>3, <1>7, <2>1, GateKept DEF GInv
<1>8. Gate!Next
  BY <1>1, <1>5, <1>7, GateMoves
<1> QED
  BY <1>6, <1>7, <1>8 DEF GInv

LEMMA GateRefuses ==
  ASSUME IInv, GInv, NEW c \in Gated, Reject(c) \/ CardTimesOut(c)
  PROVE  GInv' /\ [Gate!Next]_(Gate!vars)
<1>0. TypeOK /\ CallInv(c) /\ GateInv(c)
  BY DEF IInv, GInv
<1>1. UNCHANGED <<card, runs, running, exited>>
  BY DEF Reject, CardTimesOut
<1>2. CASE pending' = pending \ {c} /\ Respond(c, "refused") /\ c \in pending
  <2>1. c \notin running' /\ c \notin pending'
    BY <1>0, <1>1, <1>2 DEF CallInv, GateInv
  <2>2. \A d \in Gated : d # c => /\ d \in pending' => d \in pending
                                  /\ d \in running' <=> d \in running
                                  /\ d \in exited' <=> d \in exited
    BY <1>1, <1>2
  <2>3. c \in running' \union exited' => c \in running \union exited
    BY <1>1
  <2>4. c \notin running' \ exited'
    BY <2>1
  <2> QED
    BY <1>1, <1>2, <2>1, <2>2, <2>3, <2>4, GateAnswers
<1>3. CASE UNCHANGED <<pending, answers, queue>>
  BY <1>1, <1>3, GateUntouched, SilentCounts DEF Asked
<1>4. Pruned(c)[c] # Absent => registry[c] # Absent
  BY <1>0, PrunedDrops DEF TypeOK
<1> QED
  BY <1>0, <1>2, <1>3, <1>4 DEF Reject, CardTimesOut, Settle, Silent, CallInv

LEMMA GateCompletes ==
  ASSUME IInv, GInv, NEW c \in Gated \union Allowed, Completes(c)
  PROVE  GInv' /\ [Gate!Next]_(Gate!vars)
<1>0. TypeOK /\ exited \subseteq Launch
  BY DEF IInv, TypeOK
<1>1. /\ c \in running /\ c \notin exited /\ running' = running \ {c}
      /\ Respond(c, "result")
      /\ UNCHANGED <<card, runs, pending, exited>>
  BY <1>0 DEF Completes
<1>2. CASE c \in Gated
  <2>1. GateInv(c) /\ CallInv(c)
    BY <1>2 DEF IInv, GInv
  <2>2. c \notin pending' /\ c \notin running' \ exited'
    BY <1>1, <2>1 DEF GateInv, CallInv
  <2>3. \A d \in Gated : d # c => /\ d \in pending' => d \in pending
                                  /\ d \in running' <=> d \in running
                                  /\ d \in exited' <=> d \in exited
    BY <1>1
  <2>4. c \in running \ exited /\ (c \in running' \union exited' => c \in running \union exited)
    BY <1>1
  <2> QED
    BY <1>1, <1>2, <2>2, <2>3, <2>4, GateAnswers
<1>3. CASE c \notin Gated
  <2>1. \A d \in Gated : Finals(d)' = Finals(d)
    BY <1>0, <1>1, <1>3, RespondCounts DEF Call, Kind
  <2> QED
    BY <1>1, <2>1, GateUntouched DEF Asked
<1> QED
  BY <1>2, <1>3

LEMMA GateLaunch ==
  ASSUME IInv, GInv, NEW c \in Launch, ChildWrites(c) \/ ChildExits(c) \/ ChildCloses(c)
  PROVE  GInv' /\ [Gate!Next]_(Gate!vars)
<1> USE GatedIsApart
<1>0. TypeOK /\ c \in Gated /\ CallInv(c) /\ GateInv(c)
  BY DEF IInv, GInv
<1>1. CASE ChildWrites(c)
  <2>1. \A d \in Gated : Finals(d)' = Finals(d)
    BY <1>0, <1>1, RespondCounts DEF ChildWrites, Call, Kind
  <2> QED
    BY <1>1, <2>1, GateUntouched DEF ChildWrites, Asked
<1>2. CASE ChildExits(c)
  <2>1. /\ c \in running \ exited /\ exited' = exited \union {c}
        /\ Respond(c, "result")
        /\ UNCHANGED <<card, runs, pending, running>>
    BY <1>2 DEF ChildExits
  <2>2. c \notin pending' /\ c \notin running' \ exited'
    BY <1>0, <2>1 DEF GateInv, CallInv
  <2>3. \A d \in Gated : d # c => /\ d \in pending' => d \in pending
                                  /\ d \in running' <=> d \in running
                                  /\ d \in exited' <=> d \in exited
    BY <2>1
  <2>4. c \in running' \union exited' => c \in running \union exited
    BY <2>1
  <2> QED
    BY <1>0, <2>1, <2>2, <2>3, <2>4, GateAnswers
<1>3. CASE ChildCloses(c)
  BY <1>3, GateUntouched, SilentCounts DEF ChildCloses, Asked
<1> QED
  BY <1>1, <1>2, <1>3

(* The camera, the session and the clock: no step of the gate.             *)
LEMMA GateOther ==
  ASSUME IInv, GInv,
         \/ \E c \in Allowed : RunAllowed(c)
         \/ \E c \in Camera : RequestCameraSnapshot(c) \/ CameraTimesOut(c)
         \/ \E c \in Camera, empty \in BOOLEAN : ClientFrame(c, empty)
         \/ \E d \in Dir : SwitchSession(d)
         \/ GoAway \/ Reconnected \/ SessionEnds \/ Tick
  PROVE  GInv' /\ UNCHANGED Gate!vars
<1> USE GatedIsApart
<1>0. TypeOK
  BY DEF IInv
<1>1. ASSUME NEW c \in Allowed, RunAllowed(c) PROVE GInv' /\ UNCHANGED Gate!vars
  BY <1>1, GateUntouched, SilentCounts DEF RunAllowed, Asked
<1>2. ASSUME NEW c \in Camera,
             \/ RequestCameraSnapshot(c) \/ CameraTimesOut(c)
             \/ \E empty \in BOOLEAN : ClientFrame(c, empty)
      PROVE  GInv' /\ UNCHANGED Gate!vars
  <2>1. \A d \in Gated : d # c
    OBVIOUS
  <2>2. UNCHANGED <<answers, queue>> \/ Respond(c, "result")
    BY <1>2 DEF RequestCameraSnapshot, CameraTimesOut, ClientFrame, Silent
  <2>3. \A d \in Gated : Finals(d)' = Finals(d)
    BY <1>0, <2>1, <2>2, RespondCounts, SilentCounts DEF Call, Kind
  <2>4. /\ UNCHANGED <<card, runs, running, exited>>
        /\ \A d \in Gated : d \in pending' <=> d \in pending
    BY <1>2, <2>1 DEF RequestCameraSnapshot, CameraTimesOut, ClientFrame
  <2> QED
    BY <2>3, <2>4, GateUntouched DEF Asked
<1>3. ASSUME UNCHANGED <<card, runs, running, exited, pending>>,
             \A d \in Gated : Finals(d)' = Finals(d)
      PROVE  GInv' /\ UNCHANGED Gate!vars
  BY <1>3, GateUntouched DEF Asked
<1>4. (\E d \in Dir : SwitchSession(d)) \/ GoAway \/ SessionEnds \/ Tick
      => UNCHANGED <<card, runs, running, exited, pending, answers, queue>>
  BY DEF SwitchSession, GoAway, SessionEnds, Tick
<1>5. Reconnected => /\ UNCHANGED <<card, runs, running, exited, pending>>
                     /\ \A d \in Gated : Finals(d)' = Finals(d)
  BY <1>0, ReconnectedCounts DEF Reconnected, Call
<1> QED
  BY <1>1, <1>2, <1>3, <1>4, <1>5, SilentCounts

THEOREM NextGate == IInv /\ GInv /\ [Next]_vars => GInv' /\ [Gate!Next]_(Gate!vars)
<1> SUFFICES ASSUME IInv, GInv, [Next]_vars PROVE GInv' /\ [Gate!Next]_(Gate!vars)
  OBVIOUS
<1>1. CASE UNCHANGED vars
  BY <1>1, GateUntouched, SilentCounts DEF vars, Asked
<1> QED
  BY <1>1, GateRequestApproval, GateApprove, GateRefuses, GateCompletes, GateLaunch, GateOther
     DEF Next

(* The gateway keeps the promise of ApprovalGate: the answer of a gated    *)
(* call is deferred, it executes only from its card and once, a refused    *)
(* call never executes, and the model gets one answer                      *)
(* (dispatchRealtimeToolCall, resolveTerminalApproval,                     *)
(* resolveCommandApproval and the queue of tool responses).                *)
THEOREM GateImplemented == Spec => ImplementsGate
<1>1. Init => Gate!Init
  BY InitGate
<1> QED
  BY <1>1, InitIInv, InitGate, NextIInv, NextGate, PTL DEF Spec, ImplementsGate, Gate!Spec

=============================================================================
