------------------------ MODULE HeadlessTurns_proofs ------------------------
(***************************************************************************)
(* Theorems about the headless gateway, for every number of clients,       *)
(* sessions and brainstorms and every limit of the chain of ompk runs.     *)
(* The chain is described as it is walked: its jobs are those that wait    *)
(* for ompk or run it, each of them once, and exactly the first one runs.  *)
(***************************************************************************)
EXTENDS HeadlessTurns, SequenceTheorems, TLAPS

Steps == {"idle", "hearing", "reducing", "app", "exec", "chain", "rendering"} \union Alive

(* Only a provider of codex is in the steps of codex.                      *)
Jobs ==
  {r \in [step : Steps, kind : Kind \union {"none"}, own : BOOLEAN,
          resumes : Client \union {None}, last : BOOLEAN] :
     r.step \in {"app", "exec"} => r.kind = "app"}

(* A job that waits for ompk or runs it.                                   *)
Omp(r) == r.kind = "omp" /\ r.step \in Alive \union {"chain"}

(* The chain `ch' fits the jobs `j'.                                       *)
Ordered(j, ch) ==
  /\ j \in [Job -> Jobs]
  /\ ch \in Seq(Job)
  /\ \A a, b \in 1 .. Len(ch) : ch[a] = ch[b] => a = b
  /\ \A a \in 1 .. Len(ch) : Omp(j[ch[a]])
  /\ \A s \in Job : Omp(j[s]) => \E a \in 1 .. Len(ch) : ch[a] = s
  /\ \A a \in 1 .. Len(ch) : j[ch[a]].step \in Alive <=> a = 1

(* The turn `r' has made a provider of its own only once it was routed.    *)
OwnIsRouted(r) == r.own => r.step \notin {"idle", "hearing", "reducing"}

(* The app-servers that live are tracked, but for lost ones.               *)
Tracked ==
  /\ child \in [Codex -> Server \union {None}]
  /\ booting \subseteq Codex
  /\ live \subseteq Server
  /\ live \subseteq {child["shared"], child["own"]} \union lost

ChoiceTypes ==
  /\ selected \in [Client -> Session \union {None}]
  /\ chosen \in [Client -> Session \union {None}]
  /\ undone \subseteq Client

(* What is tracked for the turn is tracked by the provider it made.        *)
Servers(j, ch) == OwnIsRouted(j[Turn]) /\ (ch["own"] # None => j[Turn].own)

ChoiceRecords == ChoiceTypes /\ ChoiceKept

IInv ==
  /\ shared \in Configured
  /\ Ordered(job, chain)
  /\ Servers(job, child) /\ Tracked
  /\ ChoiceRecords

-----------------------------------------------------------------------------
(* Jobs.                                                                   *)

LEMMA JobsOfProviders ==
  /\ Idle \in Jobs /\ ~Idle.own /\ Idle.resumes = None
  /\ shared \in Kind => ByShared \in Jobs /\ ~ByShared.own
  /\ \A c \in Client : BySelection(c) \in Jobs /\ ~BySelection(c).own
  /\ \A b \in ByBackend : b \in Jobs /\ (b.own => b.kind = "app")
  BY DEF Jobs, Steps, Kind, Commands, Alive, Idle, ByShared, BySelection, ByBackend

LEMMA StepOfJob ==
  ASSUME NEW r \in Jobs, NEW x \in Steps, NEW y, y = [r EXCEPT !.step = x],
         x \in {"app", "exec"} => r.kind = "app"
  PROVE  y \in Jobs /\ y.step = x /\ y.kind = r.kind /\ y.own = r.own /\ y.resumes = r.resumes
  BY DEF Jobs

(* The job that goes on with the fallback.                                 *)
LEMMA FallbackJob ==
  ASSUME NEW r \in Jobs,
         NEW f, f = [r EXCEPT !.step = "command", !.kind = "cli", !.last = TRUE]
  PROVE  f \in Jobs /\ ~Omp(f) /\ f.own = r.own /\ OwnIsRouted(f)
  BY DEF Jobs, Steps, Alive, Kind, Commands, Omp, OwnIsRouted

-----------------------------------------------------------------------------
(* The chain.                                                              *)

(* A job that is not in the chain changes and stays out of it.             *)
LEMMA ChainUntouched ==
  ASSUME NEW j, NEW ch, Ordered(j, ch), NEW s \in Job, ~Omp(j[s]),
         NEW r \in Jobs, ~Omp(r)
  PROVE  Ordered([j EXCEPT ![s] = r], ch)
<1> DEFINE k == [j EXCEPT ![s] = r]
<1>1. k \in [Job -> Jobs] /\ k[s] = r /\ \A t \in Job : t # s => k[t] = j[t]
  BY DEF Ordered
<1>2. \A a \in 1 .. Len(ch) : ch[a] \in Job /\ ch[a] # s
  BY LenProperties DEF Ordered
<1> HIDE DEF k
<1> QED
  BY <1>1, <1>2 DEF Ordered

(* A job that runs at the head of the chain goes on running.               *)
LEMMA HeadGoesOn ==
  ASSUME NEW j, NEW ch, Ordered(j, ch), NEW s \in Job, j[s].step \in Alive,
         NEW r \in Jobs, r.kind = j[s].kind, r.step \in Alive
  PROVE  Ordered([j EXCEPT ![s] = r], ch)
<1> DEFINE k == [j EXCEPT ![s] = r]
<1>1. k \in [Job -> Jobs] /\ k[s] = r /\ \A t \in Job : t # s => k[t] = j[t]
  BY DEF Ordered
<1>2. Omp(r) <=> Omp(j[s])
  BY DEF Omp
<1>3. \A t \in Job : (Omp(k[t]) <=> Omp(j[t])) /\ (k[t].step \in Alive <=> j[t].step \in Alive)
  BY <1>1, <1>2
<1>4. \A a \in 1 .. Len(ch) : ch[a] \in Job
  BY LenProperties DEF Ordered
<1> HIDE DEF k
<1> QED
  BY <1>1, <1>3, <1>4 DEF Ordered

(* A job joins the chain: it runs at once if nobody is there.              *)
LEMMA ChainJoined ==
  ASSUME NEW j, NEW ch, Ordered(j, ch), NEW s \in Job, ~Omp(j[s]),
         NEW r \in Jobs, r.kind = "omp",
         r.step = IF ch = <<>> THEN "command" ELSE "chain"
  PROVE  Ordered([j EXCEPT ![s] = r], Append(ch, s))
<1> DEFINE k == [j EXCEPT ![s] = r]
           n == Len(ch)
           t == Append(ch, s)
<1>1. k \in [Job -> Jobs] /\ k[s] = r /\ \A u \in Job : u # s => k[u] = j[u]
  BY DEF Ordered
<1>2. /\ n \in Nat /\ ch \in Seq(Job)
      /\ \A a \in 1 .. n : ch[a] \in Job /\ ch[a] # s
      /\ ch = <<>> <=> n = 0
  BY LenProperties, EmptySeq DEF Ordered
<1>3. /\ t \in Seq(Job) /\ Len(t) = n + 1
      /\ \A a \in 1 .. n : t[a] = ch[a]
      /\ t[n + 1] = s
  BY <1>2, AppendProperties
<1>4. Omp(r) /\ (r.step \in Alive <=> n = 0)
  BY <1>2 DEF Omp, Alive
<1> HIDE DEF k, n, t
<1>5. \A a \in 1 .. n + 1 : a \in 1 .. n \/ a = n + 1
  BY <1>2
<1>6. \A a, b \in 1 .. n + 1 : t[a] = t[b] => a = b
  BY <1>2, <1>3, <1>5 DEF Ordered, n
<1>7. \A a \in 1 .. n + 1 : Omp(k[t[a]])
  BY <1>1, <1>2, <1>3, <1>4, <1>5 DEF Ordered, n
<1>8. \A u \in Job : Omp(k[u]) => \E a \in 1 .. n + 1 : t[a] = u
  <2> SUFFICES ASSUME NEW u \in Job, Omp(k[u])
               PROVE  \E a \in 1 .. n + 1 : t[a] = u
    OBVIOUS
  <2>1. CASE u = s
    BY <2>1, <1>2, <1>3
  <2>2. CASE u # s
    <3>1. PICK a \in 1 .. n : ch[a] = u
      BY <2>2, <1>1 DEF Ordered, n
    <3> QED
      BY <3>1, <1>2, <1>3
  <2> QED
    BY <2>1, <2>2
<1>9. \A a \in 1 .. n + 1 : k[t[a]].step \in Alive <=> a = 1
  <2> SUFFICES ASSUME NEW a \in 1 .. n + 1
               PROVE  k[t[a]].step \in Alive <=> a = 1
    OBVIOUS
  <2>1. CASE a \in 1 .. n
    BY <2>1, <1>1, <1>2, <1>3 DEF Ordered, n
  <2>2. CASE a = n + 1
    <3>1. k[t[a]] = r /\ (a = 1 <=> n = 0)
      BY <2>2, <1>1, <1>2, <1>3
    <3> QED
      BY <3>1, <1>4
  <2> QED
    BY <1>5, <2>1, <2>2
<1> QED
  BY <1>1, <1>3, <1>6, <1>7, <1>8, <1>9 DEF Ordered, k, t

(* The jobs `j' once the head of the chain `ch' has let the next one run.  *)
Advanced(j, ch) == IF Len(ch) > 1 THEN [j EXCEPT ![ch[2]].step = "command"] ELSE j

(* The head leaves the chain, and the next one runs.                       *)
LEMMA ChainLeft ==
  ASSUME NEW j, NEW ch, Ordered(j, ch), NEW s \in Job, Omp(j[s]), j[s].step \in Alive,
         NEW r \in Jobs, ~Omp(r),
         NEW k, k = Advanced(j, ch)
  PROVE  /\ k \in [Job -> Jobs] /\ k[s] = j[s]
         /\ Ordered([k EXCEPT ![s] = r], Tail(ch))
<1> DEFINE m == [k EXCEPT ![s] = r]
           n == Len(ch)
           t == Tail(ch)
<1>1. /\ n \in Nat /\ ch \in Seq(Job)
      /\ \A a \in 1 .. n : ch[a] \in Job
  BY LenProperties DEF Ordered
<1>2. n >= 1 /\ ch[1] = s
  <2>1. PICK a \in 1 .. n : ch[a] = s
    BY DEF Ordered
  <2>2. a = 1
    BY <2>1 DEF Ordered
  <2> QED
    BY <2>1, <2>2, <1>1
<1>3. /\ t \in Seq(Job) /\ Len(t) = n - 1
      /\ \A a \in 1 .. n - 1 : t[a] = ch[a + 1]
  <2>1. ch # <<>>
    BY <1>2, EmptySeq
  <2> QED
    BY <2>1, <1>1, HeadTailProperties
<1>4. \A a \in 1 .. n : a # 1 => ch[a] # s
  BY <1>1, <1>2 DEF Ordered
<1>5. /\ k \in [Job -> Jobs] /\ k[s] = j[s]
      /\ \A u \in Job : Omp(k[u]) <=> Omp(j[u])
      /\ \A a \in 1 .. n : a # 1 => (k[ch[a]].step \in Alive <=> a = 2)
  <2>1. CASE n > 1
    <3>1. ch[2] \in Job /\ ch[2] # s /\ 2 \in 1 .. n
      BY <2>1, <1>1, <1>4
    <3> DEFINE x == [j[ch[2]] EXCEPT !.step = "command"]
    <3>2. k = [j EXCEPT ![ch[2]] = x]
      BY <2>1 DEF Advanced
    <3>3. j \in [Job -> Jobs] /\ j[ch[2]] \in Jobs /\ Omp(j[ch[2]])
      BY <3>1 DEF Ordered
    <3>4. x \in Jobs /\ x.step = "command" /\ x.kind = j[ch[2]].kind
      BY <3>3, StepOfJob DEF Steps, Alive
    <3> HIDE DEF x
    <3>5. k \in [Job -> Jobs] /\ k[ch[2]] = x /\ \A u \in Job : u # ch[2] => k[u] = j[u]
      BY <3>1, <3>2, <3>3, <3>4
    <3>6. Omp(x) /\ x.step \in Alive
      BY <3>3, <3>4 DEF Omp, Alive
    <3>7. \A a \in 1 .. n : a # 1 => (k[ch[a]].step \in Alive <=> a = 2)
      <4> SUFFICES ASSUME NEW a \in 1 .. n, a # 1
                   PROVE  k[ch[a]].step \in Alive <=> a = 2
        OBVIOUS
      <4>1. CASE a = 2
        BY <4>1, <3>5, <3>6
      <4>2. CASE a # 2
        BY <4>2, <3>1, <3>5, <1>1 DEF Ordered
      <4> QED
        BY <4>1, <4>2
    <3> QED
      BY <3>1, <3>3, <3>5, <3>6, <3>7
  <2>2. CASE ~(n > 1)
    <3>1. k = j /\ j \in [Job -> Jobs]
      BY <2>2 DEF Ordered, Advanced
    <3>2. n = 1
      <4> HIDE DEF n
      <4> QED
        BY <2>2, <1>1, <1>2
    <3> QED
      BY <3>1, <3>2
  <2> QED
    BY <2>1, <2>2
<1>6. m \in [Job -> Jobs] /\ m[s] = r /\ \A u \in Job : u # s => m[u] = k[u]
  BY <1>5
<1> HIDE DEF m, n, t
<1>7. \A a \in 1 .. n - 1 : /\ a \in Nat /\ a + 1 \in 1 .. n /\ a + 1 # 1
                            /\ (a + 1 = 2 <=> a = 1)
                            /\ t[a] = ch[a + 1] /\ t[a] \in Job /\ t[a] # s
  BY <1>1, <1>3, <1>4
<1>8. \A a, b \in 1 .. n - 1 : t[a] = t[b] => a = b
  <2> SUFFICES ASSUME NEW a \in 1 .. n - 1, NEW b \in 1 .. n - 1, t[a] = t[b]
               PROVE  a = b
    OBVIOUS
  <2>1. ch[a + 1] = ch[b + 1] /\ a + 1 \in 1 .. n /\ b + 1 \in 1 .. n
    BY <1>7
  <2>2. a + 1 = b + 1
    BY <2>1 DEF Ordered, n
  <2> QED
    BY <2>2, <1>7
<1>9. \A a \in 1 .. n - 1 : Omp(m[t[a]]) /\ (m[t[a]].step \in Alive <=> a = 1)
  <2> SUFFICES ASSUME NEW a \in 1 .. n - 1
               PROVE  Omp(m[t[a]]) /\ (m[t[a]].step \in Alive <=> a = 1)
    OBVIOUS
  <2>1. m[t[a]] = k[ch[a + 1]]
    BY <1>6, <1>7
  <2>2. Omp(j[ch[a + 1]])
    BY <1>7 DEF Ordered, n
  <2> QED
    BY <2>1, <2>2, <1>1, <1>5, <1>7
<1>10. \A u \in Job : Omp(m[u]) => \E a \in 1 .. n - 1 : t[a] = u
  <2> SUFFICES ASSUME NEW u \in Job, Omp(m[u])
               PROVE  \E a \in 1 .. n - 1 : t[a] = u
    OBVIOUS
  <2>1. u # s /\ Omp(j[u])
    BY <1>5, <1>6
  <2>2. PICK b \in 1 .. n : ch[b] = u
    BY <2>1 DEF Ordered, n
  <2>3. b # 1
    BY <2>1, <2>2, <1>2
  <2>4. b - 1 \in 1 .. n - 1 /\ (b - 1) + 1 = b
    BY <2>3, <1>1
  <2> QED
    BY <2>2, <2>4, <1>3
<1> QED
  BY <1>3, <1>5, <1>6, <1>8, <1>9, <1>10 DEF Ordered, m, t

-----------------------------------------------------------------------------
(* What the operators of the model keep.  `Free' says that job `s' may     *)
(* take any place outside the chain.                                       *)

Free(s, j, ch) ==
  /\ j \in [Job -> Jobs]
  /\ \A r \in Jobs : ~Omp(r) => Ordered([j EXCEPT ![s] = r], ch)

LEMMA FreeOutside ==
  ASSUME NEW j, NEW ch, Ordered(j, ch), NEW s \in Job, ~Omp(j[s])
  PROVE  Free(s, j, ch)
  BY ChainUntouched DEF Free, Ordered

(* Other jobs that only move on keep the turn's provider.                  *)
LEMMA TurnKept ==
  ASSUME NEW j \in [Job -> Jobs], NEW s \in Job, NEW r \in Jobs, NEW c,
         Servers(j, c), s = Turn => OwnIsRouted(r) /\ (r.own <=> j[s].own)
  PROVE  Servers([j EXCEPT ![s] = r], c)
<1>1. Turn \in Job
  BY DEF Job
<1> QED
  BY <1>1 DEF Servers

LEMMA ServersKept == ASSUME Tracked, UNCHANGED servers PROVE Tracked' /\ child' = child
  BY DEF servers, Tracked

(* A provider that is stopped has nothing to track.                        *)
LEMMA DisposedKeeps ==
  ASSUME Tracked, NEW p \in Codex, Disposed(p)
  PROVE  /\ Tracked' /\ child'[p] = None
         /\ \A q \in Codex : q # p => child'[q] = child[q]
<1>1. /\ child'[p] = None /\ child' \in [Codex -> Server \union {None}]
      /\ \A q \in Codex : q # p => child'[q] = child[q]
  BY DEF Disposed, Tracked
<1>2. live' = live \ {child[p]} /\ lost' = lost /\ booting' \subseteq Codex
  BY DEF Disposed, Tracked
<1>3. p = "shared" \/ p = "own"
  BY DEF Codex
<1>4. live' \subseteq {child'["shared"], child'["own"]} \union lost'
  BY <1>1, <1>2, <1>3 DEF Tracked, Codex
<1> QED
  BY <1>1, <1>2, <1>4 DEF Tracked

(* A job that leaves the head of the chain is free.                        *)
LEMMA FreeAfterClosing ==
  ASSUME IInv, NEW s \in Job, job[s].step \in Alive
  PROVE  /\ Free(s, NextInChain(s), Unchained(s))
         /\ NextInChain(s)[s] = job[s]
         /\ Servers(NextInChain(s), child)
<1> DEFINE k == NextInChain(s)
<1>0. Ordered(job, chain) /\ job \in [Job -> Jobs] /\ Servers(job, child) /\ Tracked
  BY DEF IInv, Ordered, Servers
<1>1. CASE job[s].kind = "omp"
  <2>1. k = Advanced(job, chain)
    BY <1>1 DEF NextInChain, Advanced
  <2>2. Unchained(s) = Tail(chain)
    BY <1>1 DEF Unchained
  <2>3. Omp(job[s])
    BY <1>1 DEF Omp
  <2> HIDE DEF k
  <2>a. ASSUME NEW r \in Jobs, ~Omp(r)
        PROVE  /\ k \in [Job -> Jobs] /\ k[s] = job[s]
               /\ Ordered([k EXCEPT ![s] = r], Tail(chain))
    BY <1>0, <2>1, <2>3, <2>a, ChainLeft
  <2>4. k \in [Job -> Jobs] /\ k[s] = job[s]
    <3>1. Idle \in Jobs /\ ~Omp(Idle)
      BY JobsOfProviders DEF Idle, Omp
    <3> HIDE DEF Idle
    <3> QED
      BY <3>1, <2>a
  <2>5. Free(s, k, Unchained(s))
    BY <2>2, <2>4, <2>a DEF Free
  <2>6. Servers(k, child)
    <3>1. CASE ~(Len(chain) > 1)
      BY <3>1, <1>0, <2>1 DEF Advanced
    <3>2. CASE Len(chain) > 1
      <4>1. chain[2] \in Job
        <5>1. 2 \in 1 .. Len(chain)
          <6> DEFINE n == Len(chain)
          <6>1. n \in Nat
            BY <1>0, LenProperties DEF Ordered
          <6> HIDE DEF n
          <6>2. 2 \in 1 .. n
            BY <6>1, <3>2 DEF n
          <6> QED
            BY <6>2 DEF n
        <5> QED
          BY <5>1, <1>0, LenProperties DEF Ordered
      <4> DEFINE x == [job[chain[2]] EXCEPT !.step = "command"]
      <4>2. k = [job EXCEPT ![chain[2]] = x]
        BY <2>1, <3>2 DEF Advanced
      <4>3. x \in Jobs /\ OwnIsRouted(x) /\ (x.own <=> job[chain[2]].own)
        BY <4>1, <1>0, StepOfJob DEF Steps, Alive, OwnIsRouted
      <4> HIDE DEF x
      <4> QED
        BY <4>1, <4>2, <4>3, <1>0, TurnKept
    <3> QED
      BY <3>1, <3>2
  <2> QED
    BY <2>4, <2>5, <2>6 DEF k
<1>2. CASE job[s].kind # "omp"
  <2>1. k = job /\ Unchained(s) = chain /\ ~Omp(job[s])
    BY <1>2 DEF NextInChain, Unchained, Omp
  <2> QED
    BY <2>1, <1>0, FreeOutside
<1> QED
  BY <1>1, <1>2

(* A job that ends leaves no server of its own.                            *)
LEMMA EndedKeeps ==
  ASSUME NEW s \in Job, NEW j, NEW ch, Free(s, j, ch), Servers(j, child), Tracked,
         Ended(s, j, ch)
  PROVE  Ordered(job', chain') /\ Servers(job', child') /\ Tracked'
<1>1. Idle \in Jobs /\ ~Omp(Idle) /\ ~Idle.own
  BY JobsOfProviders DEF Idle, Omp
<1>2. Ordered(job', chain')
  BY <1>1 DEF Ended, Free
<1>3. CASE s = Turn
  <2>1. job'[Turn] = Idle /\ Disposed("own")
    BY <1>3 DEF Ended, Free
  <2>2. child'["own"] = None /\ Tracked'
    BY <2>1, DisposedKeeps DEF Codex
  <2> QED
    BY <1>1, <1>2, <2>1, <2>2 DEF Servers, OwnIsRouted
<1>4. CASE s # Turn
  <2>1. job' = [j EXCEPT ![s] = Idle] /\ servers' = servers /\ j \in [Job -> Jobs]
    BY <1>4 DEF Ended, Free
  <2> QED
    BY <1>1, <1>2, <1>4, <2>1, TurnKept, ServersKept
<1> QED
  BY <1>3, <1>4

LEMMA FailedKeeps ==
  ASSUME NEW s \in Job, NEW j, NEW ch, Free(s, j, ch), Servers(j, child), Tracked,
         ChoiceRecords, Failed(s, j, ch), chosen' = chosen
  PROVE  Ordered(job', chain') /\ Servers(job', child') /\ Tracked' /\ ChoiceRecords'
<1>1. CASE j[s].resumes # None /\ Cleared(j[s].resumes) /\ Ended(s, j, ch)
  <2>1. j[s].resumes \in Client
    BY <1>1 DEF Free, Jobs
  <2>2. ChoiceRecords'
    BY <1>1, <2>1 DEF ChoiceRecords, ChoiceTypes, ChoiceKept, Cleared
  <2> QED
    BY <1>1, <2>2, EndedKeeps
<1>2. CASE /\ UNCHANGED <<selected, undone>>
           /\ Ended(s, j, ch)
  BY <1>2, EndedKeeps DEF ChoiceRecords, ChoiceTypes, ChoiceKept
<1>3. CASE /\ UNCHANGED <<selected, undone, servers>>
           /\ s = Turn
           /\ job' = [j EXCEPT ![s] = [@ EXCEPT !.step = "command", !.kind = "cli", !.last = TRUE]]
           /\ chain' = ch
  <2> DEFINE f == [j[s] EXCEPT !.step = "command", !.kind = "cli", !.last = TRUE]
  <2>1. j[s] \in Jobs /\ j \in [Job -> Jobs]
    BY DEF Free
  <2>2. f \in Jobs /\ ~Omp(f) /\ f.own = j[s].own /\ OwnIsRouted(f)
    BY <2>1, FallbackJob
  <2>3. job' = [j EXCEPT ![s] = f] /\ chain' = ch /\ servers' = servers
    BY <1>3
  <2> HIDE DEF f
  <2>4. Ordered(job', chain')
    BY <2>2, <2>3 DEF Free
  <2>5. Servers(job', child') /\ Tracked'
    BY <2>1, <2>2, <2>3, TurnKept, ServersKept
  <2>6. ChoiceRecords'
    BY <1>3 DEF ChoiceRecords, ChoiceTypes, ChoiceKept
  <2> QED
    BY <2>4, <2>5, <2>6
<1> QED
  BY <1>1, <1>2, <1>3 DEF Failed

(* What is booted is tracked.                                              *)
LEMMA EnsuredKeeps ==
  ASSUME Tracked, NEW p \in Codex, Ensured(p)
  PROVE  Tracked' /\ (p = "shared" => child'["own"] = child["own"])
<1>1. CASE UNCHANGED servers
  BY <1>1, ServersKept
<1>2. CASE child[p] = None /\ Spawned(p)
  <2> DEFINE a == CHOOSE x \in Server : x \notin live \union heard
  <2>1. a \in Server
    BY <1>2 DEF Spawned
  <2>2. /\ child' = [child EXCEPT ![p] = a]
        /\ live' = live \union {a} /\ lost' = lost
        /\ booting' = booting \union {p}
    BY <1>2 DEF Spawned
  <2> HIDE DEF a
  <2>3. /\ child' \in [Codex -> Server \union {None}] /\ child'[p] = a
        /\ \A q \in Codex : q # p => child'[q] = child[q]
    BY <2>1, <2>2 DEF Tracked
  <2>4. live \subseteq {child'["shared"], child'["own"], None} \union lost
    BY <1>2, <2>3 DEF Tracked, Codex
  <2>5. None \notin live
    BY NoneAssumption DEF Tracked
  <2>6. live' \subseteq {child'["shared"], child'["own"]} \union lost'
    BY <2>2, <2>3, <2>4, <2>5 DEF Codex
  <2>7. booting' \subseteq Codex /\ live' \subseteq Server
    BY <2>1, <2>2 DEF Tracked
  <2> QED
    BY <2>3, <2>6, <2>7 DEF Tracked, Codex
<1> QED
  BY <1>1, <1>2 DEF Ensured

(* A prompt of a job that had none: its server is the shared one, or the   *)
(* turn's own.                                                             *)
LEMMA PromptedKeeps ==
  ASSUME IInv, NEW s \in Job, ~Omp(job[s]), s = Turn => ~job[s].own,
         NEW b \in Jobs, b.own => s = Turn /\ b.kind = "app",
         Prompted(s, b), chosen' = chosen
  PROVE  Ordered(job', chain') /\ Servers(job', child') /\ Tracked' /\ ChoiceRecords'
<1>0. /\ Ordered(job, chain) /\ job \in [Job -> Jobs]
      /\ Servers(job, child) /\ Tracked /\ ChoiceRecords /\ Turn \in Job
  BY DEF IInv, Ordered, Servers, ChoiceRecords, Job
<1>1. CASE /\ b.kind = "app"
           /\ job' = [job EXCEPT ![s] = [b EXCEPT !.step = "app"]]
           /\ Ensured(ProviderOf(b))
           /\ UNCHANGED <<chain, selected, undone>>
  <2> DEFINE x == [b EXCEPT !.step = "app"]
  <2>1. x \in Jobs /\ ~Omp(x) /\ OwnIsRouted(x) /\ (x.own <=> b.own)
    BY <1>1, StepOfJob DEF Omp, OwnIsRouted, Steps
  <2>2. job' = [job EXCEPT ![s] = x] /\ chain' = chain
    BY <1>1
  <2> HIDE DEF x
  <2>3. Ordered(job', chain')
    BY <1>0, <2>1, <2>2, ChainUntouched
  <2>4. /\ Tracked'
        /\ b.own \/ child'["own"] = child["own"]
    <3>1. Ensured(ProviderOf(b)) /\ ProviderOf(b) \in Codex /\ (~b.own => ProviderOf(b) = "shared")
      BY <1>1 DEF ProviderOf, Codex
    <3> QED
      BY <1>0, <3>1, EnsuredKeeps
  <2>a. Servers(job', child')
    <3>1. CASE s = Turn
      <4>1. job'[Turn] = x /\ (job[Turn].own => FALSE)
        BY <3>1, <1>0, <2>2
      <4> QED
        BY <4>1, <1>0, <2>1, <2>2, <2>4 DEF Servers
    <3>2. CASE s # Turn
      <4>1. job'[Turn] = job[Turn] /\ (b.own => FALSE)
        BY <3>2, <1>0, <2>2
      <4> QED
        BY <4>1, <1>0, <2>2, <2>4 DEF Servers
    <3> QED
      BY <3>1, <3>2
  <2>5. ChoiceRecords'
    BY <1>0, <1>1 DEF ChoiceRecords, ChoiceTypes, ChoiceKept
  <2> QED
    BY <2>3, <2>4, <2>a, <2>5
<1>2. CASE /\ b.kind \in {"cli", "claude"}
           /\ job' = [job EXCEPT ![s] = [b EXCEPT !.step = "command"]]
           /\ UNCHANGED <<chain, servers, selected, undone>>
  <2> DEFINE x == [b EXCEPT !.step = "command"]
  <2>1. x \in Jobs /\ ~Omp(x) /\ OwnIsRouted(x) /\ (x.own <=> b.own)
    BY <1>2, StepOfJob DEF Omp, OwnIsRouted, Steps, Alive
  <2>2. job' = [job EXCEPT ![s] = x] /\ chain' = chain /\ servers' = servers
    BY <1>2
  <2>a. x.own => FALSE
    BY <1>2, <2>1
  <2> HIDE DEF x
  <2>3. Ordered(job', chain')
    BY <1>0, <2>1, <2>2, ChainUntouched
  <2>4. Servers(job', child') /\ Tracked'
    <3>1. s = Turn => OwnIsRouted(x) /\ (x.own <=> job[s].own)
      BY <2>1, <2>a
    <3> QED
      BY <1>0, <2>1, <2>2, <3>1, TurnKept, ServersKept
  <2>5. ChoiceRecords'
    BY <1>0, <1>2 DEF ChoiceRecords, ChoiceTypes, ChoiceKept
  <2> QED
    BY <2>3, <2>4, <2>5
<1>3. CASE b.kind = "omp" /\ Chained(s, b)
  <2> DEFINE x == [b EXCEPT !.step = IF chain = <<>> THEN "command" ELSE "chain"]
  <2>1. /\ x \in Jobs /\ x.kind = "omp" /\ OwnIsRouted(x) /\ (x.own <=> b.own)
        /\ x.step = IF chain = <<>> THEN "command" ELSE "chain"
    BY <1>3, StepOfJob DEF OwnIsRouted, Steps, Alive
  <2>2. job' = [job EXCEPT ![s] = x] /\ chain' = Append(chain, s)
    BY <1>3 DEF Chained
  <2> HIDE DEF x
  <2>3. Ordered(job', chain')
    BY <1>0, <2>1, <2>2, ChainJoined
  <2>4. Servers(job', child') /\ Tracked'
    <3>1. servers' = servers
      BY <1>3 DEF Chained
    <3> QED
      BY <1>0, <1>3, <2>1, <2>2, <3>1, TurnKept, ServersKept
  <2> QED
    BY <1>0, <1>3, <2>3, <2>4 DEF Chained, ChoiceRecords, ChoiceTypes, ChoiceKept
<1>4. CASE b.kind = "omp" /\ Failed(s, [job EXCEPT ![s] = b], chain)
  <2> DEFINE j == [job EXCEPT ![s] = b]
  <2>1. j \in [Job -> Jobs]
    BY <1>0
  <2>2. Free(s, j, chain)
    <3> SUFFICES ASSUME NEW r \in Jobs, ~Omp(r)
                 PROVE  Ordered([j EXCEPT ![s] = r], chain)
      BY <2>1 DEF Free
    <3>1. [j EXCEPT ![s] = r] = [job EXCEPT ![s] = r]
      BY <1>0
    <3> QED
      BY <3>1, <1>0, ChainUntouched
  <2>3. Servers(j, child)
    BY <1>0, <1>4 DEF Servers, OwnIsRouted
  <2> HIDE DEF j
  <2> QED
    BY <1>0, <1>4, <2>2, <2>3, FailedKeeps DEF j
<1> QED
  BY <1>1, <1>2, <1>3, <1>4 DEF Prompted

(* A prompt that was answered.                                             *)
LEMMA AnsweredKeeps ==
  ASSUME NEW s \in Job, NEW j, NEW ch, Free(s, j, ch), Servers(j, child), Tracked,
         ChoiceRecords, j = NextInChain(s), ch = Unchained(s),
         Answered(s), chosen' = chosen
  PROVE  Ordered(job', chain') /\ Servers(job', child') /\ Tracked' /\ ChoiceRecords'
<1>1. ChoiceRecords'
  BY DEF Answered, ChoiceRecords, ChoiceTypes, ChoiceKept
<1>2. CASE Ended(s, j, ch)
  BY <1>1, <1>2, EndedKeeps
<1>3. CASE s = Turn /\ job' = [j EXCEPT ![s].step = "rendering"] /\ chain' = ch /\ servers' = servers
  <2> DEFINE x == [j[s] EXCEPT !.step = "rendering"]
  <2>1. j[s] \in Jobs /\ j \in [Job -> Jobs]
    BY DEF Free
  <2>2. x \in Jobs /\ ~Omp(x) /\ OwnIsRouted(x) /\ (x.own <=> j[s].own)
    BY <2>1, StepOfJob DEF Omp, OwnIsRouted, Steps, Alive
  <2>3. job' = [j EXCEPT ![s] = x] /\ chain' = ch /\ servers' = servers
    BY <1>3
  <2> HIDE DEF x
  <2>4. Ordered(job', chain')
    BY <2>2, <2>3 DEF Free
  <2>5. Servers(job', child') /\ Tracked'
    BY <2>1, <2>2, <2>3, TurnKept, ServersKept
  <2> QED
    BY <1>1, <2>4, <2>5
<1> QED
  BY <1>2, <1>3 DEF Answered

-----------------------------------------------------------------------------
(* The actions.                                                            *)

Kept == Ordered(job', chain') /\ Servers(job', child') /\ Tracked' /\ ChoiceRecords'

LEMMA ParamsOfIInv ==
  ASSUME IInv
  PROVE  /\ shared \in Kind /\ Turn \in Job /\ job \in [Job -> Jobs]
         /\ Ordered(job, chain) /\ Servers(job, child) /\ Tracked /\ ChoiceRecords
         /\ job[Turn].own => job[Turn].step \notin {"idle", "hearing", "reducing"}
  BY ConfiguredAssumption DEF IInv, Ordered, Servers, OwnIsRouted, Job, Kind, Commands

(* A job moves on outside the chain.                                       *)
LEMMA Moved ==
  ASSUME IInv, NEW s \in Job, ~Omp(job[s]), NEW x \in Jobs, ~Omp(x),
         s = Turn => OwnIsRouted(x) /\ (x.own <=> job[s].own),
         job' = [job EXCEPT ![s] = x],
         UNCHANGED <<chain, servers, selected, chosen, undone>>
  PROVE  Kept
<1>1. Ordered(job', chain')
  BY ParamsOfIInv, ChainUntouched
<1>2. Servers(job', child') /\ Tracked'
  BY ParamsOfIInv, TurnKept, ServersKept
<1>3. ChoiceRecords'
  BY ParamsOfIInv DEF ChoiceRecords, ChoiceTypes, ChoiceKept
<1> QED
  BY <1>1, <1>2, <1>3 DEF Kept

(* A command goes on while it is told to end and killed.                   *)
LEMMA RunsOn ==
  ASSUME IInv, NEW s \in Job, job[s].step \in Alive,
         NEW x \in Jobs, x.step \in Alive, x.kind = job[s].kind, x.own <=> job[s].own,
         job' = [job EXCEPT ![s] = x],
         UNCHANGED <<chain, servers, selected, chosen, undone>>
  PROVE  Kept
<1>1. OwnIsRouted(x)
  BY DEF OwnIsRouted, Alive
<1>2. Ordered(job', chain')
  BY ParamsOfIInv, HeadGoesOn
<1>3. Servers(job', child') /\ Tracked'
  BY <1>1, ParamsOfIInv, TurnKept, ServersKept
<1>4. ChoiceRecords'
  BY ParamsOfIInv DEF ChoiceRecords, ChoiceTypes, ChoiceKept
<1> QED
  BY <1>2, <1>3, <1>4 DEF Kept

LEMMA Running ==
  ASSUME IInv, NEW s \in Job, job[s].step \in Alive, NEW a \in Alive,
         job' = [job EXCEPT ![s].step = a],
         UNCHANGED <<chain, servers, selected, chosen, undone>>
  PROVE  Kept
<1> DEFINE x == [job[s] EXCEPT !.step = a]
<1>1. job[s] \in Jobs
  BY ParamsOfIInv
<1>2. a \in Steps /\ a \notin {"app", "exec"}
  BY DEF Steps, Alive
<1>3. x \in Jobs /\ x.step \in Alive /\ x.kind = job[s].kind /\ (x.own <=> job[s].own)
  BY <1>1, <1>2, StepOfJob
<1>4. job' = [job EXCEPT ![s] = x]
  OBVIOUS
<1> HIDE DEF x
<1> QED
  BY <1>3, <1>4, RunsOn

(* A prompt of the turn, which has no provider yet.                        *)
LEMMA TurnPrompted ==
  ASSUME IInv, job[Turn].step \in {"idle", "hearing", "reducing"},
         NEW b \in {ByShared} \union ByBackend \union {BySelection(c) : c \in Client},
         Prompted(Turn, b), UNCHANGED chosen
  PROVE  Kept
<1>1. ~Omp(job[Turn]) /\ ~job[Turn].own
  BY ParamsOfIInv DEF Omp, Alive
<1>2. b \in Jobs /\ (b.own => b.kind = "app")
  BY ParamsOfIInv, JobsOfProviders
<1> QED
  BY <1>1, <1>2, ParamsOfIInv, PromptedKeeps DEF Kept

(* A job that waits for its own prompt, outside the chain.                 *)
LEMMA OutsideChain ==
  ASSUME IInv, NEW s \in Job, job[s].step \in {"app", "exec"}
  PROVE  /\ Free(s, job, chain) /\ ~Omp(job[s])
         /\ NextInChain(s) = job /\ Unchained(s) = chain
<1>1. job[s].kind = "app"
  BY ParamsOfIInv DEF Jobs
<1> QED
  BY <1>1, ParamsOfIInv, FreeOutside DEF Omp, NextInChain, Unchained

LEMMA HeardKeeps == ASSUME IInv, Heard PROVE Kept
<1> USE DEF Heard
<1>0. ~Omp(job[Turn]) /\ ~job[Turn].own /\ Turn \in Job /\ job[Turn] \in Jobs
  BY ParamsOfIInv DEF Omp, Alive
<1>1. CASE /\ job' = [job EXCEPT ![Turn] = [Idle EXCEPT !.step = "rendering"]]
           /\ UNCHANGED <<chain, servers, selected, undone>>
  <2> DEFINE x == [Idle EXCEPT !.step = "rendering"]
  <2>1. x \in Jobs /\ ~Omp(x) /\ OwnIsRouted(x) /\ ~x.own
    BY JobsOfProviders, StepOfJob DEF Omp, OwnIsRouted, Steps, Alive
  <2>2. /\ job' = [job EXCEPT ![Turn] = x]
        /\ UNCHANGED <<chain, servers, selected, chosen, undone>>
    BY <1>1
  <2> HIDE DEF x, Heard
  <2> QED
    BY <1>0, <2>1, <2>2, Moved
<1>2. CASE Ended(Turn, job, chain) /\ UNCHANGED <<selected, undone>>
  <2>1. ChoiceRecords'
    BY <1>2, ParamsOfIInv DEF ChoiceRecords, ChoiceTypes, ChoiceKept
  <2> QED
    BY <1>0, <1>2, <2>1, ParamsOfIInv, FreeOutside, EndedKeeps DEF Kept
<1>3. CASE \E c \in Client : Prompted(Turn, BySelection(c))
  <2>1. PICK c \in Client : Prompted(Turn, BySelection(c))
    BY <1>3
  <2> QED
    BY <2>1, TurnPrompted
<1>4. CASE /\ job' = [job EXCEPT ![Turn].step = "reducing"]
           /\ UNCHANGED <<chain, servers, selected, undone>>
  <2> DEFINE x == [job[Turn] EXCEPT !.step = "reducing"]
  <2>1. x \in Jobs /\ ~Omp(x) /\ OwnIsRouted(x) /\ ~x.own
    BY <1>0, StepOfJob DEF Omp, OwnIsRouted, Steps, Alive
  <2>2. /\ job' = [job EXCEPT ![Turn] = x]
        /\ UNCHANGED <<chain, servers, selected, chosen, undone>>
    BY <1>4
  <2> HIDE DEF x, Heard
  <2> QED
    BY <1>0, <2>1, <2>2, Moved
<1> QED
  BY <1>1, <1>2, <1>3, <1>4

(* A command that is closed, or given up.                                  *)
LEMMA ClosedKeeps ==
  ASSUME IInv, NEW s \in Job, job[s].step \in Alive, UNCHANGED chosen,
         \/ Answered(s)
         \/ Failed(s, NextInChain(s), Unchained(s))
  PROVE  Kept
<1>1. /\ Free(s, NextInChain(s), Unchained(s))
      /\ Servers(NextInChain(s), child)
  BY FreeAfterClosing
<1> QED
  BY <1>1, ParamsOfIInv, AnsweredKeeps, FailedKeeps DEF Kept

LEMMA TimesOutKeeps == ASSUME IInv, NEW s \in Job, TimesOut(s) PROVE Kept
<1>1. CASE job[s].kind = "claude" /\ Failed(s, job, chain)
  <2>1. Free(s, job, chain)
    BY <1>1, ParamsOfIInv, FreeOutside DEF Omp
  <2> QED
    BY <1>1, <2>1, ParamsOfIInv, FailedKeeps DEF TimesOut, Kept
<1>2. CASE /\ job' = [job EXCEPT ![s].step = "terminated"]
           /\ UNCHANGED <<chain, servers, selected, undone>>
  BY <1>2, Running DEF TimesOut, Alive
<1> QED
  BY <1>1, <1>2 DEF TimesOut

LEMMA AppEndsKeeps == ASSUME IInv, NEW s \in Job, AppEnds(s) PROVE Kept
<1>0. /\ Free(s, job, chain) /\ ~Omp(job[s])
      /\ NextInChain(s) = job /\ Unchained(s) = chain
  BY OutsideChain DEF AppEnds
<1>1. CASE Answered(s) \/ Failed(s, job, chain)
  BY <1>0, <1>1, ParamsOfIInv, AnsweredKeeps, FailedKeeps DEF AppEnds, Kept
<1>2. CASE /\ job' = [job EXCEPT ![s].step = "exec"]
           /\ UNCHANGED <<chain, servers, selected, undone>>
  <2> DEFINE x == [job[s] EXCEPT !.step = "exec"]
  <2>1. job[s] \in Jobs /\ job[s].kind = "app"
    BY ParamsOfIInv DEF AppEnds, Jobs
  <2>2. x \in Jobs /\ ~Omp(x) /\ OwnIsRouted(x) /\ (x.own <=> job[s].own)
    BY <2>1, StepOfJob DEF Omp, OwnIsRouted, Steps, Alive
  <2>3. /\ job' = [job EXCEPT ![s] = x]
        /\ UNCHANGED <<chain, servers, selected, chosen, undone>>
    BY <1>2 DEF AppEnds
  <2> HIDE DEF x
  <2> QED
    BY <1>0, <2>2, <2>3, Moved
<1> QED
  BY <1>1, <1>2 DEF AppEnds

LEMMA ExecEndsKeeps == ASSUME IInv, NEW s \in Job, ExecEnds(s) PROVE Kept
<1>1. /\ Free(s, job, chain)
      /\ NextInChain(s) = job /\ Unchained(s) = chain
  BY OutsideChain DEF ExecEnds
<1> QED
  BY <1>1, ParamsOfIInv, AnsweredKeeps, FailedKeeps DEF ExecEnds, Kept

(* All jobs that wait for the shared provider move on, none of them in the *)
(* chain.                                                                  *)
LEMMA CancelKeeps == ASSUME IInv, CancelCurrentTurn PROVE Kept
<1> DEFINE fall(s) == [job[s] EXCEPT !.step = "command", !.kind = "cli", !.last = TRUE]
           exec(s) == [job[s] EXCEPT !.step = "exec"]
<1>1. Tracked' /\ child'["own"] = child["own"]
  <2> DEFINE kept == live \ {child["shared"]}
             a == CHOOSE x \in Server : x \notin kept
  <2>1. Replaced(kept)
    BY DEF CancelCurrentTurn
  <2>2. a \in Server
    BY <2>1 DEF Replaced
  <2>3. /\ child' = [child EXCEPT !["shared"] = a]
        /\ live' = kept \union {a} /\ lost' = lost
        /\ booting' = booting \union {"shared"}
    BY <2>1 DEF Replaced
  <2> HIDE DEF a
  <2>4. Tracked
    BY ParamsOfIInv
  <2>5. /\ child' \in [Codex -> Server \union {None}] /\ child'["shared"] = a
        /\ child'["own"] = child["own"]
    BY <2>2, <2>3, <2>4 DEF Tracked, Codex
  <2> QED
    BY <2>2, <2>3, <2>4, <2>5 DEF Tracked, Codex
<1>2. PICK execs \in SUBSET {s \in Job : job[s].step = "app" /\ ~job[s].own} :
        job' = [s \in Job |-> IF job[s].step # "app" \/ job[s].own THEN job[s]
                              ELSE IF s \in execs THEN exec(s)
                              ELSE IF s = Turn THEN fall(s)
                              ELSE Idle]
  BY DEF CancelCurrentTurn
<1>3. ASSUME NEW s \in Job, job[s].step = "app"
      PROVE  /\ job[s] \in Jobs /\ ~Omp(job[s])
             /\ exec(s) \in Jobs /\ ~Omp(exec(s)) /\ OwnIsRouted(exec(s)) /\ exec(s).own = job[s].own
             /\ fall(s) \in Jobs /\ ~Omp(fall(s)) /\ OwnIsRouted(fall(s)) /\ fall(s).own = job[s].own
  <2>1. job[s] \in Jobs /\ job[s].kind = "app"
    BY <1>3, ParamsOfIInv DEF Jobs
  <2>2. fall(s) \in Jobs /\ ~Omp(fall(s)) /\ OwnIsRouted(fall(s)) /\ fall(s).own = job[s].own
    BY <2>1, FallbackJob
  <2>3. /\ exec(s) \in Jobs /\ exec(s).step = "exec" /\ exec(s).kind = "app"
        /\ exec(s).own = job[s].own
    BY <2>1, StepOfJob DEF Steps
  <2> HIDE DEF fall, exec
  <2> QED
    BY <2>1, <2>2, <2>3 DEF Omp, OwnIsRouted
<1> HIDE DEF fall, exec
<1>4. Idle \in Jobs /\ ~Omp(Idle) /\ ~Idle.own /\ OwnIsRouted(Idle)
  BY JobsOfProviders DEF Idle, Omp, OwnIsRouted
<1> HIDE DEF Idle
<1>5. \A s \in Job : /\ job'[s] \in Jobs
                     /\ job'[s] = job[s] \/ (~Omp(job'[s]) /\ ~Omp(job[s]))
  BY <1>2, <1>3, <1>4, ParamsOfIInv
<1>6. job' \in [Job -> Jobs]
  BY <1>2, <1>5
<1>7. chain' = chain /\ UNCHANGED <<selected, chosen, undone>>
  BY DEF CancelCurrentTurn, env
<1>8. Ordered(job', chain')
  <2>1. \A a \in 1 .. Len(chain) : chain[a] \in Job /\ Omp(job[chain[a]])
    BY ParamsOfIInv, LenProperties DEF Ordered
  <2>2. \A a \in 1 .. Len(chain) : job'[chain[a]] = job[chain[a]]
    BY <2>1, <1>5
  <2>3. \A s \in Job : Omp(job'[s]) => Omp(job[s])
    BY <1>5
  <2>4. /\ chain \in Seq(Job)
        /\ \A a, b \in 1 .. Len(chain) : chain[a] = chain[b] => a = b
        /\ \A s \in Job : Omp(job[s]) => \E a \in 1 .. Len(chain) : chain[a] = s
        /\ \A a \in 1 .. Len(chain) : job[chain[a]].step \in Alive <=> a = 1
    BY ParamsOfIInv DEF Ordered
  <2>5. \A a \in 1 .. Len(chain) : Omp(job'[chain[a]]) /\ (job'[chain[a]].step \in Alive <=> a = 1)
    BY <2>1, <2>2, <2>4
  <2>6. \A s \in Job : Omp(job'[s]) => \E a \in 1 .. Len(chain) : chain[a] = s
    BY <2>3, <2>4
  <2> QED
    BY <2>4, <2>5, <2>6, <1>6, <1>7 DEF Ordered
<1>9. Servers(job', child') /\ Tracked'
  <2>1. CASE job[Turn].step # "app" \/ job[Turn].own
    <3>1. job'[Turn] = job[Turn]
      BY <2>1, <1>2, ParamsOfIInv
    <3> QED
      BY <3>1, <1>1, ParamsOfIInv DEF Servers
  <2>2. CASE job[Turn].step = "app" /\ ~job[Turn].own
    <3>1. OwnIsRouted(job'[Turn]) /\ (job'[Turn].own => FALSE)
      BY <2>2, <1>2, <1>3, <1>4, ParamsOfIInv
    <3> QED
      BY <2>2, <3>1, <1>1, ParamsOfIInv DEF Servers
  <2> QED
    BY <2>1, <2>2
<1>10. ChoiceRecords'
  BY <1>7, ParamsOfIInv DEF ChoiceRecords, ChoiceTypes, ChoiceKept
<1> QED
  BY <1>8, <1>9, <1>10 DEF Kept

LEMMA BootsKeeps == ASSUME IInv, NEW p \in Codex, Boots(p) PROVE Kept
<1>1. Tracked' /\ (child'["own"] = child["own"] \/ child'["own"] = None)
  <2>1. CASE booting' = booting \ {p} /\ UNCHANGED <<child, live, heard, lost>>
    BY <2>1, ParamsOfIInv DEF Tracked
  <2>2. CASE Disposed(p)
    BY <2>2, ParamsOfIInv, DisposedKeeps DEF Codex
  <2> QED
    BY <2>1, <2>2 DEF Boots
<1>2. UNCHANGED <<job, chain, selected, chosen, undone>>
  BY DEF Boots, env
<1> QED
  BY <1>1, <1>2, ParamsOfIInv DEF Kept, Servers, ChoiceRecords, ChoiceTypes, ChoiceKept

(* A provider that forgets what it tracks forgets a living one only as     *)
(* lost.                                                                   *)
LEMMA ServerExitsKeeps == ASSUME IInv, NEW a \in Server, ServerExits(a) PROVE Kept
<1>1. Tracked' /\ (child'["own"] = child["own"] \/ child'["own"] = None)
  <2>1. live' = live \ {a} /\ Tracked
    BY ParamsOfIInv DEF ServerExits
  <2>2. ASSUME NEW p \in Codex, ForgetsAtExit(p, a)
        PROVE  Tracked' /\ (child'["own"] = child["own"] \/ child'["own"] = None)
    <3>1. /\ child' \in [Codex -> Server \union {None}] /\ child'[p] = None
          /\ \A q \in Codex : q # p => child'[q] = child[q]
      BY <2>1, <2>2 DEF ForgetsAtExit, Tracked
    <3>2. /\ lost' = (lost \union {child[p]}) \ {a, None}
          /\ booting' \subseteq Codex
      BY <2>1, <2>2 DEF ForgetsAtExit, Tracked
    <3>3. None \notin live
      BY <2>1, NoneAssumption DEF Tracked
    <3>4. p = "shared" \/ p = "own"
      BY DEF Codex
    <3> QED
      BY <2>1, <3>1, <3>2, <3>3, <3>4 DEF Tracked, Codex
  <2>3. CASE a # child["own"] /\ a \notin heard /\ lost' = lost \ {a} /\ UNCHANGED <<child, booting>>
    BY <2>1, <2>3 DEF Tracked
  <2> QED
    BY <2>2, <2>3 DEF ServerExits, Codex
<1>2. UNCHANGED <<job, chain, selected, chosen, undone>>
  BY DEF ServerExits, env
<1> QED
  BY <1>1, <1>2, ParamsOfIInv DEF Kept, Servers, ChoiceRecords, ChoiceTypes, ChoiceKept

LEMMA SelectKeeps ==
  ASSUME IInv, NEW c \in Client, NEW x \in Session \union {None}, Select(c, x)
  PROVE  Kept
<1>1. ChoiceRecords'
  BY ParamsOfIInv DEF Select, ChoiceRecords, ChoiceTypes, ChoiceKept
<1> QED
  BY <1>1, ParamsOfIInv, ServersKept DEF Select, Kept

-----------------------------------------------------------------------------

LEMMA InitIInv == Init => IInv
<1> SUFFICES ASSUME Init PROVE IInv
  OBVIOUS
<1> USE DEF Init
<1>1. Ordered(job, chain)
  <2>1. \A s \in Job : job[s] = Idle
    OBVIOUS
  <2>2. Idle \in Jobs /\ ~Omp(Idle)
    BY JobsOfProviders DEF Idle, Omp
  <2> HIDE DEF Idle
  <2>3. job \in [Job -> Jobs] /\ chain \in Seq(Job) /\ 1 .. Len(chain) = {}
    BY <2>2, EmptySeq
  <2> QED
    BY <2>1, <2>2, <2>3 DEF Ordered
<1>2. Servers(job, child) /\ Tracked
  <2>1. job[Turn] = Idle /\ child["own"] = None
    BY DEF Job, Codex
  <2>2. (CHOOSE a \in Server : TRUE) \in Server
    BY ServerAssumption
  <2> QED
    BY <2>1, <2>2 DEF Servers, OwnIsRouted, Tracked, Codex, Idle
<1>3. ChoiceRecords
  BY DEF ChoiceRecords, ChoiceTypes, ChoiceKept
<1> QED
  BY <1>1, <1>2, <1>3 DEF IInv

(* Every step keeps the chain in order, the servers owned, the choices and *)
(* the kind of the shared provider.                                        *)
LEMMA NextIInv == IInv /\ [Next]_vars => IInv'
<1> SUFFICES ASSUME IInv, [Next]_vars PROVE IInv'
  OBVIOUS
<1>1. shared' = shared
  BY DEF Next, vars, env, VoiceTurn, Heard, Reduced, Rendered, CancelCurrentTurn, TextTurn,
         Select, Brainstorm, CommandCloses, TimesOut, ForceKill, Deadline, AppEnds, ExecEnds,
         ServerExits, Boots
<1>2. Kept
  <2>1. CASE UNCHANGED vars
    BY <2>1, ParamsOfIInv, ServersKept DEF vars, Kept, ChoiceRecords, ChoiceTypes, ChoiceKept
  <2>2. CASE VoiceTurn
    <3> DEFINE x == [job[Turn] EXCEPT !.step = "hearing"]
    <3>1. job[Turn] \in Jobs /\ ~Omp(job[Turn]) /\ ~job[Turn].own
      BY <2>2, ParamsOfIInv DEF VoiceTurn, Omp, Alive
    <3>2. x \in Jobs /\ ~Omp(x) /\ OwnIsRouted(x) /\ ~x.own
      BY <3>1, StepOfJob DEF Omp, OwnIsRouted, Steps, Alive
    <3>3. /\ job' = [job EXCEPT ![Turn] = x]
          /\ UNCHANGED <<chain, servers, selected, chosen, undone>>
      BY <2>2 DEF VoiceTurn, env
    <3> HIDE DEF x
    <3> QED
      BY <3>1, <3>2, <3>3, ParamsOfIInv, Moved
  <2>3. CASE Heard
    BY <2>3, HeardKeeps
  <2>4. CASE Reduced
    <3>1. PICK b \in ByBackend \union {ByShared} : Prompted(Turn, b)
      BY <2>4 DEF Reduced
    <3> QED
      BY <2>4, <3>1, TurnPrompted DEF Reduced
  <2>5. CASE Rendered
    <3>1. Free(Turn, job, chain)
      BY <2>5, ParamsOfIInv, FreeOutside DEF Rendered, Omp, Alive
    <3>2. ChoiceRecords'
      BY <2>5, ParamsOfIInv DEF Rendered, env, ChoiceRecords, ChoiceTypes, ChoiceKept
    <3> QED
      BY <2>5, <3>1, <3>2, ParamsOfIInv, EndedKeeps DEF Rendered, Kept
  <2>6. CASE CancelCurrentTurn
    BY <2>6, CancelKeeps
  <2>7. ASSUME NEW c \in Client, TextTurn(c) PROVE Kept
    <3>1. PICK b \in {ByShared, BySelection(c)} \union ByBackend : Prompted(Turn, b)
      BY <2>7 DEF TextTurn
    <3> QED
      BY <2>7, <3>1, TurnPrompted DEF TextTurn
  <2>8. ASSUME NEW c \in Client, NEW x \in Session \union {None}, Select(c, x) PROVE Kept
    BY <2>8, SelectKeeps
  <2>9. ASSUME NEW s \in Storm, Brainstorm(s) PROVE Kept
    <3>1. s \in Job /\ s # Turn /\ ~Omp(job[s])
      BY <2>9, JobsAssumption DEF Brainstorm, Job, Omp, Alive
    <3>2. ByShared \in Jobs /\ ~ByShared.own
      BY ParamsOfIInv, JobsOfProviders
    <3> QED
      BY <2>9, <3>1, <3>2, PromptedKeeps DEF Brainstorm, Kept
  <2>10. ASSUME NEW s \in Job, CommandCloses(s) \/ Deadline(s) PROVE Kept
    BY <2>10, ClosedKeeps DEF CommandCloses, Deadline, Alive
  <2>11. ASSUME NEW s \in Job, TimesOut(s) PROVE Kept
    BY <2>11, TimesOutKeeps
  <2>12. ASSUME NEW s \in Job, ForceKill(s) PROVE Kept
    BY <2>12, Running DEF ForceKill, env, Alive
  <2>13. ASSUME NEW s \in Job, AppEnds(s) PROVE Kept
    BY <2>13, AppEndsKeeps
  <2>14. ASSUME NEW s \in Job, ExecEnds(s) PROVE Kept
    BY <2>14, ExecEndsKeeps
  <2>15. ASSUME NEW a \in Server, ServerExits(a) PROVE Kept
    BY <2>15, ServerExitsKeeps
  <2>16. ASSUME NEW p \in Codex, Boots(p) PROVE Kept
    BY <2>16, BootsKeeps
  <2> QED
    BY <2>1, <2>2, <2>3, <2>4, <2>5, <2>6, <2>7, <2>8, <2>9, <2>10, <2>11, <2>12, <2>13,
       <2>14, <2>15, <2>16
       DEF Next
<1> QED
  BY <1>1, <1>2 DEF IInv, Kept

LEMMA SpecIInv == Spec => []IInv
  BY InitIInv, NextIInv, PTL DEF Spec

(* Runs of ompk wait for each other and give up their places, and every    *)
(* app-server that lives is tracked by a provider that will stop it, or    *)
(* was forgotten at the late exit of another: for every number of          *)
(* brainstorms and app-servers and every limit of the chain.               *)
THEOREM ProcessesAccountedAlways == Spec => []ProcessesAccounted
<1>1. IInv => OneOmpAtATime
  <2> SUFFICES ASSUME IInv PROVE OneOmpAtATime
    OBVIOUS
  <2> DEFINE n == Len(chain)
  <2>1. /\ DOMAIN chain = 1 .. n /\ n \in Nat
        /\ \A a \in 1 .. n : chain[a] \in Job
    BY ParamsOfIInv, LenProperties DEF Ordered
  <2>2. \A s \in Job : Omp(job[s]) <=> s \in InOmp
    BY DEF Omp, InOmp
  <2>3. IsInjective(chain)
    BY <2>1, ParamsOfIInv DEF Ordered, IsInjective
  <2>4. ToSet(chain) = InOmp
    <3>1. \A s \in ToSet(chain) : s \in InOmp
      BY <2>1, <2>2, ParamsOfIInv DEF Ordered, ToSet
    <3>2. \A s \in InOmp : s \in ToSet(chain)
      BY <2>1, <2>2, ParamsOfIInv DEF Ordered, ToSet, InOmp
    <3> QED
      BY <3>1, <3>2
  <2>5. ASSUME NEW s \in InOmp
        PROVE  job[s].step \in Alive <=> s = Head(chain)
    <3>1. PICK a \in 1 .. n : chain[a] = s
      BY <2>1, <2>2, <2>5, ParamsOfIInv DEF Ordered, InOmp
    <3>2. job[s].step \in Alive <=> a = 1
      BY <3>1, ParamsOfIInv DEF Ordered
    <3>3. Head(chain) = chain[1] /\ 1 \in 1 .. n
      <4> HIDE DEF n
      <4>1. 1 \in 1 .. n
        BY <3>1, <2>1
      <4>2. chain # <<>>
        BY <4>1, EmptySeq DEF n
      <4> QED
        BY <4>1, <4>2, ParamsOfIInv, HeadTailProperties DEF Ordered
    <3>4. a = 1 <=> chain[a] = chain[1]
      BY <3>1, <3>3, ParamsOfIInv DEF Ordered
    <3> QED
      BY <3>1, <3>2, <3>3, <3>4
  <2> QED
    BY <2>3, <2>4, <2>5 DEF OneOmpAtATime
<1>2. IInv => NoServerLeftBehind
  BY DEF IInv, Servers, Tracked, NoServerLeftBehind
<1> QED
  BY <1>1, <1>2, SpecIInv, PTL DEF ProcessesAccounted

(* No turn, cancel or fallback changes what another client has selected,   *)
(* for every number of clients and sessions.                               *)
THEOREM ChoiceKeptAlways == Spec => []ChoiceKept
<1>1. IInv => ChoiceKept
  BY DEF IInv, ChoiceRecords
<1> QED
  BY <1>1, SpecIInv, PTL

=============================================================================
