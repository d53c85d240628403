---------------------- MODULE SessionWorktree_proofs ----------------------
(***************************************************************************)
(* Theorems about the worktrees of picked up sessions, for any number of   *)
(* processes, sessions and pieces of work.  The inductive invariant says   *)
(* what a process that alone works on a session knows of it at each stage: *)
(* what it has read or done there still holds when it acts on it.          *)
(***************************************************************************)
EXTENDS SessionWorktree, TLAPS

(* An idle process has no session, any other has one; a session that was   *)
(* never worked on by two at once is worked on by one.                     *)
IdleHasNone ==
  \A p \in Process : job[p].stage = "idle" <=> job[p].session = None

Alone ==
  \A p, q \in Process, s \in Session \ overlap :
    job[p].session = s /\ job[q].session = s => p = q

(* What a pickup and a sweep rely on from stage to stage.                  *)
PickupKnows(p, s) ==
  /\ At(p, s, "patch") \/ At(p, s, "lease") => tree[s].there
  /\ At(p, s, "reuse") \/ At(p, s, "import") => tree[s].there /\ lease[s].there

Sweeping == {"planned", "plannedDirty", "rescue", "remove"}

SweepKnows(p, s) ==
  /\ At(p, s, "unlease") => ~tree[s].there
  /\ job[p].session = s /\ job[p].stage \in Sweeping => job[p].forced \/ Expired(s)
  /\ At(p, s, "planned") => tree[s].diff \subseteq unseen[p]
  /\ At(p, s, "remove") /\ Large \intersect begun = {} =>
       tree[s].diff \subseteq bundle[s] \union unseen[p]

Knows == \A p \in Process, s \in Session \ overlap : PickupKnows(p, s) /\ SweepKnows(p, s)

DiffBegun == \A s \in Session : tree[s].diff \subseteq begun

IInv == TypeOK /\ IdleHasNone /\ Alone /\ Knows /\ DiffBegun /\ WorktreesAreManaged

-----------------------------------------------------------------------------

(* The steps that processes take for a session, and the other ones.        *)
Works(p, s) ==
  \/ Reuse(p, s) \/ AddWorktree(p, s) \/ ApplyPatch(p, s) \/ WriteLease(p, s) \/ Import(p, s)
  \/ Reread(p, s) \/ Rescue(p, s) \/ Remove(p, s) \/ RemoveLease(p, s)

Looks(p, s) == Pickup(p, s) \/ \E forced \in BOOLEAN : List(p, s, forced)

AgentActs(s) == Commit(s) \/ \E w \in Work : Edit(s, w) \/ AddFile(s, w)

LEMMA NextCases ==
  ASSUME [Next]_vars
  PROVE  \/ Tick \/ UNCHANGED vars
         \/ \E p \in Process : Crash(p)
         \/ \E s \in Session : AgentActs(s)
         \/ \E p \in Process, s \in Session : Works(p, s) \/ Looks(p, s)
BY DEF Next, AgentActs, Works, Looks

Job == [stage : Stage, session : Session \union {None}, forced : BOOLEAN]
Lease == [there : BOOLEAN, used : 0 .. MaxTime, transcript : BOOLEAN]

(* What Goes and Begins do to the jobs.                                    *)
LEMMA GoesJob ==
  ASSUME job \in [Process -> Job], NEW p \in Process, NEW stage \in Stage, Goes(p, stage)
  PROVE  /\ job' \in [Process -> Job]
         /\ \A q \in Process : q # p => job'[q] = job[q]
         /\ stage = "idle" => job'[p] = NoJob
         /\ stage # "idle" => /\ job'[p].stage = stage
                              /\ job'[p].session = job[p].session
                              /\ job'[p].forced = job[p].forced
<1>1. NoJob \in Job /\ [job[p] EXCEPT !.stage = stage] \in Job
  BY DEF NoJob, Job, Stage
<1>2. CASE stage = "idle"
  <2>1. job' = [job EXCEPT ![p] = NoJob]
    BY <1>2 DEF Goes
  <2> QED
    BY <1>1, <1>2, <2>1
<1>3. CASE stage # "idle"
  <2>1. job' = [job EXCEPT ![p] = [job[p] EXCEPT !.stage = stage]]
    BY <1>3 DEF Goes
  <2> QED
    BY <1>1, <1>3, <2>1 DEF Job
<1> QED
  BY <1>2, <1>3

LEMMA BeginsJob ==
  ASSUME job \in [Process -> Job], NEW p \in Process, NEW s \in Session, NEW stage \in Stage,
         NEW forced \in BOOLEAN, Begins(p, s, stage, forced)
  PROVE  /\ job' \in [Process -> Job]
         /\ \A q \in Process : q # p => job'[q] = job[q]
         /\ job[p].stage = "idle"
         /\ job'[p].stage = stage /\ job'[p].session = s
         /\ job'[p].forced = forced
         /\ overlap' = IF \E q \in Process \ {p} : job[q].session = s
                         THEN overlap \union {s} ELSE overlap
BY DEF Begins, BusyElsewhere, Job

(* Every step of a process for a session goes to a stage.                  *)
LEMMA WorksGoes ==
  ASSUME NEW p \in Process, NEW s \in Session, Works(p, s)
  PROVE  /\ \E stage \in Stage : Goes(p, stage)
         /\ job[p].session = s /\ job[p].stage # "idle"
         /\ UNCHANGED <<now, overlap, orphan>>
BY DEF Works, Reuse, AddWorktree, ApplyPatch, WriteLease, Import, Reread, Rescue, Remove, RemoveLease,
       At, Stage

LEMMA ChangeType ==
  ASSUME tree \in [Session -> Tree], unseen \in [Process -> SUBSET Work], begun \subseteq Work,
         NEW s \in Session, NEW w \in Work, NEW change \in Tree, Change(s, w, change)
  PROVE  /\ tree' \in [Session -> Tree] /\ unseen' \in [Process -> SUBSET Work]
         /\ begun' \subseteq Work
BY DEF Change

LEMMA MoreWork ==
  ASSUME NEW t \in Tree, NEW w \in Work
  PROVE  /\ [t EXCEPT !.diff = @ \union {w}] \in Tree
         /\ [t EXCEPT !.untracked = @ \union {w}] \in Tree
BY DEF Tree

LEMMA TypeOKStep == TypeOK /\ IdleHasNone /\ [Next]_vars => TypeOK'
<1> SUFFICES ASSUME TypeOK, IdleHasNone, [Next]_vars PROVE TypeOK'
  OBVIOUS
<1>0. /\ now \in 0 .. MaxTime
      /\ tree \in [Session -> Tree] /\ lease \in [Session -> Lease]
      /\ branch \subseteq Work /\ begun \subseteq Work
      /\ bundle \in [Session -> SUBSET Work]
      /\ job \in [Process -> Job]
      /\ unseen \in [Process -> SUBSET Work]
      /\ overlap \subseteq Session /\ orphan \subseteq Session
  BY DEF TypeOK, Job, Lease
<1>a. (/\ now \in 0 .. MaxTime
       /\ tree \in [Session -> Tree] /\ lease \in [Session -> Lease]
       /\ branch \subseteq Work /\ begun \subseteq Work
       /\ bundle \in [Session -> SUBSET Work]
       /\ job \in [Process -> Job]
       /\ unseen \in [Process -> SUBSET Work]
       /\ overlap \subseteq Session /\ orphan \subseteq Session)' => TypeOK'
  BY DEF TypeOK, Job, Lease
<1>1. CASE Tick
  BY <1>0, <1>1, <1>a, WorktreeAssumption DEF Tick, files
<1>2. CASE UNCHANGED vars
  BY <1>0, <1>2, <1>a DEF vars, files
<1>3. ASSUME NEW p \in Process, Crash(p) PROVE TypeOK'
  <2>1. job' \in [Process -> Job]
    BY <1>0, <1>3, GoesJob DEF Crash, Stage
  <2>2. job[p].session \in Session
    BY <1>0, <1>3 DEF Crash, IdleHasNone, Job
  <2>3. orphan' \subseteq Session
    BY <1>0, <1>3, <2>2 DEF Crash
  <2> QED
    BY <1>0, <1>3, <1>a, <2>1, <2>3 DEF Crash, files
<1>4. ASSUME NEW s \in Session, AgentActs(s) PROVE TypeOK'
  <2>1. CASE Commit(s)
    <3> DEFINE changes == tree[s].diff \union tree[s].untracked
               commits == IF tree[s].attached THEN tree[s].commits ELSE tree[s].commits \union changes
    <3>0. tree' = [tree EXCEPT ![s] = [tree[s] EXCEPT !.diff = {}, !.untracked = {}, !.commits = commits]]
      BY <1>0, <2>1 DEF Commit, Tree
    <3>1. tree' \in [Session -> Tree] /\ branch' \subseteq Work
      <4>1. tree[s] \in Tree /\ changes \subseteq Work /\ commits \subseteq Work
        BY <1>0 DEF Tree
      <4> HIDE DEF commits
      <4>2. [tree[s] EXCEPT !.diff = {}, !.untracked = {}, !.commits = commits] \in Tree
        BY <4>1 DEF Tree
      <4>3. tree' \in [Session -> Tree]
        BY <1>0, <3>0, <4>2
      <4>4. branch' = (IF tree[s].attached THEN branch \union changes ELSE branch)
        BY <2>1 DEF Commit
      <4>5. branch' \subseteq Work
        BY <1>0, <4>1, <4>4
      <4> QED
        BY <4>3, <4>5
    <3> QED
      BY <1>0, <2>1, <1>a, <3>1 DEF Commit
  <2>2. ASSUME NEW w \in Work, Edit(s, w) \/ AddFile(s, w) PROVE TypeOK'
    <3>1. /\ tree' \in [Session -> Tree] /\ unseen' \in [Process -> SUBSET Work]
          /\ begun' \subseteq Work
      BY <1>0, <2>2, ChangeType, MoreWork DEF Edit, AddFile
    <3> QED
      BY <1>0, <2>2, <1>a, <3>1 DEF Edit, AddFile
  <2> QED
    BY <1>4, <2>1, <2>2 DEF AgentActs
<1>5. ASSUME NEW p \in Process, NEW s \in Session, Looks(p, s) PROVE TypeOK'
  <2>1. PICK stage \in Stage, forced \in BOOLEAN :
          Begins(p, s, stage, forced)
    BY <1>5 DEF Looks, Pickup, List, Stage
  <2>2. UNCHANGED <<now, files, begun, orphan>>
    BY <1>5 DEF Looks, Pickup, List
  <2>3. job' \in [Process -> Job] /\ overlap' \subseteq Session
    BY <1>0, <2>1, BeginsJob
  <2>4. unseen' \in [Process -> SUBSET Work]
    BY <1>0, <2>1 DEF Begins
  <2> QED
    BY <1>0, <1>a, <2>2, <2>3, <2>4 DEF files
<1>6. ASSUME NEW p \in Process, NEW s \in Session, Works(p, s) PROVE TypeOK'
  <2>1. job' \in [Process -> Job] /\ UNCHANGED <<now, overlap, orphan>>
    BY <1>0, <1>6, WorksGoes, GoesJob
  <2>2. CASE Reuse(p, s) \/ WriteLease(p, s) \/ Import(p, s) \/ RemoveLease(p, s)
    <3>0. lease[s] \in Lease /\ now \in 0 .. MaxTime /\ 0 \in 0 .. MaxTime
      BY <1>0, WorktreeAssumption
    <3>1. /\ [lease[s] EXCEPT !.used = now] \in Lease
          /\ [lease[s] EXCEPT !.transcript = TRUE] \in Lease
          /\ [there |-> TRUE, used |-> now, transcript |-> FALSE] \in Lease
          /\ NoLease \in Lease
      BY <3>0 DEF Lease, NoLease
    <3>2. lease' \in [Session -> Lease]
      <4> HIDE DEF NoLease
      <4> QED
        BY <1>0, <2>2, <3>1 DEF Reuse, WriteLease, Import, RemoveLease
    <3> QED
      BY <1>0, <1>a, <2>1, <2>2, <3>2 DEF Reuse, WriteLease, Import, RemoveLease
  <2>3. CASE AddWorktree(p, s) \/ Remove(p, s)
    <3>1. NoTree \in Tree /\ \A b \in BOOLEAN :
            [NoTree EXCEPT !.there = TRUE, !.attached = b] \in Tree
      BY DEF NoTree, Tree
    <3>2. tree' \in [Session -> Tree] /\ branch' \subseteq Work
      <4> HIDE DEF NoTree
      <4>1. CASE AddWorktree(p, s)
        BY <1>0, <3>1, <4>1 DEF AddWorktree
      <4>2. CASE Remove(p, s)
        BY <1>0, <3>1, <4>2 DEF Remove
      <4> QED
        BY <2>3, <4>1, <4>2
    <3> QED
      BY <1>0, <1>a, <2>1, <2>3, <3>2 DEF AddWorktree, Remove
  <2>4. CASE ApplyPatch(p, s)
    <3>1. /\ tree' \in [Session -> Tree] /\ unseen' \in [Process -> SUBSET Work]
          /\ begun' \subseteq Work
      BY <1>0, <2>4, ChangeType, MoreWork DEF ApplyPatch
    <3> QED
      BY <1>0, <1>a, <2>1, <2>4, <3>1 DEF ApplyPatch
  <2>5. CASE Reread(p, s) \/ Rescue(p, s)
    <3>1. bundle' \in [Session -> SUBSET Work] /\ unseen' \in [Process -> SUBSET Work]
      BY <1>0, <2>5 DEF Reread, Rescue, Captured, files, Tree
    <3> QED
      BY <1>0, <1>a, <2>1, <2>5, <3>1 DEF Reread, Rescue, files
  <2> QED
    BY <1>6, <2>2, <2>3, <2>4, <2>5 DEF Works
<1> QED
  BY NextCases, <1>1, <1>2, <1>3, <1>4, <1>5, <1>6

-----------------------------------------------------------------------------

LEMMA JobsStep == TypeOK /\ IdleHasNone /\ Alone /\ [Next]_vars => IdleHasNone' /\ Alone'
<1> SUFFICES ASSUME TypeOK, IdleHasNone, Alone, [Next]_vars PROVE IdleHasNone' /\ Alone'
  OBVIOUS
<1>0. job \in [Process -> Job] /\ None \notin Session
  BY WorktreeAssumption DEF TypeOK, Job
<1>1. CASE Tick \/ UNCHANGED vars \/ \E s \in Session : AgentActs(s)
  BY <1>1 DEF Tick, vars, AgentActs, Commit, Edit, AddFile, IdleHasNone, Alone
<1>2. ASSUME NEW p \in Process, UNCHANGED overlap,
             \E stage \in Stage : Goes(p, stage) /\ (stage # "idle" => job[p].stage # "idle")
      PROVE  IdleHasNone' /\ Alone'
  <2>1. /\ \A q \in Process : q # p => job'[q] = job[q]
        /\ \/ job'[p] = NoJob
           \/ job'[p].stage # "idle" /\ job[p].stage # "idle" /\ job'[p].session = job[p].session
    BY <1>0, <1>2, GoesJob
  <2>2. NoJob.stage = "idle" /\ NoJob.session = None
    BY DEF NoJob
  <2>3. IdleHasNone'
    BY <2>1, <2>2 DEF IdleHasNone
  <2>4. Alone'
    BY <1>0, <1>2, <2>1, <2>2 DEF Alone
  <2> QED
    BY <2>3, <2>4
<1>3. ASSUME NEW p \in Process, Crash(p) PROVE IdleHasNone' /\ Alone'
  BY <1>2, <1>3 DEF Crash, Stage
<1>4. ASSUME NEW p \in Process, NEW s \in Session, Works(p, s) PROVE IdleHasNone' /\ Alone'
  BY <1>2, <1>4, WorksGoes
<1>5. ASSUME NEW p \in Process, NEW s \in Session, Looks(p, s) PROVE IdleHasNone' /\ Alone'
  <2>1. PICK stage \in Stage \ {"idle"}, forced \in BOOLEAN :
          Begins(p, s, stage, forced)
    BY <1>5 DEF Looks, Pickup, List, Stage
  <2>2. /\ \A q \in Process : q # p => job'[q] = job[q]
        /\ job'[p].stage = stage /\ job'[p].session = s
        /\ overlap' = IF \E q \in Process \ {p} : job[q].session = s
                        THEN overlap \union {s} ELSE overlap
    BY <1>0, <2>1, BeginsJob
  <2>3. IdleHasNone'
    BY <1>0, <2>1, <2>2 DEF IdleHasNone
  <2>4. Alone'
    BY <2>2 DEF Alone
  <2> QED
    BY <2>3, <2>4
<1> QED
  BY NextCases, <1>1, <1>3, <1>4, <1>5

(* A process touches only the session it works for, and other processes on *)
(* other sessions do not notice.                                           *)
LEMMA WorksFrame ==
  ASSUME TypeOK, NEW p \in Process, NEW s \in Session, Works(p, s)
  PROVE  /\ \A t \in Session \ {s} : tree'[t] = tree[t] /\ lease'[t] = lease[t] /\ bundle'[t] = bundle[t]
         /\ \A q \in Process \ {p} : job[q].session # s => unseen'[q] = unseen[q]
         /\ begun \subseteq begun'
<1> USE DEF TypeOK
<1>1. CASE Reuse(p, s) \/ AddWorktree(p, s) \/ WriteLease(p, s) \/ Import(p, s)
  BY <1>1 DEF Reuse, AddWorktree, WriteLease, Import
<1>2. CASE ApplyPatch(p, s)
  BY <1>2 DEF ApplyPatch, Change
<1>3. CASE Reread(p, s) \/ Rescue(p, s) \/ Remove(p, s) \/ RemoveLease(p, s)
  BY <1>3 DEF Reread, Rescue, Remove, RemoveLease, files
<1> QED
  BY <1>1, <1>2, <1>3 DEF Works

LEMMA DiffBegunStep == TypeOK /\ DiffBegun /\ [Next]_vars => DiffBegun'
<1> SUFFICES ASSUME TypeOK, DiffBegun, [Next]_vars PROVE DiffBegun'
  OBVIOUS
<1>0. tree \in [Session -> Tree]
  BY DEF TypeOK
<1>1. CASE Tick \/ UNCHANGED vars \/ \E p \in Process : Crash(p)
  BY <1>1 DEF Tick, vars, files, Crash, DiffBegun
<1>2. ASSUME NEW s \in Session, NEW w \in Work, NEW change \in Tree, Change(s, w, change),
             change.diff \subseteq tree[s].diff \union {w}
      PROVE  DiffBegun'
  BY <1>0, <1>2 DEF Change, DiffBegun
<1>3. ASSUME NEW s \in Session, AgentActs(s) PROVE DiffBegun'
  <2>1. CASE Commit(s)
    <3>1. \A t \in Session : tree'[t].diff \subseteq tree[t].diff
      BY <1>0, <2>1 DEF Commit, Tree
    <3> QED
      BY <2>1, <3>1 DEF Commit, DiffBegun
  <2>2. ASSUME NEW w \in Work, Edit(s, w) \/ AddFile(s, w) PROVE DiffBegun'
    <3>1. /\ [tree[s] EXCEPT !.diff = @ \union {w}].diff = tree[s].diff \union {w}
          /\ [tree[s] EXCEPT !.untracked = @ \union {w}].diff = tree[s].diff
      BY <1>0 DEF Tree
    <3> QED
      BY <1>0, <1>2, <2>2, <3>1, MoreWork DEF Edit, AddFile
  <2> QED
    BY <1>3, <2>1, <2>2 DEF AgentActs
<1>4. ASSUME NEW p \in Process, NEW s \in Session, Looks(p, s) PROVE DiffBegun'
  BY <1>4 DEF Looks, Pickup, List, files, DiffBegun
<1>5. ASSUME NEW p \in Process, NEW s \in Session, Works(p, s) PROVE DiffBegun'
  <2>1. CASE ApplyPatch(p, s)
    <3>1. \A w \in Work : [tree[s] EXCEPT !.diff = @ \union {w}].diff = tree[s].diff \union {w}
      BY <1>0 DEF Tree
    <3> QED
      BY <1>0, <1>2, <2>1, <3>1, MoreWork DEF ApplyPatch, DiffBegun
  <2>2. CASE AddWorktree(p, s) \/ Remove(p, s)
    <3>1. NoTree.diff = {} /\ \A b \in BOOLEAN : [NoTree EXCEPT !.there = TRUE, !.attached = b].diff = {}
      BY DEF NoTree
    <3>2. \A t \in Session : tree'[t].diff \subseteq tree[t].diff
      BY <1>0, <2>2, <3>1 DEF AddWorktree, Remove
    <3> QED
      BY <2>2, <3>2 DEF AddWorktree, Remove, DiffBegun
  <2>3. CASE ~ApplyPatch(p, s) /\ ~AddWorktree(p, s) /\ ~Remove(p, s)
    BY <1>5, <2>3 DEF Works, Reuse, WriteLease, Import, Reread, Rescue, RemoveLease, files, DiffBegun
  <2> QED
    BY <2>1, <2>2, <2>3
<1> QED
  BY NextCases, <1>1, <1>3, <1>4, <1>5

-----------------------------------------------------------------------------

(* What the processes know is not disturbed by the clock, the agents and   *)
(* crashes ...                                                             *)
LEMMA KnowsKept ==
  ASSUME IInv, [Next]_vars,
         Tick \/ UNCHANGED vars \/ (\E p \in Process : Crash(p)) \/ \E s \in Session : AgentActs(s)
  PROVE  Knows'
<1> SUFFICES ASSUME NEW p \in Process, NEW s \in Session \ overlap',
                    job'[p].stage # "idle"
             PROVE  PickupKnows(p, s)' /\ SweepKnows(p, s)'
  BY DEF Knows, PickupKnows, SweepKnows, Sweeping, At
<1>0. /\ tree \in [Session -> Tree] /\ lease \in [Session -> Lease] /\ job \in [Process -> Job]
      /\ unseen \in [Process -> SUBSET Work] /\ now \in Nat /\ \A t \in Session : lease[t].used \in Nat
      /\ TTL \in Nat
  BY WorktreeAssumption DEF IInv, TypeOK, Job, Lease
<1>1. UNCHANGED <<lease, bundle, overlap>> /\ now <= now' /\ now' \in Nat
  <2>1. CASE Tick
    BY <1>0, <2>1 DEF Tick, files
  <2>2. CASE UNCHANGED vars \/ (\E q \in Process : Crash(q)) \/ \E t \in Session : AgentActs(t)
    <3>1. UNCHANGED <<lease, bundle, overlap, now>>
      BY <2>2 DEF vars, files, Crash, AgentActs, Commit, Edit, AddFile
    <3> QED
      BY <1>0, <3>1
  <2> QED
    BY <2>1, <2>2
<1>2. PickupKnows(p, s) /\ SweepKnows(p, s)
  BY <1>1 DEF IInv, Knows
<1>3. job'[p] = job[p]
  <2>1. ASSUME NEW q \in Process, Crash(q) PROVE job'[p] = job[p]
    BY <1>0, <2>1, GoesJob DEF Crash, NoJob, Stage
  <2> QED
    BY <2>1 DEF Tick, vars, AgentActs, Commit, Edit, AddFile
<1>4. Expired(s) => Expired(s)'
  BY <1>0, <1>1 DEF Expired
<1>5. /\ tree'[s].there = tree[s].there
      /\ begun \subseteq begun'
      /\ unseen[p] \subseteq unseen'[p]
      /\ job[p].session = s => tree'[s].diff \subseteq tree[s].diff \union unseen'[p]
  <2>1. CASE Tick \/ UNCHANGED vars \/ \E q \in Process : Crash(q)
    <3>1. UNCHANGED <<tree, begun, unseen>>
      BY <2>1 DEF Tick, vars, files, Crash
    <3> QED
      BY <3>1
  <2>2. ASSUME NEW t \in Session, Commit(t)
    PROVE  /\ tree'[s].there = tree[s].there
           /\ begun \subseteq begun'
           /\ unseen[p] \subseteq unseen'[p]
           /\ job[p].session = s => tree'[s].diff \subseteq tree[s].diff \union unseen'[p]
    <3>1. UNCHANGED <<begun, unseen>>
      BY <2>2 DEF Commit
    <3>2. tree'[s].there = tree[s].there /\ tree'[s].diff \subseteq tree[s].diff
      BY <1>0, <2>2 DEF Commit, Tree
    <3> QED
      BY <3>1, <3>2
  <2>3. ASSUME NEW t \in Session, NEW w \in Work, Edit(t, w) \/ AddFile(t, w)
    PROVE  /\ tree'[s].there = tree[s].there
           /\ begun \subseteq begun'
           /\ unseen[p] \subseteq unseen'[p]
           /\ job[p].session = s => tree'[s].diff \subseteq tree[s].diff \union unseen'[p]
    <3>1. /\ begun \subseteq begun'
          /\ unseen'[p] = IF job[p].session = t THEN unseen[p] \union {w} ELSE unseen[p]
      BY <1>0, <2>3 DEF Edit, AddFile, Change
    <3>2. CASE s = t
      <4>1. tree'[s].there = tree[s].there /\ tree'[s].diff \subseteq tree[s].diff \union {w}
        BY <1>0, <2>3, <3>2 DEF Edit, AddFile, Change, Tree
      <4> QED
        BY <3>1, <3>2, <4>1
    <3>3. CASE s # t
      <4>1. tree'[s] = tree[s]
        BY <1>0, <2>3, <3>3 DEF Edit, AddFile, Change
      <4> QED
        BY <3>1, <4>1
    <3> QED
      BY <3>2, <3>3
  <2> QED
    BY <2>1, <2>2, <2>3 DEF AgentActs
<1>6. PickupKnows(p, s)'
  BY <1>1, <1>2, <1>3, <1>5 DEF PickupKnows, At
<1>7. SweepKnows(p, s)'
  BY <1>1, <1>2, <1>3, <1>4, <1>5 DEF SweepKnows, Sweeping, At
<1> QED
  BY <1>6, <1>7

(* ... nor by a process that takes up a session ...                        *)
LEMMA KnowsLooks ==
  ASSUME IInv, NEW p \in Process, NEW s \in Session, Looks(p, s)
  PROVE  Knows'
<1>0. /\ tree \in [Session -> Tree] /\ job \in [Process -> Job] /\ unseen \in [Process -> SUBSET Work]
  BY DEF IInv, TypeOK, Job
<1>1. UNCHANGED <<now, files, begun>>
  BY DEF Looks, Pickup, List
<1>2. PICK stage \in Stage, forced \in BOOLEAN :
        /\ Begins(p, s, stage, forced)
        /\ \/ stage = "reuse" /\ tree[s].there /\ lease[s].there
           \/ stage = "add"
           \/ stage = "planned" /\ (forced \/ Expired(s)) /\ ~Dirty(s)
           \/ stage = "plannedDirty" /\ (forced \/ Expired(s))
  BY DEF Looks, Pickup, List, Stage
<1>3. /\ \A q \in Process : q # p => job'[q] = job[q]
      /\ job'[p].stage = stage /\ job'[p].session = s
      /\ job'[p].forced = forced
      /\ overlap \subseteq overlap'
  BY <1>0, <1>2, BeginsJob
<1>4. unseen' = [unseen EXCEPT ![p] = {}]
  BY <1>2 DEF Begins
<1>5. ASSUME NEW q \in Process, NEW t \in Session \ overlap', q # p
      PROVE  PickupKnows(q, t)' /\ SweepKnows(q, t)'
  <2>1. PickupKnows(q, t) /\ SweepKnows(q, t)
    BY <1>3 DEF IInv, Knows
  <2>2. job'[q] = job[q] /\ unseen'[q] = unseen[q]
    BY <1>0, <1>3, <1>4, <1>5
  <2>3. PickupKnows(q, t)'
    BY <1>1, <2>1, <2>2 DEF PickupKnows, At, files
  <2>4. SweepKnows(q, t)'
    BY <1>1, <2>1, <2>2 DEF SweepKnows, Sweeping, At, files, Expired
  <2> QED
    BY <2>3, <2>4
<1>6. ASSUME NEW t \in Session \ overlap' PROVE PickupKnows(p, t)' /\ SweepKnows(p, t)'
  <2>1. PickupKnows(p, t)'
    BY <1>1, <1>2, <1>3 DEF PickupKnows, At, files
  <2>2. SweepKnows(p, t)'
    BY <1>1, <1>2, <1>3 DEF SweepKnows, Sweeping, At, files, Expired, Dirty
  <2> QED
    BY <2>1, <2>2
<1> QED
  BY <1>5, <1>6 DEF Knows

(* ... and the process that alone works on a session learns at each step   *)
(* what the next one relies on.                                            *)
LEMMA KnowsWorks ==
  ASSUME IInv, NEW p \in Process, NEW s \in Session, Works(p, s)
  PROVE  Knows'
<1>0. /\ tree \in [Session -> Tree] /\ lease \in [Session -> Lease] /\ job \in [Process -> Job]
      /\ unseen \in [Process -> SUBSET Work] /\ bundle \in [Session -> SUBSET Work]
      /\ None \notin Session /\ TypeOK
  BY WorktreeAssumption DEF IInv, TypeOK, Job, Lease
<1>1. job[p].session = s /\ job[p].stage # "idle" /\ UNCHANGED <<now, overlap, orphan>>
  BY WorksGoes
<1>2. /\ \A q \in Process : q # p => job'[q] = job[q]
      /\ \/ job'[p] = NoJob
         \/ job'[p].session = s /\ job'[p].forced = job[p].forced
  BY <1>0, <1>1, WorksGoes, GoesJob
<1>3. ASSUME NEW q \in Process, NEW t \in Session \ overlap', q # p, job[q].session = t
      PROVE  PickupKnows(q, t)' /\ SweepKnows(q, t)'
  <2>1. PickupKnows(q, t) /\ SweepKnows(q, t) /\ t # s
    BY <1>1, <1>3 DEF IInv, Knows, Alone
  <2>2. /\ job'[q] = job[q] /\ unseen'[q] = unseen[q] /\ begun \subseteq begun'
        /\ tree'[t] = tree[t] /\ lease'[t] = lease[t] /\ bundle'[t] = bundle[t]
    BY <1>0, <1>2, <1>3, <2>1, WorksFrame
  <2>3. PickupKnows(q, t)'
    BY <2>1, <2>2 DEF PickupKnows, At
  <2>4. SweepKnows(q, t)'
    BY <1>1, <2>1, <2>2 DEF SweepKnows, Sweeping, At, Expired
  <2> QED
    BY <2>3, <2>4
<1>4. ASSUME s \notin overlap PROVE PickupKnows(p, s)' /\ SweepKnows(p, s)'
  <2>0. PickupKnows(p, s) /\ SweepKnows(p, s) /\ tree[s].diff \subseteq begun
    BY <1>4 DEF IInv, Knows, DiffBegun
  <2>a. NoJob.stage = "idle" /\ NoTree.there = FALSE
    BY DEF NoJob, NoTree
  <2>b. \A stage \in Stage : Goes(p, stage) => job'[p].stage = stage
    BY <1>0, <2>a, GoesJob
  <2>1. CASE Reuse(p, s)
    <3>1. job[p].stage = "reuse" /\ job'[p].stage = "import" /\ UNCHANGED tree /\ lease'[s].there
      BY <1>0, <2>0, <2>1, <2>b DEF Reuse, At, Stage, PickupKnows, Lease
    <3> QED
      BY <1>1, <2>0, <3>1 DEF PickupKnows, SweepKnows, Sweeping, At
  <2>2. CASE AddWorktree(p, s)
    <3>1. \/ job'[p].stage = "idle"
          \/ job'[p].stage = "patch" /\ tree'[s].there
      <4>1. CASE Goes(p, "idle")
        BY <2>b, <4>1 DEF Stage
      <4>2. ASSUME NEW b \in BOOLEAN, Goes(p, "patch"),
                   tree' = [tree EXCEPT ![s] = [NoTree EXCEPT !.there = TRUE, !.attached = b]]
            PROVE  job'[p].stage = "patch" /\ tree'[s].there
        BY <1>0, <2>b, <4>2 DEF Stage, NoTree
      <4> QED
        BY <2>2, <4>1, <4>2 DEF AddWorktree
    <3> QED
      BY <3>1 DEF PickupKnows, SweepKnows, Sweeping, At
  <2>3. CASE ApplyPatch(p, s)
    <3>1. job[p].stage = "patch" /\ job'[p].stage = "lease"
      BY <2>3, <2>b DEF ApplyPatch, At, Stage
    <3>2. tree'[s].there = tree[s].there
      BY <1>0, <2>3 DEF ApplyPatch, Change, Tree
    <3> QED
      BY <1>1, <2>0, <3>1, <3>2 DEF PickupKnows, SweepKnows, Sweeping, At
  <2>4. CASE WriteLease(p, s)
    <3>1. job[p].stage = "lease" /\ job'[p].stage = "import" /\ UNCHANGED tree /\ lease'[s].there
      BY <1>0, <2>4, <2>b DEF WriteLease, At, Stage
    <3> QED
      BY <1>1, <2>0, <3>1 DEF PickupKnows, SweepKnows, Sweeping, At
  <2>5. CASE Import(p, s) \/ RemoveLease(p, s)
    <3>1. job'[p].stage = "idle"
      BY <2>5, <2>b DEF Import, RemoveLease, Stage
    <3> QED
      BY <3>1 DEF PickupKnows, SweepKnows, Sweeping, At
  <2>6. CASE Reread(p, s)
    <3>1. /\ job[p].stage \in Sweeping
          /\ \/ job'[p].stage \in {"idle", "rescue"}
             \/ job'[p].stage = "remove" /\ job[p].stage = "planned"
          /\ UNCHANGED <<files, begun, unseen>>
      BY <2>6, <2>b DEF Reread, At, Stage, Sweeping
    <3>2. PickupKnows(p, s)'
      BY <3>1 DEF PickupKnows, At
    <3>3. job[p].forced \/ Expired(s)
      BY <1>1, <2>0, <3>1 DEF SweepKnows, Sweeping, At
    <3>4. Expired(s)' <=> Expired(s)
      BY <1>1, <3>1 DEF Expired, files
    <3>5. job[p].stage = "planned" => tree[s].diff \subseteq unseen[p]
      BY <1>1, <2>0, <3>1 DEF SweepKnows, Sweeping, At
    <3> QED
      BY <1>2, <2>a, <3>1, <3>2, <3>3, <3>4, <3>5 DEF SweepKnows, Sweeping, At, files
  <2>7. CASE Rescue(p, s)
    <3>1. /\ job[p].stage = "rescue"
          /\ \/ job'[p].stage = "idle"
             \/ job'[p].stage = "remove" /\ tree[s].diff \subseteq unseen'[p]
             \/ /\ job'[p].stage = "remove"
                /\ bundle'[s] = IF tree[s].diff \intersect Large = {} THEN tree[s].diff ELSE {}
          /\ UNCHANGED <<tree, lease, begun>>
      <4>1. job[p].stage = "rescue" /\ UNCHANGED <<tree, lease, begun>>
        BY <2>7 DEF Rescue, At
      <4>2. CASE Goes(p, "idle")
        BY <2>b, <4>1, <4>2 DEF Stage
      <4>3. CASE /\ Goes(p, "remove")
                 /\ bundle' = [bundle EXCEPT ![s] = Captured(s)]
        BY <1>0, <2>b, <4>1, <4>3 DEF Captured, Stage
      <4>4. CASE /\ Goes(p, "remove")
                 /\ unseen' = [unseen EXCEPT ![p] = @ \union tree[s].diff]
        BY <1>0, <2>b, <4>1, <4>4 DEF Stage
      <4> QED
        BY <2>7, <4>2, <4>3, <4>4 DEF Rescue
    <3>2. Large \intersect begun = {} => tree[s].diff \intersect Large = {}
      BY <2>0
    <3>3. PickupKnows(p, s)'
      BY <3>1 DEF PickupKnows, At
    <3>4. job[p].forced \/ Expired(s)
      BY <1>1, <2>0, <3>1 DEF SweepKnows, Sweeping, At
    <3>5. Expired(s)' <=> Expired(s)
      BY <1>1, <3>1 DEF Expired
    <3> QED
      BY <1>2, <2>a, <3>1, <3>2, <3>3, <3>4, <3>5 DEF SweepKnows, Sweeping, At
  <2>8. CASE Remove(p, s)
    <3>1. \/ job'[p].stage = "idle"
          \/ job'[p].stage = "unlease" /\ ~tree'[s].there
      BY <1>0, <2>8, <2>a, <2>b DEF Remove, Stage
    <3> QED
      BY <3>1 DEF PickupKnows, SweepKnows, Sweeping, At
  <2> QED
    BY <2>1, <2>2, <2>3, <2>4, <2>5, <2>6, <2>7, <2>8 DEF Works
<1>5. ASSUME NEW q \in Process, NEW t \in Session \ overlap'
      PROVE  PickupKnows(q, t)' /\ SweepKnows(q, t)'
  <2>1. CASE job'[q].session = t
    <3>1. NoJob.session = None
      BY DEF NoJob
    <3>2. IF q = p THEN t = s /\ s \notin overlap ELSE job[q].session = t
      BY <1>0, <1>1, <1>2, <2>1, <3>1
    <3> QED
      BY <1>3, <1>4, <3>2
  <2>2. CASE job'[q].session # t
    BY <2>2 DEF PickupKnows, SweepKnows, Sweeping, At
  <2> QED
    BY <2>1, <2>2
<1> QED
  BY <1>5 DEF Knows

-----------------------------------------------------------------------------

LEMMA ManagedStep == IInv /\ [Next]_vars => WorktreesAreManaged'
<1> SUFFICES ASSUME IInv, [Next]_vars,
                    NEW t \in Session \ (overlap' \union orphan'),
                    tree'[t].there, ~lease'[t].there
             PROVE  \E q \in Process : (At(q, t, "patch") \/ At(q, t, "lease"))'
  BY DEF WorktreesAreManaged
<1>0. /\ tree \in [Session -> Tree] /\ lease \in [Session -> Lease] /\ job \in [Process -> Job]
      /\ TypeOK /\ None \notin Session
  BY WorktreeAssumption DEF IInv, TypeOK, Job, Lease
<1>a. ASSUME t \notin overlap \union orphan, tree[t].there, ~lease[t].there
      PROVE  \E q \in Process : job[q].session = t /\ job[q].stage \in {"patch", "lease"}
  BY <1>a DEF IInv, WorktreesAreManaged, At
<1>1. CASE Tick \/ UNCHANGED vars
  BY <1>1, <1>a DEF Tick, vars, files, At
<1>2. ASSUME NEW s \in Session, AgentActs(s)
      PROVE  \E q \in Process : (At(q, t, "patch") \/ At(q, t, "lease"))'
  <2>1. tree'[t].there = tree[t].there
    <3>1. CASE Commit(s)
      BY <1>0, <3>1 DEF Commit, Tree
    <3>2. ASSUME NEW w \in Work, Edit(s, w) \/ AddFile(s, w) PROVE tree'[t].there = tree[t].there
      BY <1>0, <3>2 DEF Edit, AddFile, Change, Tree
    <3> QED
      BY <1>2, <3>1, <3>2 DEF AgentActs
  <2>2. UNCHANGED <<lease, job, overlap, orphan>>
    BY <1>2 DEF AgentActs, Commit, Edit, AddFile
  <2> QED
    BY <1>a, <2>1, <2>2 DEF At
<1>3. ASSUME NEW p \in Process, Crash(p)
      PROVE  \E q \in Process : (At(q, t, "patch") \/ At(q, t, "lease"))'
  <2>1. UNCHANGED <<tree, lease, overlap>> /\ orphan \subseteq orphan'
    BY <1>3 DEF Crash, files
  <2>2. PICK q \in Process : job[q].session = t /\ job[q].stage \in {"patch", "lease"}
    BY <1>a, <2>1
  <2>3. q # p
    BY <1>3, <2>2 DEF Crash
  <2>4. job'[q] = job[q]
    BY <1>0, <1>3, <2>3, GoesJob DEF Crash, Stage
  <2> QED
    BY <2>2, <2>4 DEF At
<1>4. ASSUME NEW p \in Process, NEW s \in Session, Looks(p, s)
      PROVE  \E q \in Process : (At(q, t, "patch") \/ At(q, t, "lease"))'
  <2>1. PICK stage \in Stage, forced \in BOOLEAN :
          Begins(p, s, stage, forced)
    BY <1>4 DEF Looks, Pickup, List, Stage
  <2>2. /\ \A q \in Process : q # p => job'[q] = job[q]
        /\ job[p].stage = "idle"
        /\ overlap \subseteq overlap'
    BY <1>0, <2>1, BeginsJob
  <2>3. UNCHANGED <<tree, lease, orphan>>
    BY <1>4 DEF Looks, Pickup, List, files
  <2>4. PICK q \in Process : job[q].session = t /\ job[q].stage \in {"patch", "lease"}
    BY <1>a, <2>2, <2>3
  <2>5. job'[q] = job[q]
    BY <2>2, <2>4
  <2> QED
    BY <2>4, <2>5 DEF At
<1>5. ASSUME NEW p \in Process, NEW s \in Session, Works(p, s)
      PROVE  \E q \in Process : (At(q, t, "patch") \/ At(q, t, "lease"))'
  <2>0. /\ job[p].session = s /\ UNCHANGED <<overlap, orphan>>
        /\ \A q \in Process : q # p => job'[q] = job[q]
    BY <1>0, <1>5, WorksGoes, GoesJob
  <2>1. CASE t # s
    <3>1. tree'[t] = tree[t] /\ lease'[t] = lease[t]
      BY <1>0, <1>5, <2>1, WorksFrame
    <3>2. PICK q \in Process : job[q].session = t /\ job[q].stage \in {"patch", "lease"}
      BY <1>a, <2>0, <3>1
    <3>3. job'[q] = job[q]
      BY <2>0, <2>1, <3>2
    <3> QED
      BY <3>2, <3>3 DEF At
  <2>2. CASE t = s
    <3>1. /\ PickupKnows(p, t) /\ SweepKnows(p, t)
          /\ \A q \in Process : job[q].session = t => q = p
      BY <2>0, <2>2 DEF IInv, Knows, Alone
    <3>2. tree[t].there /\ ~lease[t].there => job[p].stage \in {"patch", "lease"}
      BY <1>a, <2>0, <3>1
    <3>3. \A stage \in Stage \ {"idle"} : Goes(p, stage) => job'[p].stage = stage /\ job'[p].session = t
      BY <1>0, <2>0, <2>2, GoesJob
    <3>4. CASE Reuse(p, s) \/ Import(p, s)
      <4>1. tree[t].there /\ lease[t].there
        BY <2>2, <3>1, <3>4 DEF Reuse, Import, PickupKnows
      <4>2. lease'[t].there
        BY <1>0, <2>2, <3>4, <4>1 DEF Reuse, Import, Lease
      <4> QED
        BY <4>2
    <3>5. CASE AddWorktree(p, s)
      <4>1. job[p].stage = "add" /\ UNCHANGED lease
        BY <3>5 DEF AddWorktree, At
      <4>2. Goes(p, "patch")
        BY <3>2, <3>5, <4>1 DEF AddWorktree
      <4> QED
        BY <3>3, <4>2 DEF At, Stage
    <3>6. CASE ApplyPatch(p, s)
      BY <3>3, <3>6 DEF ApplyPatch, At, Stage
    <3>7. CASE WriteLease(p, s)
      BY <1>0, <2>2, <3>7 DEF WriteLease
    <3>8. CASE Reread(p, s) \/ Rescue(p, s)
      BY <3>2, <3>8 DEF Reread, Rescue, At, files
    <3>9. CASE Remove(p, s)
      <4>1. tree'[t] = NoTree \/ UNCHANGED tree
        BY <1>0, <2>2, <3>9 DEF Remove
      <4>2. UNCHANGED lease /\ job[p].stage = "remove"
        BY <3>9 DEF Remove, At
      <4> QED
        BY <3>2, <4>1, <4>2 DEF NoTree
    <3>10. CASE RemoveLease(p, s)
      BY <2>2, <3>1, <3>10 DEF RemoveLease, SweepKnows, Sweeping
    <3> QED
      BY <1>5, <3>4, <3>5, <3>6, <3>7, <3>8, <3>9, <3>10 DEF Works
  <2> QED
    BY <2>1, <2>2
<1> QED
  BY NextCases, <1>1, <1>2, <1>3, <1>4, <1>5

LEMMA Invariant == Spec => []IInv
<1>1. Init => IInv
  BY WorktreeAssumption DEF Init, IInv, TypeOK, IdleHasNone, Alone, Knows, PickupKnows, SweepKnows, Sweeping,
     DiffBegun, WorktreesAreManaged, At, NoTree, NoLease, NoJob, Tree, Stage
<1>2. IInv /\ [Next]_vars => IInv'
  <2> SUFFICES ASSUME IInv, [Next]_vars PROVE IInv'
    OBVIOUS
  <2>1. Knows'
    BY NextCases, KnowsKept, KnowsLooks, KnowsWorks
  <2> QED
    BY <2>1, TypeOKStep, JobsStep, DiffBegunStep, ManagedStep DEF IInv
<1> QED
  BY <1>1, <1>2, PTL DEF Spec

(* Types, for any number of processes, sessions and pieces of work.        *)
THEOREM TypeCorrect == Spec => []TypeOK
<1>1. IInv => TypeOK
  BY DEF IInv
<1> QED
  BY Invariant, <1>1, PTL

(* A worktree has its lease or is about to get it, unless its pickup       *)
(* crashed in between or two processes worked on its session at once.      *)
THEOREM ManagedAlways == Spec => []WorktreesAreManaged
<1>1. IInv => WorktreesAreManaged
  BY DEF IInv
<1> QED
  BY Invariant, <1>1, PTL

(* What a pickup returns is there and leased, if nobody swept it meanwhile.*)
THEOREM PickupFindsItsTreeAlways == Spec => []PickupFindsItsTree
<1>1. IInv => PickupFindsItsTree
  BY DEF IInv, Knows, PickupKnows, PickupFindsItsTree
<1> QED
  BY Invariant, <1>1, PTL

(* Only idle or named worktrees are removed, and their tracked changes are *)
(* in the bundle, but for what agents did after the sweep's last look and  *)
(* what git failed to give the rescue.                                     *)
THEOREM RemovesIdleAndRescuedAlways == Spec => RemovesIdleAndRescued
<1> DEFINE Allowed ==
      \A s \in Session \ overlap :
        tree[s].there /\ ~tree'[s].there =>
          \E p \in Process :
            /\ At(p, s, "remove")
            /\ job[p].forced \/ Expired(s)
            /\ Large \intersect begun = {} => tree[s].diff \subseteq bundle[s] \union unseen[p]
<1>1. IInv /\ [Next]_vars => [Allowed]_vars
  <2> SUFFICES ASSUME IInv, [Next]_vars, NEW t \in Session \ overlap,
                      tree[t].there, ~tree'[t].there
               PROVE  \E p \in Process :
                        /\ At(p, t, "remove")
                        /\ job[p].forced \/ Expired(t)
                        /\ Large \intersect begun = {} =>
                             tree[t].diff \subseteq bundle[t] \union unseen[p]
    OBVIOUS
  <2>0. tree \in [Session -> Tree] /\ TypeOK
    BY DEF IInv, TypeOK
  <2>1. PICK p \in Process, s \in Session : Works(p, s)
    <3>1. CASE Tick \/ UNCHANGED vars \/ \E q \in Process : Crash(q)
      BY <3>1 DEF Tick, vars, files, Crash
    <3>2. ASSUME NEW s \in Session, AgentActs(s) PROVE FALSE
      BY <2>0, <3>2 DEF AgentActs, Commit, Edit, AddFile, Change, Tree
    <3>3. ASSUME NEW q \in Process, NEW s \in Session, Looks(q, s) PROVE FALSE
      BY <3>3 DEF Looks, Pickup, List, files
    <3> QED
      BY NextCases, <3>1, <3>2, <3>3
  <2>2. t = s
    BY <2>0, <2>1, WorksFrame
  <2>3. CASE Remove(p, s)
    <3>1. At(p, t, "remove") /\ SweepKnows(p, t)
      BY <2>2, <2>3 DEF IInv, Knows, Remove
    <3> QED
      BY <3>1 DEF SweepKnows, Sweeping, At
  <2>4. CASE AddWorktree(p, s) \/ ApplyPatch(p, s)
    BY <2>0, <2>2, <2>4 DEF AddWorktree, ApplyPatch, Change, Tree
  <2>5. CASE ~(Remove(p, s) \/ AddWorktree(p, s) \/ ApplyPatch(p, s))
    BY <2>1, <2>5 DEF Works, Reuse, WriteLease, Import, Reread, Rescue, RemoveLease, files
  <2> QED
    BY <2>3, <2>4, <2>5
<1> QED
  BY Invariant, <1>1, PTL DEF Spec, RemovesIdleAndRescued

=============================================================================
