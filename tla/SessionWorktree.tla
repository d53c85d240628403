-------------------------- MODULE SessionWorktree --------------------------
(***************************************************************************)
(* The git worktrees of sessions picked up from another host               *)
(* (session-worktree.ts, session-transfer.ts, and index.ts, which calls    *)
(* them): a pickup reuses the session's worktree or adds one, and writes a *)
(* lease next to it; the sweep removes worktrees whose lease is idle, and  *)
(* those named by `/sess wt rm', after it rescued dirty ones into a bundle.*)
(*                                                                         *)
(* Each of the two is one synchronous call, but several Pi processes make  *)
(* them, and agents work in the worktrees meanwhile.  A step is one git    *)
(* command or one access to a lease.  A sweep treats each worktree on its  *)
(* own, so a process sweeps one at a time here; the oldest snapshot it may *)
(* act on is the same.  One remote and one branch; a base clone exists.    *)
(*                                                                         *)
(* Work is a set of items: tracked or untracked changes, then commits, of  *)
(* which only those that nobody ever pushes matter.                        *)
(***************************************************************************)
EXTENDS Naturals, TLC

CONSTANTS Process, Session, Work,
          Large,    \* the changes that make a diff exceed GIT_PATCH_MAX_BYTES
          TTL, MaxTime, None

ASSUME WorktreeAssumption ==
  /\ Large \subseteq Work
  /\ TTL \in Nat /\ MaxTime \in Nat
  /\ None \notin Session

VARIABLES
  now,
  tree,     \* the worktree of each session, or NoTree
  lease,    \* its lease file, or NoLease
  branch,   \* commits on the branch of the base clone
  bundle,   \* the changes in each session's rescue bundle
  job,      \* the pickup or sweep each process is in
  begun,    \* history: the work done so far
  unseen,   \* history: work on its worktree that each process was not shown: done since it
            \* looked last, or in the diff when git failed to give it
  overlap,  \* history: sessions two processes picked up or swept at once
  orphan    \* history: sessions whose pickup crashed before the lease was written

files == <<tree, lease, branch, bundle>>
vars == <<now, files, job, begun, unseen, overlap, orphan>>

NoTree == [there |-> FALSE, attached |-> FALSE, diff |-> {}, untracked |-> {}, commits |-> {}]
NoLease == [there |-> FALSE, used |-> 0, transcript |-> FALSE]
NoJob == [stage |-> "idle", session |-> None, forced |-> FALSE]

Init ==
  /\ now = 0
  /\ tree = [s \in Session |-> NoTree]
  /\ lease = [s \in Session |-> NoLease]
  /\ branch = {}
  /\ bundle = [s \in Session |-> {}]
  /\ job = [p \in Process |-> NoJob]
  /\ begun = {}
  /\ unseen = [p \in Process |-> {}]
  /\ overlap = {}
  /\ orphan = {}

At(p, s, stage) == job[p].stage = stage /\ job[p].session = s
Goes(p, stage) ==
  job' = [job EXCEPT ![p] = IF stage = "idle" THEN NoJob ELSE [@ EXCEPT !.stage = stage]]
BusyElsewhere(p, s) == \E q \in Process \ {p} : job[q].session = s

(* Process `p' takes up session `s' and looks at its worktree.             *)
Begins(p, s, stage, forced) ==
  /\ job[p].stage = "idle"
  /\ job' = [job EXCEPT ![p] = [stage |-> stage, session |-> s, forced |-> forced]]
  /\ unseen' = [unseen EXCEPT ![p] = {}]
  /\ overlap' = IF BusyElsewhere(p, s) THEN overlap \union {s} ELSE overlap

-----------------------------------------------------------------------------
(* The agents.                                                             *)

Change(s, w, change) ==
  /\ tree[s].there /\ w \notin begun
  /\ tree' = [tree EXCEPT ![s] = change]
  /\ begun' = begun \union {w}
  /\ unseen' = [p \in Process |-> IF job[p].session = s THEN unseen[p] \union {w} ELSE unseen[p]]

Edit(s, w) ==
  /\ Change(s, w, [tree[s] EXCEPT !.diff = @ \union {w}])
  /\ UNCHANGED <<now, lease, branch, bundle, job, overlap, orphan>>

AddFile(s, w) ==
  /\ Change(s, w, [tree[s] EXCEPT !.untracked = @ \union {w}])
  /\ UNCHANGED <<now, lease, branch, bundle, job, overlap, orphan>>

Commit(s) ==
  LET changes == tree[s].diff \union tree[s].untracked
  IN  /\ changes # {}
      /\ tree' = [tree EXCEPT ![s].diff = {}, ![s].untracked = {},
                              ![s].commits = IF tree[s].attached THEN @ ELSE @ \union changes]
      /\ branch' = IF tree[s].attached THEN branch \union changes ELSE branch
      /\ UNCHANGED <<now, lease, bundle, job, begun, unseen, overlap, orphan>>

-----------------------------------------------------------------------------
(* hydrateSessionWorktree and importSessionBundleFile.                     *)

\* Mutated Pickup: any worktree that is there is reused.
PickupUnleased(p, s) ==
  /\ IF tree[s].there THEN Begins(p, s, "reuse", FALSE) ELSE Begins(p, s, "add", FALSE)
  /\ UNCHANGED <<now, files, begun, orphan>>

(* A worktree that is there and has a lease is reused; one without a lease *)
(* is refused.                                                             *)
Pickup(p, s) ==
  /\ IF tree[s].there
       THEN lease[s].there /\ Begins(p, s, "reuse", FALSE)
       ELSE Begins(p, s, "add", FALSE)
  /\ UNCHANGED <<now, files, begun, orphan>>

(* The fast-forward of a clean worktree moves no work; the lease is        *)
(* refreshed if it is still there.                                         *)
Reuse(p, s) ==
  /\ At(p, s, "reuse")
  /\ lease' = IF lease[s].there THEN [lease EXCEPT ![s].used = now] ELSE lease
  /\ Goes(p, "import")
  /\ UNCHANGED <<now, tree, branch, bundle, begun, unseen, overlap, orphan>>

(* git worktree add: at the branch, which is reset to the tip of origin    *)
(* (-B), or detached when the branch is checked out by another worktree.   *)
(* It fails when the directory is there, or for a reason of git's own.     *)
AddWorktree(p, s) ==
  LET attached == ~\E other \in Session : tree[other].attached
  IN  /\ At(p, s, "add")
      /\ \/ Goes(p, "idle") /\ UNCHANGED <<tree, branch>>
         \/ /\ ~tree[s].there
            /\ tree' = [tree EXCEPT ![s] = [NoTree EXCEPT !.there = TRUE, !.attached = attached]]
            /\ branch' = IF attached THEN {} ELSE branch
            /\ Goes(p, "patch")
      /\ UNCHANGED <<now, lease, bundle, begun, unseen, overlap, orphan>>

(* The uncommitted diff that came with the bundle is applied, or fails to. *)
ApplyPatch(p, s) ==
  /\ At(p, s, "patch")
  /\ \/ UNCHANGED <<tree, begun, unseen>>
     \/ \E w \in Work : Change(s, w, [tree[s] EXCEPT !.diff = @ \union {w}])
  /\ Goes(p, "lease")
  /\ UNCHANGED <<now, lease, branch, bundle, overlap, orphan>>

\* Mutated WriteLease: only an existing lease is refreshed.
WriteLeaseIfThere(p, s) ==
  /\ At(p, s, "lease")
  /\ lease' = IF lease[s].there THEN [lease EXCEPT ![s].used = now] ELSE lease
  /\ Goes(p, "import")
  /\ UNCHANGED <<now, tree, branch, bundle, begun, unseen, overlap, orphan>>

WriteLease(p, s) ==
  /\ At(p, s, "lease")
  /\ lease' = [lease EXCEPT ![s] = [there |-> TRUE, used |-> now, transcript |-> FALSE]]
  /\ Goes(p, "import")
  /\ UNCHANGED <<now, tree, branch, bundle, begun, unseen, overlap, orphan>>

(* The transcript is written and recorded in the lease, if that is there;  *)
(* or it cannot be written.                                                *)
Import(p, s) ==
  /\ At(p, s, "import")
  /\ \/ UNCHANGED lease
     \/ lease[s].there /\ lease' = [lease EXCEPT ![s].transcript = TRUE]
  /\ Goes(p, "idle")
  /\ UNCHANGED <<now, tree, branch, bundle, begun, unseen, overlap, orphan>>

-----------------------------------------------------------------------------
(* sweepWorktrees.                                                         *)

Expired(s) == now >= lease[s].used + TTL
Dirty(s) == tree[s].diff \union tree[s].untracked # {}

(* listWorktreeStatuses and planWorktreeSweep: what the plan keeps is left *)
(* alone from here on; a worktree whose status cannot be read is dirty.    *)
List(p, s, forced) ==
  /\ tree[s].there /\ lease[s].there
  /\ forced \/ Expired(s)
  /\ \/ ~Dirty(s) /\ Begins(p, s, "planned", forced)
     \/ Begins(p, s, "plannedDirty", forced)
  /\ UNCHANGED <<now, files, begun, orphan>>

\* Mutated Reread: a dirty worktree that cannot be rescued is removed like a clean one.
RereadRescuable(p, s) ==
  /\ \/ At(p, s, "planned") /\ Goes(p, IF lease[s].there THEN "remove" ELSE "idle")
     \/ /\ At(p, s, "plannedDirty") /\ lease[s].there
        /\ Goes(p, IF lease[s].transcript THEN "rescue" ELSE "remove")
  /\ UNCHANGED <<now, files, begun, unseen, overlap, orphan>>

(* The lease is read again: the worktree is skipped when it has none, and  *)
(* kept when it was dirty and the lease knows no transcript.               *)
Reread(p, s) ==
  /\ \/ At(p, s, "planned") /\ Goes(p, IF lease[s].there THEN "remove" ELSE "idle")
     \/ /\ At(p, s, "plannedDirty")
        /\ Goes(p, IF lease[s].there /\ lease[s].transcript THEN "rescue" ELSE "idle")
  /\ UNCHANGED <<now, files, begun, unseen, overlap, orphan>>

(* captureGitState: the tracked changes, unless they exceed the limit.     *)
Captured(s) == IF tree[s].diff \intersect Large = {} THEN tree[s].diff ELSE {}

(* rescueWorktree: a bundle with what was captured takes the place of the  *)
(* session's earlier one.  When git fails, and when the worktree is gone,  *)
(* the new bundle has no changes, and the rescue counts all the same; only *)
(* a rescue that throws keeps the worktree.                                *)
Rescue(p, s) ==
  /\ At(p, s, "rescue")
  /\ \/ Goes(p, "idle") /\ UNCHANGED <<bundle, unseen>>
     \/ /\ bundle' = [bundle EXCEPT ![s] = Captured(s)]
        /\ unseen' = [unseen EXCEPT ![p] = {}]
        /\ Goes(p, "remove")
     \/ /\ bundle' = [bundle EXCEPT ![s] = {}]
        /\ unseen' = [unseen EXCEPT ![p] = @ \union tree[s].diff]
        /\ Goes(p, "remove")
  /\ UNCHANGED <<now, tree, lease, branch, begun, overlap, orphan>>

(* git worktree remove --force, or rm: the worktree is gone, the branch of *)
(* the base clone keeps its commits; or it cannot be removed.              *)
Remove(p, s) ==
  /\ At(p, s, "remove")
  /\ \/ Goes(p, "idle") /\ UNCHANGED tree
     \/ Goes(p, "unlease") /\ tree' = [tree EXCEPT ![s] = NoTree]
  /\ UNCHANGED <<now, lease, branch, bundle, begun, unseen, overlap, orphan>>

RemoveLease(p, s) ==
  /\ At(p, s, "unlease")
  /\ lease' = [lease EXCEPT ![s] = NoLease]
  /\ Goes(p, "idle")
  /\ UNCHANGED <<now, tree, branch, bundle, begun, unseen, overlap, orphan>>

Crash(p) ==
  /\ job[p].stage # "idle"
  /\ Goes(p, "idle")
  /\ orphan' = IF job[p].stage \in {"patch", "lease"} THEN orphan \union {job[p].session} ELSE orphan
  /\ UNCHANGED <<now, files, begun, unseen, overlap>>

Tick ==
  /\ now < MaxTime
  /\ now' = now + 1
  /\ UNCHANGED <<files, job, begun, unseen, overlap, orphan>>

Next ==
  \/ Tick
  \/ \E p \in Process : Crash(p)
  \/ \E s \in Session : \/ Commit(s)
                        \/ \E w \in Work : Edit(s, w) \/ AddFile(s, w)
  \/ \E p \in Process, s \in Session :
       \/ Pickup(p, s) \/ Reuse(p, s) \/ AddWorktree(p, s) \/ ApplyPatch(p, s)
       \/ WriteLease(p, s) \/ Import(p, s)
       \/ \E forced \in BOOLEAN : List(p, s, forced)
       \/ Reread(p, s) \/ Rescue(p, s) \/ Remove(p, s) \/ RemoveLease(p, s)

Spec == Init /\ [][Next]_vars

(* Processes and sessions are interchangeable.                             *)
Symmetry == Permutations(Process) \union Permutations(Session)

-----------------------------------------------------------------------------

Stage == {"idle", "reuse", "add", "patch", "lease", "import", "planned",
          "plannedDirty", "rescue", "remove", "unlease"}
Tree == [there : BOOLEAN, attached : BOOLEAN, diff : SUBSET Work, untracked : SUBSET Work,
         commits : SUBSET Work]

TypeOK ==
  /\ now \in 0 .. MaxTime
  /\ tree \in [Session -> Tree]
  /\ lease \in [Session -> [there : BOOLEAN, used : 0 .. MaxTime, transcript : BOOLEAN]]
  /\ branch \subseteq Work /\ begun \subseteq Work
  /\ bundle \in [Session -> SUBSET Work]
  /\ job \in [Process -> [stage : Stage, session : Session \union {None}, forced : BOOLEAN]]
  /\ unseen \in [Process -> SUBSET Work]
  /\ overlap \subseteq Session /\ orphan \subseteq Session

(* Every worktree has the lease that lets a later sweep reclaim it and a   *)
(* later pickup reuse it, or is about to get it, unless the pickup crashed *)
(* before it wrote one or another process swept the same session meanwhile.*)
WorktreesAreManaged ==
  \A s \in Session \ (overlap \union orphan) :
    tree[s].there /\ ~lease[s].there => \E p \in Process : At(p, s, "patch") \/ At(p, s, "lease")

(* The worktree whose path a pickup returns is there, with a lease, unless *)
(* another process sweeps it at the same time.                             *)
PickupFindsItsTree ==
  \A p \in Process, s \in Session \ overlap :
    At(p, s, "import") => tree[s].there /\ lease[s].there

(* A worktree that the sweep removes was idle past its time or named by    *)
(* the operator, and its tracked changes are in the bundle, but for those  *)
(* that the sweep was never shown: made after its last look, or in a diff  *)
(* that git failed to give the rescue; and but for a diff over the limit.  *)
(* This as long as one process at a time picks up and sweeps the session.  *)
RemovesIdleAndRescued ==
  [][\A s \in Session \ overlap :
       tree[s].there /\ ~tree'[s].there =>
         \E p \in Process :
           /\ At(p, s, "remove")
           /\ job[p].forced \/ Expired(s)
           /\ Large \intersect begun = {} => tree[s].diff \subseteq bundle[s] \union unseen[p]]_vars

Kept ==
  branch \union
  UNION {tree[s].diff \union tree[s].untracked \union tree[s].commits \union bundle[s] : s \in Session}

(* "Cleanup is lease-based and never lossy" (session-worktree.ts, and      *)
(* docs/SESSION_OPERATIONS.md): what was done in a worktree is in one, in  *)
(* a bundle, or on the branch of the base clone, but for what agents do    *)
(* while a sweep that looked before is under way, and a diff git failed to *)
(* give.                                                                   *)
NeverLossy == begun \subseteq Kept \union UNION {unseen[p] : p \in Process}

=============================================================================
