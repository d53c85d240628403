---------------------------- MODULE HubTaskStore ----------------------------
(***************************************************************************)
(* The task store of the headless gateway (herdr-task-service.ts): a JSON  *)
(* file that one process owns at a time by a lock file, taken over from an *)
(* owner that is dead, and the service that creates tasks in it.           *)
(*                                                                         *)
(* A step is one access to the file system; the processes interleave       *)
(* between them, and may crash between any two.  The constructor of the    *)
(* repository runs under a second lock file, `reclaim'.  A process is its  *)
(* pid: one that starts after a crash may have the pid of the one that     *)
(* crashed.  The nonce in a lock file tells such two apart and is left     *)
(* out: who compares it holds the file and has the pid.                    *)
(*                                                                         *)
(* Of the store, the command receipts are kept; its revision is the number *)
(* of receipts, each commit adding one.                                    *)
(***************************************************************************)
EXTENDS Naturals, FiniteSets

CONSTANTS Process,  \* pids
          TaskKey,  \* idempotency keys
          Arg,      \* task arguments, as canonicalCreateInput hashes them
          None

ASSUME NoneAssumption == None \notin Arg /\ None \notin Process
ASSUME EmptyAssumption == "empty" \notin Process /\ None # "empty"

VARIABLES
  pc,        \* where each process is, "down" when it does not run
  reclaim,   \* the reclaim lock file: a pid, "empty", or None when it does not exist
  lock,      \* the lock file, likewise
  seen,      \* what removeStaleLock read of the lock file
  disk,      \* the receipts in the store file: the arguments of each key
  mem,       \* the receipts in each service's memory
  job,       \* the key and arguments each service is creating a task for
  told,      \* keys and arguments that clients were told of
  left       \* history: the lock files whose maker crashed under them

locks == <<reclaim, lock, seen>>
data == <<disk, mem, job, told>>
storeVars == <<pc, locks, data, left>>

NoReceipts == [k \in TaskKey |-> None]
NoJob == <<None, None>>

StoreInit ==
  /\ pc = [p \in Process |-> "down"]
  /\ reclaim = None
  /\ lock = None
  /\ seen = [p \in Process |-> None]
  /\ disk = NoReceipts
  /\ mem = [p \in Process |-> NoReceipts]
  /\ job = [p \in Process |-> NoJob]
  /\ told = {}
  /\ left = {}

Alive(p) == pc[p] # "down"
Goes(p, stage) == pc' = [pc EXCEPT ![p] = stage]

-----------------------------------------------------------------------------
(* The constructor.                                                        *)

Start(p) ==
  /\ pc[p] = "down"
  /\ Goes(p, "reclaim")
  /\ UNCHANGED <<locks, data, left>>

(* tryAcquireReclaimLock: the constructor throws when the file exists.     *)
OpenReclaim(p) ==
  /\ pc[p] = "reclaim"
  /\ \/ reclaim = None /\ reclaim' = "empty" /\ Goes(p, "nameReclaim")
     \/ reclaim # None /\ Goes(p, "down") /\ UNCHANGED reclaim
  /\ UNCHANGED <<lock, seen, data, left>>

(* The pid is written to the file, or that fails and the file is removed.  *)
NameReclaim(p) ==
  /\ pc[p] = "nameReclaim"
  /\ \/ reclaim' = p /\ Goes(p, "lock")
     \/ reclaim' = None /\ Goes(p, "down")
  /\ UNCHANGED <<lock, seen, data, left>>

(* tryAcquireLock, the first time and after a stale lock was removed       *)
OpenLock(p) ==
  /\ pc[p] \in {"lock", "relock"}
  /\ \/ lock = None /\ lock' = "empty" /\ Goes(p, "nameLock")
     \/ /\ lock # None
        /\ Goes(p, IF pc[p] = "lock" THEN "stale" ELSE "refused")
        /\ UNCHANGED lock
  /\ UNCHANGED <<reclaim, seen, data, left>>

NameLock(p) ==
  /\ pc[p] = "nameLock"
  /\ \/ lock' = p /\ Goes(p, "owned")
     \/ lock' = None /\ Goes(p, "refused")
  /\ UNCHANGED <<reclaim, seen, data, left>>

\* Mutated ReadStale: the owner's pid is not probed.
ReadStaleUnprobed(p) ==
  /\ pc[p] = "stale"
  /\ IF lock \in Process
       THEN Goes(p, "compare") /\ seen' = [seen EXCEPT ![p] = lock]
       ELSE Goes(p, "refused") /\ UNCHANGED seen
  /\ UNCHANGED <<reclaim, lock, data, left>>

(* removeStaleLock: the lock is kept when it names nobody, or a process    *)
(* that runs.                                                              *)
ReadStale(p) ==
  /\ pc[p] = "stale"
  /\ IF lock \in Process /\ ~Alive(lock)
       THEN Goes(p, "compare") /\ seen' = [seen EXCEPT ![p] = lock]
       ELSE Goes(p, "refused") /\ UNCHANGED seen
  /\ UNCHANGED <<reclaim, lock, data, left>>

CompareStale(p) ==
  /\ pc[p] = "compare"
  /\ Goes(p, IF lock = seen[p] THEN "remove" ELSE "refused")
  /\ UNCHANGED <<locks, data, left>>

RemoveStale(p) ==
  /\ pc[p] = "remove"
  /\ IF lock = None THEN Goes(p, "refused") ELSE Goes(p, "relock")
  /\ lock' = None
  /\ left' = left \ {"lock"}
  /\ UNCHANGED <<reclaim, seen, data>>

(* releaseReclaimLock, in the constructor's finally block: a constructor   *)
(* that was refused throws, and the gateway exits.                         *)
Release(p) ==
  /\ pc[p] \in {"owned", "refused"}
  /\ reclaim' = IF reclaim = p THEN None ELSE reclaim
  /\ Goes(p, IF pc[p] = "owned" THEN "load" ELSE "down")
  /\ seen' = [seen EXCEPT ![p] = None]
  /\ UNCHANGED <<lock, data, left>>

-----------------------------------------------------------------------------
(* The service.                                                            *)

(* load, which writes an empty store when there is none                    *)
Load(p) ==
  /\ pc[p] = "load"
  /\ mem' = [mem EXCEPT ![p] = disk]
  /\ Goes(p, "serving")
  /\ UNCHANGED <<locks, disk, job, told, left>>

(* createTask, up to the write: the key's receipt is looked up in memory   *)
(* and answered, the same arguments with success, others with a conflict;  *)
(* else the revision on disk must be the one in memory.                    *)
CreateTask(p, k, a) ==
  /\ pc[p] = "serving"
  /\ \/ /\ mem[p][k] = a
        /\ job' = [job EXCEPT ![p] = <<k, a>>]
        /\ Goes(p, "answering")
     \/ /\ mem[p][k] = None
        /\ Cardinality({j \in TaskKey : disk[j] # None}) =
             Cardinality({j \in TaskKey : mem[p][j] # None})
        /\ job' = [job EXCEPT ![p] = <<k, a>>]
        /\ Goes(p, "writing")
  /\ UNCHANGED <<locks, disk, mem, told, left>>

\* Mutated Write: the store in memory is updated, the file is written later.
WriteLater(p) ==
  /\ pc[p] = "writing"
  /\ mem' = [mem EXCEPT ![p][job[p][1]] = job[p][2]]
  /\ Goes(p, "answering")
  /\ UNCHANGED <<locks, disk, job, told, left>>

(* The new store is renamed over the old, and kept in memory.              *)
Write(p) ==
  /\ pc[p] = "writing"
  /\ disk' = [mem[p] EXCEPT ![job[p][1]] = job[p][2]]
  /\ mem' = [mem EXCEPT ![p] = disk']
  /\ Goes(p, "answering")
  /\ UNCHANGED <<locks, job, told, left>>

AnswerTask(p) ==
  /\ pc[p] = "answering"
  /\ told' = told \union {job[p]}
  /\ job' = [job EXCEPT ![p] = NoJob]
  /\ Goes(p, "serving")
  /\ UNCHANGED <<locks, disk, mem, left>>

\* Mutated Close: the store is dropped, and the lock file stays.
CloseKeepingLock(p) ==
  /\ pc[p] = "serving"
  /\ Goes(p, "down")
  /\ mem' = [mem EXCEPT ![p] = NoReceipts]
  /\ UNCHANGED <<locks, disk, job, told, left>>

(* close: the lock file is read, and removed if it is still one's own.     *)
Close(p) ==
  /\ pc[p] = "serving"
  /\ Goes(p, IF lock = p THEN "unlink" ELSE "down")
  /\ mem' = [mem EXCEPT ![p] = NoReceipts]
  /\ UNCHANGED <<locks, disk, job, told, left>>

Unlink(p) ==
  /\ pc[p] = "unlink"
  /\ lock' = None
  /\ Goes(p, "down")
  /\ UNCHANGED <<reclaim, seen, data, left>>

Constructing(p) ==
  pc[p] \in {"nameReclaim", "lock", "nameLock", "stale", "compare", "remove", "relock",
             "owned", "refused"}
Owns(p) == pc[p] \in {"owned", "load", "serving", "writing", "answering", "unlink"}
Locking(p) == pc[p] = "nameLock" \/ Owns(p)

(* The process ends without closing: it is killed, load throws, or a step  *)
(* of shutdown before close fails.  It leaves the files it works under.    *)
Crash(p) ==
  /\ Alive(p)
  /\ Goes(p, "down")
  /\ seen' = [seen EXCEPT ![p] = None]
  /\ mem' = [mem EXCEPT ![p] = NoReceipts]
  /\ job' = [job EXCEPT ![p] = NoJob]
  /\ left' = left \union (IF Constructing(p) THEN {"reclaim"} ELSE {})
                  \union (IF Locking(p) THEN {"lock"} ELSE {})
  /\ UNCHANGED <<reclaim, lock, disk, told>>

StoreNext ==
  \E p \in Process :
    \/ Start(p) \/ OpenReclaim(p) \/ NameReclaim(p) \/ OpenLock(p) \/ NameLock(p)
    \/ ReadStale(p) \/ CompareStale(p) \/ RemoveStale(p) \/ Release(p) \/ Load(p)
    \/ Write(p) \/ AnswerTask(p) \/ Close(p) \/ Unlink(p) \/ Crash(p)
    \/ \E k \in TaskKey, a \in Arg : CreateTask(p, k, a)

StoreSpec == StoreInit /\ [][StoreNext]_storeVars

-----------------------------------------------------------------------------

Stage == {"down", "reclaim", "nameReclaim", "lock", "nameLock", "stale", "compare", "remove",
          "relock", "owned", "refused", "load", "serving", "writing", "answering", "unlink"}
File == Process \union {None, "empty"}
Receipts == [TaskKey -> Arg \union {None}]

StoreTypeOK ==
  /\ pc \in [Process -> Stage]
  /\ reclaim \in File
  /\ lock \in File
  /\ seen \in [Process -> Process \union {None}]
  /\ disk \in Receipts
  /\ mem \in [Process -> Receipts]
  /\ job \in [Process -> (TaskKey \X Arg) \union {NoJob}]
  /\ told \subseteq TaskKey \X Arg
  /\ left \subseteq {"reclaim", "lock"}

(* Two gateways never own the store at once, and the owner is the one the  *)
(* lock file names: though several find a stale lock at the same time, any *)
(* of them may crash, and a new process may have the pid of a dead owner.  *)
OneOwner ==
  \A p \in Process : Owns(p) => lock = p /\ \A q \in Process : Owns(q) => p = q

(* A lock file is there because the process that made it works under it,   *)
(* or because that process crashed under it: constructors that are         *)
(* refused, takeovers and owners that close leave none, whatever other     *)
(* processes crashed before.  A reclaim file that was left stays, and      *)
(* keeps every later gateway from starting.                                *)
LeftOnlyByCrash ==
  /\ reclaim # None <=> "reclaim" \in left \/ \E p \in Process : Constructing(p)
  /\ lock # None <=> "lock" \in left \/ \E p \in Process : Locking(p)

(* The service keeps the promise of HubTasks: what was made is the         *)
(* receipts in the file, through crashes before and after each write, and  *)
(* takeovers by a process that has read the file only after it owned it.   *)
Promise == INSTANCE HubTasks WITH made <- disk, Key <- TaskKey

KeepsPromise == Promise!Spec

=============================================================================
