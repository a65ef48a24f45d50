------------------------------ MODULE SaveLock ------------------------------
(***************************************************************************)
(* The sidecar lock of an in-place Save: `SaveLock::acquire` and its Drop  *)
(* (crates/ferritecad-jobs/src/save.rs).  One directory name, the sidecar  *)
(* of the resolved target, and every saver (a window or a process) that    *)
(* saves to that target.  Each file system call is one step, because two   *)
(* savers interleave between any two of them.                              *)
(*                                                                         *)
(* A saver that dies closes its descriptors: the kernel drops the advisory *)
(* lock and the name stays.  An outsider who does not know about the lock  *)
(* may put a file of its own under the name, or take the name away.        *)
(***************************************************************************)
EXTENDS Integers, FiniteSets

CONSTANTS
    Savers,         \* windows and processes saving to the one target
    Inodes,         \* file identities the sidecar name can refer to
    Nothing,        \* no file; no descriptor; nobody
    Other,          \* a directory or a link: not a plain file
    LocksSupported, \* whether the file system has advisory locks
    MaxTries,       \* turns of the loop in acquire_with
    MaxFaults,      \* crashes and input/output errors in a behaviour
    MaxMeddles      \* changes of the name by an outsider in a behaviour

ASSUME SentinelAssumption ==
    /\ Nothing \notin Inodes \cup Savers
    /\ Other \notin Inodes \cup {Nothing}

ASSUME BoundAssumption ==
    /\ LocksSupported \in BOOLEAN
    /\ MaxTries \in Nat \ {0}
    /\ MaxFaults \in Nat
    /\ MaxMeddles \in Nat

VARIABLES
    name,      \* what the sidecar name refers to
    header,    \* the files that start with LOCK_HEADER
    origin,    \* who made each file: a saver, a saver of a past run, a user
    flock,     \* who has the advisory lock on each file
    pc,        \* where each saver is in acquire, in the save, or in Drop
    fd,        \* SaveLock::file
    fresh,     \* whether create_new made the file
    removable, \* SaveLock::remove_on_drop
    verdict,   \* how the acquire is ending, or ended
    tries,     \* turns of the loop done
    faults,    \* crashes and errors so far
    meddles    \* an outsider's changes so far

fileVars == <<name, header, origin>>
lockVars == <<name, header, origin, flock, pc, fd, fresh, removable, verdict,
              tries, faults, meddles>>

-----------------------------------------------------------------------------

Points == {"idle", "create", "inspect", "open", "lock", "write", "read",
           "compare", "held", "drop", "unlink", "close"}
Verdicts == {"none", "held", "Retry", "Busy", "Unrelated", "Vanished", "Io",
             "Released", "Crashed"}

LockTypeOK ==
    /\ name \in Inodes \cup {Nothing, Other}
    /\ header \in [Inodes -> BOOLEAN]
    /\ origin \in [Inodes -> {"saver", "stale", "user"}]
    /\ flock \in [Inodes -> Savers \cup {Nothing}]
    /\ pc \in [Savers -> Points]
    /\ fd \in [Savers -> Inodes \cup {Nothing}]
    /\ fresh \in [Savers -> BOOLEAN]
    /\ removable \in [Savers -> BOOLEAN]
    /\ verdict \in [Savers -> Verdicts]
    /\ tries \in [Savers -> 0 .. MaxTries]
    /\ faults \in 0 .. MaxFaults
    /\ meddles \in 0 .. MaxMeddles

(* Nothing at the name, something that is no plain file, a user's file, or *)
(* the lock of a saver that died in an earlier run.                        *)
LockInit ==
    /\ name \in Inodes \cup {Nothing, Other}
    /\ \/ /\ origin = [i \in Inodes |-> "user"]
          /\ header = [i \in Inodes |-> FALSE]
       \/ /\ name \in Inodes
          /\ origin = [i \in Inodes |-> "stale"]
          /\ header = [i \in Inodes |-> TRUE]
    /\ flock = [i \in Inodes |-> Nothing]
    /\ pc = [s \in Savers |-> "idle"]
    /\ fd = [s \in Savers |-> Nothing]
    /\ fresh = [s \in Savers |-> FALSE]
    /\ removable = [s \in Savers |-> FALSE]
    /\ verdict = [s \in Savers |-> "none"]
    /\ tries = [s \in Savers |-> 0]
    /\ faults = 0
    /\ meddles = 0

(* A file nobody names or has open: its identity may be used again.        *)
Unused(i) == i # name /\ \A s \in Savers : fd[s] # i

At(s, point) == pc[s] = point
Goto(s, point) == pc' = [pc EXCEPT ![s] = point]

(* `return Err(..)` while `lock` is live: the verdict is settled and Drop  *)
(* runs.                                                                   *)
Abandon(s, why) ==
    /\ Goto(s, "drop")
    /\ verdict' = [verdict EXCEPT ![s] = why]

(* `return Err(..)` before there is a SaveLock: nothing to drop.           *)
Refuse(s, why) ==
    /\ Goto(s, "idle")
    /\ verdict' = [verdict EXCEPT ![s] = why]

Fault == faults < MaxFaults /\ faults' = faults + 1

-----------------------------------------------------------------------------
(* acquire_with                                                            *)

Begin(s) ==
    /\ At(s, "idle")
    /\ Goto(s, "create")
    /\ verdict' = [verdict EXCEPT ![s] = "none"]
    /\ tries' = [tries EXCEPT ![s] = 0]
    /\ UNCHANGED <<fileVars, flock, fd, fresh, removable, faults, meddles>>

CreateNew(s) ==
    /\ At(s, "create")
    /\ name = Nothing
    /\ \E i \in Inodes :
        /\ Unused(i)
        /\ name' = i
        /\ header' = [header EXCEPT ![i] = FALSE]
        /\ origin' = [origin EXCEPT ![i] = "saver"]
        /\ fd' = [fd EXCEPT ![s] = i]
    /\ fresh' = [fresh EXCEPT ![s] = TRUE]
    /\ removable' = [removable EXCEPT ![s] = TRUE]
    /\ Goto(s, "lock")
    /\ UNCHANGED <<flock, verdict, tries, faults, meddles>>

CreateFindsName(s) ==
    /\ At(s, "create")
    /\ name # Nothing
    /\ Goto(s, "inspect")
    /\ UNCHANGED <<fileVars, flock, fd, fresh, removable, verdict, tries,
                   faults, meddles>>

(* symlink_metadata: the name may be gone again by now.                    *)
Inspect(s) ==
    /\ At(s, "inspect")
    /\ \/ name = Nothing /\ Refuse(s, "Vanished")
       \/ name = Other /\ Refuse(s, "Unrelated")
       \/ name \in Inodes /\ Goto(s, "open") /\ UNCHANGED verdict
    /\ UNCHANGED <<fileVars, flock, fd, fresh, removable, tries, faults, meddles>>

(* File::open: of whatever has the name now, not of what was inspected.    *)
OpenExisting(s) ==
    /\ At(s, "open")
    /\ \/ /\ name = Nothing
          /\ Refuse(s, "Vanished")
          /\ UNCHANGED fd
       \/ /\ name \in Inodes
          /\ fd' = [fd EXCEPT ![s] = name]
          /\ Goto(s, "lock")
          /\ UNCHANGED verdict
    /\ UNCHANGED <<fileVars, flock, fresh, removable, tries, faults, meddles>>

(* What follows the lock: a file this saver made gets its header, one it   *)
(* found is read.                                                          *)
AfterLock(s) == Goto(s, IF fresh[s] THEN "write" ELSE "read")

TryLock(s) ==
    /\ At(s, "lock")
    /\ \/ /\ LocksSupported
          /\ flock[fd[s]] = Nothing
          /\ flock' = [flock EXCEPT ![fd[s]] = s]
          /\ AfterLock(s)
          /\ UNCHANGED verdict
       \/ /\ LocksSupported
          /\ flock[fd[s]] # Nothing
          /\ Abandon(s, "Busy")
          /\ UNCHANGED flock
       \/ /\ ~LocksSupported
          /\ AfterLock(s)
          /\ UNCHANGED <<flock, verdict>>
    /\ UNCHANGED <<fileVars, fd, fresh, removable, tries, faults, meddles>>

WriteHeader(s) ==
    /\ At(s, "write")
    /\ header' = [header EXCEPT ![fd[s]] = TRUE]
    /\ Goto(s, "compare")
    /\ UNCHANGED <<name, origin, flock, fd, fresh, removable, verdict, tries,
                   faults, meddles>>

ReadHeader(s) ==
    /\ At(s, "read")
    /\ \/ /\ header[fd[s]]
          /\ removable' = [removable EXCEPT ![s] = TRUE]
          /\ Goto(s, "compare")
          /\ UNCHANGED verdict
       \/ /\ ~header[fd[s]]
          /\ Abandon(s, "Unrelated")
          /\ UNCHANGED removable
    /\ UNCHANGED <<fileVars, flock, fd, fresh, tries, faults, meddles>>

(* Mutant: the name is not compared after the lock.                        *)
CompareHandles_None(s) ==
    /\ At(s, "compare")
    /\ Goto(s, "held")
    /\ verdict' = [verdict EXCEPT ![s] = "held"]
    /\ UNCHANGED <<fileVars, flock, fd, fresh, removable, tries, faults, meddles>>

(* The handle held against the handle named: a lock on a file that lost    *)
(* the name is a lock on nothing, and the loop turns.                      *)
CompareHandles(s) ==
    /\ At(s, "compare")
    /\ \/ /\ name = fd[s]
          /\ Goto(s, "held")
          /\ verdict' = [verdict EXCEPT ![s] = "held"]
       \/ /\ name # fd[s]
          /\ Abandon(s, "Retry")
    /\ UNCHANGED <<fileVars, flock, fd, fresh, removable, tries, faults, meddles>>

(* An input/output error of a call that has one: creating or opening       *)
(* before there is a lock, then locking, writing, duplicating the handle.  *)
AcquireFails(s) ==
    /\ Fault
    /\ \/ pc[s] \in {"create", "inspect", "open"} /\ Refuse(s, "Io")
       \/ pc[s] \in {"lock", "write", "compare"} /\ Abandon(s, "Io")
    /\ UNCHANGED <<fileVars, flock, fd, fresh, removable, tries, meddles>>

-----------------------------------------------------------------------------
(* Drop                                                                    *)

Release(s) ==
    /\ At(s, "held")
    /\ Abandon(s, "Released")
    /\ UNCHANGED <<fileVars, flock, fd, fresh, removable, tries, faults, meddles>>

(* Mutant: the name is removed whatever it refers to.                      *)
DropCheck_Blind(s) ==
    /\ At(s, "drop")
    /\ Goto(s, IF removable[s] THEN "unlink" ELSE "close")
    /\ UNCHANGED <<fileVars, flock, fd, fresh, removable, verdict, tries,
                   faults, meddles>>

DropCheck(s) ==
    /\ At(s, "drop")
    /\ Goto(s, IF removable[s] /\ name = fd[s] THEN "unlink" ELSE "close")
    /\ UNCHANGED <<fileVars, flock, fd, fresh, removable, verdict, tries,
                   faults, meddles>>

(* remove_file removes whatever plain file has the name by now.            *)
Unlink(s) ==
    /\ At(s, "unlink")
    /\ name' = IF name = Other THEN Other ELSE Nothing
    /\ Goto(s, "close")
    /\ UNCHANGED <<header, origin, flock, fd, fresh, removable, verdict, tries,
                   faults, meddles>>

UnlinkFails(s) ==
    /\ At(s, "unlink")
    /\ Fault
    /\ Goto(s, "close")
    /\ UNCHANGED <<fileVars, flock, fd, fresh, removable, verdict, tries, meddles>>

(* The descriptor goes, and with it this saver's advisory lock.            *)
CloseFd(s) ==
    /\ flock' = [i \in Inodes |-> IF flock[i] = s THEN Nothing ELSE flock[i]]
    /\ fd' = [fd EXCEPT ![s] = Nothing]
    /\ fresh' = [fresh EXCEPT ![s] = FALSE]
    /\ removable' = [removable EXCEPT ![s] = FALSE]

(* Mutant: the loop turns as long as the name is lost.                     *)
Close_Again(s) ==
    /\ At(s, "close")
    /\ CloseFd(s)
    /\ \/ /\ verdict[s] = "Retry"
          /\ Goto(s, "create")
          /\ UNCHANGED <<tries, verdict>>
       \/ /\ verdict[s] # "Retry"
          /\ Goto(s, "idle")
          /\ UNCHANGED <<tries, verdict>>
    /\ UNCHANGED <<fileVars, faults, meddles>>

Close(s) ==
    /\ At(s, "close")
    /\ CloseFd(s)
    /\ \/ /\ verdict[s] = "Retry"
          /\ tries' = [tries EXCEPT ![s] = @ + 1]
          /\ \/ tries[s] + 1 < MaxTries /\ Goto(s, "create") /\ UNCHANGED verdict
             \/ tries[s] + 1 = MaxTries /\ Refuse(s, "Busy")
       \/ /\ verdict[s] # "Retry"
          /\ Goto(s, "idle")
          /\ UNCHANGED <<tries, verdict>>
    /\ UNCHANGED <<fileVars, faults, meddles>>

Crash(s) ==
    /\ pc[s] # "idle"
    /\ Fault
    /\ CloseFd(s)
    /\ Refuse(s, "Crashed")
    /\ UNCHANGED <<fileVars, tries, meddles>>

-----------------------------------------------------------------------------
(* An outsider                                                             *)

Meddle ==
    /\ meddles < MaxMeddles
    /\ meddles' = meddles + 1
    /\ \/ /\ name # Nothing
          /\ name' = Nothing
          /\ UNCHANGED <<header, origin>>
       \/ \E i \in Inodes :
            /\ Unused(i)
            /\ name' = i
            /\ header' = [header EXCEPT ![i] = FALSE]
            /\ origin' = [origin EXCEPT ![i] = "user"]
    /\ UNCHANGED <<flock, pc, fd, fresh, removable, verdict, tries, faults>>

(* Steps of acquire, and of Drop, that the save they serve does not see.   *)
AcquireStep(s) ==
    \/ CreateNew(s) \/ CreateFindsName(s) \/ Inspect(s) \/ OpenExisting(s)
    \/ TryLock(s) \/ WriteHeader(s) \/ ReadHeader(s) \/ CompareHandles(s)
    \/ AcquireFails(s)
DropStep(s) == DropCheck(s) \/ Unlink(s) \/ UnlinkFails(s) \/ Close(s)

LockNext ==
    \/ \E s \in Savers :
        Begin(s) \/ AcquireStep(s) \/ Release(s) \/ DropStep(s) \/ Crash(s)
    \/ Meddle

LockSpec == LockInit /\ [][LockNext]_lockVars

(* A saver that runs takes its steps: no call of acquire or Drop waits.    *)
SaverGoesOn(s) == AcquireStep(s) \/ Release(s) \/ DropStep(s)
FairLockSpec == LockSpec /\ \A s \in Savers : WF_lockVars(SaverGoesOn(s))

-----------------------------------------------------------------------------
(* Properties                                                              *)

(* Two savers are never both between the second compare and the rename, as *)
(* long as nobody but savers touches the sidecar and the file system has   *)
(* advisory locks (save.rs:21-24).                                         *)
MutualExclusion ==
    LocksSupported /\ meddles = 0 =>
        \A s, t \in Savers : At(s, "held") /\ At(t, "held") => s = t

(* The inductive invariant behind MutualExclusion.                         *)
NoDescriptor == {"idle", "create", "inspect", "open"}
Locking == {"write", "read", "compare", "held"}

(* A lock belongs to a saver that has the file open, and a saver past      *)
(* try_lock has it.                                                        *)
FlockInv ==
    /\ \A s \in Savers : pc[s] \in NoDescriptor <=> fd[s] = Nothing
    /\ \A s \in Savers : pc[s] \in Locking => flock[fd[s]] = s
    /\ \A i \in Inodes : \A s \in Savers : flock[i] = s => fd[s] = i

(* Who may remove: the saver that made the file, as long as nobody could   *)
(* have taken it over, or the one that has the lock on it.                 *)
RemovableInv ==
    /\ \A s \in Savers : fresh[s] => removable[s]
    /\ \A s \in Savers : removable[s] =>
         /\ fd[s] \in Inodes
         /\ flock[fd[s]] = s \/ (fresh[s] /\ ~header[fd[s]])
         /\ fresh[s] \/ header[fd[s]]
    /\ \A s, t \in Savers : fresh[s] /\ fresh[t] /\ fd[s] = fd[t] => s = t

PointInv ==
    /\ \A s \in Savers : pc[s] = "write" => fresh[s]
    /\ \A s \in Savers : pc[s] = "read" => ~fresh[s]
    /\ \A s \in Savers : pc[s] \in {"compare", "held", "unlink"} => removable[s]
    /\ \A s \in Savers : pc[s] \in {"held", "unlink"} => name = fd[s]

LockInv ==
    LocksSupported /\ meddles = 0 => FlockInv /\ RemovableInv /\ PointInv

(* What is behind HeldFileIsOurs: the header is only ever written into a   *)
(* file a saver made and has open, and no saver goes on without it.        *)
HeaderInv ==
    /\ \A i \in Inodes : header[i] => origin[i] # "user"
    /\ \A s \in Savers : fresh[s] => fd[s] \in Inodes /\ origin[fd[s]] = "saver"
    /\ \A s \in Savers : pc[s] = "write" => fresh[s]
    /\ \A s \in Savers : pc[s] \in {"compare", "held"} => header[fd[s]]

(* Even when an outsider removes or replaces the sidecar, two savers never *)
(* hold one file, and nobody holds a file that a user put there: a file    *)
(* without the header is "never locked for good" (save.rs:500-501).        *)
HeldFileIsOurs ==
    LocksSupported =>
        \A s \in Savers : At(s, "held") =>
            /\ origin[fd[s]] # "user"
            /\ \A t \in Savers \ {s} : At(t, "held") => fd[t] # fd[s]

(* No step of a saver takes the name from a user's file, or from the lock  *)
(* another saver holds, while nobody but savers touches the sidecar        *)
(* (save.rs:502-503, 624-626).                                             *)
RemovesOnlyItsOwn ==
    [][ LocksSupported /\ meddles' = 0 /\ name \in Inodes /\ name' # name =>
          /\ origin[name] # "user"
          /\ \A s \in Savers : At(s, "held") => fd[s] # name ]_lockVars

(* Every attempt ends, held and given up or refused, whoever else comes    *)
(* and goes: the loop gives up after four tries (save.rs:544).             *)
EveryAttemptEnds == \A s \in Savers : ~At(s, "idle") ~> At(s, "idle")

=============================================================================
