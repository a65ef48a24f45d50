----------------------------- MODULE SaveProofs -----------------------------
(***************************************************************************)
(* Proofs about SaveLock and Save, for any number of savers and windows,   *)
(* any versions, crashes and outsiders. First the lock by itself: its type *)
(* invariant, mutual exclusion, and whose files the savers hold and        *)
(* remove. Then Save: a step of it is a step of the lock, or one that the  *)
(* lock sees only as a fault, so the lock's invariants carry over.         *)
(***************************************************************************)
EXTENDS Save, TLAPS

USE DEF At, Goto, Abandon, Refuse, Fault, Points, Verdicts

-----------------------------------------------------------------------------
(* The lock.                                                               *)

LEMMA LockTypeInit == LockInit => LockTypeOK
<1> SUFFICES ASSUME LockInit PROVE LockTypeOK
  OBVIOUS
<1>1. /\ pc \in [Savers -> Points]
      /\ fd \in [Savers -> Inodes \cup {Nothing}]
      /\ fresh \in [Savers -> BOOLEAN]
      /\ removable \in [Savers -> BOOLEAN]
      /\ verdict \in [Savers -> Verdicts]
      /\ tries \in [Savers -> 0 .. MaxTries]
  BY BoundAssumption DEF LockInit
<1>2. /\ header \in [Inodes -> BOOLEAN]
      /\ origin \in [Inodes -> {"saver", "stale", "user"}]
      /\ flock \in [Inodes -> Savers \cup {Nothing}]
  BY DEF LockInit
<1>3. QED
  BY <1>1, <1>2, BoundAssumption DEF LockInit, LockTypeOK

LEMMA LockTypeStep == LockTypeOK /\ [LockNext]_lockVars => LockTypeOK'
<1> SUFFICES ASSUME LockTypeOK, [LockNext]_lockVars PROVE LockTypeOK'
  OBVIOUS
<1> USE BoundAssumption, SentinelAssumption DEF LockTypeOK, fileVars
<1>1. ASSUME NEW s \in Savers, Begin(s) PROVE LockTypeOK'
  BY <1>1 DEF Begin
<1>2. ASSUME NEW s \in Savers, AcquireStep(s) PROVE LockTypeOK'
  <2>1. CASE CreateNew(s)
    BY <2>1 DEF CreateNew
  <2>2. CASE CreateFindsName(s)
    BY <2>2 DEF CreateFindsName
  <2>3. CASE Inspect(s)
    BY <2>3 DEF Inspect
  <2>4. CASE OpenExisting(s)
    BY <2>4 DEF OpenExisting
  <2>5. CASE TryLock(s)
    BY <2>5 DEF TryLock, AfterLock
  <2>6. CASE WriteHeader(s)
    BY <2>6 DEF WriteHeader
  <2>7. CASE ReadHeader(s)
    BY ZenonT(60), <2>7 DEF ReadHeader
  <2>8. CASE CompareHandles(s)
    BY <2>8 DEF CompareHandles
  <2>9. CASE AcquireFails(s)
    BY <2>9 DEF AcquireFails
  <2>10. QED
    BY <1>2, <2>1, <2>2, <2>3, <2>4, <2>5, <2>6, <2>7, <2>8, <2>9 DEF AcquireStep
<1>3. ASSUME NEW s \in Savers, Release(s) PROVE LockTypeOK'
  BY <1>3 DEF Release
<1>4. ASSUME NEW s \in Savers, DropStep(s) PROVE LockTypeOK'
  <2>1. CASE DropCheck(s)
    BY <2>1 DEF DropCheck
  <2>2. CASE Unlink(s)
    BY <2>2 DEF Unlink
  <2>3. CASE UnlinkFails(s)
    BY <2>3 DEF UnlinkFails
  <2>4. CASE Close(s)
    BY <2>4 DEF Close, CloseFd
  <2>5. QED
    BY <1>4, <2>1, <2>2, <2>3, <2>4 DEF DropStep
<1>5. ASSUME NEW s \in Savers, Crash(s) PROVE LockTypeOK'
  BY <1>5 DEF Crash, CloseFd
<1>6. CASE Meddle
  <2>1. meddles' \in 0 .. MaxMeddles
    BY <1>6 DEF Meddle
  <2>2. /\ name' \in Inodes \cup {Nothing, Other}
        /\ header' \in [Inodes -> BOOLEAN]
        /\ origin' \in [Inodes -> {"saver", "stale", "user"}]
    BY <1>6 DEF Meddle
  <2>3. QED
    BY <1>6, <2>1, <2>2 DEF Meddle
<1>7. CASE UNCHANGED lockVars
  BY <1>7 DEF lockVars
<1> HIDE DEF LockTypeOK
<1>8. QED
  BY <1>1, <1>2, <1>3, <1>4, <1>5, <1>6, <1>7 DEF LockNext

(* Every variable of the lock keeps its type (save.rs:504-636).            *)
THEOREM LockTyped == LockSpec => []LockTypeOK
  BY LockTypeInit, LockTypeStep, PTL DEF LockSpec

-----------------------------------------------------------------------------

(* Two savers that may each remove their file never have the same file:    *)
(* what keeps one from removing the sidecar the other holds.               *)
LEMMA RemovableApart ==
    ASSUME FlockInv, RemovableInv, LockTypeOK,
           NEW s \in Savers, NEW t \in Savers,
           removable[s], removable[t], fd[s] = fd[t]
    PROVE  s = t
  BY SentinelAssumption DEF FlockInv, RemovableInv, LockTypeOK

LEMMA LockInvInit == LockInit => LockInv
  BY SentinelAssumption
  DEF LockInit, LockInv, FlockInv, RemovableInv, PointInv, NoDescriptor, Locking

LEMMA LockInvStep ==
    LockTypeOK /\ LockInv /\ [LockNext]_lockVars => LockInv'
<1> SUFFICES ASSUME LockTypeOK, LockInv, [LockNext]_lockVars,
                    LocksSupported, meddles' = 0
             PROVE  FlockInv' /\ RemovableInv' /\ PointInv'
  BY DEF LockInv
<1>0. CASE Meddle
  BY <1>0 DEF Meddle, LockTypeOK
<1> SUFFICES ASSUME ~Meddle PROVE FlockInv' /\ RemovableInv' /\ PointInv'
  BY <1>0
<1>1. meddles = 0
  BY BoundAssumption DEF LockNext, lockVars, LockTypeOK, Begin, AcquireStep, CreateNew,
     CreateFindsName, Inspect, OpenExisting, TryLock, WriteHeader, ReadHeader,
     CompareHandles, AcquireFails, Release, DropStep, DropCheck, Unlink,
     UnlinkFails, Close, Crash
<1>2. FlockInv /\ RemovableInv /\ PointInv
  BY <1>1 DEF LockInv
<1> USE SentinelAssumption, <1>2
    DEF LockTypeOK, FlockInv, RemovableInv, PointInv, NoDescriptor, Locking, fileVars
<1>3. ASSUME NEW s \in Savers, Begin(s) PROVE FlockInv' /\ RemovableInv' /\ PointInv'
  BY <1>3 DEF Begin
<1>4. ASSUME NEW s \in Savers, CreateNew(s)
      PROVE  FlockInv' /\ RemovableInv' /\ PointInv'
  BY <1>4 DEF CreateNew, Unused
<1>5. ASSUME NEW s \in Savers, CreateFindsName(s)
      PROVE  FlockInv' /\ RemovableInv' /\ PointInv'
  BY <1>5 DEF CreateFindsName
<1>6. ASSUME NEW s \in Savers, Inspect(s)
      PROVE  FlockInv' /\ RemovableInv' /\ PointInv'
  BY <1>6 DEF Inspect
<1>7. ASSUME NEW s \in Savers, OpenExisting(s)
      PROVE  FlockInv' /\ RemovableInv' /\ PointInv'
  BY <1>7 DEF OpenExisting
<1>8. ASSUME NEW s \in Savers, TryLock(s)
      PROVE  FlockInv' /\ RemovableInv' /\ PointInv'
  BY <1>8 DEF TryLock, AfterLock
<1>9. ASSUME NEW s \in Savers, WriteHeader(s)
      PROVE  FlockInv' /\ RemovableInv' /\ PointInv'
  BY <1>9 DEF WriteHeader
<1>10. ASSUME NEW s \in Savers, ReadHeader(s)
       PROVE  FlockInv' /\ RemovableInv' /\ PointInv'
  BY <1>10 DEF ReadHeader
<1>11. ASSUME NEW s \in Savers, CompareHandles(s)
       PROVE  FlockInv' /\ RemovableInv' /\ PointInv'
  BY <1>11 DEF CompareHandles
<1>12. ASSUME NEW s \in Savers, AcquireFails(s)
       PROVE  FlockInv' /\ RemovableInv' /\ PointInv'
  BY <1>12 DEF AcquireFails
<1>13. ASSUME NEW s \in Savers, Release(s)
       PROVE  FlockInv' /\ RemovableInv' /\ PointInv'
  BY <1>13 DEF Release
<1>14. ASSUME NEW s \in Savers, DropCheck(s)
       PROVE  FlockInv' /\ RemovableInv' /\ PointInv'
  BY <1>14 DEF DropCheck
<1>15. ASSUME NEW s \in Savers, Unlink(s)
       PROVE  FlockInv' /\ RemovableInv' /\ PointInv'
  <2>1. ASSUME NEW t \in Savers, t # s, pc[t] \in {"held", "unlink"} PROVE FALSE
    BY <1>15, <2>1, RemovableApart DEF Unlink
  <2>2. QED
    BY <1>15, <2>1 DEF Unlink
<1>16. ASSUME NEW s \in Savers, UnlinkFails(s)
       PROVE  FlockInv' /\ RemovableInv' /\ PointInv'
  BY <1>16 DEF UnlinkFails
<1>17. ASSUME NEW s \in Savers, Close(s)
       PROVE  FlockInv' /\ RemovableInv' /\ PointInv'
  BY <1>17 DEF Close, CloseFd
<1>18. ASSUME NEW s \in Savers, Crash(s)
       PROVE  FlockInv' /\ RemovableInv' /\ PointInv'
  BY <1>18 DEF Crash, CloseFd
<1>19. CASE UNCHANGED lockVars
  BY <1>19 DEF lockVars
<1>20. QED
  BY <1>3, <1>4, <1>5, <1>6, <1>7, <1>8, <1>9, <1>10, <1>11, <1>12, <1>13,
     <1>14, <1>15, <1>16, <1>17, <1>18, <1>19
  DEF LockNext, AcquireStep, DropStep

(* At most one saver is between the compare under the lock and the rename, *)
(* for any set of savers, with any number of crashes (save.rs:21-24).      *)
THEOREM SaversExcludeEachOther == LockSpec => []MutualExclusion
<1>1. LockTypeOK /\ LockInv => MutualExclusion
  BY SentinelAssumption
  DEF LockInv, FlockInv, PointInv, MutualExclusion, LockTypeOK, NoDescriptor, Locking
<1>2. QED
  BY <1>1, LockTyped, LockInvInit, LockInvStep, PTL DEF LockSpec

-----------------------------------------------------------------------------
(* What a saver holds and removes, also with outsiders at the sidecar.     *)

(* The invariant that outsiders cannot break.                              *)
HeldInv == LocksSupported => FlockInv /\ HeaderInv

LEMMA HeldInvInit == LockInit => HeldInv
  BY SentinelAssumption
  DEF LockInit, HeldInv, FlockInv, HeaderInv, NoDescriptor, Locking

LEMMA HeldInvStep ==
    LockTypeOK /\ HeldInv /\ [LockNext]_lockVars => HeldInv'
<1> SUFFICES ASSUME LockTypeOK, HeldInv, [LockNext]_lockVars, LocksSupported
             PROVE  FlockInv' /\ HeaderInv'
  BY DEF HeldInv
<1>0. FlockInv /\ HeaderInv
  BY DEF HeldInv
<1> USE SentinelAssumption, <1>0
    DEF LockTypeOK, FlockInv, HeaderInv, NoDescriptor, Locking, fileVars
<1>1. CASE Meddle
  BY <1>1 DEF Meddle, Unused
<1>2. ASSUME NEW s \in Savers, Begin(s) PROVE FlockInv' /\ HeaderInv'
  BY <1>2 DEF Begin
<1>3. ASSUME NEW s \in Savers, CreateNew(s) PROVE FlockInv' /\ HeaderInv'
  BY <1>3 DEF CreateNew, Unused
<1>4. ASSUME NEW s \in Savers, CreateFindsName(s) PROVE FlockInv' /\ HeaderInv'
  BY <1>4 DEF CreateFindsName
<1>5. ASSUME NEW s \in Savers, Inspect(s) PROVE FlockInv' /\ HeaderInv'
  BY <1>5 DEF Inspect
<1>6. ASSUME NEW s \in Savers, OpenExisting(s) PROVE FlockInv' /\ HeaderInv'
  BY <1>6 DEF OpenExisting
<1>7. ASSUME NEW s \in Savers, TryLock(s) PROVE FlockInv' /\ HeaderInv'
  BY <1>7 DEF TryLock, AfterLock
<1>8. ASSUME NEW s \in Savers, WriteHeader(s) PROVE FlockInv' /\ HeaderInv'
  BY <1>8 DEF WriteHeader
<1>9. ASSUME NEW s \in Savers, ReadHeader(s) PROVE FlockInv' /\ HeaderInv'
  BY <1>9 DEF ReadHeader
<1>10. ASSUME NEW s \in Savers, CompareHandles(s) PROVE FlockInv' /\ HeaderInv'
  BY <1>10 DEF CompareHandles
<1>11. ASSUME NEW s \in Savers, AcquireFails(s) PROVE FlockInv' /\ HeaderInv'
  BY <1>11 DEF AcquireFails
<1>12. ASSUME NEW s \in Savers, Release(s) PROVE FlockInv' /\ HeaderInv'
  BY <1>12 DEF Release
<1>13. ASSUME NEW s \in Savers, DropCheck(s) PROVE FlockInv' /\ HeaderInv'
  BY <1>13 DEF DropCheck
<1>14. ASSUME NEW s \in Savers, Unlink(s) PROVE FlockInv' /\ HeaderInv'
  BY <1>14 DEF Unlink
<1>15. ASSUME NEW s \in Savers, UnlinkFails(s) PROVE FlockInv' /\ HeaderInv'
  BY <1>15 DEF UnlinkFails
<1>16. ASSUME NEW s \in Savers, Close(s) PROVE FlockInv' /\ HeaderInv'
  BY <1>16 DEF Close, CloseFd
<1>17. ASSUME NEW s \in Savers, Crash(s) PROVE FlockInv' /\ HeaderInv'
  BY <1>17 DEF Crash, CloseFd
<1>18. CASE UNCHANGED lockVars
  BY <1>18 DEF lockVars
<1>19. QED
  BY <1>1, <1>2, <1>3, <1>4, <1>5, <1>6, <1>7, <1>8, <1>9, <1>10,
     <1>11, <1>12, <1>13, <1>14, <1>15, <1>16, <1>17, <1>18
  DEF LockNext, AcquireStep, DropStep

(* Whatever outsiders do to the sidecar, two savers never hold one file    *)
(* and nobody holds a file that a user put there (save.rs:500-501).        *)
THEOREM NobodyHoldsAUsersFile == LockSpec => []HeldFileIsOurs
<1>1. LockTypeOK /\ HeldInv => HeldFileIsOurs
  BY SentinelAssumption
  DEF LockTypeOK, HeldInv, FlockInv, HeaderInv, HeldFileIsOurs, NoDescriptor, Locking
<1>2. QED
  BY <1>1, LockTyped, HeldInvInit, HeldInvStep, PTL DEF LockSpec

(* While only savers touch the sidecar, no step of one takes the name from *)
(* a user's file or from the lock another holds (save.rs:502-503).         *)
THEOREM SaversRemoveTheirOwn == LockSpec => RemovesOnlyItsOwn
<1> DEFINE Own == LocksSupported /\ meddles' = 0 /\ name \in Inodes /\ name' # name =>
                    /\ origin[name] # "user"
                    /\ \A s \in Savers : At(s, "held") => fd[s] # name
<1>1. LockTypeOK /\ LockInv /\ HeldInv /\ [LockNext]_lockVars => [Own]_lockVars
  <2> SUFFICES ASSUME LockTypeOK, LockInv, HeldInv, LockNext,
                      LocksSupported, meddles' = 0, name \in Inodes, name' # name
               PROVE  /\ origin[name] # "user"
                      /\ \A s \in Savers : At(s, "held") => fd[s] # name
    OBVIOUS
  <2>1. ~Meddle
    BY BoundAssumption DEF Meddle, LockTypeOK
  <2>2. PICK s \in Savers : Unlink(s) /\ meddles = 0
    <3>1. ASSUME NEW s \in Savers, CreateNew(s) PROVE FALSE
      BY <3>1, SentinelAssumption DEF CreateNew
    <3>2. QED
      BY <2>1, <3>1 DEF LockNext, Begin, AcquireStep, CreateFindsName, Inspect, OpenExisting,
         TryLock, WriteHeader, ReadHeader, CompareHandles, AcquireFails, Release, DropStep,
         DropCheck, Unlink, UnlinkFails, Close, Crash, fileVars
  <2>3. FlockInv /\ RemovableInv /\ PointInv /\ HeaderInv
    BY <2>2 DEF LockInv, HeldInv
  <2>4. removable[s] /\ name = fd[s]
    BY <2>2, <2>3 DEF Unlink, PointInv
  <2>5. origin[name] # "user"
    BY <2>3, <2>4 DEF RemovableInv, HeaderInv
  <2>6. ASSUME NEW t \in Savers, At(t, "held"), fd[t] = name PROVE FALSE
    <3>1. removable[t]
      BY <2>3, <2>6 DEF PointInv
    <3>2. t = s
      BY <2>3, <2>4, <2>6, <3>1, RemovableApart
    <3>3. QED
      BY <2>2, <2>6, <3>2 DEF Unlink
  <2>7. QED
    BY <2>5, <2>6
<1>2. QED
  BY <1>1, LockTyped, LockInvInit, LockInvStep, HeldInvInit, HeldInvStep, PTL
  DEF LockSpec, RemovesOnlyItsOwn

-----------------------------------------------------------------------------
(* The save around it.                                                     *)

(* What the lock sees of a step of Save that is no step of its own: an     *)
(* error elsewhere in the save, or the end of a process without the lock.  *)
FaultOnly ==
    /\ Fault
    /\ \/ verdict' = verdict
       \/ \E s \in Savers : verdict' = [verdict EXCEPT ![s] = "Crashed"]
    /\ UNCHANGED <<name, header, origin, flock, pc, fd, fresh, removable, tries, meddles>>

LEMMA LockSide ==
    ASSUME [Next]_vars
    PROVE  ([LockNext]_lockVars \/ FaultOnly) /\ meddles' = meddles
<1>1. ASSUME NEW s \in Savers, SaveFails(s) PROVE FaultOnly /\ meddles' = meddles
  BY <1>1 DEF SaveFails, FaultOnly
<1>2. ASSUME NEW s \in Savers, Die(s)
      PROVE  (Crash(s) \/ FaultOnly) /\ meddles' = meddles
  BY <1>2 DEF Die, Crash, FaultOnly
<1>3. ASSUME NEW s \in Savers, LockStep(s)
      PROVE  (AcquireStep(s) \/ DropStep(s)) /\ meddles' = meddles
  BY <1>3 DEF LockStep, AcquireStep, CreateNew, CreateFindsName, Inspect,
     OpenExisting, TryLock, WriteHeader, ReadHeader, CompareHandles, AcquireFails,
     DropStep, DropCheck, Unlink, UnlinkFails, Close
<1>4. ASSUME NEW s \in Savers, TakeLock(s) PROVE Begin(s) /\ meddles' = meddles
  BY <1>4 DEF TakeLock, Begin
<1>5. ASSUME NEW s \in Savers, Unlock(s)
      PROVE  (Release(s) \/ UNCHANGED lockVars) /\ meddles' = meddles
  BY <1>5 DEF Unlock, Release, lockVars
<1>6. ASSUME NEW s \in Savers,
             \/ Start(s) \/ Resolve(s) \/ Replaceable(s) \/ Compare(s) \/ Copy(s)
             \/ LockRefused(s) \/ CompareLocked(s) \/ Rename(s) \/ Link(s)
             \/ CleanLink(s) \/ Finish(s) \/ Plan(s) \/ Reopen(s) \/ Cancel(s)
      PROVE  UNCHANGED lockVars /\ meddles' = meddles
  BY <1>6 DEF Start, Resolve, Replaceable, Compare, Copy, LockRefused, CompareLocked,
     Rename, Link, CleanLink, Finish, Plan, Reopen, Cancel, lockVars
<1>7. ASSUME Outsider \/ Done \/ UNCHANGED vars
      PROVE  UNCHANGED lockVars /\ meddles' = meddles
  BY <1>7 DEF Outsider, Done, vars, lockVars
<1>8. QED
  BY <1>1, <1>2, <1>3, <1>4, <1>5, <1>6, <1>7 DEF Next, SaverStep, LockNext

(* The sidecar is nobody's but the savers'.                                *)
SidecarInv == LockTypeOK /\ LockInv /\ meddles = 0

LEMMA SidecarStep == SidecarInv /\ [Next]_vars => SidecarInv'
<1> SUFFICES ASSUME SidecarInv, [Next]_vars PROVE SidecarInv'
  OBVIOUS
<1>1. CASE [LockNext]_lockVars
  BY <1>1, LockSide, LockTypeStep, LockInvStep DEF SidecarInv
<1>2. CASE FaultOnly
  <2>1. LockTypeOK'
    BY <1>2, BoundAssumption DEF FaultOnly, SidecarInv, LockTypeOK
  <2>2. LockInv'
    BY <1>2 DEF FaultOnly, SidecarInv, LockInv, FlockInv, RemovableInv, PointInv,
       NoDescriptor, Locking
  <2>3. QED
    BY <2>1, <2>2, LockSide DEF SidecarInv
<1>3. QED
  BY <1>1, <1>2, LockSide

(* A step inside acquire, Drop or a crash moves only the saver it is of.   *)
LEMMA OneSaverMoves ==
    ASSUME LockTypeOK, NEW s \in Savers, NEW t \in Savers \ {s},
           AcquireStep(s) \/ DropStep(s) \/ Crash(s)
    PROVE  pc'[t] = pc[t]
  BY DEF LockTypeOK, AcquireStep, CreateNew, CreateFindsName, Inspect, OpenExisting,
     TryLock, AfterLock, WriteHeader, ReadHeader, CompareHandles, AcquireFails,
     DropStep, DropCheck, Unlink, UnlinkFails, Close, Crash

-----------------------------------------------------------------------------

(* The save's own variables.                                               *)
SaveTypeOK ==
    /\ target \in Contents \cup {Nothing}
    /\ writable \in BOOLEAN
    /\ linked \in BOOLEAN
    /\ phase \in [Savers -> Phases]
    /\ kind \in [Savers -> {"InPlace", "As", "AsInside"}]
    /\ expected \in [Savers -> Version \cup {Nothing}]
    /\ source \in [Savers -> Version \cup {Nothing}]
    /\ scratch \in [Savers -> {"none", "copy", "link"}]
    /\ cancelled \in [Savers -> BOOLEAN]
    /\ ending \in [Savers -> Answers]
    /\ versions \in Version
    /\ edits \in 0 .. MaxEdits
    /\ disturbed \in [Savers -> SUBSET {"content", "mode"}]

LEMMA SaveTypeInit == Init => SaveTypeOK
<1> SUFFICES ASSUME Init PROVE SaveTypeOK
  OBVIOUS
<1>1. 0 \in Version /\ 0 \in 0 .. MaxEdits
  BY VersionAssumption DEF Version
<1>2. expected \in [Savers -> Version \cup {Nothing}]
  BY <1>1 DEF Init
<1>3. QED
  BY <1>1, <1>2 DEF Init, SaveTypeOK, Contents, Phases, Answers

LEMMA SaveTypeStep == SaveTypeOK /\ [Next]_vars => SaveTypeOK'
<1> SUFFICES ASSUME SaveTypeOK, [Next]_vars PROVE SaveTypeOK'
  OBVIOUS
<1> USE VersionAssumption DEF SaveTypeOK, Phases, Answers, Contents, Version
<1>1. ASSUME NEW s \in Savers, Plan(s) PROVE SaveTypeOK'
  BY <1>1 DEF Plan, In, Proceed
<1>2. ASSUME NEW s \in Savers, Reopen(s) PROVE SaveTypeOK'
  BY <1>2 DEF Reopen, In
<1>3. ASSUME NEW s \in Savers, Cancel(s) PROVE SaveTypeOK'
  BY <1>3 DEF Cancel
<1>4. ASSUME NEW s \in Savers, Start(s) PROVE SaveTypeOK'
  BY <1>4 DEF Start, In, Proceed, End, saveFrame
<1>5. ASSUME NEW s \in Savers, Resolve(s) PROVE SaveTypeOK'
  BY <1>5 DEF Resolve, In, Proceed, End, saveFrame
<1>6. ASSUME NEW s \in Savers, Replaceable(s) PROVE SaveTypeOK'
  BY <1>6 DEF Replaceable, In, Proceed, End, saveFrame
<1>7. ASSUME NEW s \in Savers, Compare(s) PROVE SaveTypeOK'
  BY <1>7 DEF Compare, Differs, In, Proceed, End, saveFrame
<1>8. ASSUME NEW s \in Savers, Copy(s) PROVE SaveTypeOK'
  BY <1>8 DEF Copy, In, Proceed, End, saveFrame
<1>9. ASSUME NEW s \in Savers, TakeLock(s) PROVE SaveTypeOK'
  BY <1>9 DEF TakeLock, Begin, In, Proceed, saveFrame
<1>10. ASSUME NEW s \in Savers, LockRefused(s) PROVE SaveTypeOK'
  BY <1>10 DEF LockRefused, In, End, saveFrame
<1>11. ASSUME NEW s \in Savers, CompareLocked(s) PROVE SaveTypeOK'
  BY <1>11 DEF CompareLocked, Differs, In, Proceed, End, saveFrame
<1>12. ASSUME NEW s \in Savers, Rename(s) PROVE SaveTypeOK'
  BY <1>12 DEF Rename, In, End
<1>13. ASSUME NEW s \in Savers, Link(s) PROVE SaveTypeOK'
  <2>1. CASE target = Nothing
    <3>1. target' \in Contents \cup {Nothing}
      BY <1>13, <2>1 DEF Link
    <3>5. writable' \in BOOLEAN
      BY <1>13, <2>1, Zenon DEF Link
    <3>2. phase' \in [Savers -> Phases] /\ scratch' \in [Savers -> {"none", "copy", "link"}]
      BY <1>13, <2>1 DEF Link, Proceed
    <3>3. ending' \in [Savers -> Answers]
      BY <1>13, <2>1 DEF Link
    <3>4. QED
      BY <1>13, <3>1, <3>2, <3>3, <3>5 DEF Link
  <2>2. CASE target # Nothing
    BY <1>13, <2>2 DEF Link, In, End
  <2>3. QED
    BY <2>1, <2>2
<1>14. ASSUME NEW s \in Savers, CleanLink(s) PROVE SaveTypeOK'
  BY <1>14 DEF CleanLink, In, Proceed
<1>15. ASSUME NEW s \in Savers, SaveFails(s) PROVE SaveTypeOK'
  BY <1>15 DEF SaveFails, End, saveFrame
<1>16. ASSUME NEW s \in Savers, Unlock(s) PROVE SaveTypeOK'
  BY <1>16 DEF Unlock, Release, In, Proceed, saveFrame
<1>17. ASSUME NEW s \in Savers, Finish(s) PROVE SaveTypeOK'
  BY <1>17 DEF Finish, In, Proceed
<1>18. ASSUME NEW s \in Savers, LockStep(s) PROVE SaveTypeOK'
  BY <1>18 DEF LockStep, saveVars
<1>19. ASSUME NEW s \in Savers, Die(s) PROVE SaveTypeOK'
  BY <1>19 DEF Die, Crash, Proceed
<1>20. CASE Outsider
  <2>1. target' \in Contents \cup {Nothing} 
    BY <1>20 DEF Outsider
  <2>7. linked' \in BOOLEAN
    BY <1>20, Zenon DEF Outsider
  <2>6. writable' \in BOOLEAN
    BY <1>20, Zenon DEF Outsider
  <2>2. scratch' \in [Savers -> {"none", "copy", "link"}]
    BY <1>20 DEF Outsider
  <2>3. disturbed' \in [Savers -> SUBSET {"content", "mode"}]
    BY <1>20 DEF Outsider, Disturb
  <2>4. edits' \in 0 .. MaxEdits
    BY <1>20 DEF Outsider
  <2>5. QED
    BY <1>20, <2>1, <2>2, <2>3, <2>4, <2>6, <2>7 DEF Outsider
<1>21. CASE UNCHANGED vars
  BY <1>21 DEF vars, lockVars, saveVars
<1>22. QED
  BY <1>1, <1>2, <1>3, <1>4, <1>5, <1>6, <1>7, <1>8, <1>9, <1>10,
     <1>11, <1>12, <1>13, <1>14, <1>15, <1>16, <1>17, <1>18, <1>19,
     <1>20, <1>21
  DEF Next, SaverStep, Done

(* Every variable of a save keeps its type (save.rs:201-300).              *)
THEOREM SaveTyped == Spec => []TypeOK
<1>1. Init => SidecarInv
  BY LockTypeInit, LockInvInit DEF Init, SidecarInv, LockInit
<1>2. SidecarInv /\ SaveTypeOK => TypeOK
  BY DEF SidecarInv, SaveTypeOK, TypeOK
<1>3. QED
  BY <1>1, <1>2, SidecarStep, SaveTypeInit, SaveTypeStep, PTL DEF Spec

-----------------------------------------------------------------------------
(* What the version being saved is to everybody else: new.                 *)

Working == Phases \ {"idle", "linked", "unlock", "unlocking"}
Made == 0 .. versions

(* The version a working save is publishing is nowhere yet: not at the     *)
(* path, not what a window expects there, not what another is saving.      *)
FreshInv ==
    /\ target \in Made \cup {Nothing, Alien}
    /\ \A s \in Savers : source[s] \in Made \cup {Nothing}
    /\ \A s \in Savers : expected[s] \in Made \cup {Nothing}
    /\ \A s \in Savers : phase[s] \in Working =>
         /\ source[s] \in Made \ {0}
         /\ ending[s] = "none"
         /\ target # source[s]
         /\ \A t \in Savers : expected[t] # source[s]
         /\ \A t \in Savers \ {s} : source[t] # source[s]

LEMMA FreshInit == Init => FreshInv
  BY VersionAssumption DEF Init, FreshInv, Made, Working

LEMMA FreshStep == SaveTypeOK /\ FreshInv /\ [Next]_vars => FreshInv'
<1> SUFFICES ASSUME SaveTypeOK, FreshInv, [Next]_vars PROVE FreshInv'
  OBVIOUS
<1> USE VersionAssumption, ContentAssumption
    DEF SaveTypeOK, FreshInv, Made, Working, Phases, Version, Contents
<1>1. ASSUME NEW s \in Savers, Plan(s) PROVE FreshInv'
  BY <1>1 DEF Plan, In, Proceed
<1>2. ASSUME NEW s \in Savers, Reopen(s) PROVE FreshInv'
  BY <1>2 DEF Reopen, In
<1>3. ASSUME NEW s \in Savers, Cancel(s) PROVE FreshInv'
  BY <1>3 DEF Cancel
<1>4. ASSUME NEW s \in Savers, Start(s) PROVE FreshInv'
  BY <1>4 DEF Start, In, Proceed, End, saveFrame
<1>5. ASSUME NEW s \in Savers, Resolve(s) PROVE FreshInv'
  BY <1>5 DEF Resolve, In, Proceed, End, saveFrame
<1>6. ASSUME NEW s \in Savers, Replaceable(s) PROVE FreshInv'
  BY <1>6 DEF Replaceable, In, Proceed, End, saveFrame
<1>7. ASSUME NEW s \in Savers, Compare(s) PROVE FreshInv'
  BY <1>7 DEF Compare, Differs, In, Proceed, End, saveFrame
<1>8. ASSUME NEW s \in Savers, Copy(s) PROVE FreshInv'
  BY <1>8 DEF Copy, In, Proceed, End, saveFrame
<1>9. ASSUME NEW s \in Savers, TakeLock(s) PROVE FreshInv'
  BY <1>9 DEF TakeLock, Begin, In, Proceed, saveFrame
<1>10. ASSUME NEW s \in Savers, LockRefused(s) PROVE FreshInv'
  BY <1>10 DEF LockRefused, In, End, saveFrame
<1>11. ASSUME NEW s \in Savers, CompareLocked(s) PROVE FreshInv'
  BY <1>11 DEF CompareLocked, Differs, In, Proceed, End, saveFrame
<1>12. ASSUME NEW s \in Savers, Rename(s) PROVE FreshInv'
  BY <1>12 DEF Rename, In, End
<1>13. ASSUME NEW s \in Savers, Link(s) PROVE FreshInv'
  BY <1>13 DEF Link, In, Proceed, End
<1>14. ASSUME NEW s \in Savers, CleanLink(s) PROVE FreshInv'
  BY <1>14 DEF CleanLink, In, Proceed
<1>15. ASSUME NEW s \in Savers, SaveFails(s) PROVE FreshInv'
  BY <1>15 DEF SaveFails, End, saveFrame
<1>16. ASSUME NEW s \in Savers, Unlock(s) PROVE FreshInv'
  BY <1>16 DEF Unlock, Release, In, Proceed, saveFrame
<1>17. ASSUME NEW s \in Savers, Finish(s) PROVE FreshInv'
  BY <1>17 DEF Finish, In, Proceed
<1>18. ASSUME NEW s \in Savers, LockStep(s) PROVE FreshInv'
  BY <1>18 DEF LockStep, saveVars
<1>19. ASSUME NEW s \in Savers, Die(s) PROVE FreshInv'
  BY <1>19 DEF Die, Crash, Proceed
<1>20. CASE Outsider
  BY <1>20 DEF Outsider, Disturb
<1>21. CASE UNCHANGED vars
  BY <1>21 DEF vars, lockVars, saveVars
<1>22. QED
  BY <1>1, <1>2, <1>3, <1>4, <1>5, <1>6, <1>7, <1>8, <1>9, <1>10,
     <1>11, <1>12, <1>13, <1>14, <1>15, <1>16, <1>17, <1>18, <1>19,
     <1>20, <1>21
  DEF Next, SaverStep, Done

-----------------------------------------------------------------------------
(* What the checks under the lock have established.                        *)

Guarded == {"replaceable2", "compare2", "publish"}

(* Past the question which version the window knows.                       *)
Placed(s) ==
    \/ phase[s] \in Guarded \cup {"resolve", "replaceable", "compare", "acquire", "acquiring"}
    \/ phase[s] = "copy" /\ kind[s] = "InPlace"

(* A save past the first look at the lock has it; an in-place save knows a *)
(* version; and what its last looks at the file saw is still so, or an     *)
(* outsider has struck since.                                              *)
GuardOf(s) ==
    /\ phase[s] = "idle" => pc[s] = "idle"
    /\ phase[s] \in Guarded => pc[s] = "held"
    /\ Placed(s) => expected[s] # Nothing
    /\ phase[s] = "compare2" => writable \/ disturbed[s] # {} \/ target # expected[s]
    /\ phase[s] = "publish" =>
         /\ writable \/ disturbed[s] # {}
         /\ target # Nothing \/ "content" \in disturbed[s]
         /\ LocksSupported => target = expected[s] \/ "content" \in disturbed[s]

GuardInv == \A s \in Savers : GuardOf(s)

LEMMA GuardInit == Init => GuardInv
  BY DEF Init, LockInit, GuardInv, GuardOf, Placed, Guarded

LEMMA GuardStep ==
    SidecarInv /\ SaveTypeOK /\ FreshInv /\ GuardInv /\ [Next]_vars => GuardInv'
<1> SUFFICES ASSUME SidecarInv, SaveTypeOK, FreshInv, GuardInv, [Next]_vars,
                    NEW t \in Savers
             PROVE  GuardOf(t)'
  BY DEF GuardInv
<1>a. pc \in [Savers -> Points] /\ LockTypeOK
  BY DEF SidecarInv, LockTypeOK
<1>b. LocksSupported => \A s \in Savers : pc[s] = "held" /\ pc[t] = "held" => s = t
  BY SentinelAssumption
  DEF SidecarInv, LockTypeOK, LockInv, FlockInv, PointInv, NoDescriptor, Locking
<1>c. ASSUME NEW s \in Savers, phase[s] \in Working
      PROVE  source[s] # expected[t] /\ source[s] # Nothing
  BY <1>c, VersionAssumption, ContentAssumption DEF FreshInv, SaveTypeOK, Made, Version
<1>d. \A s \in Savers : GuardOf(s)
  BY DEF GuardInv
<1> USE <1>a, <1>d DEF SaveTypeOK, GuardOf, Placed, Guarded, Phases, lockVars
<1> HIDE DEF Points
<1>1. ASSUME NEW s \in Savers, Plan(s) PROVE GuardOf(t)'
  BY <1>1 DEF Plan, In, Proceed
<1>2. ASSUME NEW s \in Savers, Reopen(s) PROVE GuardOf(t)'
  BY <1>2 DEF Reopen, In
<1>3. ASSUME NEW s \in Savers, Cancel(s) PROVE GuardOf(t)'
  BY <1>3 DEF Cancel
<1>4. ASSUME NEW s \in Savers, Start(s) PROVE GuardOf(t)'
  BY <1>4 DEF Start, In, Proceed, End, saveFrame
<1>5. ASSUME NEW s \in Savers, Resolve(s) PROVE GuardOf(t)'
  BY <1>5 DEF Resolve, In, Proceed, End, saveFrame
<1>6. ASSUME NEW s \in Savers, Replaceable(s) PROVE GuardOf(t)'
  BY <1>6 DEF Replaceable, In, Proceed, End, saveFrame
<1>7. ASSUME NEW s \in Savers, Compare(s) PROVE GuardOf(t)'
  BY <1>7 DEF Compare, Differs, In, Proceed, End, saveFrame
<1>8. ASSUME NEW s \in Savers, Copy(s) PROVE GuardOf(t)'
  BY <1>8 DEF Copy, In, Proceed, End, saveFrame
<1>9. ASSUME NEW s \in Savers, TakeLock(s) PROVE GuardOf(t)'
  BY <1>9 DEF TakeLock, Begin, In, Proceed, saveFrame
<1>10. ASSUME NEW s \in Savers, LockRefused(s) PROVE GuardOf(t)'
  BY <1>10 DEF LockRefused, In, End, saveFrame
<1>11. ASSUME NEW s \in Savers, CompareLocked(s) PROVE GuardOf(t)'
  BY <1>11 DEF CompareLocked, Differs, In, Proceed, End, saveFrame
<1>12. ASSUME NEW s \in Savers, Rename(s) PROVE GuardOf(t)'
  <2>1. CASE t = s
    BY <1>12, <2>1 DEF Rename, In, End
  <2>2. CASE t # s
    <3>1. phase[s] \in Working
      BY <1>12 DEF Rename, In, Working
    <3>2. phase'[t] = phase[t] /\ UNCHANGED <<pc, kind, expected, disturbed>>
      BY <1>12, <2>2 DEF Rename, In, End
    <3>3. phase[t] \notin {"compare2", "publish"} => GuardOf(t)'
      BY <3>2
    <3>4. ASSUME phase[t] \in {"compare2", "publish"} PROVE GuardOf(t)'
      BY <1>12, <1>b, <1>c, <3>1, <3>2, <3>4 DEF Rename, In, End
    <3>5. QED
      BY <3>3, <3>4
  <2>3. QED
    BY <2>1, <2>2
<1>13. ASSUME NEW s \in Savers, Link(s) PROVE GuardOf(t)'
  <2>1. CASE t = s
    BY <1>13, <2>1 DEF Link, In, Proceed, End
  <2>2. CASE t # s
    <3>1. phase[s] \in Working
      BY <1>13 DEF Link, In, Working
    <3>2. phase'[t] = phase[t] /\ UNCHANGED <<pc, kind, expected, disturbed>>
      BY <1>13, <2>2 DEF Link, In, Proceed, End
    <3>3. phase[t] \notin {"compare2", "publish"} => GuardOf(t)'
      BY <3>2
    <3>4. ASSUME phase[t] \in {"compare2", "publish"} PROVE GuardOf(t)'
      BY <1>13, <1>b, <1>c, <3>1, <3>2, <3>4 DEF Link, In, Proceed, End
    <3>5. QED
      BY <3>3, <3>4
  <2>3. QED
    BY <2>1, <2>2
<1>14. ASSUME NEW s \in Savers, CleanLink(s) PROVE GuardOf(t)'
  BY <1>14 DEF CleanLink, In, Proceed
<1>15. ASSUME NEW s \in Savers, SaveFails(s) PROVE GuardOf(t)'
  BY <1>15 DEF SaveFails, End, saveFrame
<1>16. ASSUME NEW s \in Savers, Unlock(s) PROVE GuardOf(t)'
  BY <1>16 DEF Unlock, Release, In, Proceed, saveFrame
<1>17. ASSUME NEW s \in Savers, Finish(s) PROVE GuardOf(t)'
  BY <1>17 DEF Finish, In, Proceed
<1>18. ASSUME NEW s \in Savers, LockStep(s) PROVE GuardOf(t)'
  <2>1. t # s => pc'[t] = pc[t]
    BY <1>18, <1>a, OneSaverMoves DEF LockStep
  <2>2. phase[s] \in {"acquiring", "unlocking"} /\ UNCHANGED saveVars
    BY <1>18 DEF LockStep
  <2>3. QED
    BY <2>1, <2>2 DEF saveVars
<1>19. ASSUME NEW s \in Savers, Die(s) PROVE GuardOf(t)'
  BY <1>19 DEF Die, Crash, Proceed
<1>20. CASE Outsider
  <2>1. UNCHANGED <<pc, phase, kind, expected>>
    BY <1>20 DEF Outsider
  <2>2. CASE phase[t] = "publish"
    <3>1. \/ writable' = TRUE /\ "content" \in disturbed'[t]
          \/ /\ target' = target
             /\ disturbed'[t] = disturbed[t] \cup {"mode"}
          \/ UNCHANGED <<target, writable, disturbed>>
      BY <1>20, <2>2 DEF Outsider, Disturb
    <3>2. CASE writable' = TRUE /\ "content" \in disturbed'[t]
      BY <2>1, <2>2, <3>2
    <3>3. CASE target' = target /\ disturbed'[t] = disturbed[t] \cup {"mode"}
      BY <2>1, <2>2, <3>3
    <3>4. CASE UNCHANGED <<target, writable, disturbed>>
      BY <2>1, <2>2, <3>4
    <3>5. QED
      BY <3>1, <3>2, <3>3, <3>4
  <2>3. CASE phase[t] = "compare2"
    <3>1. \/ writable' = TRUE
          \/ disturbed' = [s \in Savers |-> IF phase[s] \in {"compare2", "publish"}
                                         THEN disturbed[s] \cup {"mode"} ELSE disturbed[s]]
          \/ UNCHANGED <<target, writable, disturbed>>
      BY <1>20 DEF Outsider, Disturb
    <3>2. CASE writable' = TRUE
      BY <2>1, <2>3, <3>2
    <3>3. CASE disturbed' = [s \in Savers |-> IF phase[s] \in {"compare2", "publish"}
                                         THEN disturbed[s] \cup {"mode"} ELSE disturbed[s]]
      BY <2>1, <2>3, <3>3
    <3>4. CASE UNCHANGED <<target, writable, disturbed>>
      BY <2>1, <2>3, <3>4
    <3>5. QED
      BY <3>1, <3>2, <3>3, <3>4
  <2>4. QED
    BY <2>1, <2>2, <2>3
<1>21. CASE UNCHANGED vars
  BY <1>21 DEF vars, lockVars, saveVars
<1>22. QED
  BY <1>1, <1>2, <1>3, <1>4, <1>5, <1>6, <1>7, <1>8, <1>9, <1>10,
     <1>11, <1>12, <1>13, <1>14, <1>15, <1>16, <1>17, <1>18, <1>19,
     <1>20, <1>21
  DEF Next, SaverStep, Done

(* The invariants of Save together.                                        *)
SaveInv == SidecarInv /\ SaveTypeOK /\ FreshInv /\ GuardInv

(* The inductive invariant of Save: who has the lock, which versions are   *)
(* new, and what a save's last looks at the file still tell it.            *)
THEOREM SaveIsKept == Spec => []SaveInv
<1>1. Init => SidecarInv
  BY LockTypeInit, LockInvInit DEF Init, SidecarInv, LockInit
<1>2. Init => SaveInv
  BY <1>1, SaveTypeInit, FreshInit, GuardInit DEF SaveInv
<1>3. SaveInv /\ [Next]_vars => SaveInv'
  BY SidecarStep, SaveTypeStep, FreshStep, GuardStep DEF SaveInv
<1>4. QED
  BY <1>2, <1>3, PTL DEF Spec

-----------------------------------------------------------------------------

(* Who publishes, and how: a step that settles an answer to Saved is the   *)
(* rename or the link of one working save.                                 *)
LEMMA SavedByPublishing ==
    ASSUME SaveTypeOK, [Next]_vars, NEW w \in Savers,
           ending'[w] = "Saved", ending[w] # "Saved"
    PROVE  Rename(w) \/ (Link(w) /\ target = Nothing)
<1> USE DEF SaveTypeOK
<1>1. ASSUME NEW s \in Savers, Plan(s) PROVE Rename(w) \/ (Link(w) /\ target = Nothing)
  BY <1>1 DEF Plan, In, Proceed
<1>2. ASSUME NEW s \in Savers, Reopen(s) PROVE Rename(w) \/ (Link(w) /\ target = Nothing)
  BY <1>2 DEF Reopen, In
<1>3. ASSUME NEW s \in Savers, Cancel(s) PROVE Rename(w) \/ (Link(w) /\ target = Nothing)
  BY <1>3 DEF Cancel
<1>4. ASSUME NEW s \in Savers, Start(s) PROVE Rename(w) \/ (Link(w) /\ target = Nothing)
  BY <1>4 DEF Start, In, Proceed, End, saveFrame
<1>5. ASSUME NEW s \in Savers, Resolve(s) PROVE Rename(w) \/ (Link(w) /\ target = Nothing)
  BY <1>5 DEF Resolve, In, Proceed, End, saveFrame
<1>6. ASSUME NEW s \in Savers, Replaceable(s) PROVE Rename(w) \/ (Link(w) /\ target = Nothing)
  BY <1>6 DEF Replaceable, In, Proceed, End, saveFrame
<1>7. ASSUME NEW s \in Savers, Compare(s) PROVE Rename(w) \/ (Link(w) /\ target = Nothing)
  BY <1>7 DEF Compare, Differs, In, Proceed, End, saveFrame
<1>8. ASSUME NEW s \in Savers, Copy(s) PROVE Rename(w) \/ (Link(w) /\ target = Nothing)
  BY <1>8 DEF Copy, In, Proceed, End, saveFrame
<1>9. ASSUME NEW s \in Savers, TakeLock(s) PROVE Rename(w) \/ (Link(w) /\ target = Nothing)
  BY <1>9 DEF TakeLock, Begin, In, Proceed, saveFrame
<1>10. ASSUME NEW s \in Savers, LockRefused(s) PROVE Rename(w) \/ (Link(w) /\ target = Nothing)
  BY <1>10 DEF LockRefused, In, End, saveFrame
<1>11. ASSUME NEW s \in Savers, CompareLocked(s) PROVE Rename(w) \/ (Link(w) /\ target = Nothing)
  BY <1>11 DEF CompareLocked, Differs, In, Proceed, End, saveFrame
<1>12. ASSUME NEW s \in Savers, Rename(s) PROVE Rename(w) \/ (Link(w) /\ target = Nothing)
  BY <1>12 DEF Rename, In, End
<1>13. ASSUME NEW s \in Savers, Link(s) PROVE Rename(w) \/ (Link(w) /\ target = Nothing)
  BY <1>13 DEF Link, In, Proceed, End
<1>14. ASSUME NEW s \in Savers, CleanLink(s) PROVE Rename(w) \/ (Link(w) /\ target = Nothing)
  BY <1>14 DEF CleanLink, In, Proceed
<1>15. ASSUME NEW s \in Savers, SaveFails(s) PROVE Rename(w) \/ (Link(w) /\ target = Nothing)
  BY <1>15 DEF SaveFails, End, saveFrame
<1>16. ASSUME NEW s \in Savers, Unlock(s) PROVE Rename(w) \/ (Link(w) /\ target = Nothing)
  BY <1>16 DEF Unlock, Release, In, Proceed, saveFrame
<1>17. ASSUME NEW s \in Savers, Finish(s) PROVE Rename(w) \/ (Link(w) /\ target = Nothing)
  BY <1>17 DEF Finish, In, Proceed
<1>18. ASSUME NEW s \in Savers, LockStep(s) PROVE Rename(w) \/ (Link(w) /\ target = Nothing)
  BY <1>18 DEF LockStep, saveVars
<1>19. ASSUME NEW s \in Savers, Die(s) PROVE Rename(w) \/ (Link(w) /\ target = Nothing)
  BY <1>19 DEF Die, Crash, Proceed
<1>20. CASE Outsider
  BY <1>20 DEF Outsider, Disturb
<1>21. CASE UNCHANGED vars
  BY <1>21 DEF vars, lockVars, saveVars
<1>22. QED
  BY <1>1, <1>2, <1>3, <1>4, <1>5, <1>6, <1>7, <1>8, <1>9, <1>10,
     <1>11, <1>12, <1>13, <1>14, <1>15, <1>16, <1>17, <1>18, <1>19,
     <1>20, <1>21
  DEF Next, SaverStep, Done

(* A rename never discards a version nobody expected to be there, for any  *)
(* number of windows, outsiders and crashes (save.rs:12-31).               *)
THEOREM NoUpdateIsLost == Spec => NoLostUpdate
<1> DEFINE Kept == LocksSupported =>
             \A s \in Savers : In(s, "publish") /\ ending'[s] = "Saved"
                => target = expected[s] \/ "content" \in disturbed[s]
<1>1. SaveInv /\ [Next]_vars => [Kept]_vars
  BY DEF SaveInv, GuardInv, GuardOf, In
<1>2. QED
  BY <1>1, SaveIsKept, PTL DEF Spec, NoLostUpdate

(* A file that was read-only or hard-linked when it was asked about under  *)
(* the lock is not replaced (save.rs:275-278, 336-343).                    *)
THEOREM LinksStayAttached == Spec => NeverDetachesLinks
<1> DEFINE Kept == \A s \in Savers : In(s, "publish") /\ ending'[s] = "Saved"
                     => writable \/ disturbed[s] # {}
<1>1. SaveInv /\ [Next]_vars => [Kept]_vars
  BY DEF SaveInv, GuardInv, GuardOf, In
<1>2. QED
  BY <1>1, SaveIsKept, PTL DEF Spec, NeverDetachesLinks

(* A save answers Saved exactly when it changed the file (save.rs:33-36).  *)
THEOREM AnswersAreTrue == Spec => AnswerTellsTheTruth
<1> DEFINE True == edits' = edits =>
             (target' # target <=>
                \E s \in Savers : ending'[s] = "Saved" /\ ending[s] # "Saved")
<1>1. SaveInv /\ [Next]_vars => [True]_vars
  <2> SUFFICES ASSUME SaveInv, [Next]_vars, edits' = edits PROVE True
    OBVIOUS
  <2>1. ASSUME NEW s \in Savers, ending'[s] = "Saved", ending[s] # "Saved"
        PROVE  target' # target
    <3>1. Rename(s) \/ (Link(s) /\ target = Nothing)
      BY <2>1, SavedByPublishing DEF SaveInv
    <3>2. phase[s] \in Working /\ target' = source[s]
      BY <3>1 DEF Rename, Link, In, Working, Phases
    <3>3. QED
      BY <3>2 DEF SaveInv, FreshInv
  <2>2. ASSUME target' # target
        PROVE  \E s \in Savers : ending'[s] = "Saved" /\ ending[s] # "Saved"
    <3>1. PICK s \in Savers : Rename(s) \/ (Link(s) /\ target = Nothing)
      BY <2>2, VersionAssumption DEF SaveInv, SaveTypeOK, Version, Next, SaverStep, Plan, Reopen,
         Cancel, Start, Resolve, Replaceable, Compare, Copy, TakeLock, LockRefused,
         CompareLocked, Link, CleanLink, SaveFails, Unlock, Finish, LockStep, Die,
         Outsider, Done, vars, saveVars, saveFrame
    <3>2. phase[s] \in Working /\ ending'[s] = "Saved"
      BY <3>1 DEF SaveInv, SaveTypeOK, Rename, Link, In, End, Working, Phases
    <3>3. QED
      BY <3>2 DEF SaveInv, FreshInv
  <2>3. QED
    BY <2>1, <2>2
<1>2. QED
  BY <1>1, SaveIsKept, PTL DEF Spec, AnswerTellsTheTruth
-----------------------------------------------------------------------------
(* What is left beside the file.                                           *)

(* The saver that will remove the sidecar.                                 *)
Owner(s) ==
    /\ fd[s] = name
    /\ removable[s]
    /\ pc[s] \in {"lock", "write", "read", "compare", "held", "drop", "unlink"}

Owned == name = Nothing \/ \E s \in Savers : Owner(s)

LEMMA OwnedStep ==
    ASSUME LockTypeOK, Owned, [LockNext]_lockVars, faults' = faults, meddles' = meddles
    PROVE  Owned'
<1>a. faults' # faults + 1 /\ meddles' # meddles + 1
  BY BoundAssumption DEF LockTypeOK
<1> USE DEF LockTypeOK, Owner, Owned, fileVars
<1>1. ASSUME NEW s \in Savers, Begin(s) PROVE Owned'
  BY <1>1 DEF Begin
<1>2. ASSUME NEW s \in Savers, CreateFindsName(s) PROVE Owned'
  BY <1>2 DEF CreateFindsName
<1>3. ASSUME NEW s \in Savers, Inspect(s) PROVE Owned'
  BY <1>3 DEF Inspect
<1>4. ASSUME NEW s \in Savers, OpenExisting(s) PROVE Owned'
  BY <1>4 DEF OpenExisting
<1>5. ASSUME NEW s \in Savers, TryLock(s) PROVE Owned'
  BY <1>5 DEF TryLock, AfterLock
<1>6. ASSUME NEW s \in Savers, WriteHeader(s) PROVE Owned'
  BY <1>6 DEF WriteHeader
<1>7. ASSUME NEW s \in Savers, ReadHeader(s) PROVE Owned'
  BY <1>7 DEF ReadHeader
<1>8. ASSUME NEW s \in Savers, CompareHandles(s) PROVE Owned'
  BY <1>8 DEF CompareHandles
<1>9. ASSUME NEW s \in Savers, Release(s) PROVE Owned'
  BY <1>9 DEF Release
<1>10. ASSUME NEW s \in Savers, DropCheck(s) PROVE Owned'
  BY <1>10 DEF DropCheck
<1>11. ASSUME NEW s \in Savers, Close(s) PROVE Owned'
  BY <1>11 DEF Close, CloseFd
<1>12. ASSUME NEW s \in Savers, CreateNew(s) PROVE Owned'
  <2>1. Owner(s)'
    BY <1>12 DEF CreateNew
  <2>2. QED
    BY <2>1
<1>13. ASSUME NEW s \in Savers, Unlink(s) PROVE Owned'
  BY <1>13, SentinelAssumption DEF Unlink
<1>14. ASSUME NEW s \in Savers, AcquireFails(s) \/ UnlinkFails(s) \/ Crash(s) PROVE FALSE
  BY <1>a, <1>14 DEF AcquireFails, UnlinkFails, Crash
<1>15. CASE Meddle
  BY <1>a, <1>15 DEF Meddle
<1>16. CASE UNCHANGED lockVars
  BY <1>16 DEF lockVars
<1>17. QED
  BY <1>1, <1>2, <1>3, <1>4, <1>5, <1>6, <1>7, <1>8, <1>9, <1>10,
     <1>11, <1>12, <1>13, <1>14, <1>15, <1>16
  DEF LockNext, AcquireStep, DropStep

(* As long as no call failed and nobody died: somebody will remove the     *)
(* sidecar, an idle window has no scratch, and the file has a second name  *)
(* only while its Save As is about to remove it.                           *)
Swept == \A s \in Savers : phase[s] = "idle" => scratch[s] = "none"
OneName == writable \/ \E s \in Savers : phase[s] = "linked" /\ scratch[s] = "link"

TidyInv ==
    /\ faults = 0 => Owned
    /\ Swept
    /\ faults = 0 /\ edits = 0 => OneName

LEMMA TidyInit == Init => TidyInv
  BY DEF Init, TidyInv, Swept, OneName, Owned

LEMMA FaultsGrow ==
    ASSUME SidecarInv, [Next]_vars, faults' = 0
    PROVE  faults = 0 /\ [LockNext]_lockVars
<1>1. faults \in Nat
  BY BoundAssumption DEF SidecarInv, LockTypeOK
<1>2. ~FaultOnly
  BY <1>1 DEF FaultOnly
<1>3. [LockNext]_lockVars
  BY <1>2, LockSide
<1>4. faults' = faults \/ faults' = faults + 1
  BY <1>3 DEF LockNext, lockVars, Begin, AcquireStep, CreateNew, CreateFindsName,
     Inspect, OpenExisting, TryLock, WriteHeader, ReadHeader, CompareHandles,
     AcquireFails, Release, DropStep, DropCheck, Unlink, UnlinkFails, Close, Crash, Meddle
<1>5. QED
  BY <1>1, <1>3, <1>4

LEMMA SweptStep == SaveTypeOK /\ Swept /\ [Next]_vars => Swept'
<1> SUFFICES ASSUME SaveTypeOK, Swept, [Next]_vars PROVE Swept'
  OBVIOUS
<1> USE DEF SaveTypeOK, Swept, Phases
<1>1. ASSUME NEW s \in Savers, Plan(s) PROVE Swept'
  BY <1>1 DEF Plan, In, Proceed
<1>2. ASSUME NEW s \in Savers, Reopen(s) PROVE Swept'
  BY <1>2 DEF Reopen, In
<1>3. ASSUME NEW s \in Savers, Cancel(s) PROVE Swept'
  BY <1>3 DEF Cancel
<1>4. ASSUME NEW s \in Savers, Start(s) PROVE Swept'
  BY <1>4 DEF Start, In, Proceed, End, saveFrame
<1>5. ASSUME NEW s \in Savers, Resolve(s) PROVE Swept'
  BY <1>5 DEF Resolve, In, Proceed, End, saveFrame
<1>6. ASSUME NEW s \in Savers, Replaceable(s) PROVE Swept'
  BY <1>6 DEF Replaceable, In, Proceed, End, saveFrame
<1>7. ASSUME NEW s \in Savers, Compare(s) PROVE Swept'
  BY <1>7 DEF Compare, Differs, In, Proceed, End, saveFrame
<1>8. ASSUME NEW s \in Savers, Copy(s) PROVE Swept'
  BY <1>8 DEF Copy, In, Proceed, End, saveFrame
<1>9. ASSUME NEW s \in Savers, TakeLock(s) PROVE Swept'
  BY <1>9 DEF TakeLock, Begin, In, Proceed, saveFrame
<1>10. ASSUME NEW s \in Savers, LockRefused(s) PROVE Swept'
  BY <1>10 DEF LockRefused, In, End, saveFrame
<1>11. ASSUME NEW s \in Savers, CompareLocked(s) PROVE Swept'
  BY <1>11 DEF CompareLocked, Differs, In, Proceed, End, saveFrame
<1>12. ASSUME NEW s \in Savers, Rename(s) PROVE Swept'
  BY <1>12 DEF Rename, In, End
<1>13. ASSUME NEW s \in Savers, Link(s) PROVE Swept'
  BY <1>13 DEF Link, In, Proceed, End
<1>14. ASSUME NEW s \in Savers, CleanLink(s) PROVE Swept'
  BY <1>14 DEF CleanLink, In, Proceed
<1>15. ASSUME NEW s \in Savers, SaveFails(s) PROVE Swept'
  BY <1>15 DEF SaveFails, End, saveFrame
<1>16. ASSUME NEW s \in Savers, Unlock(s) PROVE Swept'
  BY <1>16 DEF Unlock, Release, In, Proceed, saveFrame
<1>17. ASSUME NEW s \in Savers, Finish(s) PROVE Swept'
  BY <1>17 DEF Finish, In, Proceed
<1>18. ASSUME NEW s \in Savers, LockStep(s) PROVE Swept'
  BY <1>18 DEF LockStep, saveVars
<1>19. ASSUME NEW s \in Savers, Die(s) PROVE Swept'
  BY <1>19 DEF Die, Crash, Proceed
<1>20. CASE Outsider
  BY <1>20 DEF Outsider, Disturb
<1>21. CASE UNCHANGED vars
  BY <1>21 DEF vars, lockVars, saveVars
<1>22. QED
  BY <1>1, <1>2, <1>3, <1>4, <1>5, <1>6, <1>7, <1>8, <1>9, <1>10,
     <1>11, <1>12, <1>13, <1>14, <1>15, <1>16, <1>17, <1>18, <1>19,
     <1>20, <1>21
  DEF Next, SaverStep, Done

LEMMA OneNameStep ==
    ASSUME SidecarInv, SaveTypeOK, OneName, [Next]_vars, faults' = 0, edits' = edits
    PROVE  OneName'
<1>a. ~FaultOnly /\ faults = 0
  BY FaultsGrow, BoundAssumption DEF FaultOnly, SidecarInv, LockTypeOK
<1>b. edits' # edits + 1
  BY VersionAssumption DEF SaveTypeOK
<1> USE DEF SaveTypeOK, OneName, Phases
<1>1. ASSUME NEW s \in Savers, Plan(s) PROVE OneName'
  BY <1>1 DEF Plan, In, Proceed
<1>2. ASSUME NEW s \in Savers, Reopen(s) PROVE OneName'
  BY <1>2 DEF Reopen, In
<1>3. ASSUME NEW s \in Savers, Cancel(s) PROVE OneName'
  BY <1>3 DEF Cancel
<1>4. ASSUME NEW s \in Savers, Start(s) PROVE OneName'
  BY <1>4 DEF Start, In, Proceed, End, saveFrame
<1>5. ASSUME NEW s \in Savers, Resolve(s) PROVE OneName'
  BY <1>5 DEF Resolve, In, Proceed, End, saveFrame
<1>6. ASSUME NEW s \in Savers, Replaceable(s) PROVE OneName'
  BY <1>6 DEF Replaceable, In, Proceed, End, saveFrame
<1>7. ASSUME NEW s \in Savers, Compare(s) PROVE OneName'
  BY <1>7 DEF Compare, Differs, In, Proceed, End, saveFrame
<1>8. ASSUME NEW s \in Savers, Copy(s) PROVE OneName'
  BY <1>8 DEF Copy, In, Proceed, End, saveFrame
<1>9. ASSUME NEW s \in Savers, TakeLock(s) PROVE OneName'
  BY <1>9 DEF TakeLock, Begin, In, Proceed, saveFrame
<1>10. ASSUME NEW s \in Savers, LockRefused(s) PROVE OneName'
  BY <1>10 DEF LockRefused, In, End, saveFrame
<1>11. ASSUME NEW s \in Savers, CompareLocked(s) PROVE OneName'
  BY <1>11 DEF CompareLocked, Differs, In, Proceed, End, saveFrame
<1>12. ASSUME NEW s \in Savers, Rename(s) PROVE OneName'
  BY <1>12 DEF Rename, In, End
<1>13. ASSUME NEW s \in Savers, Link(s) PROVE OneName'
  BY <1>13 DEF Link, In, Proceed, End
<1>14. ASSUME NEW s \in Savers, CleanLink(s) PROVE OneName'
  BY <1>14 DEF CleanLink, In, Proceed
<1>15. ASSUME NEW s \in Savers, SaveFails(s) PROVE FALSE
  BY <1>15, <1>a, BoundAssumption DEF SaveFails
<1>16. ASSUME NEW s \in Savers, Unlock(s) PROVE OneName'
  BY <1>16 DEF Unlock, Release, In, Proceed, saveFrame
<1>17. ASSUME NEW s \in Savers, Finish(s) PROVE OneName'
  BY <1>17 DEF Finish, In, Proceed
<1>18. ASSUME NEW s \in Savers, LockStep(s) PROVE OneName'
  BY <1>18 DEF LockStep, saveVars
<1>19. ASSUME NEW s \in Savers, Die(s) PROVE FALSE
  BY <1>19, <1>a, BoundAssumption DEF Die, Crash
<1>20. CASE Outsider
  BY <1>20, <1>b DEF Outsider
<1>21. CASE UNCHANGED vars
  BY <1>21 DEF vars, lockVars, saveVars
<1>22. QED
  BY <1>1, <1>2, <1>3, <1>4, <1>5, <1>6, <1>7, <1>8, <1>9, <1>10,
     <1>11, <1>12, <1>13, <1>14, <1>15, <1>16, <1>17, <1>18, <1>19,
     <1>20, <1>21
  DEF Next, SaverStep, Done

LEMMA TidyStep == SidecarInv /\ SaveTypeOK /\ TidyInv /\ [Next]_vars => TidyInv'
<1> SUFFICES ASSUME SidecarInv, SaveTypeOK, TidyInv, [Next]_vars PROVE TidyInv'
  OBVIOUS
<1>1. faults' = 0 => Owned'
  BY FaultsGrow, LockSide, OwnedStep DEF SidecarInv, TidyInv
<1>2. Swept'
  BY SweptStep DEF TidyInv
<1>3. ASSUME faults' = 0, edits' = 0 PROVE OneName'
  <2>1. edits' \in {edits, edits + 1}
    BY DEF Next, SaverStep, Plan, Reopen, Cancel, Start, Resolve, Replaceable, Compare,
       Copy, TakeLock, LockRefused, CompareLocked, Rename, Link, CleanLink, SaveFails,
       Unlock, Finish, LockStep, Die, Outsider, Done, vars, saveVars, saveFrame
  <2>2. edits = 0 /\ edits' = edits
    BY <1>3, <2>1, VersionAssumption DEF SaveTypeOK
  <2>3. QED
    BY <1>3, <2>2, FaultsGrow, OneNameStep DEF TidyInv
<1>4. QED
  BY <1>1, <1>2, <1>3 DEF TidyInv

(* Saves that were not cut short leave no sidecar, no scratch and no       *)
(* second name of the file, for any number of windows and versions         *)
(* (publish.rs:140-160).                                                   *)
THEOREM NothingIsLeftBehind == Spec => []LeavesNothingBehind
<1>1. SaveInv /\ TidyInv /\ [Next]_vars => TidyInv'
  BY TidyStep DEF SaveInv
<1>2. SaveInv /\ TidyInv => LeavesNothingBehind
  <2> SUFFICES ASSUME SaveInv, TidyInv, faults = 0, \A s \in Savers : phase[s] = "idle"
               PROVE  /\ name = Nothing
                      /\ \A s \in Savers : scratch[s] = "none"
                      /\ edits = 0 => writable
    BY DEF LeavesNothingBehind, In
  <2>1. name = Nothing
    BY DEF SaveInv, GuardInv, GuardOf, TidyInv, Owned, Owner
  <2>2. QED
    BY <2>1 DEF TidyInv, Swept, OneName
<1>3. QED
  BY <1>1, <1>2, TidyInit, SaveIsKept, PTL DEF Spec

-----------------------------------------------------------------------------
(* A Save is one compare-and-replace.                                      *)

(* No outsider has struck between a second compare and its rename.         *)
Undisturbed == \A s \in Savers : "content" \notin disturbed[s]

LEMMA UndisturbedStep ==
    ASSUME ~WindowEdits, SaveTypeOK, Undisturbed, [Next]_vars
    PROVE  Undisturbed'
<1> USE DEF SaveTypeOK, Undisturbed
<1>1. ASSUME NEW s \in Savers, Plan(s) PROVE Undisturbed'
  BY <1>1 DEF Plan, In, Proceed
<1>2. ASSUME NEW s \in Savers, Reopen(s) PROVE Undisturbed'
  BY <1>2 DEF Reopen, In
<1>3. ASSUME NEW s \in Savers, Cancel(s) PROVE Undisturbed'
  BY <1>3 DEF Cancel
<1>4. ASSUME NEW s \in Savers, Start(s) PROVE Undisturbed'
  BY <1>4 DEF Start, In, Proceed, End, saveFrame
<1>5. ASSUME NEW s \in Savers, Resolve(s) PROVE Undisturbed'
  BY <1>5 DEF Resolve, In, Proceed, End, saveFrame
<1>6. ASSUME NEW s \in Savers, Replaceable(s) PROVE Undisturbed'
  BY <1>6 DEF Replaceable, In, Proceed, End, saveFrame
<1>7. ASSUME NEW s \in Savers, Compare(s) PROVE Undisturbed'
  BY <1>7 DEF Compare, Differs, In, Proceed, End, saveFrame
<1>8. ASSUME NEW s \in Savers, Copy(s) PROVE Undisturbed'
  BY <1>8 DEF Copy, In, Proceed, End, saveFrame
<1>9. ASSUME NEW s \in Savers, TakeLock(s) PROVE Undisturbed'
  BY <1>9 DEF TakeLock, Begin, In, Proceed, saveFrame
<1>10. ASSUME NEW s \in Savers, LockRefused(s) PROVE Undisturbed'
  BY <1>10 DEF LockRefused, In, End, saveFrame
<1>11. ASSUME NEW s \in Savers, CompareLocked(s) PROVE Undisturbed'
  BY <1>11 DEF CompareLocked, Differs, In, Proceed, End, saveFrame
<1>12. ASSUME NEW s \in Savers, Rename(s) PROVE Undisturbed'
  BY <1>12 DEF Rename, In, End
<1>13. ASSUME NEW s \in Savers, Link(s) PROVE Undisturbed'
  BY <1>13 DEF Link, In, Proceed, End
<1>14. ASSUME NEW s \in Savers, CleanLink(s) PROVE Undisturbed'
  BY <1>14 DEF CleanLink, In, Proceed
<1>15. ASSUME NEW s \in Savers, SaveFails(s) PROVE Undisturbed'
  BY <1>15 DEF SaveFails, End, saveFrame
<1>16. ASSUME NEW s \in Savers, Unlock(s) PROVE Undisturbed'
  BY <1>16 DEF Unlock, Release, In, Proceed, saveFrame
<1>17. ASSUME NEW s \in Savers, Finish(s) PROVE Undisturbed'
  BY <1>17 DEF Finish, In, Proceed
<1>18. ASSUME NEW s \in Savers, LockStep(s) PROVE Undisturbed'
  BY <1>18 DEF LockStep, saveVars
<1>19. ASSUME NEW s \in Savers, Die(s) PROVE Undisturbed'
  BY <1>19 DEF Die, Crash, Proceed
<1>20. CASE Outsider
  <2>1. \A s \in Savers : phase[s] # "publish"
    BY <1>20 DEF Outsider, InWindow, In
  <2>2. QED
    BY <1>20, <2>1 DEF Outsider, Disturb
<1>21. CASE UNCHANGED vars
  BY <1>21 DEF vars, lockVars, saveVars
<1>22. QED
  BY <1>1, <1>2, <1>3, <1>4, <1>5, <1>6, <1>7, <1>8, <1>9, <1>10,
     <1>11, <1>12, <1>13, <1>14, <1>15, <1>16, <1>17, <1>18, <1>19,
     <1>20, <1>21
  DEF Next, SaverStep, Done

(* Every step leaves the file and what the windows take it to hold alone,  *)
(* or changes them as the register may.                                    *)
LEMMA RegisterStep ==
    ASSUME ~WindowEdits, LocksSupported, SaveInv, Undisturbed, [Next]_vars
    PROVE  [Register!Next]_(Register!vars)
<1>a. /\ target \in Contents \cup {Nothing}
      /\ phase \in [Savers -> Phases]
      /\ expected \in [Savers -> Version \cup {Nothing}]
      /\ source \in [Savers -> Version \cup {Nothing}]
      /\ ending \in [Savers -> Answers]
  BY DEF SaveInv, SaveTypeOK
<1>b. \A s \in Savers : phase[s] \in Working => ending[s] = "none"
  BY DEF SaveInv, FreshInv
<1>c. \A s \in Savers : phase[s] \in Working => source[s] \in Contents
  BY VersionAssumption DEF SaveInv, FreshInv, SaveTypeOK, Made, Version, Contents
<1>d. \A s \in Savers : phase[s] = "publish" => target = expected[s] /\ target # Nothing
  BY DEF SaveInv, GuardInv, GuardOf, Undisturbed
<1> USE <1>a DEF View, Working, Phases
<1>1. ASSUME NEW s \in Savers, Plan(s) PROVE UNCHANGED Register!vars
  <2>1. target' = target
    BY <1>1 DEF Plan, In, Proceed
  <2>2. ASSUME NEW t \in Savers PROVE View'[t] = View[t]
    BY <1>1, <1>b DEF Plan, In, Proceed
  <2>3. View' = View
    BY <2>2
  <2>4. QED
    BY <2>1, <2>3 DEF Register!vars
<1>2. ASSUME NEW s \in Savers, Reopen(s) PROVE Register!Read(s)
  BY <1>2 DEF Reopen, In, Register!Read
<1>3. ASSUME NEW s \in Savers, Cancel(s) PROVE UNCHANGED Register!vars
  <2>1. target' = target
    BY <1>3 DEF Cancel
  <2>2. ASSUME NEW t \in Savers PROVE View'[t] = View[t]
    BY <1>3, <1>b DEF Cancel
  <2>3. View' = View
    BY <2>2
  <2>4. QED
    BY <2>1, <2>3 DEF Register!vars
<1>4. ASSUME NEW s \in Savers, Start(s) PROVE UNCHANGED Register!vars
  <2>1. target' = target
    BY <1>4 DEF Start, In, Proceed, End, saveFrame
  <2>2. ASSUME NEW t \in Savers PROVE View'[t] = View[t]
    BY <1>4, <1>b DEF Start, In, Proceed, End, saveFrame
  <2>3. View' = View
    BY <2>2
  <2>4. QED
    BY <2>1, <2>3 DEF Register!vars
<1>5. ASSUME NEW s \in Savers, Resolve(s) PROVE UNCHANGED Register!vars
  <2>1. target' = target
    BY <1>5 DEF Resolve, In, Proceed, End, saveFrame
  <2>2. ASSUME NEW t \in Savers PROVE View'[t] = View[t]
    BY <1>5, <1>b DEF Resolve, In, Proceed, End, saveFrame
  <2>3. View' = View
    BY <2>2
  <2>4. QED
    BY <2>1, <2>3 DEF Register!vars
<1>6. ASSUME NEW s \in Savers, Replaceable(s) PROVE UNCHANGED Register!vars
  <2>1. target' = target
    BY <1>6 DEF Replaceable, In, Proceed, End, saveFrame
  <2>2. ASSUME NEW t \in Savers PROVE View'[t] = View[t]
    BY <1>6, <1>b DEF Replaceable, In, Proceed, End, saveFrame
  <2>3. View' = View
    BY <2>2
  <2>4. QED
    BY <2>1, <2>3 DEF Register!vars
<1>7. ASSUME NEW s \in Savers, Compare(s) PROVE UNCHANGED Register!vars
  <2>1. target' = target
    BY <1>7 DEF Compare, Differs, In, Proceed, End, saveFrame
  <2>2. ASSUME NEW t \in Savers PROVE View'[t] = View[t]
    BY <1>7, <1>b DEF Compare, Differs, In, Proceed, End, saveFrame
  <2>3. View' = View
    BY <2>2
  <2>4. QED
    BY <2>1, <2>3 DEF Register!vars
<1>8. ASSUME NEW s \in Savers, Copy(s) PROVE UNCHANGED Register!vars
  <2>1. target' = target
    BY <1>8 DEF Copy, In, Proceed, End, saveFrame
  <2>2. ASSUME NEW t \in Savers PROVE View'[t] = View[t]
    BY <1>8, <1>b DEF Copy, In, Proceed, End, saveFrame
  <2>3. View' = View
    BY <2>2
  <2>4. QED
    BY <2>1, <2>3 DEF Register!vars
<1>9. ASSUME NEW s \in Savers, TakeLock(s) PROVE UNCHANGED Register!vars
  <2>1. target' = target
    BY <1>9 DEF TakeLock, Begin, In, Proceed, saveFrame
  <2>2. ASSUME NEW t \in Savers PROVE View'[t] = View[t]
    BY <1>9, <1>b DEF TakeLock, Begin, In, Proceed, saveFrame
  <2>3. View' = View
    BY <2>2
  <2>4. QED
    BY <2>1, <2>3 DEF Register!vars
<1>10. ASSUME NEW s \in Savers, LockRefused(s) PROVE UNCHANGED Register!vars
  <2>1. target' = target
    BY <1>10 DEF LockRefused, In, End, saveFrame
  <2>2. ASSUME NEW t \in Savers PROVE View'[t] = View[t]
    BY <1>10, <1>b DEF LockRefused, In, End, saveFrame
  <2>3. View' = View
    BY <2>2
  <2>4. QED
    BY <2>1, <2>3 DEF Register!vars
<1>11. ASSUME NEW s \in Savers, CompareLocked(s) PROVE UNCHANGED Register!vars
  <2>1. target' = target
    BY <1>11 DEF CompareLocked, Differs, In, Proceed, End, saveFrame
  <2>2. ASSUME NEW t \in Savers PROVE View'[t] = View[t]
    BY <1>11, <1>b DEF CompareLocked, Differs, In, Proceed, End, saveFrame
  <2>3. View' = View
    BY <2>2
  <2>4. QED
    BY <2>1, <2>3 DEF Register!vars
<1>12. ASSUME NEW s \in Savers, Rename(s) PROVE \E new \in Contents : Register!Replace(s, new)
  <2>1. source[s] \in Contents /\ target = View[s] /\ target # Nothing
    BY <1>12, <1>b, <1>c, <1>d DEF Rename, In
  <2>2. View' = [View EXCEPT ![s] = source[s]]
    BY <1>12 DEF Rename, In, End
  <2>3. QED
    BY <1>12, <2>1, <2>2 DEF Rename, Register!Replace
<1>13. ASSUME NEW s \in Savers, Link(s)
      PROVE  [\E new \in Contents : Register!Create(s, new)]_(Register!vars)
  <2>1. CASE target = Nothing
    <3>1. source[s] \in Contents
      BY <1>13, <1>c DEF Link, In
    <3>2. View' = [View EXCEPT ![s] = source[s]]
      BY <1>13, <2>1 DEF Link, Proceed
    <3>3. QED
      BY <1>13, <2>1, <3>1, <3>2 DEF Link, Register!Create
  <2>2. CASE target # Nothing
    <3>1. View' = View
      BY <1>13, <2>2, <1>b DEF Link, In, End
    <3>2. QED
      BY <1>13, <2>2, <3>1 DEF Link, Register!vars
  <2>3. QED
    BY <2>1, <2>2
<1>14. ASSUME NEW s \in Savers, CleanLink(s) PROVE UNCHANGED Register!vars
  <2>1. target' = target
    BY <1>14 DEF CleanLink, In, Proceed
  <2>2. ASSUME NEW t \in Savers PROVE View'[t] = View[t]
    BY <1>14, <1>b DEF CleanLink, In, Proceed
  <2>3. View' = View
    BY <2>2
  <2>4. QED
    BY <2>1, <2>3 DEF Register!vars
<1>15. ASSUME NEW s \in Savers, SaveFails(s) PROVE UNCHANGED Register!vars
  <2>1. target' = target
    BY <1>15 DEF SaveFails, End, saveFrame
  <2>2. ASSUME NEW t \in Savers PROVE View'[t] = View[t]
    BY <1>15, <1>b DEF SaveFails, End, saveFrame
  <2>3. View' = View
    BY <2>2
  <2>4. QED
    BY <2>1, <2>3 DEF Register!vars
<1>16. ASSUME NEW s \in Savers, Unlock(s) PROVE UNCHANGED Register!vars
  <2>1. target' = target
    BY <1>16 DEF Unlock, Release, In, Proceed, saveFrame
  <2>2. ASSUME NEW t \in Savers PROVE View'[t] = View[t]
    BY <1>16, <1>b DEF Unlock, Release, In, Proceed, saveFrame
  <2>3. View' = View
    BY <2>2
  <2>4. QED
    BY <2>1, <2>3 DEF Register!vars
<1>17. ASSUME NEW s \in Savers, Finish(s) PROVE UNCHANGED Register!vars
  <2>1. target' = target
    BY <1>17 DEF Finish, In, Proceed
  <2>2. ASSUME NEW t \in Savers PROVE View'[t] = View[t]
    BY <1>17, <1>b DEF Finish, In, Proceed
  <2>3. View' = View
    BY <2>2
  <2>4. QED
    BY <2>1, <2>3 DEF Register!vars
<1>18. ASSUME NEW s \in Savers, LockStep(s) PROVE UNCHANGED Register!vars
  <2>1. target' = target
    BY <1>18 DEF LockStep, saveVars
  <2>2. ASSUME NEW t \in Savers PROVE View'[t] = View[t]
    BY <1>18, <1>b DEF LockStep, saveVars
  <2>3. View' = View
    BY <2>2
  <2>4. QED
    BY <2>1, <2>3 DEF Register!vars
<1>19. ASSUME NEW s \in Savers, Die(s) PROVE Register!Read(s)
  BY <1>19 DEF Die, Proceed, Register!Read
<1>20. CASE Outsider
  <2>1. target' \in Contents \cup {Nothing}
    BY <1>20, VersionAssumption DEF Outsider, Contents, Version
  <2>2. View' = View
    BY <1>20 DEF Outsider
  <2>3. Register!Outside
    BY <2>1, <2>2 DEF Register!Outside
  <2>4. QED
    BY <2>3 DEF Register!Next
<1>21. CASE UNCHANGED vars
  BY <1>21 DEF vars, lockVars, saveVars, Register!vars
<1>22. QED
  BY <1>1, <1>2, <1>3, <1>4, <1>5, <1>6, <1>7, <1>8, <1>9, <1>10,
     <1>11, <1>12, <1>13, <1>14, <1>15, <1>16, <1>17, <1>18, <1>19,
     <1>20, <1>21
  DEF Next, SaverStep, Done, Register!Next

(* Seen from the path alone a Save is one compare-and-replace, for any     *)
(* windows, crashes and outsiders that keep out of the instant between the *)
(* second compare and the rename (save.rs:12-31).                          *)
THEOREM SaveIsARegister ==
    ASSUME ~WindowEdits, LocksSupported
    PROVE  Spec => ImplementsRegister
<1>1. Init => Register!Init
  <2> SUFFICES ASSUME Init PROVE Register!Init
    OBVIOUS
  <2>1. SaveTypeOK
    BY SaveTypeInit
  <2>2. View \in [Savers -> Contents \cup {Nothing}]
    BY <2>1 DEF SaveTypeOK, View, Contents
  <2>3. QED
    BY <2>1, <2>2 DEF SaveTypeOK, Register!Init
<1>2. Init => Undisturbed
  BY DEF Init, Undisturbed
<1>3. SaveInv /\ Undisturbed /\ [Next]_vars => Undisturbed'
  BY UndisturbedStep DEF SaveInv
<1>4. SaveInv /\ Undisturbed /\ [Next]_vars => [Register!Next]_(Register!vars)
  BY RegisterStep
<1>5. QED
  BY <1>1, <1>2, <1>3, <1>4, SaveIsKept, PTL DEF Spec, ImplementsRegister, Register!Spec
=============================================================================
