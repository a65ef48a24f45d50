---------------------------- MODULE JournalProofs ----------------------------
(***************************************************************************)
(* Proofs about Journal: its type invariant, that no sweep takes anything  *)
(* of a journal in use, and that only the oldest of the finished ones go,  *)
(* for any number of instances, segments and kept journals.                *)
(***************************************************************************)
EXTENDS Journal, FiniteSetTheorems, TLAPS

USE JournalAssumption

(* An instance goes on to another step of its life.                        *)
LEMMA LifeGoes ==
    ASSUME life \in [Instances -> Life], NEW i \in Instances, NEW step \in Lives, Goto(i, step)
    PROVE  life' \in [Instances -> Life]
BY DEF Goto, Life

(* A sweep goes on to another step.                                        *)
LEMMA SweepGoes ==
    ASSUME sweep \in [Instances -> Sweeping], NEW i \in Instances,
           NEW step \in {"off", "look", "next", "open", "try", "header", "remove", "drop"},
           Sweep(i, step)
    PROVE  sweep' \in [Instances -> Sweeping]
<1>1. [sweep[i] EXCEPT !.at = step] \in Sweeping
  BY DEF Sweeping
<1>2. sweep' = [sweep EXCEPT ![i] = [sweep[i] EXCEPT !.at = step]]
  BY DEF Sweep
<1>3. QED
  BY <1>1, <1>2

(* Another step of a sweep that has an instance before it, or of none.     *)
LEMMA JudgedStays ==
    ASSUME sweep \in [Instances -> Sweeping], Judged, NEW i \in Instances, NEW s,
           sweep' = [sweep EXCEPT ![i] = s],
           s.of = sweep[i].of, sweep[i].at \in Judging
    PROVE  Judged'
BY DEF Judged

(* The same when only its step changes.                                    *)
LEMMA SweepStays ==
    ASSUME sweep \in [Instances -> Sweeping], Judged, NEW i \in Instances, NEW step,
           Sweep(i, step), sweep[i].at \in Judging
    PROVE  Judged'
<1>1. sweep' = [sweep EXCEPT ![i] = [sweep[i] EXCEPT !.at = step]]
  BY DEF Sweep
<1>2. [sweep[i] EXCEPT !.at = step].of = sweep[i].of
  BY DEF Sweeping
<1>3. QED
  BY <1>1, <1>2, JudgedStays

(* The records the steps of a life and of a sweep make are of their type:  *)
(* a sweep that takes up an instance.                                      *)
LEMMA SweepJudges ==
    ASSUME NEW s \in Sweeping, NEW j \in Instances
    PROVE  [s EXCEPT !.of = j, !.todo = s.todo \ {j}, !.at = "open"] \in Sweeping
<1>1. ASSUME NEW todo \in SUBSET Instances
      PROVE  [s EXCEPT !.of = j, !.todo = todo, !.at = "open"] \in Sweeping
  BY DEF Sweeping
<1>2. s.todo \ {j} \in SUBSET Instances
  BY DEF Sweeping
<1>3. QED
  BY <1>1, <1>2

(* An instance that makes its lock file.                                   *)
LEMMA LifeStarts ==
    ASSUME NEW l \in Life, NEW n \in Nat
    PROVE  [l EXCEPT !.at = "lock", !.try = n] \in Life
BY DEF Life, Lives

(* An instance that heads its next segment.                                *)
LEMMA LifeHeads ==
    ASSUME NEW l \in Life, NEW step \in Lives
    PROVE  [l EXCEPT !.segment = l.segment + 1, !.at = step] \in Life
<1>1. l.segment + 1 \in Nat
  BY DEF Life
<1>2. ASSUME NEW n \in Nat PROVE [l EXCEPT !.segment = n, !.at = step] \in Life
  BY DEF Life
<1>3. QED
  BY <1>1, <1>2

(* A sweep that has read the folder.                                       *)
LEMMA SweepLooks ==
    ASSUME NEW s \in Sweeping, NEW todo \in SUBSET Instances,
           NEW found \in [Instances -> SUBSET Segments]
    PROVE  [s EXCEPT !.at = "next", !.todo = todo, !.found = found] \in Sweeping
BY DEF Sweeping

(* A sweep that has read a header.                                         *)
LEMMA SweepReads ==
    ASSUME NEW s \in Sweeping, NEW kept \in Nat, NEW step \in {"drop", "remove"},
           NEW gone \in SUBSET Segments
    PROVE  [s EXCEPT !.kept = kept, !.at = step, !.segments = gone, !.removed = TRUE] \in Sweeping
BY DEF Sweeping

(* A sweep that removes a segment, or cannot.                              *)
LEMMA SweepRemoves ==
    ASSUME NEW s \in Sweeping, NEW n
    PROVE  /\ [s EXCEPT !.segments = s.segments \ {n}] \in Sweeping
           /\ [s EXCEPT !.segments = s.segments \ {n}, !.removed = FALSE] \in Sweeping
BY DEF Sweeping

(* A sweep that is over.                                                   *)
LEMMA NoSweepIsOne == NoSweep \in Sweeping
BY DEF NoSweep, Sweeping

(* The code keeps every variable in its type (journal.rs:194-624).         *)
THEOREM JournalTyped == Spec => []TypeOK
<1>1. Init => TypeOK
  BY NoSweepIsOne DEF Init, TypeOK, Lives, Life, Judged, Judging, NoSweep
<1>2. TypeOK /\ [Next]_vars => TypeOK'
  <2> SUFFICES ASSUME TypeOK, [Next]_vars PROVE TypeOK'
    OBVIOUS
  <2> USE DEF files
  <2>1. ASSUME NEW i \in Instances, Create(i) PROVE TypeOK'
    <3>1. life' \in [Instances -> Life]
      <4>1. [life[i] EXCEPT !.at = "lock", !.try = 1] \in Life
        BY LifeStarts DEF TypeOK
      <4>2. life' = [life EXCEPT ![i] = [life[i] EXCEPT !.at = "lock", !.try = 1]]
        BY <2>1 DEF Create
      <4>3. QED
        BY <4>1, <4>2 DEF TypeOK
    <3>2. sweep' \in [Instances -> Sweeping]
      BY <2>1 DEF Create, TypeOK
    <3>3. QED
      BY <2>1, <3>1, <3>2 DEF Create, TypeOK, Judged
  <2>2. ASSUME NEW i \in Instances, NEW j \in Instances, CreateAgain(i, j) PROVE TypeOK'
    <3>1. life' \in [Instances -> Life]
      <4>1. /\ [life[i] EXCEPT !.at = "ended"] \in Life
            /\ [life[j] EXCEPT !.at = "lock", !.try = life[i].try + 1] \in Life
        <5>1. life[i] \in Life /\ life[j] \in Life
          BY DEF TypeOK
        <5>2. life[i].try + 1 \in Nat
          BY <5>1 DEF Life
        <5>3. [life[i] EXCEPT !.at = "ended"] \in Life
          BY <5>1 DEF Life, Lives
        <5>4. QED
          BY <5>1, <5>2, <5>3, LifeStarts
      <4>2. i # j
        BY <2>2 DEF CreateAgain, Fresh, At
      <4>3. life' = [[life EXCEPT ![i] = [life[i] EXCEPT !.at = "ended"]]
                       EXCEPT ![j] = [life[j] EXCEPT !.at = "lock", !.try = life[i].try + 1]]
        BY <2>2, <4>2 DEF CreateAgain
      <4>4. QED
        BY <4>1, <4>3 DEF TypeOK
    <3>2. sweep' \in [Instances -> Sweeping]
      BY <2>2 DEF CreateAgain, TypeOK
    <3>3. QED
      BY <2>2, <3>1, <3>2 DEF CreateAgain, TypeOK, Judged
  <2>3. ASSUME NEW i \in Instances, Lock(i) PROVE TypeOK'
    <3>1. holder' \in [Instances -> Instances \cup {0}]
      BY <2>3 DEF Lock, TypeOK
    <3>2. life' \in [Instances -> Life]
      BY <2>3, LifeGoes DEF Lock, TypeOK, Lives
    <3>3. sweep' \in [Instances -> Sweeping]
      BY <2>3 DEF Lock, TypeOK
    <3>4. QED
      BY <2>3, <3>1, <3>2, <3>3 DEF Lock, TypeOK, Judged
  <2>4. ASSUME NEW i \in Instances, StartFails(i) PROVE TypeOK'
    <3>1. holder' \in [Instances -> Instances \cup {0}]
      BY <2>4 DEF StartFails, TypeOK
    <3>2. life' \in [Instances -> Life]
      BY <2>4, LifeGoes DEF StartFails, TypeOK, Lives
    <3>3. sweep' \in [Instances -> Sweeping]
      BY <2>4 DEF StartFails, TypeOK
    <3>4. QED
      BY <2>4, <3>1, <3>2, <3>3 DEF StartFails, TypeOK, Judged
  <2>5. ASSUME NEW i \in Instances, Name(i) PROVE TypeOK'
    <3>1. life' \in [Instances -> Life]
      BY <2>5, LifeGoes DEF Name, TypeOK, Lives
    <3>2. sweep' \in [Instances -> Sweeping]
      BY <2>5 DEF Name, TypeOK
    <3>3. QED
      BY <2>5, <3>1, <3>2 DEF Name, TypeOK, Judged
  <2>6. ASSUME NEW i \in Instances, Abandon(i) PROVE TypeOK'
    <3>1. life' \in [Instances -> Life]
      BY <2>6, LifeGoes DEF Abandon, TypeOK, Lives
    <3>2. sweep' \in [Instances -> Sweeping]
      BY <2>6 DEF Abandon, TypeOK
    <3>3. QED
      BY <2>6, <3>1, <3>2 DEF Abandon, TypeOK, Judged
  <2>7. ASSUME NEW i \in Instances, NewSegment(i) PROVE TypeOK'
    <3>1. segments' \in [Instances -> SUBSET Segments]
      BY <2>7 DEF NewSegment, TypeOK
    <3>2. life' \in [Instances -> Life]
      BY <2>7, LifeGoes DEF NewSegment, TypeOK, Lives
    <3>3. sweep' \in [Instances -> Sweeping]
      BY <2>7 DEF NewSegment, TypeOK
    <3>4. QED
      BY <2>7, <3>1, <3>2, <3>3 DEF NewSegment, TypeOK, Judged
  <2>8. ASSUME NEW i \in Instances, HeadSegment(i) PROVE TypeOK'
    <3>1. headed' \in [Instances -> SUBSET Nat]
      BY <2>8 DEF HeadSegment, NextSegment, TypeOK, Life
    <3>2. life' \in [Instances -> Life]
      <4>1. PICK step \in Lives :
               life' = [life EXCEPT ![i] = [life[i] EXCEPT !.segment = @ + 1, !.at = step]]
        BY <2>8 DEF HeadSegment, Lives
      <4>2. [life[i] EXCEPT !.segment = @ + 1, !.at = step] \in Life
        BY LifeHeads DEF TypeOK
      <4>3. QED
        BY <4>1, <4>2 DEF TypeOK
    <3>3. sweep' \in [Instances -> Sweeping]
      BY <2>8, SweepGoes DEF HeadSegment, TypeOK, Sweep
    <3>4. Judged'
      BY <2>8, <3>3 DEF HeadSegment, Judged, Judging, Sweeps, Sweep, NoSweep, TypeOK, Sweeping
    <3>5. QED
      BY <2>8, <3>1, <3>2, <3>3, <3>4 DEF HeadSegment, TypeOK
  <2>9. ASSUME NEW i \in Instances, HeadFails(i) PROVE TypeOK'
    <3>1. segments' \in [Instances -> SUBSET Segments] /\ holder' \in [Instances -> Instances \cup {0}]
      BY <2>9 DEF HeadFails, TypeOK
    <3>2. life' \in [Instances -> Life]
      BY <2>9, LifeGoes DEF HeadFails, TypeOK, Lives
    <3>3. sweep' \in [Instances -> Sweeping]
      BY <2>9 DEF HeadFails, TypeOK
    <3>4. QED
      BY <2>9, <3>1, <3>2, <3>3 DEF HeadFails, TypeOK, Judged
  <2>10. ASSUME NEW i \in Instances, Append(i) PROVE TypeOK'
    <3>1. life' \in [Instances -> Life]
      BY <2>10, LifeGoes DEF Append, TypeOK, Lives
    <3>2. sweep' \in [Instances -> Sweeping]
      BY <2>10 DEF Append, TypeOK
    <3>3. QED
      BY <2>10, <3>1, <3>2 DEF Append, TypeOK, Judged
  <2>11. ASSUME NEW i \in Instances, RemoveFull(i) PROVE TypeOK'
    <3>1. segments' \in [Instances -> SUBSET Segments] /\ headed' \in [Instances -> SUBSET Nat]
      BY <2>11 DEF RemoveFull, TypeOK
    <3>2. life' \in [Instances -> Life]
      BY <2>11, LifeGoes DEF RemoveFull, TypeOK, Lives
    <3>3. sweep' \in [Instances -> Sweeping]
      BY <2>11 DEF RemoveFull, TypeOK
    <3>4. QED
      BY <2>11, <3>1, <3>2, <3>3 DEF RemoveFull, TypeOK, Judged
  <2>12. ASSUME NEW i \in Instances, End(i) PROVE TypeOK'
    <3>1. holder' \in [Instances -> Instances \cup {0}]
      BY <2>12 DEF End, TypeOK
    <3>2. life' \in [Instances -> Life]
      BY <2>12, LifeGoes DEF End, TypeOK, Lives
    <3>3. sweep' \in [Instances -> Sweeping]
      BY <2>12, NoSweepIsOne DEF End, TypeOK
    <3>4. Judged'
      BY <2>12, <3>3 DEF End, Judged, Judging, Sweeps, Sweep, NoSweep, TypeOK, Sweeping
    <3>5. QED
      BY <2>12, <3>1, <3>2, <3>3, <3>4 DEF End, TypeOK
  <2>13. ASSUME NEW i \in Instances, Look(i) PROVE TypeOK'
    <3>1. life' \in [Instances -> Life]
      BY <2>13 DEF Look, TypeOK
    <3>2. sweep' \in [Instances -> Sweeping]
      <4> DEFINE looked ==
            [sweep[i] EXCEPT !.at = "next", !.todo = locks \ {i}, !.found = segments]
      <4>1. looked \in Sweeping
        BY SweepLooks DEF TypeOK
      <4>2. \/ sweep' = [sweep EXCEPT ![i] = looked]
            \/ sweep' = [sweep EXCEPT ![i] = NoSweep]
        BY <2>13 DEF Look
      <4> HIDE DEF looked
      <4>3. PICK new \in Sweeping : sweep' = [sweep EXCEPT ![i] = new]
        BY <4>1, <4>2, NoSweepIsOne
      <4>4. QED
        BY <4>3 DEF TypeOK
    <3>3. Judged'
      <4>1. \A k \in Instances : k # i => sweep'[k] = sweep[k]
        BY <2>13 DEF Look, TypeOK
      <4>2. sweep'[i].at \in {"next", "off"}
        BY <2>13 DEF Look, NoSweep, TypeOK, Sweeping
      <4>3. QED
        BY <4>1, <4>2 DEF Judged, Judging, TypeOK
    <3>4. QED
      BY <2>13, <3>1, <3>2, <3>3 DEF Look, TypeOK
  <2>14. ASSUME NEW i \in Instances, Judge(i) PROVE TypeOK'
    <3>1. life' \in [Instances -> Life]
      BY <2>14 DEF Judge, TypeOK
    <3>2. sweep' \in [Instances -> Sweeping]
      <4>1. PICK j \in sweep[i].todo :
               sweep' = [sweep EXCEPT ![i].of = j, ![i].todo = @ \ {j}, ![i].at = "open"]
        BY <2>14 DEF Judge
      <4>2. j \in Instances /\ sweep[i] \in Sweeping
        BY DEF TypeOK, Sweeping
      <4>3. sweep' = [sweep EXCEPT ![i] =
                         [sweep[i] EXCEPT !.of = j, !.todo = sweep[i].todo \ {j}, !.at = "open"]]
        BY <4>1
      <4>4. QED
        BY <4>2, <4>3, SweepJudges DEF TypeOK
    <3>3. Judged'
      BY <2>14, <3>2 DEF Judge, Judged, Judging, Sweeps, Sweep, NoSweep, TypeOK, Sweeping
    <3>4. QED
      BY <2>14, <3>1, <3>2, <3>3 DEF Judge, TypeOK
  <2>15. ASSUME NEW i \in Instances, SweepEnds(i) PROVE TypeOK'
    <3>1. life' \in [Instances -> Life]
      BY <2>15 DEF SweepEnds, TypeOK
    <3>2. sweep' \in [Instances -> Sweeping]
      BY <2>15, NoSweepIsOne DEF SweepEnds, TypeOK
    <3>3. Judged'
      BY <2>15, <3>2 DEF SweepEnds, Judged, Judging, Sweeps, Sweep, NoSweep, TypeOK, Sweeping
    <3>4. QED
      BY <2>15, <3>1, <3>2, <3>3 DEF SweepEnds, TypeOK
  <2>16. ASSUME NEW i \in Instances, OpenLock(i) PROVE TypeOK'
    <3>1. life' \in [Instances -> Life]
      BY <2>16 DEF OpenLock, TypeOK
    <3>2. sweep' \in [Instances -> Sweeping]
      BY <2>16, SweepGoes DEF OpenLock, TypeOK
    <3>3. Judged'
      BY <2>16, SweepStays DEF OpenLock, Judging, Sweeps, TypeOK
    <3>4. QED
      BY <2>16, <3>1, <3>2, <3>3 DEF OpenLock, TypeOK
  <2>17. ASSUME NEW i \in Instances, TryLock(i) PROVE TypeOK'
    <3>1. holder' \in [Instances -> Instances \cup {0}]
      BY <2>17 DEF TryLock, TypeOK
    <3>2. life' \in [Instances -> Life]
      BY <2>17 DEF TryLock, TypeOK
    <3>3. sweep' \in [Instances -> Sweeping]
      BY <2>17, SweepGoes DEF TryLock, TypeOK
    <3>4. Judged'
      BY <2>17, SweepStays DEF TryLock, Judging, Sweeps, TypeOK
    <3>5. QED
      BY <2>17, <3>1, <3>2, <3>3, <3>4 DEF TryLock, TypeOK
  <2>18. ASSUME NEW i \in Instances, ReadHeader(i) PROVE TypeOK'
    <3>1. life' \in [Instances -> Life]
      BY <2>18 DEF ReadHeader, TypeOK
    <3>2. sweep' \in [Instances -> Sweeping]
      <4>1. CASE Sweep(i, "drop")
        BY <4>1, SweepGoes DEF TypeOK
      <4>2. CASE ~Sweep(i, "drop")
        <5>1. PICK step \in {"drop", "remove"}, gone \in SUBSET Segments :
                 sweep' = [sweep EXCEPT ![i].kept = Kept(i, sweep[i].of), ![i].at = step,
                                        ![i].segments = gone, ![i].removed = TRUE]
          <6>1. sweep[i].found[sweep[i].of] \in SUBSET Segments
            <7>1. sweep[i].of \in Instances
              BY <2>18 DEF ReadHeader, Sweeps, TypeOK, Judging, Judged
            <7>2. sweep[i].found \in [Instances -> SUBSET Segments]
              BY DEF TypeOK, Sweeping
            <7>3. QED
              BY <7>1, <7>2
          <6>2. QED
            BY <2>18, <4>2, <6>1 DEF ReadHeader
        <5>2. Kept(i, sweep[i].of) \in Nat
          BY DEF Kept, TypeOK, Sweeping
        <5>3. [sweep[i] EXCEPT !.kept = Kept(i, sweep[i].of), !.at = step,
                               !.segments = gone, !.removed = TRUE] \in Sweeping
          BY <5>2, SweepReads DEF TypeOK
        <5>4. sweep' = [sweep EXCEPT ![i] = [sweep[i] EXCEPT !.kept = Kept(i, sweep[i].of),
                           !.at = step, !.segments = gone, !.removed = TRUE]]
          BY <5>1
        <5>5. QED
          BY <5>3, <5>4 DEF TypeOK
      <4>3. QED
        BY <4>1, <4>2
    <3>3. Judged'
      <4>1. sweep[i].at \in Judging
        BY <2>18 DEF ReadHeader, Sweeps, Judging
      <4>2. CASE Sweep(i, "drop")
        BY <4>1, <4>2, SweepStays DEF TypeOK
      <4>3. CASE ~Sweep(i, "drop")
        <5>1. PICK kept, step, gone :
                 sweep' = [sweep EXCEPT ![i].kept = kept, ![i].at = step,
                                        ![i].segments = gone, ![i].removed = TRUE]
          BY <2>18, <4>3 DEF ReadHeader
        <5>2. sweep' = [sweep EXCEPT ![i] = [sweep[i] EXCEPT !.kept = kept, !.at = step,
                                                 !.segments = gone, !.removed = TRUE]]
          BY <5>1
        <5>3. [sweep[i] EXCEPT !.kept = kept, !.at = step,
                               !.segments = gone, !.removed = TRUE].of = sweep[i].of
          BY DEF TypeOK, Sweeping
        <5>4. QED
          BY <4>1, <5>2, <5>3, JudgedStays DEF TypeOK
      <4>4. QED
        BY <4>2, <4>3
    <3>4. QED
      BY <2>18, <3>1, <3>2, <3>3 DEF ReadHeader, TypeOK
  <2>19. ASSUME NEW i \in Instances, RemoveSegment(i) PROVE TypeOK'
    <3>1. segments' \in [Instances -> SUBSET Segments] /\ headed' \in [Instances -> SUBSET Nat]
      BY <2>19 DEF RemoveSegment, TypeOK
    <3>2. life' \in [Instances -> Life]
      BY <2>19 DEF RemoveSegment, TypeOK
    <3>3. sweep' \in [Instances -> Sweeping]
      <4>1. PICK n \in sweep[i].segments :
               \/ sweep' = [sweep EXCEPT ![i].segments = @ \ {n}]
               \/ sweep' = [sweep EXCEPT ![i].segments = @ \ {n}, ![i].removed = FALSE]
        BY <2>19 DEF RemoveSegment
      <4>2. /\ [sweep[i] EXCEPT !.segments = @ \ {n}] \in Sweeping
            /\ [sweep[i] EXCEPT !.segments = @ \ {n}, !.removed = FALSE] \in Sweeping
        BY SweepRemoves DEF TypeOK
      <4>3. QED
        <5>1. PICK s : s \in Sweeping /\ sweep' = [sweep EXCEPT ![i] = s]
          BY <4>1, <4>2
        <5>2. QED
          BY <5>1 DEF TypeOK
    <3>4. Judged'
      <4>1. PICK n \in sweep[i].segments :
               \/ sweep' = [sweep EXCEPT ![i].segments = @ \ {n}]
               \/ sweep' = [sweep EXCEPT ![i].segments = @ \ {n}, ![i].removed = FALSE]
        BY <2>19 DEF RemoveSegment
      <4>2. PICK s : s.of = sweep[i].of /\ sweep' = [sweep EXCEPT ![i] = s]
        <5>1. /\ [sweep[i] EXCEPT !.segments = @ \ {n}].of = sweep[i].of
              /\ [sweep[i] EXCEPT !.segments = @ \ {n}, !.removed = FALSE].of = sweep[i].of
          BY DEF TypeOK, Sweeping
        <5>2. QED
          BY <4>1, <5>1
      <4>3. QED
        BY <2>19, <4>2, JudgedStays DEF RemoveSegment, Sweeps, Judging, TypeOK
    <3>5. QED
      BY <2>19, <3>1, <3>2, <3>3, <3>4 DEF RemoveSegment, TypeOK
  <2>20. ASSUME NEW i \in Instances, RemoveLock(i) PROVE TypeOK'
    <3>1. life' \in [Instances -> Life]
      BY <2>20 DEF RemoveLock, TypeOK
    <3>2. sweep' \in [Instances -> Sweeping]
      BY <2>20, SweepGoes DEF RemoveLock, TypeOK
    <3>3. Judged'
      BY <2>20, <3>2 DEF RemoveLock, Judged, Judging, Sweeps, Sweep, NoSweep, TypeOK, Sweeping
    <3>4. QED
      BY <2>20, <3>1, <3>2, <3>3 DEF RemoveLock, TypeOK
  <2>21. ASSUME NEW i \in Instances, DropLock(i) PROVE TypeOK'
    <3>1. holder' \in [Instances -> Instances \cup {0}]
      BY <2>21 DEF DropLock, TypeOK
    <3>2. life' \in [Instances -> Life]
      BY <2>21 DEF DropLock, TypeOK
    <3>3. sweep' \in [Instances -> Sweeping]
      BY <2>21, SweepGoes DEF DropLock, TypeOK
    <3>4. Judged'
      BY <2>21, <3>3 DEF DropLock, Judged, Judging, Sweeps, Sweep, NoSweep, TypeOK, Sweeping
    <3>5. QED
      BY <2>21, <3>1, <3>2, <3>3, <3>4 DEF DropLock, TypeOK
  <2>22. CASE UNCHANGED vars
    BY <2>22 DEF vars, TypeOK, Judged
  <2>23. QED
    BY <2>1, <2>2, <2>3, <2>4, <2>5, <2>6, <2>7, <2>8, <2>9, <2>10, <2>11, <2>12, <2>13, <2>14, <2>15, <2>16, <2>17, <2>18, <2>19, <2>20, <2>21, <2>22 DEF Next
<1>3. QED
  BY <1>1, <1>2, PTL DEF Spec

---------------------------------------------------------------------------
(* No sweep takes anything of a journal in use                             *)

InUse == {"runs", "full", "head", "rotate", "stopped"}

\* An instance that is not done has its lock file, and from the moment it has
\* locked it nobody else holds the lock; the file names it once it is written.
LocksAreMine ==
    \A i \in Instances :
        /\ life[i].at \in {"lock", "name", "first", "headFirst"} \cup InUse => i \in locks
        /\ life[i].at \in {"name", "first", "headFirst"} \cup InUse => holder[i] = i
        /\ life[i].at \in {"first", "headFirst"} \cup InUse => i \in named
        /\ life[i].at \in {"none", "lock", "name"} => i \notin named

\* A sweep never judges its own instance, and what it removes it has locked.
SweepsLock ==
    \A i \in Instances :
        /\ i \notin sweep[i].todo
        /\ sweep[i].at \in Judging => sweep[i].of # i
        /\ sweep[i].at \in {"header", "remove", "drop"} => holder[sweep[i].of] = i
        /\ sweep[i].at = "remove" => sweep[i].of \in named

\* The segments a journal in use has headed and not removed.
SegmentsHeaded ==
    \A i \in Instances :
        /\ life[i].at \in {"none", "lock", "name", "first", "headFirst"} => life[i].segment = 0
        /\ life[i].at \in InUse =>
              life[i].segment >= 1 /\ 1 \in headed[i] /\ life[i].segment \in headed[i]
        /\ life[i].at = "rotate" => life[i].segment >= 3

(* What Goto changes of a life.                                            *)
LEMMA LifeMoves ==
    ASSUME life \in [Instances -> Life], NEW i \in Instances, NEW step, Goto(i, step)
    PROVE  \A k \in Instances :
              /\ life'[k].at = IF k = i THEN step ELSE life[k].at
              /\ life'[k].segment = life[k].segment
BY DEF Goto, Life

(* The record of an instance that makes its lock file.                     *)
LEMMA LifeCreated ==
    ASSUME NEW l \in Life, NEW step, NEW n
    PROVE  /\ [l EXCEPT !.at = step, !.try = n].at = step
           /\ [l EXCEPT !.at = step, !.try = n].segment = l.segment
BY DEF Life

(* What Sweep changes of a sweep.                                          *)
LEMMA SweepMoves ==
    ASSUME sweep \in [Instances -> Sweeping], NEW i \in Instances, NEW step, Sweep(i, step)
    PROVE  \A k \in Instances :
              /\ sweep'[k].at = IF k = i THEN step ELSE sweep[k].at
              /\ sweep'[k].of = sweep[k].of
              /\ sweep'[k].todo = sweep[k].todo
BY DEF Sweep, Sweeping

\* Only the step of the life, or of the sweep, of i changes.
SameLife(i) ==
    \A k \in Instances : /\ k # i => life'[k].at = life[k].at
                         /\ life'[k].segment = life[k].segment

SameSweeps(i) ==
    \A k \in Instances : /\ k # i => sweep'[k].at = sweep[k].at
                         /\ sweep'[k].of = sweep[k].of /\ sweep'[k].todo = sweep[k].todo

(* No step loses the locks of the journals in use, the lock of a sweep or  *)
(* the segments in use.                                                    *)
LEMMA JournalLocked == Spec => [](TypeOK /\ LocksAreMine /\ SweepsLock /\ SegmentsHeaded)
<1>1. Init => LocksAreMine /\ SweepsLock /\ SegmentsHeaded
  BY DEF Init, NoSweep, LocksAreMine, SweepsLock, SegmentsHeaded, InUse, Judging
<1>2. TypeOK /\ LocksAreMine /\ SweepsLock /\ SegmentsHeaded /\ [Next]_vars
         => LocksAreMine' /\ SweepsLock' /\ SegmentsHeaded'
  <2> SUFFICES ASSUME TypeOK, LocksAreMine, SweepsLock, SegmentsHeaded, [Next]_vars
               PROVE  LocksAreMine' /\ SweepsLock' /\ SegmentsHeaded'
    OBVIOUS
  <2> USE DEF files, At, Sweeps, InUse
  <2>0. /\ life \in [Instances -> Life] /\ sweep \in [Instances -> Sweeping]
        /\ holder \in [Instances -> Instances \cup {0}] /\ headed \in [Instances -> SUBSET Nat]
    BY DEF TypeOK
  <2>a. /\ 0 \notin Instances
        /\ \A k \in Instances : sweep[k].at \in Judging => sweep[k].of \in Instances
    BY DEF TypeOK, Judged
  <2>1. ASSUME NEW i \in Instances, Create(i)
        PROVE  LocksAreMine' /\ SweepsLock' /\ SegmentsHeaded'
    <3>1. life' = [life EXCEPT ![i] = [life[i] EXCEPT !.at = "lock", !.try = 1]]
      BY <2>1 DEF Create
    <3>2. life'[i].at = "lock" /\ SameLife(i)
      BY <2>0, <3>1, LifeCreated DEF SameLife
    <3>3. life[i].at = "none" /\ locks' = locks \cup {i}
      BY <2>1 DEF Create, Fresh
    <3>4. UNCHANGED <<named, headed, holder, sweep>>
      BY <2>1 DEF Create
    <3>5. LocksAreMine'
      BY <2>a, <3>1, <3>2, <3>3, <3>4 DEF SameLife, SameSweeps, Judging, LocksAreMine, SweepsLock
    <3>6. SweepsLock'
      <4>1. ASSUME NEW k \in Instances, sweep'[k].at \in {"header", "remove", "drop"}
            PROVE  holder'[sweep'[k].of] = k
        BY <2>a, <3>1, <3>2, <3>3, <3>4, <4>1 DEF SameLife, SameSweeps, Judging, LocksAreMine, SweepsLock
      <4>2. ASSUME NEW k \in Instances
            PROVE  /\ k \notin sweep'[k].todo
                   /\ sweep'[k].at \in Judging => sweep'[k].of # k
                   /\ sweep'[k].at = "remove" => sweep'[k].of \in named'
        BY <2>a, <3>1, <3>2, <3>3, <3>4 DEF SameLife, SameSweeps, Judging, SweepsLock
      <4>3. QED
        BY <4>1, <4>2 DEF SweepsLock
    <3>7. SegmentsHeaded'
      BY <2>a, <3>1, <3>2, <3>3, <3>4 DEF SameLife, SameSweeps, Judging, LocksAreMine, SweepsLock, SegmentsHeaded
    <3>8. QED
      BY <3>5, <3>6, <3>7
  <2>2. ASSUME NEW i \in Instances, NEW j \in Instances, CreateAgain(i, j)
        PROVE  LocksAreMine' /\ SweepsLock' /\ SegmentsHeaded'
    <3>1. i # j /\ life[i].at = "again" /\ life[j].at = "none" /\ locks' = locks \cup {j}
      BY <2>2 DEF CreateAgain, Fresh
    <3>2. life' = [[life EXCEPT ![i] = [life[i] EXCEPT !.at = "ended"]]
                   EXCEPT ![j] = [life[j] EXCEPT !.at = "lock", !.try = life[i].try + 1]]
      BY <2>2, <3>1 DEF CreateAgain
    <3>3. /\ [life[i] EXCEPT !.at = "ended"].at = "ended"
          /\ [life[i] EXCEPT !.at = "ended"].segment = life[i].segment
      BY <2>0 DEF Life
    <3>4. /\ life'[i].at = "ended" /\ life'[i].segment = life[i].segment
          /\ life'[j].at = "lock" /\ life'[j].segment = life[j].segment
          /\ \A k \in Instances \ {i, j} : life'[k] = life[k]
      <4>1. life'[i] = [life[i] EXCEPT !.at = "ended"]
        BY <2>0, <3>1, <3>2
      <4>2. life'[j] = [life[j] EXCEPT !.at = "lock", !.try = life[i].try + 1]
        BY <2>0, <3>2
      <4>3. \A k \in Instances \ {i, j} : life'[k] = life[k]
        BY <2>0, <3>2
      <4>4. life[j] \in Life
        BY <2>0
      <4>5. life'[j].at = "lock" /\ life'[j].segment = life[j].segment
        BY <4>2, <4>4, LifeCreated
      <4>6. QED
        BY <3>3, <4>1, <4>3, <4>5
    <3>5. UNCHANGED <<named, headed, holder, sweep>>
      BY <2>2 DEF CreateAgain
    <3>6. LocksAreMine'
      BY ZenonT(60), <2>a, <3>1, <3>2, <3>3, <3>4, <3>5 DEF SameLife, SameSweeps, Judging, LocksAreMine, SweepsLock
    <3>7. SweepsLock'
      <4>1. ASSUME NEW k \in Instances, sweep'[k].at \in {"header", "remove", "drop"}
            PROVE  holder'[sweep'[k].of] = k
        BY <2>a, <3>1, <3>2, <3>3, <3>4, <3>5, <4>1 DEF SameLife, SameSweeps, Judging, LocksAreMine, SweepsLock
      <4>2. ASSUME NEW k \in Instances
            PROVE  /\ k \notin sweep'[k].todo
                   /\ sweep'[k].at \in Judging => sweep'[k].of # k
                   /\ sweep'[k].at = "remove" => sweep'[k].of \in named'
        BY <2>a, <3>1, <3>2, <3>3, <3>4, <3>5 DEF SameLife, SameSweeps, Judging, SweepsLock
      <4>3. QED
        BY <4>1, <4>2 DEF SweepsLock
    <3>8. SegmentsHeaded'
      BY <3>1, <3>4, <3>5 DEF SegmentsHeaded
    <3>9. QED
      BY <3>6, <3>7, <3>8
  <2>3. ASSUME NEW i \in Instances, Lock(i)
        PROVE  LocksAreMine' /\ SweepsLock' /\ SegmentsHeaded'
    <3>1. life[i].at = "lock" /\ life'[i].at \in {"name", "taken"} /\ SameLife(i)
      BY <2>0, <2>3, LifeMoves DEF Lock, SameLife
    <3>2. life'[i].at = "name" => holder'[i] = i
      BY <2>0, <2>3, LifeMoves DEF Lock
    <3>3. \A k \in Instances : holder[k] # 0 => holder'[k] = holder[k]
      BY <2>0, <2>3 DEF Lock
    <3>4. \A k \in Instances \ {i} : holder'[k] = holder[k]
      BY <2>0, <2>3 DEF Lock
    <3>5. UNCHANGED <<locks, named, headed, sweep>>
      BY <2>3 DEF Lock
    <3>6. LocksAreMine'
      BY <2>a, <3>1, <3>2, <3>3, <3>4, <3>5 DEF SameLife, SameSweeps, Judging, LocksAreMine, SweepsLock
    <3>7. SweepsLock'
      <4>1. ASSUME NEW k \in Instances, sweep'[k].at \in {"header", "remove", "drop"}
            PROVE  holder'[sweep'[k].of] = k
        <5>1. k # 0
          BY <2>a
        <5>2. sweep[k].at \in {"header", "remove", "drop"} /\ sweep'[k].of = sweep[k].of
          BY <3>5, <4>1, <5>1 DEF SameSweeps
        <5>3. sweep[k].of \in Instances /\ holder[sweep[k].of] = k /\ sweep[k].of # k
          BY <2>a, <5>2 DEF Judging, SweepsLock
        <5>4. QED
          BY <3>3, <5>1, <5>2, <5>3
      <4>2. ASSUME NEW k \in Instances
            PROVE  /\ k \notin sweep'[k].todo
                   /\ sweep'[k].at \in Judging => sweep'[k].of # k
                   /\ sweep'[k].at = "remove" => sweep'[k].of \in named'
        BY <2>a, <3>1, <3>2, <3>3, <3>4, <3>5 DEF SameLife, SameSweeps, Judging, SweepsLock
      <4>3. QED
        BY <4>1, <4>2 DEF SweepsLock
    <3>8. SegmentsHeaded'
      BY <2>a, <3>1, <3>2, <3>3, <3>4, <3>5 DEF SameLife, SameSweeps, Judging, LocksAreMine, SweepsLock, SegmentsHeaded
    <3>9. QED
      BY <3>6, <3>7, <3>8
  <2>4. ASSUME NEW i \in Instances, StartFails(i)
        PROVE  LocksAreMine' /\ SweepsLock' /\ SegmentsHeaded'
    <3>1. life'[i].at = "failed" /\ SameLife(i)
      BY <2>0, <2>4, LifeMoves DEF StartFails, SameLife
    <3>2. \A k \in Instances : holder[k] # i => holder'[k] = holder[k]
      BY <2>0, <2>4 DEF StartFails
    <3>3. \A k \in Instances \ {i} : holder'[k] = holder[k]
      BY <2>0, <2>4 DEF StartFails
    <3>4. UNCHANGED <<locks, named, headed, sweep>>
      BY <2>4 DEF StartFails
    <3>5. LocksAreMine'
      BY <2>a, <3>1, <3>2, <3>3, <3>4 DEF SameLife, SameSweeps, Judging, LocksAreMine, SweepsLock
    <3>6. SweepsLock'
      <4>1. ASSUME NEW k \in Instances, sweep'[k].at \in {"header", "remove", "drop"}
            PROVE  holder'[sweep'[k].of] = k
        <5>1. TRUE
          BY <4>1
        <5>2. sweep[k].at \in {"header", "remove", "drop"} /\ sweep'[k].of = sweep[k].of
          BY <3>4, <4>1, <5>1 DEF SameSweeps
        <5>3. sweep[k].of \in Instances /\ holder[sweep[k].of] = k /\ sweep[k].of # k
          BY <2>a, <5>2 DEF Judging, SweepsLock
        <5>4. QED
          BY <3>2, <3>3, <5>1, <5>2, <5>3
      <4>2. ASSUME NEW k \in Instances
            PROVE  /\ k \notin sweep'[k].todo
                   /\ sweep'[k].at \in Judging => sweep'[k].of # k
                   /\ sweep'[k].at = "remove" => sweep'[k].of \in named'
        BY <2>a, <3>1, <3>2, <3>3, <3>4 DEF SameLife, SameSweeps, Judging, SweepsLock
      <4>3. QED
        BY <4>1, <4>2 DEF SweepsLock
    <3>7. SegmentsHeaded'
      BY <2>a, <3>1, <3>2, <3>3, <3>4 DEF SameLife, SameSweeps, Judging, LocksAreMine, SweepsLock, SegmentsHeaded
    <3>8. QED
      BY <3>5, <3>6, <3>7
  <2>5. ASSUME NEW i \in Instances, Name(i)
        PROVE  LocksAreMine' /\ SweepsLock' /\ SegmentsHeaded'
    <3>1. life[i].at = "name" /\ life'[i].at = "first" /\ SameLife(i)
      BY <2>0, <2>5, LifeMoves DEF Name, SameLife
    <3>2. named' = named \cup {i}
      BY <2>5 DEF Name
    <3>3. UNCHANGED <<locks, headed, holder, sweep>>
      BY <2>5 DEF Name
    <3>4. LocksAreMine'
      BY <2>a, <3>1, <3>2, <3>3 DEF SameLife, SameSweeps, Judging, LocksAreMine, SweepsLock
    <3>5. SweepsLock'
      <4>1. ASSUME NEW k \in Instances, sweep'[k].at \in {"header", "remove", "drop"}
            PROVE  holder'[sweep'[k].of] = k
        BY <2>a, <3>1, <3>2, <3>3, <4>1 DEF SameLife, SameSweeps, Judging, LocksAreMine, SweepsLock
      <4>2. ASSUME NEW k \in Instances
            PROVE  /\ k \notin sweep'[k].todo
                   /\ sweep'[k].at \in Judging => sweep'[k].of # k
                   /\ sweep'[k].at = "remove" => sweep'[k].of \in named'
        BY <2>a, <3>1, <3>2, <3>3 DEF SameLife, SameSweeps, Judging, SweepsLock
      <4>3. QED
        BY <4>1, <4>2 DEF SweepsLock
    <3>6. SegmentsHeaded'
      BY <2>a, <3>1, <3>2, <3>3 DEF SameLife, SameSweeps, Judging, LocksAreMine, SweepsLock, SegmentsHeaded
    <3>7. QED
      BY <3>4, <3>5, <3>6
  <2>6. ASSUME NEW i \in Instances, Abandon(i)
        PROVE  LocksAreMine' /\ SweepsLock' /\ SegmentsHeaded'
    <3>1. life[i].at \in {"taken", "failed"} /\ life'[i].at \in {"again", "ended"} /\ SameLife(i)
      BY <2>0, <2>6, LifeMoves DEF Abandon, SameLife
    <3>2. \A k \in Instances \ {i} : k \in locks => k \in locks'
      BY <2>6 DEF Abandon
    <3>3. UNCHANGED <<named, headed, holder, sweep>>
      BY <2>6 DEF Abandon
    <3>4. LocksAreMine'
      BY <2>a, <3>1, <3>2, <3>3 DEF SameLife, SameSweeps, Judging, LocksAreMine, SweepsLock
    <3>5. SweepsLock'
      <4>1. ASSUME NEW k \in Instances, sweep'[k].at \in {"header", "remove", "drop"}
            PROVE  holder'[sweep'[k].of] = k
        BY <2>a, <3>1, <3>2, <3>3, <4>1 DEF SameLife, SameSweeps, Judging, LocksAreMine, SweepsLock
      <4>2. ASSUME NEW k \in Instances
            PROVE  /\ k \notin sweep'[k].todo
                   /\ sweep'[k].at \in Judging => sweep'[k].of # k
                   /\ sweep'[k].at = "remove" => sweep'[k].of \in named'
        BY <2>a, <3>1, <3>2, <3>3 DEF SameLife, SameSweeps, Judging, SweepsLock
      <4>3. QED
        BY <4>1, <4>2 DEF SweepsLock
    <3>6. SegmentsHeaded'
      BY <2>a, <3>1, <3>2, <3>3 DEF SameLife, SameSweeps, Judging, LocksAreMine, SweepsLock, SegmentsHeaded
    <3>7. QED
      BY <3>4, <3>5, <3>6
  <2>7. ASSUME NEW i \in Instances, NewSegment(i)
        PROVE  LocksAreMine' /\ SweepsLock' /\ SegmentsHeaded'
    <3>1. /\ \/ life[i].at = "first" /\ life'[i].at = "headFirst"
             \/ life[i].at = "full" /\ life'[i].at = "head"
          /\ SameLife(i)
      <4>1. CASE life[i].at = "first"
        <5>1. Goto(i, "headFirst")
          BY <2>7, <4>1 DEF NewSegment
        <5>2. life'[i].at = "headFirst" /\ SameLife(i)
          BY <2>0, <5>1, LifeMoves DEF SameLife
        <5>3. QED
          BY <4>1, <5>2
      <4>2. CASE life[i].at # "first"
        <5>1. Goto(i, "head") /\ life[i].at = "full"
          BY <2>7, <4>2 DEF NewSegment
        <5>2. QED
          BY <2>0, <5>1, LifeMoves DEF SameLife
      <4>3. QED
        BY <4>1, <4>2
    <3>2. UNCHANGED <<locks, named, headed, holder, sweep>>
      BY <2>7 DEF NewSegment
    <3>3. LocksAreMine'
      BY <2>a, <3>1, <3>2 DEF SameLife, SameSweeps, Judging, LocksAreMine, SweepsLock
    <3>4. SweepsLock'
      <4>1. ASSUME NEW k \in Instances, sweep'[k].at \in {"header", "remove", "drop"}
            PROVE  holder'[sweep'[k].of] = k
        BY <2>a, <3>1, <3>2, <4>1 DEF SameLife, SameSweeps, Judging, LocksAreMine, SweepsLock
      <4>2. ASSUME NEW k \in Instances
            PROVE  /\ k \notin sweep'[k].todo
                   /\ sweep'[k].at \in Judging => sweep'[k].of # k
                   /\ sweep'[k].at = "remove" => sweep'[k].of \in named'
        BY <2>a, <3>1, <3>2 DEF SameLife, SameSweeps, Judging, SweepsLock
      <4>3. QED
        BY <4>1, <4>2 DEF SweepsLock
    <3>5. SegmentsHeaded'
      BY <2>a, <3>1, <3>2 DEF SameLife, SameSweeps, Judging, LocksAreMine, SweepsLock, SegmentsHeaded
    <3>6. QED
      BY <3>3, <3>4, <3>5
  <2>8. ASSUME NEW i \in Instances, HeadSegment(i)
        PROVE  LocksAreMine' /\ SweepsLock' /\ SegmentsHeaded'
    <3>1. life[i].segment \in Nat
      BY <2>0 DEF Life
    <3>2. PICK step : /\ step = IF life[i].at = "head" /\ life[i].segment # 1 THEN "rotate" ELSE "runs"
                  /\ life' = [life EXCEPT ![i] = [life[i] EXCEPT !.segment = life[i].segment + 1,
                                                                 !.at = step]]
      BY <2>8 DEF HeadSegment
    <3>3. /\ [life[i] EXCEPT !.segment = life[i].segment + 1, !.at = step].at = step
          /\ [life[i] EXCEPT !.segment = life[i].segment + 1, !.at = step].segment
               = life[i].segment + 1
      BY <2>0 DEF Life
    <3>4. /\ life[i].at \in {"headFirst", "head"}
          /\ life'[i].at = step /\ life'[i].segment = life[i].segment + 1
          /\ \A k \in Instances \ {i} : life'[k] = life[k]
      BY <2>0, <2>8, <3>2, <3>3 DEF HeadSegment
    <3>5. /\ headed'[i] = headed[i] \cup {life[i].segment + 1}
          /\ \A k \in Instances \ {i} : headed'[k] = headed[k]
      BY <2>0, <2>8 DEF HeadSegment, NextSegment
    <3>6. \A k \in Instances : /\ sweep'[k].at \in {sweep[k].at, "look"}
                               /\ sweep'[k].of = sweep[k].of /\ sweep'[k].todo = sweep[k].todo
      BY <2>0, <2>8 DEF HeadSegment, Sweeping
    <3>7. UNCHANGED <<locks, named, holder>>
      BY <2>8 DEF HeadSegment
    <3>8. LocksAreMine'
      BY <2>a, <3>1, <3>2, <3>3, <3>4, <3>5, <3>6, <3>7 DEF SameLife, SameSweeps, Judging, LocksAreMine, SweepsLock
    <3>9. SweepsLock'
      <4>1. ASSUME NEW k \in Instances, sweep'[k].at \in {"header", "remove", "drop"}
            PROVE  holder'[sweep'[k].of] = k
        BY <2>a, <3>1, <3>2, <3>3, <3>4, <3>5, <3>6, <3>7, <4>1 DEF SameLife, SameSweeps, Judging, LocksAreMine, SweepsLock
      <4>2. ASSUME NEW k \in Instances
            PROVE  /\ k \notin sweep'[k].todo
                   /\ sweep'[k].at \in Judging => sweep'[k].of # k
                   /\ sweep'[k].at = "remove" => sweep'[k].of \in named'
        BY <2>a, <3>1, <3>2, <3>3, <3>4, <3>5, <3>6, <3>7 DEF SameLife, SameSweeps, Judging, SweepsLock
      <4>3. QED
        BY <4>1, <4>2 DEF SweepsLock
    <3>10. SegmentsHeaded'
      BY <2>a, <3>1, <3>2, <3>3, <3>4, <3>5, <3>6, <3>7 DEF SameLife, SameSweeps, Judging, LocksAreMine, SweepsLock, SegmentsHeaded
    <3>11. QED
      BY <3>8, <3>9, <3>10
  <2>9. ASSUME NEW i \in Instances, HeadFails(i)
        PROVE  LocksAreMine' /\ SweepsLock' /\ SegmentsHeaded'
    <3>1. /\ \/ life[i].at = "headFirst" /\ life'[i].at = "failed"
             \/ life[i].at = "head" /\ life'[i].at = "stopped"
          /\ SameLife(i)
      <4>1. CASE life[i].at = "headFirst"
        <5>1. Goto(i, "failed")
          BY <2>9, <4>1 DEF HeadFails
        <5>2. life'[i].at = "failed" /\ SameLife(i)
          BY <2>0, <5>1, LifeMoves DEF SameLife
        <5>3. QED
          BY <4>1, <5>2
      <4>2. CASE life[i].at # "headFirst"
        <5>1. Goto(i, "stopped") /\ life[i].at = "head"
          BY <2>9, <4>2 DEF HeadFails
        <5>2. QED
          BY <2>0, <5>1, LifeMoves DEF SameLife
      <4>3. QED
        BY <4>1, <4>2
    <3>2. life[i].at = "head" => holder'[i] = holder[i]
      BY <2>0, <2>9 DEF HeadFails
    <3>3. \A k \in Instances \ {i} : holder'[k] = holder[k]
      BY <2>0, <2>9 DEF HeadFails
    <3>4. UNCHANGED <<locks, named, headed, sweep>>
      BY <2>9 DEF HeadFails
    <3>5. LocksAreMine'
      BY <2>a, <3>1, <3>2, <3>3, <3>4 DEF SameLife, SameSweeps, Judging, LocksAreMine, SweepsLock
    <3>6. SweepsLock'
      <4>1. ASSUME NEW k \in Instances, sweep'[k].at \in {"header", "remove", "drop"}
            PROVE  holder'[sweep'[k].of] = k
        <5>1. sweep[k].of \in Instances /\ holder[sweep[k].of] = k /\ sweep[k].of # k
          BY <2>a, <3>4, <4>1 DEF Judging, SweepsLock
        <5>2. holder[i] = i
          BY <3>1 DEF LocksAreMine
        <5>3. QED
          BY <3>3, <3>4, <5>1, <5>2
      <4>2. ASSUME NEW k \in Instances
            PROVE  /\ k \notin sweep'[k].todo
                   /\ sweep'[k].at \in Judging => sweep'[k].of # k
                   /\ sweep'[k].at = "remove" => sweep'[k].of \in named'
        BY <2>a, <3>1, <3>2, <3>3, <3>4 DEF SameLife, SameSweeps, Judging, SweepsLock
      <4>3. QED
        BY <4>1, <4>2 DEF SweepsLock
    <3>7. SegmentsHeaded'
      BY <2>a, <3>1, <3>2, <3>3, <3>4 DEF SameLife, SameSweeps, Judging, LocksAreMine, SweepsLock, SegmentsHeaded
    <3>8. QED
      BY <3>5, <3>6, <3>7
  <2>10. ASSUME NEW i \in Instances, Append(i)
        PROVE  LocksAreMine' /\ SweepsLock' /\ SegmentsHeaded'
    <3>1. life[i].at = "runs" /\ life'[i].at \in {"full", "stopped"} /\ SameLife(i)
      BY <2>0, <2>10, LifeMoves DEF Append, SameLife
    <3>2. UNCHANGED <<locks, named, headed, holder, sweep>>
      BY <2>10 DEF Append
    <3>3. LocksAreMine'
      BY <2>a, <3>1, <3>2 DEF SameLife, SameSweeps, Judging, LocksAreMine, SweepsLock
    <3>4. SweepsLock'
      <4>1. ASSUME NEW k \in Instances, sweep'[k].at \in {"header", "remove", "drop"}
            PROVE  holder'[sweep'[k].of] = k
        BY <2>a, <3>1, <3>2, <4>1 DEF SameLife, SameSweeps, Judging, LocksAreMine, SweepsLock
      <4>2. ASSUME NEW k \in Instances
            PROVE  /\ k \notin sweep'[k].todo
                   /\ sweep'[k].at \in Judging => sweep'[k].of # k
                   /\ sweep'[k].at = "remove" => sweep'[k].of \in named'
        BY <2>a, <3>1, <3>2 DEF SameLife, SameSweeps, Judging, SweepsLock
      <4>3. QED
        BY <4>1, <4>2 DEF SweepsLock
    <3>5. SegmentsHeaded'
      BY <2>a, <3>1, <3>2 DEF SameLife, SameSweeps, Judging, LocksAreMine, SweepsLock, SegmentsHeaded
    <3>6. QED
      BY <3>3, <3>4, <3>5
  <2>11. ASSUME NEW i \in Instances, RemoveFull(i)
        PROVE  LocksAreMine' /\ SweepsLock' /\ SegmentsHeaded'
    <3>1. life[i].at = "rotate" /\ life'[i].at \in {"runs", "stopped"} /\ SameLife(i)
      BY <2>0, <2>11, LifeMoves DEF RemoveFull, SameLife
    <3>2. /\ headed'[i] \in {headed[i], headed[i] \ {life[i].segment - 1}}
          /\ \A k \in Instances \ {i} : headed'[k] = headed[k]
      BY <2>0, <2>11 DEF RemoveFull
    <3>3. life[i].segment \in Nat
      BY <2>0 DEF Life
    <3>4. UNCHANGED <<locks, named, holder, sweep>>
      BY <2>11 DEF RemoveFull
    <3>5. LocksAreMine'
      BY <2>a, <3>1, <3>2, <3>3, <3>4 DEF SameLife, SameSweeps, Judging, LocksAreMine, SweepsLock
    <3>6. SweepsLock'
      <4>1. ASSUME NEW k \in Instances, sweep'[k].at \in {"header", "remove", "drop"}
            PROVE  holder'[sweep'[k].of] = k
        BY <2>a, <3>1, <3>2, <3>3, <3>4, <4>1 DEF SameLife, SameSweeps, Judging, LocksAreMine, SweepsLock
      <4>2. ASSUME NEW k \in Instances
            PROVE  /\ k \notin sweep'[k].todo
                   /\ sweep'[k].at \in Judging => sweep'[k].of # k
                   /\ sweep'[k].at = "remove" => sweep'[k].of \in named'
        BY <2>a, <3>1, <3>2, <3>3, <3>4 DEF SameLife, SameSweeps, Judging, SweepsLock
      <4>3. QED
        BY <4>1, <4>2 DEF SweepsLock
    <3>7. SegmentsHeaded'
      BY <2>a, <3>1, <3>2, <3>3, <3>4 DEF SameLife, SameSweeps, Judging, LocksAreMine, SweepsLock, SegmentsHeaded
    <3>8. QED
      BY <3>5, <3>6, <3>7
  <2>12. ASSUME NEW i \in Instances, End(i)
        PROVE  LocksAreMine' /\ SweepsLock' /\ SegmentsHeaded'
    <3>1. life[i].at # "none" /\ life'[i].at = "ended" /\ SameLife(i)
      BY <2>0, <2>12, LifeMoves DEF End, SameLife
    <3>2. \A k \in Instances : holder[k] # i => holder'[k] = holder[k]
      BY <2>0, <2>12 DEF End
    <3>3. /\ sweep'[i].at = "off" /\ sweep'[i].todo = {}
          /\ \A k \in Instances \ {i} : sweep'[k] = sweep[k]
      BY <2>0, <2>12 DEF End, NoSweep
    <3>4. UNCHANGED <<locks, named, headed>>
      BY <2>12 DEF End
    <3>5. LocksAreMine'
      BY <2>a, <3>1, <3>2, <3>3, <3>4 DEF SameLife, SameSweeps, Judging, LocksAreMine, SweepsLock
    <3>6. SweepsLock'
      <4>1. ASSUME NEW k \in Instances, sweep'[k].at \in {"header", "remove", "drop"}
            PROVE  holder'[sweep'[k].of] = k
        <5>1. k # i
          BY <3>3, <4>1
        <5>2. sweep[k].at \in {"header", "remove", "drop"} /\ sweep'[k].of = sweep[k].of
          BY <3>3, <4>1, <5>1 DEF SameSweeps
        <5>3. sweep[k].of \in Instances /\ holder[sweep[k].of] = k /\ sweep[k].of # k
          BY <2>a, <5>2 DEF Judging, SweepsLock
        <5>4. QED
          BY <3>2, <5>1, <5>2, <5>3
      <4>2. ASSUME NEW k \in Instances
            PROVE  /\ k \notin sweep'[k].todo
                   /\ sweep'[k].at \in Judging => sweep'[k].of # k
                   /\ sweep'[k].at = "remove" => sweep'[k].of \in named'
        BY ZenonT(60), <2>a, <3>1, <3>2, <3>3, <3>4 DEF SameLife, SameSweeps, Judging, SweepsLock
      <4>3. QED
        BY <4>1, <4>2 DEF SweepsLock
    <3>7. SegmentsHeaded'
      BY <2>a, <3>1, <3>2, <3>3, <3>4 DEF SameLife, SameSweeps, Judging, LocksAreMine, SweepsLock, SegmentsHeaded
    <3>8. QED
      BY <3>5, <3>6, <3>7
  <2>13. ASSUME NEW i \in Instances, Look(i)
        PROVE  LocksAreMine' /\ SweepsLock' /\ SegmentsHeaded'
    <3>1. [sweep[i] EXCEPT !.at = "next", !.todo = locks \ {i}, !.found = segments].at = "next" /\
          [sweep[i] EXCEPT !.at = "next", !.todo = locks \ {i}, !.found = segments].todo = locks \ {i}
      BY <2>0 DEF Sweeping
    <3>2. \/ sweep' = [sweep EXCEPT ![i] = [sweep[i] EXCEPT !.at = "next", !.todo = locks \ {i},
                                                               !.found = segments]]
          \/ sweep' = [sweep EXCEPT ![i] = NoSweep]
      BY <2>13 DEF Look
    <3>3. /\ sweep'[i].at \in {"next", "off"} /\ i \notin sweep'[i].todo
          /\ \A k \in Instances \ {i} : sweep'[k] = sweep[k]
      <4>1. CASE sweep' = [sweep EXCEPT ![i] = NoSweep]
        BY <2>0, <4>1 DEF NoSweep
      <4>2. CASE sweep' # [sweep EXCEPT ![i] = NoSweep]
        <5>1. /\ sweep'[i] = [sweep[i] EXCEPT !.at = "next", !.todo = locks \ {i}, !.found = segments]
              /\ \A k \in Instances \ {i} : sweep'[k] = sweep[k]
          BY <2>0, <3>2, <4>2
        <5>2. QED
          BY <3>1, <5>1
      <4>3. QED
        BY <4>1, <4>2
    <3>4. UNCHANGED <<locks, named, headed, holder, life>>
      BY <2>13 DEF Look
    <3>5. LocksAreMine'
      BY <2>a, <3>1, <3>2, <3>3, <3>4 DEF SameLife, SameSweeps, Judging, LocksAreMine, SweepsLock
    <3>6. SweepsLock'
      <4>1. ASSUME NEW k \in Instances, sweep'[k].at \in {"header", "remove", "drop"}
            PROVE  holder'[sweep'[k].of] = k
        BY <2>a, <3>1, <3>2, <3>3, <3>4, <4>1 DEF SameLife, SameSweeps, Judging, LocksAreMine, SweepsLock
      <4>2. ASSUME NEW k \in Instances
            PROVE  /\ k \notin sweep'[k].todo
                   /\ sweep'[k].at \in Judging => sweep'[k].of # k
                   /\ sweep'[k].at = "remove" => sweep'[k].of \in named'
        BY <2>a, <3>1, <3>2, <3>3, <3>4 DEF SameLife, SameSweeps, Judging, SweepsLock
      <4>3. QED
        BY <4>1, <4>2 DEF SweepsLock
    <3>7. SegmentsHeaded'
      BY <2>a, <3>1, <3>2, <3>3, <3>4 DEF SameLife, SameSweeps, Judging, LocksAreMine, SweepsLock, SegmentsHeaded
    <3>8. QED
      BY <3>5, <3>6, <3>7
  <2>14. ASSUME NEW i \in Instances, Judge(i)
        PROVE  LocksAreMine' /\ SweepsLock' /\ SegmentsHeaded'
    <3>1. PICK j \in sweep[i].todo :
            sweep' = [sweep EXCEPT ![i] =
                         [sweep[i] EXCEPT !.of = j, !.todo = sweep[i].todo \ {j}, !.at = "open"]]
      BY <2>14 DEF Judge
    <3>2. \A todo : /\ [sweep[i] EXCEPT !.of = j, !.todo = todo, !.at = "open"].at = "open"
                     /\ [sweep[i] EXCEPT !.of = j, !.todo = todo, !.at = "open"].of = j
                     /\ [sweep[i] EXCEPT !.of = j, !.todo = todo, !.at = "open"].todo = todo
      BY <2>0 DEF Sweeping
    <3>3. /\ sweep'[i].at = "open" /\ sweep'[i].of = j /\ sweep'[i].todo = sweep[i].todo \ {j}
          /\ \A k \in Instances \ {i} : sweep'[k] = sweep[k]
      BY <2>0, <3>1, <3>2
    <3>4. UNCHANGED <<locks, named, headed, holder, life>>
      BY <2>14 DEF Judge
    <3>5. LocksAreMine'
      BY <2>a, <3>1, <3>2, <3>3, <3>4 DEF SameLife, SameSweeps, Judging, LocksAreMine, SweepsLock
    <3>6. SweepsLock'
      <4>1. ASSUME NEW k \in Instances, sweep'[k].at \in {"header", "remove", "drop"}
            PROVE  holder'[sweep'[k].of] = k
        BY <2>a, <3>1, <3>2, <3>3, <3>4, <4>1 DEF SameLife, SameSweeps, Judging, LocksAreMine, SweepsLock
      <4>2. ASSUME NEW k \in Instances
            PROVE  /\ k \notin sweep'[k].todo
                   /\ sweep'[k].at \in Judging => sweep'[k].of # k
                   /\ sweep'[k].at = "remove" => sweep'[k].of \in named'
        BY <2>a, <3>1, <3>2, <3>3, <3>4 DEF SameLife, SameSweeps, Judging, SweepsLock
      <4>3. QED
        BY <4>1, <4>2 DEF SweepsLock
    <3>7. SegmentsHeaded'
      BY <2>a, <3>1, <3>2, <3>3, <3>4 DEF SameLife, SameSweeps, Judging, LocksAreMine, SweepsLock, SegmentsHeaded
    <3>8. QED
      BY <3>5, <3>6, <3>7
  <2>15. ASSUME NEW i \in Instances, SweepEnds(i)
        PROVE  LocksAreMine' /\ SweepsLock' /\ SegmentsHeaded'
    <3>1. /\ sweep'[i].at = "off" /\ sweep'[i].todo = {}
          /\ \A k \in Instances \ {i} : sweep'[k] = sweep[k]
      BY <2>0, <2>15 DEF SweepEnds, NoSweep
    <3>2. UNCHANGED <<locks, named, headed, holder, life>>
      BY <2>15 DEF SweepEnds
    <3>3. LocksAreMine'
      BY <2>a, <3>1, <3>2 DEF SameLife, SameSweeps, Judging, LocksAreMine, SweepsLock
    <3>4. SweepsLock'
      <4>1. ASSUME NEW k \in Instances, sweep'[k].at \in {"header", "remove", "drop"}
            PROVE  holder'[sweep'[k].of] = k
        BY <2>a, <3>1, <3>2, <4>1 DEF SameLife, SameSweeps, Judging, LocksAreMine, SweepsLock
      <4>2. ASSUME NEW k \in Instances
            PROVE  /\ k \notin sweep'[k].todo
                   /\ sweep'[k].at \in Judging => sweep'[k].of # k
                   /\ sweep'[k].at = "remove" => sweep'[k].of \in named'
        BY <2>a, <3>1, <3>2 DEF SameLife, SameSweeps, Judging, SweepsLock
      <4>3. QED
        BY <4>1, <4>2 DEF SweepsLock
    <3>5. SegmentsHeaded'
      BY <2>a, <3>1, <3>2 DEF SameLife, SameSweeps, Judging, LocksAreMine, SweepsLock, SegmentsHeaded
    <3>6. QED
      BY <3>3, <3>4, <3>5
  <2>16. ASSUME NEW i \in Instances, OpenLock(i)
        PROVE  LocksAreMine' /\ SweepsLock' /\ SegmentsHeaded'
    <3>1. sweep[i].at = "open" /\ sweep'[i].at \in {"try", "next"} /\ SameSweeps(i)
      BY <2>0, <2>16, SweepMoves DEF OpenLock, SameSweeps
    <3>2. UNCHANGED <<locks, named, headed, holder, life>>
      BY <2>16 DEF OpenLock
    <3>3. LocksAreMine'
      BY <2>a, <3>1, <3>2 DEF SameLife, SameSweeps, Judging, LocksAreMine, SweepsLock
    <3>4. SweepsLock'
      <4>1. ASSUME NEW k \in Instances, sweep'[k].at \in {"header", "remove", "drop"}
            PROVE  holder'[sweep'[k].of] = k
        BY <2>a, <3>1, <3>2, <4>1 DEF SameLife, SameSweeps, Judging, LocksAreMine, SweepsLock
      <4>2. ASSUME NEW k \in Instances
            PROVE  /\ k \notin sweep'[k].todo
                   /\ sweep'[k].at \in Judging => sweep'[k].of # k
                   /\ sweep'[k].at = "remove" => sweep'[k].of \in named'
        BY <2>a, <3>1, <3>2 DEF SameLife, SameSweeps, Judging, SweepsLock
      <4>3. QED
        BY <4>1, <4>2 DEF SweepsLock
    <3>5. SegmentsHeaded'
      BY <2>a, <3>1, <3>2 DEF SameLife, SameSweeps, Judging, LocksAreMine, SweepsLock, SegmentsHeaded
    <3>6. QED
      BY <3>3, <3>4, <3>5
  <2>17. ASSUME NEW i \in Instances, TryLock(i)
        PROVE  LocksAreMine' /\ SweepsLock' /\ SegmentsHeaded'
    <3>1. sweep[i].at = "try" /\ sweep'[i].at \in {"header", "next"} /\ SameSweeps(i)
      BY <2>0, <2>17, SweepMoves DEF TryLock, SameSweeps
    <3>2. sweep[i].of \in Instances
      BY <2>a, <3>1 DEF Judging
    <3>3. sweep'[i].at = "header" => holder'[sweep[i].of] = i
      BY <2>0, <2>17, <3>1, <3>2, SweepMoves DEF TryLock
    <3>4. \A k \in Instances : holder[k] # 0 => holder'[k] = holder[k]
      BY <2>0, <2>17 DEF TryLock
    <3>5. UNCHANGED <<locks, named, headed, life>>
      BY <2>17 DEF TryLock
    <3>6. LocksAreMine'
      BY <2>a, <3>1, <3>2, <3>3, <3>4, <3>5 DEF SameLife, SameSweeps, Judging, LocksAreMine, SweepsLock
    <3>7. SweepsLock'
      <4>1. ASSUME NEW k \in Instances, sweep'[k].at \in {"header", "remove", "drop"}
            PROVE  holder'[sweep'[k].of] = k
        <5>1. CASE k = i
          BY <3>1, <3>3, <4>1, <5>1 DEF SameSweeps
        <5>2. CASE k # i
          <6>1. sweep[k].at \in {"header", "remove", "drop"} /\ sweep'[k].of = sweep[k].of
            BY <3>1, <4>1, <5>2 DEF SameSweeps
          <6>2. sweep[k].of \in Instances /\ holder[sweep[k].of] = k /\ k # 0
            BY <2>a, <6>1 DEF Judging, SweepsLock
          <6>3. QED
            BY <3>4, <6>1, <6>2
        <5>3. QED
          BY <5>1, <5>2
      <4>2. ASSUME NEW k \in Instances
            PROVE  /\ k \notin sweep'[k].todo
                   /\ sweep'[k].at \in Judging => sweep'[k].of # k
                   /\ sweep'[k].at = "remove" => sweep'[k].of \in named'
        <5>1. sweep'[k].todo = sweep[k].todo /\ sweep'[k].of = sweep[k].of
          BY <3>1 DEF SameSweeps
        <5>2. sweep'[k].at \in Judging => sweep[k].at \in Judging
          BY <3>1 DEF SameSweeps, Judging
        <5>3. sweep'[k].at = "remove" => sweep[k].at = "remove"
          BY <3>1 DEF SameSweeps
        <5>4. QED
          BY <3>5, <5>1, <5>2, <5>3 DEF SweepsLock
      <4>3. QED
        BY <4>1, <4>2 DEF SweepsLock
    <3>8. SegmentsHeaded'
      BY <2>a, <3>1, <3>2, <3>3, <3>4, <3>5 DEF SameLife, SameSweeps, Judging, LocksAreMine, SweepsLock, SegmentsHeaded
    <3>9. QED
      BY <3>6, <3>7, <3>8
  <2>18. ASSUME NEW i \in Instances, ReadHeader(i)
        PROVE  LocksAreMine' /\ SweepsLock' /\ SegmentsHeaded'
    <3>1. sweep[i].at = "header" /\ sweep'[i].at \in {"remove", "drop"} /\ SameSweeps(i)
      <4>1. CASE Sweep(i, "drop")
        BY ZenonT(60), <2>0, <2>18, <4>1, SweepMoves DEF ReadHeader, SameSweeps
      <4>2. CASE ~Sweep(i, "drop")
        <5>1. PICK kept, gone, step : /\ step \in {"drop", "remove"}
                                      /\ sweep' = [sweep EXCEPT ![i].kept = kept, ![i].at = step,
                                             ![i].segments = gone, ![i].removed = TRUE]
          BY <2>18, <4>2 DEF ReadHeader
        <5>2. DEFINE s == [sweep[i] EXCEPT !.kept = kept, !.at = step,
                                           !.segments = gone, !.removed = TRUE]
        <5>3. s.at = step /\ s.of = sweep[i].of /\ s.todo = sweep[i].todo
          BY <2>0 DEF Sweeping
        <5>4. sweep' = [sweep EXCEPT ![i] = s]
          BY <5>1
        <5>5. HIDE DEF s
        <5>6. sweep'[i] = s /\ \A k \in Instances \ {i} : sweep'[k] = sweep[k]
          BY <2>0, <5>4
        <5>7. SameSweeps(i)
          BY <5>3, <5>6 DEF SameSweeps
        <5>8. sweep'[i].at \in {"remove", "drop"} /\ sweep[i].at = "header"
          BY <2>18, <5>1, <5>3, <5>6 DEF ReadHeader
        <5>9. QED
          BY <5>7, <5>8
      <4>3. QED
        BY <4>1, <4>2
    <3>2. sweep'[i].at = "remove" => sweep[i].of \in named
      <4>1. CASE Sweep(i, "drop")
        <5>1. sweep'[i].at = "drop"
          BY <2>0, <4>1, SweepMoves
        <5>2. QED
          BY <5>1
      <4>2. CASE ~Sweep(i, "drop")
        BY <2>18, <4>2 DEF ReadHeader
      <4>3. QED
        BY <4>1, <4>2
    <3>3. UNCHANGED <<locks, named, headed, holder, life>>
      BY <2>18 DEF ReadHeader
    <3>4. LocksAreMine'
      BY <2>a, <3>1, <3>2, <3>3 DEF SameLife, SameSweeps, Judging, LocksAreMine, SweepsLock
    <3>5. SweepsLock'
      <4>1. ASSUME NEW k \in Instances, sweep'[k].at \in {"header", "remove", "drop"}
            PROVE  holder'[sweep'[k].of] = k
        BY <2>a, <3>1, <3>2, <3>3, <4>1 DEF SameLife, SameSweeps, Judging, LocksAreMine, SweepsLock
      <4>2. ASSUME NEW k \in Instances
            PROVE  /\ k \notin sweep'[k].todo
                   /\ sweep'[k].at \in Judging => sweep'[k].of # k
                   /\ sweep'[k].at = "remove" => sweep'[k].of \in named'
        BY <2>a, <3>1, <3>2, <3>3 DEF SameLife, SameSweeps, Judging, SweepsLock
      <4>3. QED
        BY <4>1, <4>2 DEF SweepsLock
    <3>6. SegmentsHeaded'
      BY <2>a, <3>1, <3>2, <3>3 DEF SameLife, SameSweeps, Judging, LocksAreMine, SweepsLock, SegmentsHeaded
    <3>7. QED
      BY <3>4, <3>5, <3>6
  <2>19. ASSUME NEW i \in Instances, RemoveSegment(i)
        PROVE  LocksAreMine' /\ SweepsLock' /\ SegmentsHeaded'
    <3>1. sweep[i].at = "remove" /\ sweep[i].of \in Instances
      BY <2>19, <2>a DEF RemoveSegment, Judging
    <3>2. PICK n, s : /\ s \in {[sweep[i] EXCEPT !.segments = @ \ {n}],
                             [sweep[i] EXCEPT !.segments = @ \ {n}, !.removed = FALSE]}
                    /\ sweep' = [sweep EXCEPT ![i] = s]
      BY <2>19 DEF RemoveSegment
    <3>3. s.at = sweep[i].at /\ s.of = sweep[i].of /\ s.todo = sweep[i].todo
      BY <2>0, <3>2 DEF Sweeping
    <3>4. sweep'[i].at = sweep[i].at /\ SameSweeps(i)
      BY <2>0, <3>2, <3>3 DEF SameSweeps
    <3>5. \A k \in Instances \ {sweep[i].of} : headed'[k] = headed[k]
      BY <2>0, <2>19, <3>1 DEF RemoveSegment
    <3>6. UNCHANGED <<locks, named, holder, life>>
      BY <2>19 DEF RemoveSegment
    <3>7. LocksAreMine'
      BY <2>a, <3>1, <3>2, <3>3, <3>4, <3>5, <3>6 DEF SameLife, SameSweeps, Judging, LocksAreMine, SweepsLock
    <3>8. SweepsLock'
      <4>1. ASSUME NEW k \in Instances, sweep'[k].at \in {"header", "remove", "drop"}
            PROVE  holder'[sweep'[k].of] = k
        BY <2>a, <3>1, <3>2, <3>3, <3>4, <3>5, <3>6, <4>1 DEF SameLife, SameSweeps, Judging, LocksAreMine, SweepsLock
      <4>2. ASSUME NEW k \in Instances
            PROVE  /\ k \notin sweep'[k].todo
                   /\ sweep'[k].at \in Judging => sweep'[k].of # k
                   /\ sweep'[k].at = "remove" => sweep'[k].of \in named'
        BY <2>a, <3>1, <3>2, <3>3, <3>4, <3>5, <3>6 DEF SameLife, SameSweeps, Judging, SweepsLock
      <4>3. QED
        BY <4>1, <4>2 DEF SweepsLock
    <3>9. SegmentsHeaded'
      BY <2>a, <3>1, <3>2, <3>3, <3>4, <3>5, <3>6 DEF SameLife, SameSweeps, Judging, LocksAreMine, SweepsLock, SegmentsHeaded
    <3>10. QED
      BY <3>7, <3>8, <3>9
  <2>20. ASSUME NEW i \in Instances, RemoveLock(i)
        PROVE  LocksAreMine' /\ SweepsLock' /\ SegmentsHeaded'
    <3>1. sweep[i].at = "remove" /\ sweep'[i].at = "drop" /\ SameSweeps(i)
      BY <2>0, <2>20, SweepMoves DEF RemoveLock, SameSweeps
    <3>2. locks \ {sweep[i].of} \subseteq locks'
      BY <2>20 DEF RemoveLock
    <3>3. UNCHANGED <<named, headed, holder, life>>
      BY <2>20 DEF RemoveLock
    <3>4. LocksAreMine'
      BY <2>a, <3>1, <3>2, <3>3 DEF SameLife, SameSweeps, Judging, LocksAreMine, SweepsLock
    <3>5. SweepsLock'
      <4>1. ASSUME NEW k \in Instances, sweep'[k].at \in {"header", "remove", "drop"}
            PROVE  holder'[sweep'[k].of] = k
        BY <2>a, <3>1, <3>2, <3>3, <4>1 DEF SameLife, SameSweeps, Judging, LocksAreMine, SweepsLock
      <4>2. ASSUME NEW k \in Instances
            PROVE  /\ k \notin sweep'[k].todo
                   /\ sweep'[k].at \in Judging => sweep'[k].of # k
                   /\ sweep'[k].at = "remove" => sweep'[k].of \in named'
        BY ZenonT(60), <2>a, <3>1, <3>2, <3>3 DEF SameLife, SameSweeps, Judging, SweepsLock
      <4>3. QED
        BY <4>1, <4>2 DEF SweepsLock
    <3>6. SegmentsHeaded'
      BY <2>a, <3>1, <3>2, <3>3 DEF SameLife, SameSweeps, Judging, LocksAreMine, SweepsLock, SegmentsHeaded
    <3>7. QED
      BY <3>4, <3>5, <3>6
  <2>21. ASSUME NEW i \in Instances, DropLock(i)
        PROVE  LocksAreMine' /\ SweepsLock' /\ SegmentsHeaded'
    <3>1. sweep[i].at = "drop" /\ sweep'[i].at = "next" /\ SameSweeps(i)
      <4>1. sweep[i].at = "drop" /\ Sweep(i, "next")
        BY <2>21 DEF DropLock, Sweeps
      <4>2. \A k \in Instances :
               /\ sweep'[k].at = IF k = i THEN "next" ELSE sweep[k].at
               /\ sweep'[k].of = sweep[k].of
               /\ sweep'[k].todo = sweep[k].todo
        BY <2>0, <4>1, SweepMoves
      <4>3. QED
        BY <4>1, <4>2 DEF SameSweeps
    <3>2. \A k \in Instances : holder[k] # i => holder'[k] = holder[k]
      BY <2>0, <2>21 DEF DropLock
    <3>3. \A k \in Instances : k # sweep[i].of => holder'[k] = holder[k]
      BY <2>0, <2>21 DEF DropLock
    <3>4. UNCHANGED <<locks, named, headed, life>>
      BY <2>21 DEF DropLock
    <3>5. LocksAreMine'
      BY ZenonT(60), <2>a, <3>1, <3>2, <3>3, <3>4 DEF SameLife, SameSweeps, Judging, LocksAreMine, SweepsLock
    <3>6. SweepsLock'
      <4>1. ASSUME NEW k \in Instances, sweep'[k].at \in {"header", "remove", "drop"}
            PROVE  holder'[sweep'[k].of] = k
        <5>1. k # i
          BY <3>1, <4>1
        <5>2. sweep[k].at \in {"header", "remove", "drop"} /\ sweep'[k].of = sweep[k].of
          BY <3>1, <4>1, <5>1 DEF SameSweeps
        <5>3. sweep[k].of \in Instances /\ holder[sweep[k].of] = k /\ sweep[k].of # k
          BY <2>a, <5>2 DEF Judging, SweepsLock
        <5>4. QED
          BY <3>2, <5>1, <5>2, <5>3
      <4>2. ASSUME NEW k \in Instances
            PROVE  /\ k \notin sweep'[k].todo
                   /\ sweep'[k].at \in Judging => sweep'[k].of # k
                   /\ sweep'[k].at = "remove" => sweep'[k].of \in named'
        <5>1. sweep'[k].todo = sweep[k].todo /\ sweep'[k].of = sweep[k].of
          BY <3>1 DEF SameSweeps
        <5>2. sweep'[k].at \in Judging => sweep[k].at \in Judging
          BY <3>1 DEF SameSweeps, Judging
        <5>3. sweep'[k].at = "remove" => sweep[k].at = "remove"
          BY <3>1 DEF SameSweeps
        <5>4. QED
          BY <3>4, <5>1, <5>2, <5>3 DEF SweepsLock
      <4>3. QED
        BY <4>1, <4>2 DEF SweepsLock
    <3>7. SegmentsHeaded'
      BY <2>a, <3>1, <3>2, <3>3, <3>4 DEF SameLife, SameSweeps, Judging, LocksAreMine, SweepsLock, SegmentsHeaded
    <3>8. QED
      BY <3>5, <3>6, <3>7
  <2>22. CASE UNCHANGED vars
    BY <2>22 DEF vars, LocksAreMine, SweepsLock, SegmentsHeaded
  <2>23. QED
    BY <2>1, <2>2, <2>3, <2>4, <2>5, <2>6, <2>7, <2>8, <2>9, <2>10, <2>11,
       <2>12, <2>13, <2>14, <2>15, <2>16, <2>17, <2>18, <2>19, <2>20, <2>21, <2>22 DEF Next
<1>3. QED
  BY <1>1, <1>2, JournalTyped, PTL DEF Spec

(* A journal in use is whole: RunningIsWhole of journal.rs:194-624, for    *)
(* any number of instances and segments.  Its process holds the lock on    *)
(* its lock file, and no sweep removes what it has not locked; so nobody   *)
(* but the process itself removes a segment of it, and that is neither the *)
(* first nor the current one.                                              *)
THEOREM JournalsInUseAreWhole == Spec => []RunningIsWhole
<1>1. TypeOK /\ LocksAreMine /\ SegmentsHeaded => RunningIsWhole
  BY DEF TypeOK, LocksAreMine, SegmentsHeaded, RunningIsWhole, Running, InUse
<1>2. QED
  BY <1>1, JournalLocked, PTL

---------------------------------------------------------------------------
(* What a sweep takes.                                                     *)

\* An instance that a sweep counts as one that has its files.
Counts(k) == segments[k] # {} \/ Unheaded(k)

Newer(k) == {m \in Instances : m > k /\ Counts(m)}

\* How many newer ones count.
Seen(k) == Cardinality(Newer(k))

AtLeast(k, c) == Seen(k) >= c \/ Seen(k) >= Keep

\* The segments a journal makes and writes are there, and only one that has
\* started has any that are headed.
SegmentsThere ==
    \A i \in Instances :
        /\ life[i].at \in InUse => life[i].segment \in segments[i]
        /\ life[i].at \in {"headFirst", "head"} => NextSegment(i) \in segments[i]
        /\ headed[i] # {} => life[i].at \in InUse \cup {"ended"}

\* Only a journal in use sweeps.  What its sweep found of an instance still counts,
\* or as many newer ones as are kept do.  Those it has still to judge are older
\* than the one before it; as many newer ones count as it has kept.
KeptFor(i) ==
    /\ sweep[i].at # "off" => life[i].at \in InUse
    /\ sweep[i].at \in {"off", "look"} => sweep[i].kept = 0
    /\ sweep[i].at \in {"next"} \cup Judging =>
          /\ \A k \in Instances : sweep[i].found[k] # {} => Counts(k) \/ AtLeast(k, Keep)
          /\ \A k \in sweep[i].todo : AtLeast(k, sweep[i].kept)
    /\ sweep[i].at \in Judging => \A k \in sweep[i].todo : k < sweep[i].of
    /\ \A j \in Instances : j = sweep[i].of =>
          /\ sweep[i].at \in {"open", "try", "header"} => AtLeast(j, sweep[i].kept)
          /\ sweep[i].at = "remove" /\ sweep[i].segments # {} => AtLeast(j, Keep)

KeptCount == \A i \in Instances : KeptFor(i)

(* Instances are numbered in the order they were made.                     *)
LEMMA Numbered ==
    /\ \A i \in Instances : i \in Nat /\ ~(i > i)
    /\ \A i, j, k \in Instances : /\ (i > j /\ j > k => i > k)
                                  /\ (i < j) <=> (j > i)
                                  /\ (i <= j) <=> ~(i > j)
                                  /\ ~(i > j) /\ i > k => j > k
                                  /\ i > j => ~(j > i)
OBVIOUS

(* How many are newer is a number.                                         *)
LEMMA SeenIsNat == \A k : Newer(k) \in SUBSET Instances /\ IsFiniteSet(Newer(k)) /\ Seen(k) \in Nat
<1>1. ASSUME NEW k
      PROVE  Newer(k) \in SUBSET Instances /\ IsFiniteSet(Newer(k)) /\ Seen(k) \in Nat
  <2>1. Newer(k) \in SUBSET Instances
    BY DEF Newer
  <2>2. IsFiniteSet(Newer(k))
    BY <2>1, FS_Subset
  <2>3. QED
    BY <2>1, <2>2, FS_CardinalityType DEF Seen
<1>2. QED
  BY <1>1

(* The same in the next state.                                             *)
LEMMA SeenIsNatNext ==
    \A k : Newer(k)' \in SUBSET Instances /\ IsFiniteSet(Newer(k)') /\ Seen(k)' \in Nat
<1>1. ASSUME NEW k
      PROVE  Newer(k)' \in SUBSET Instances /\ IsFiniteSet(Newer(k)') /\ Seen(k)' \in Nat
  <2>1. Newer(k)' \in SUBSET Instances
    BY DEF Newer
  <2>2. IsFiniteSet(Newer(k)')
    BY <2>1, FS_Subset
  <2>3. QED
    BY <2>1, <2>2, FS_CardinalityType DEF Seen
<1>2. QED
  BY <1>1

(* An older instance has as many newer ones, and one more when the newer   *)
(* of the two counts.                                                      *)
LEMMA SeenMore ==
    ASSUME NEW j \in Instances, NEW k \in Instances, k < j
    PROVE  Seen(k) >= Seen(j) /\ (Counts(j) => Seen(k) >= Seen(j) + 1)
<1>0. \A m \in Instances : m > j => m > k
  BY Numbered
<1>1. Newer(j) \in SUBSET Newer(k) /\ j \notin Newer(j)
  BY <1>0, Numbered DEF Newer
<1>2. Seen(k) >= Seen(j)
  BY <1>1, SeenIsNat, FS_Subset DEF Seen
<1>3. ASSUME Counts(j)
      PROVE  Seen(k) >= Seen(j) + 1
  <2>1. Newer(j) \cup {j} \in SUBSET Newer(k)
    BY <1>1, <1>3, Numbered DEF Newer
  <2>2. Cardinality(Newer(j) \cup {j}) = Seen(j) + 1
    BY <1>1, SeenIsNat, FS_AddElement DEF Seen
  <2>3. Cardinality(Newer(j) \cup {j}) <= Cardinality(Newer(k))
    BY <2>1, SeenIsNat, FS_Subset
  <2>4. QED
    BY <2>2, <2>3, SeenIsNat DEF Seen
<1>4. QED
  BY <1>2, <1>3

\* As many newer ones still count, or as many as are kept; and so does what counted.
StillSeen ==
    \A k \in Instances : /\ Seen(k)' >= Seen(k) \/ Seen(k)' >= Keep
                         /\ Counts(k) => Counts(k)' \/ Seen(k)' >= Keep

(* A step that takes nothing.                                              *)
LEMMA TakesNone ==
    ASSUME \A k \in Instances : Counts(k) => Counts(k)'
    PROVE  StillSeen
<1>1. ASSUME NEW k \in Instances
      PROVE  Seen(k)' >= Seen(k)
  <2>1. Newer(k) \in SUBSET (Newer(k)')
    BY DEF Newer
  <2>2. QED
    BY <2>1, SeenIsNat, SeenIsNatNext, FS_Subset DEF Seen
<1>2. QED
  BY <1>1 DEF StillSeen

(* A step that takes something of one that has as many newer ones as are   *)
(* kept: the older ones have those too.                                    *)
LEMMA TakesOne ==
    ASSUME NEW m \in Instances, Seen(m) >= Keep,
           \A k \in Instances \ {m} : Counts(k) => Counts(k)'
    PROVE  StillSeen
<1>1. Newer(m) \in SUBSET (Newer(m)')
  <2>1. m \notin Newer(m)
    BY Numbered DEF Newer
  <2>2. QED
    BY <2>1 DEF Newer
<1>2. Seen(m)' >= Keep
  BY <1>1, SeenIsNat, SeenIsNatNext, FS_Subset DEF Seen
<1>3. ASSUME NEW k \in Instances
      PROVE  Seen(k)' >= Seen(k) \/ Seen(k)' >= Keep
  <2>1. CASE m <= k
    <3>1. m \notin Newer(k)
      BY <2>1, Numbered DEF Newer
    <3>2. Newer(k) \in SUBSET (Newer(k)')
      BY <3>1 DEF Newer
    <3>3. QED
      BY <3>2, SeenIsNat, SeenIsNatNext, FS_Subset DEF Seen
  <2>2. CASE ~(m <= k)
    <3>1. \A n \in Instances : n > m => n > k
      BY <2>2, Numbered
    <3>2. Newer(m)' \in SUBSET (Newer(k)')
      BY <3>1 DEF Newer
    <3>3. Seen(k)' >= Seen(m)'
      BY <3>2, SeenIsNatNext, FS_Subset DEF Seen
    <3>4. QED
      BY <1>2, <3>3, SeenIsNatNext
  <2>3. QED
    BY <2>1, <2>2
<1>4. QED
  BY <1>2, <1>3 DEF StillSeen

\* A life that makes no segment and heads none goes on.
GoesOn(k) ==
    /\ life'[k].segment = life[k].segment
    /\ life'[k].at \in InUse => life[k].at \in InUse
    /\ life'[k].at \in {"headFirst", "head"} => life[k].at = life'[k].at
    /\ life[k].at \in InUse \cup {"ended"} => life'[k].at \in InUse \cup {"ended"}
    /\ life[k].at \in {"failed", "ended"} => life'[k].at \in {"failed", "ended"}

\* Who uses its journal goes on using it, or ends with its sweep.
StaysInUse(k) == life[k].at \in InUse => life'[k].at \in InUse \/ sweep'[k].at = "off"

(* A step that touches no segment.                                         *)
LEMMA NoSegmentTouched ==
    ASSUME SegmentsThere, UNCHANGED <<segments, headed>>, \A k \in Instances : GoesOn(k)
    PROVE  SegmentsThere' /\ StillSeen
<1>1. SegmentsThere'
  <2>1. ASSUME NEW k \in Instances
        PROVE  /\ life'[k].at \in InUse => life'[k].segment \in segments'[k]
               /\ life'[k].at \in {"headFirst", "head"} => life'[k].segment + 1 \in segments'[k]
               /\ headed'[k] # {} => life'[k].at \in InUse \cup {"ended"}
    BY DEF SegmentsThere, GoesOn, NextSegment
  <2>2. QED
    BY <2>1 DEF SegmentsThere, NextSegment
<1>2. \A k \in Instances : Counts(k) => Counts(k)'
  BY DEF Counts, Unheaded, GoesOn
<1>3. QED
  BY <1>1, <1>2, TakesNone

(* The steps of a life that touch no segment.                              *)
LEMMA LifeGoesOn ==
    ASSUME TypeOK, NEW i \in Instances,
           \/ Create(i) \/ (\E j \in Instances : CreateAgain(i, j))
           \/ Lock(i) \/ StartFails(i) \/ Name(i) \/ Abandon(i) \/ Append(i) \/ End(i)
    PROVE  /\ UNCHANGED <<segments, headed>>
           /\ \A k \in Instances : GoesOn(k) /\ StaysInUse(k)
<1>0. life \in [Instances -> Life] /\ sweep \in [Instances -> Sweeping]
  BY DEF TypeOK
<1>1. UNCHANGED <<segments, headed>>
  BY DEF Create, CreateAgain, Lock, StartFails, Name, Abandon, Append, End, files
<1>2. ASSUME Create(i)
      PROVE  \A k \in Instances : GoesOn(k) /\ StaysInUse(k)
  <2>1. life' = [life EXCEPT ![i] = [life[i] EXCEPT !.at = "lock", !.try = 1]]
    BY <1>2 DEF Create
  <2>2. /\ life[i].at = "none" /\ life'[i].at = "lock" /\ life'[i].segment = life[i].segment
        /\ \A k \in Instances \ {i} : life'[k] = life[k]
    BY <1>0, <1>2, <2>1, LifeCreated DEF Create, Fresh, At
  <2>3. QED
    BY <2>2 DEF GoesOn, StaysInUse, InUse
<1>3. ASSUME NEW j \in Instances, CreateAgain(i, j)
      PROVE  \A k \in Instances : GoesOn(k) /\ StaysInUse(k)
  <2>1. i # j /\ life[i].at = "again" /\ life[j].at = "none"
    BY <1>3 DEF CreateAgain, Fresh, At
  <2>2. life' = [[life EXCEPT ![i] = [life[i] EXCEPT !.at = "ended"]]
                 EXCEPT ![j] = [life[j] EXCEPT !.at = "lock", !.try = life[i].try + 1]]
    BY <1>3, <2>1 DEF CreateAgain
  <2>3. /\ life'[i] = [life[i] EXCEPT !.at = "ended"]
        /\ life'[j] = [life[j] EXCEPT !.at = "lock", !.try = life[i].try + 1]
        /\ \A k \in Instances \ {i, j} : life'[k] = life[k]
    BY <1>0, <2>1, <2>2
  <2>4. life'[i].at = "ended" /\ life'[i].segment = life[i].segment
    BY <1>0, <2>3 DEF Life
  <2>5. life'[j].at = "lock" /\ life'[j].segment = life[j].segment
    BY <1>0, <2>3, LifeCreated
  <2>6. QED
    BY <2>1, <2>3, <2>4, <2>5 DEF GoesOn, StaysInUse, InUse
<1>4. ASSUME Lock(i)
      PROVE  \A k \in Instances : GoesOn(k) /\ StaysInUse(k)
  <2>1. life[i].at \in {"lock"} /\ life'[i].at \in {"name", "taken"}
    BY <1>0, <1>4, LifeMoves DEF Lock, At
  <2>2. \A k \in Instances : /\ k # i => life'[k].at = life[k].at
                             /\ life'[k].segment = life[k].segment
    BY <1>0, <1>4, LifeMoves DEF Lock
  <2>3. QED
    BY <2>1, <2>2 DEF GoesOn, StaysInUse, InUse
<1>5. ASSUME StartFails(i)
      PROVE  \A k \in Instances : GoesOn(k) /\ StaysInUse(k)
  <2>1. life[i].at \in {"lock", "name", "first"} /\ life'[i].at \in {"failed"}
    BY <1>0, <1>5, LifeMoves DEF StartFails, At
  <2>2. \A k \in Instances : /\ k # i => life'[k].at = life[k].at
                             /\ life'[k].segment = life[k].segment
    BY <1>0, <1>5, LifeMoves DEF StartFails
  <2>3. QED
    BY <2>1, <2>2 DEF GoesOn, StaysInUse, InUse
<1>6. ASSUME Name(i)
      PROVE  \A k \in Instances : GoesOn(k) /\ StaysInUse(k)
  <2>1. life[i].at \in {"name"} /\ life'[i].at \in {"first"}
    BY <1>0, <1>6, LifeMoves DEF Name, At
  <2>2. \A k \in Instances : /\ k # i => life'[k].at = life[k].at
                             /\ life'[k].segment = life[k].segment
    BY <1>0, <1>6, LifeMoves DEF Name
  <2>3. QED
    BY <2>1, <2>2 DEF GoesOn, StaysInUse, InUse
<1>7. ASSUME Abandon(i)
      PROVE  \A k \in Instances : GoesOn(k) /\ StaysInUse(k)
  <2>1. /\ life[i].at \in {"taken", "failed"} /\ life'[i].at \in {"again", "ended"}
        /\ life[i].at = "failed" => life'[i].at = "ended"
    BY <1>0, <1>7, LifeMoves DEF Abandon, At
  <2>2. \A k \in Instances : /\ k # i => life'[k].at = life[k].at
                             /\ life'[k].segment = life[k].segment
    BY <1>0, <1>7, LifeMoves DEF Abandon
  <2>3. QED
    BY <2>1, <2>2 DEF GoesOn, StaysInUse, InUse
<1>8. ASSUME Append(i)
      PROVE  \A k \in Instances : GoesOn(k) /\ StaysInUse(k)
  <2>1. life[i].at \in {"runs"} /\ life'[i].at \in {"full", "stopped"}
    BY <1>0, <1>8, LifeMoves DEF Append, At
  <2>2. \A k \in Instances : /\ k # i => life'[k].at = life[k].at
                             /\ life'[k].segment = life[k].segment
    BY <1>0, <1>8, LifeMoves DEF Append
  <2>3. QED
    BY <2>1, <2>2 DEF GoesOn, StaysInUse, InUse
<1>9. ASSUME End(i)
      PROVE  \A k \in Instances : GoesOn(k) /\ StaysInUse(k)
  <2>1. life[i].at # "none" /\ life'[i].at = "ended" /\ sweep'[i].at = "off"
    BY <1>0, <1>9, LifeMoves DEF End, NoSweep
  <2>2. \A k \in Instances : /\ k # i => life'[k].at = life[k].at
                             /\ life'[k].segment = life[k].segment
    BY <1>0, <1>9, LifeMoves DEF End
  <2>3. QED
    BY <2>1, <2>2 DEF GoesOn, StaysInUse, InUse
<1>10. QED
  BY <1>1, <1>2, <1>3, <1>4, <1>5, <1>6, <1>7, <1>8, <1>9

(* The steps of a sweep that remove nothing.                               *)
LEMMA SweepGoesOn ==
    ASSUME NEW i \in Instances,
           \/ Look(i) \/ Judge(i) \/ SweepEnds(i) \/ OpenLock(i) \/ TryLock(i)
           \/ ReadHeader(i) \/ RemoveLock(i) \/ DropLock(i)
    PROVE  UNCHANGED <<segments, headed, life>>
BY DEF Look, Judge, SweepEnds, OpenLock, TryLock, ReadHeader, RemoveLock, DropLock, files

\* What a sweep takes, it takes of one that is not in use, and that has as many
\* newer ones as are kept.
TakesRightly ==
    \A j \in Instances :
        (\E n \in headed[j] : n \notin headed'[j]) /\ life'[j] = life[j] =>
            At(j, "ended") /\ Seen(j) >= Keep

(* What every step keeps of the segments, of who counts and of who sweeps. *)
LEMMA SegmentsStay ==
    ASSUME TypeOK, LocksAreMine, SweepsLock, SegmentsHeaded, SegmentsThere, KeptCount, [Next]_vars
    PROVE  /\ SegmentsThere' /\ StillSeen /\ TakesRightly
           /\ \A k \in Instances : StaysInUse(k)
<1> DEFINE StillRight == /\ SegmentsThere' /\ StillSeen /\ TakesRightly
                   /\ \A k \in Instances : StaysInUse(k)
<1> HIDE DEF StillRight
<1>0. /\ life \in [Instances -> Life] /\ sweep \in [Instances -> Sweeping]
      /\ segments \in [Instances -> SUBSET Segments] /\ headed \in [Instances -> SUBSET Nat]
      /\ \A k \in Instances : life[k].segment \in Nat
      /\ \A k \in Instances : sweep[k].at \in Judging => sweep[k].of \in Instances
  BY DEF TypeOK, Judged, Life
<1>1. ASSUME UNCHANGED <<segments, headed>>, \A k \in Instances : GoesOn(k) /\ StaysInUse(k)
      PROVE  StillRight
  <2>1. SegmentsThere' /\ StillSeen
    BY <1>1, NoSegmentTouched
  <2>2. TakesRightly
    BY <1>1 DEF TakesRightly
  <2>3. QED
    BY <1>1, <2>1, <2>2 DEF StillRight
<1>2. ASSUME UNCHANGED <<segments, headed, life>>
      PROVE  StillRight
  BY <1>1, <1>2 DEF GoesOn, StaysInUse
<1>3. ASSUME NEW i \in Instances, NewSegment(i)
      PROVE  StillRight
  <2>1. /\ \/ life[i].at = "first" /\ life'[i].at = "headFirst"
           \/ life[i].at = "full" /\ life'[i].at = "head"
        /\ \A k \in Instances : /\ k # i => life'[k].at = life[k].at
                                /\ life'[k].segment = life[k].segment
    <3>1. CASE life[i].at = "first"
      BY <1>0, <1>3, <3>1, LifeMoves DEF NewSegment, At
    <3>2. CASE life[i].at # "first"
      <4>1. Goto(i, "head") /\ life[i].at = "full"
        BY <1>3, <3>2 DEF NewSegment, At
      <4>2. QED
        BY <1>0, <4>1, LifeMoves
    <3>3. QED
      BY <3>1, <3>2
  <2>2. /\ segments'[i] = segments[i] \cup {life[i].segment + 1}
        /\ \A k \in Instances \ {i} : segments'[k] = segments[k]
        /\ headed' = headed /\ sweep' = sweep
    BY <1>0, <1>3 DEF NewSegment, NextSegment
  <2>3. SegmentsThere'
    <3>1. ASSUME NEW k \in Instances
          PROVE  /\ life'[k].at \in InUse => life'[k].segment \in segments'[k]
                 /\ life'[k].at \in {"headFirst", "head"} => life'[k].segment + 1 \in segments'[k]
                 /\ headed'[k] # {} => life'[k].at \in InUse \cup {"ended"}
      BY <2>1, <2>2 DEF SegmentsThere, NextSegment, InUse
    <3>2. QED
      BY <3>1 DEF SegmentsThere, NextSegment
  <2>4. \A k \in Instances : Counts(k) => Counts(k)'
    BY <2>1, <2>2 DEF Counts, Unheaded
  <2>5. TakesRightly /\ \A k \in Instances : StaysInUse(k)
    BY <2>1, <2>2 DEF TakesRightly, StaysInUse, InUse
  <2>6. QED
    BY <2>3, <2>4, <2>5, TakesNone DEF StillRight
<1>4. ASSUME NEW i \in Instances, HeadSegment(i)
      PROVE  StillRight
  <2>1. PICK step : /\ step = IF life[i].at = "head" /\ life[i].segment # 1 THEN "rotate" ELSE "runs"
                    /\ life' = [life EXCEPT ![i] = [life[i] EXCEPT !.segment = life[i].segment + 1,
                                                                   !.at = step]]
    BY <1>4 DEF HeadSegment
  <2>2. /\ [life[i] EXCEPT !.segment = life[i].segment + 1, !.at = step].at = step
        /\ [life[i] EXCEPT !.segment = life[i].segment + 1, !.at = step].segment
             = life[i].segment + 1
    BY <1>0 DEF Life
  <2>3. /\ life[i].at \in {"headFirst", "head"}
        /\ life'[i].at \in {"rotate", "runs"} /\ life'[i].segment = life[i].segment + 1
        /\ \A k \in Instances \ {i} : life'[k] = life[k]
    BY <1>0, <1>4, <2>1, <2>2 DEF HeadSegment, At
  <2>4. /\ headed'[i] = headed[i] \cup {life[i].segment + 1}
        /\ \A k \in Instances \ {i} : headed'[k] = headed[k]
        /\ segments' = segments
    BY <1>0, <1>4 DEF HeadSegment, NextSegment
  <2>5. SegmentsThere'
    <3>1. ASSUME NEW k \in Instances
          PROVE  /\ life'[k].at \in InUse => life'[k].segment \in segments'[k]
                 /\ life'[k].at \in {"headFirst", "head"} => life'[k].segment + 1 \in segments'[k]
                 /\ headed'[k] # {} => life'[k].at \in InUse \cup {"ended"}
      BY <2>3, <2>4 DEF SegmentsThere, NextSegment, InUse
    <3>2. QED
      BY <3>1 DEF SegmentsThere, NextSegment
  <2>6. \A k \in Instances : Counts(k) => Counts(k)'
    BY <2>3, <2>4 DEF Counts, Unheaded
  <2>7. TakesRightly /\ \A k \in Instances : StaysInUse(k)
    BY <2>3, <2>4 DEF TakesRightly, StaysInUse, InUse
  <2>8. QED
    BY <2>5, <2>6, <2>7, TakesNone DEF StillRight
<1>5. ASSUME NEW i \in Instances, HeadFails(i)
      PROVE  StillRight
  <2>1. /\ \/ life[i].at = "headFirst" /\ life'[i].at = "failed"
           \/ life[i].at = "head" /\ life'[i].at = "stopped"
        /\ \A k \in Instances : /\ k # i => life'[k].at = life[k].at
                                /\ life'[k].segment = life[k].segment
    <3>1. CASE life[i].at = "headFirst"
      BY <1>0, <1>5, <3>1, LifeMoves DEF HeadFails, At
    <3>2. CASE life[i].at # "headFirst"
      <4>1. Goto(i, "stopped") /\ life[i].at = "head"
        BY <1>5, <3>2 DEF HeadFails, At
      <4>2. QED
        BY <1>0, <4>1, LifeMoves
    <3>3. QED
      BY <3>1, <3>2
  <2>2. /\ segments[i] \ {life[i].segment + 1} \subseteq segments'[i]
        /\ \A k \in Instances \ {i} : segments'[k] = segments[k]
        /\ headed' = headed /\ sweep' = sweep
    BY <1>0, <1>5 DEF HeadFails, NextSegment
  <2>3. /\ life[i].at = "headFirst" => life[i].segment = 0
        /\ life[i].at = "head" => life[i].segment \in segments'[i]
    <3>1. life[i].at = "headFirst" => life[i].segment = 0
      BY DEF SegmentsHeaded
    <3>2. ASSUME life[i].at = "head"
          PROVE  life[i].segment \in segments'[i]
      <4>1. life[i].segment \in segments[i] /\ life[i].segment \in Nat
        BY <1>0, <3>2 DEF SegmentsThere, InUse
      <4>2. life[i].segment # life[i].segment + 1
        BY <4>1
      <4>3. QED
        BY <2>2, <4>1, <4>2
    <3>3. QED
      BY <3>1, <3>2
  <2>4. headed[i] # {} => life[i].at = "head"
    BY <2>1 DEF SegmentsThere, InUse
  <2>5. SegmentsThere'
    <3>1. ASSUME NEW k \in Instances
          PROVE  /\ life'[k].at \in InUse => life'[k].segment \in segments'[k]
                 /\ life'[k].at \in {"headFirst", "head"} => life'[k].segment + 1 \in segments'[k]
                 /\ headed'[k] # {} => life'[k].at \in InUse \cup {"ended"}
      BY <2>1, <2>2, <2>3, <2>4 DEF SegmentsThere, NextSegment, InUse
    <3>2. QED
      BY <3>1 DEF SegmentsThere, NextSegment
  <2>6. \A k \in Instances : Counts(k) => Counts(k)'
    BY <2>1, <2>2, <2>3 DEF Counts, Unheaded
  <2>7. TakesRightly /\ \A k \in Instances : StaysInUse(k)
    BY <2>1, <2>2 DEF TakesRightly, StaysInUse, InUse
  <2>8. QED
    BY <2>5, <2>6, <2>7, TakesNone DEF StillRight
<1>6. ASSUME NEW i \in Instances, RemoveFull(i)
      PROVE  StillRight
  <2>1. /\ life[i].at = "rotate" /\ life'[i].at \in {"runs", "stopped"}
        /\ \A k \in Instances : /\ k # i => life'[k].at = life[k].at
                                /\ life'[k].segment = life[k].segment
    BY ZenonT(60), <1>0, <1>6, LifeMoves DEF RemoveFull, At
  <2>2. /\ segments[i] \ {life[i].segment - 1} \subseteq segments'[i]
        /\ \A k \in Instances \ {i} : segments'[k] = segments[k] /\ headed'[k] = headed[k]
        /\ sweep' = sweep
    BY <1>0, <1>6 DEF RemoveFull
  <2>3. life[i].segment \in segments'[i]
    <3>1. life[i].segment \in segments[i]
      BY <2>1 DEF SegmentsThere, InUse
    <3>2. life[i].segment # life[i].segment - 1
      BY <1>0
    <3>3. QED
      BY <2>2, <3>1, <3>2
  <2>4. SegmentsThere'
    <3>1. ASSUME NEW k \in Instances
          PROVE  /\ life'[k].at \in InUse => life'[k].segment \in segments'[k]
                 /\ life'[k].at \in {"headFirst", "head"} => life'[k].segment + 1 \in segments'[k]
                 /\ headed'[k] # {} => life'[k].at \in InUse \cup {"ended"}
      BY <2>1, <2>2, <2>3 DEF SegmentsThere, NextSegment, InUse
    <3>2. QED
      BY <3>1 DEF SegmentsThere, NextSegment
  <2>5. \A k \in Instances : Counts(k) => Counts(k)'
    BY <2>1, <2>2, <2>3 DEF Counts, Unheaded
  <2>6. TakesRightly /\ \A k \in Instances : StaysInUse(k)
    BY <2>1, <2>2 DEF TakesRightly, StaysInUse, InUse
  <2>7. QED
    BY <2>4, <2>5, <2>6, TakesNone DEF StillRight
<1>7. ASSUME NEW i \in Instances, RemoveSegment(i)
      PROVE  StillRight
  <2> DEFINE j == sweep[i].of
  <2>1. /\ sweep[i].at = "remove" /\ sweep[i].segments # {} /\ j \in Instances
        /\ UNCHANGED <<locks, named, holder, life>>
    BY <1>0, <1>7 DEF RemoveSegment, Sweeps, Judging
  <2>2. /\ \A k \in Instances \ {j} : segments'[k] = segments[k] /\ headed'[k] = headed[k]
        /\ headed'[j] \subseteq headed[j]
    BY <1>0, <1>7, <2>1 DEF RemoveSegment
  <2>3. /\ j # i /\ holder[j] = i
        /\ life[j].at \notin {"headFirst"} \cup InUse
    BY <2>1 DEF SweepsLock, LocksAreMine, Judging
  <2>4. Seen(j) >= Keep
    BY <2>1 DEF KeptCount, KeptFor, AtLeast
  <2> HIDE DEF j
  <2>5. SegmentsThere'
    <3>1. ASSUME NEW k \in Instances
          PROVE  /\ life'[k].at \in InUse => life'[k].segment \in segments'[k]
                 /\ life'[k].at \in {"headFirst", "head"} => life'[k].segment + 1 \in segments'[k]
                 /\ headed'[k] # {} => life'[k].at \in InUse \cup {"ended"}
      BY <2>1, <2>2, <2>3 DEF SegmentsThere, NextSegment, InUse
    <3>2. QED
      BY <3>1 DEF SegmentsThere, NextSegment
  <2>6. \A k \in Instances \ {j} : Counts(k) => Counts(k)'
    BY <2>1, <2>2 DEF Counts, Unheaded
  <2>7. TakesRightly
    <3>1. ASSUME NEW k \in Instances, NEW n \in headed[k], n \notin headed'[k]
          PROVE  At(k, "ended") /\ Seen(k) >= Keep
      <4>1. k = j
        BY <2>2, <3>1
      <4>2. life[k].at \in InUse \cup {"ended"}
        BY <3>1 DEF SegmentsThere
      <4>3. QED
        BY <2>3, <2>4, <4>1, <4>2 DEF At
    <3>2. QED
      BY <3>1 DEF TakesRightly
  <2>8. StillSeen
    BY <2>1, <2>4, <2>6, TakesOne
  <2>9. \A k \in Instances : StaysInUse(k)
    BY <2>1 DEF StaysInUse
  <2>10. QED
    BY <2>5, <2>7, <2>8, <2>9 DEF StillRight
<1>8. ASSUME NEW i \in Instances,
             \/ Create(i) \/ (\E j \in Instances : CreateAgain(i, j))
             \/ Lock(i) \/ StartFails(i) \/ Name(i) \/ Abandon(i) \/ Append(i) \/ End(i)
      PROVE  StillRight
  BY <1>1, <1>8, LifeGoesOn
<1>9. ASSUME NEW i \in Instances,
             \/ Look(i) \/ Judge(i) \/ SweepEnds(i) \/ OpenLock(i) \/ TryLock(i)
             \/ ReadHeader(i) \/ RemoveLock(i) \/ DropLock(i)
      PROVE  StillRight
  <2>1. UNCHANGED <<segments, headed, life>>
    BY <1>9, SweepGoesOn
  <2>2. QED
    BY <1>2, <2>1
<1>10. ASSUME UNCHANGED vars
       PROVE  StillRight
  BY <1>2, <1>10 DEF vars
<1>11. StillRight
  BY <1>3, <1>4, <1>5, <1>6, <1>7, <1>8, <1>9, <1>10 DEF Next
<1>12. QED
  BY <1>11 DEF StillRight

(* A number of newer ones that was enough still is.                        *)
LEMMA EnoughStill ==
    ASSUME StillSeen
    PROVE  /\ \A k \in Instances, c \in Nat :
                 Seen(k) >= c \/ Seen(k) >= Keep => Seen(k)' >= c \/ Seen(k)' >= Keep
           /\ \A k \in Instances : Counts(k) \/ Seen(k) >= Keep => Counts(k)' \/ Seen(k)' >= Keep
<1>1. \A k : Seen(k) \in Nat /\ Seen(k)' \in Nat
  BY SeenIsNat, SeenIsNatNext
<1>2. QED
  BY <1>1 DEF StillSeen

(* A sweep that stays where it is, or goes on without counting anything.   *)
LEMMA SweepKeeps ==
    ASSUME TypeOK, StillSeen, NEW i \in Instances, KeptFor(i), StaysInUse(i),
           sweep'[i].todo = sweep[i].todo, sweep'[i].found = sweep[i].found,
           sweep'[i].kept = sweep[i].kept, sweep'[i].of = sweep[i].of,
           sweep'[i].segments \subseteq sweep[i].segments,
           sweep'[i].at # "off" => sweep[i].at # "off",
           sweep'[i].at \in {"off", "look"} => sweep[i].at \in {"off", "look"},
           sweep'[i].at \in {"next"} \cup Judging => sweep[i].at \in {"next"} \cup Judging,
           sweep'[i].at \in Judging => sweep[i].at \in Judging,
           sweep'[i].at \in {"open", "try", "header"} => sweep[i].at \in {"open", "try", "header"},
           sweep'[i].at = "remove" => sweep[i].at = "remove"
    PROVE  KeptFor(i)'
<1>1. sweep[i].kept \in Nat /\ sweep[i].todo \subseteq Instances /\ Keep \in Nat
  BY DEF TypeOK, Sweeping
<1>2. sweep'[i].at # "off" => life'[i].at \in InUse
  BY DEF KeptFor, StaysInUse
<1>3. sweep'[i].at \in {"off", "look"} => sweep'[i].kept = 0
  BY DEF KeptFor
<1>4. ASSUME NEW k \in Instances, sweep'[i].at \in {"next"} \cup Judging, sweep'[i].found[k] # {}
      PROVE  Counts(k)' \/ Seen(k)' >= Keep
  <2>1. Counts(k) \/ Seen(k) >= Keep
    BY <1>4 DEF KeptFor, AtLeast
  <2>2. QED
    BY <2>1, EnoughStill
<1>5. ASSUME NEW k \in sweep'[i].todo, sweep'[i].at \in {"next"} \cup Judging
      PROVE  Seen(k)' >= sweep'[i].kept \/ Seen(k)' >= Keep
  <2>1. Seen(k) >= sweep[i].kept \/ Seen(k) >= Keep
    BY <1>5 DEF KeptFor, AtLeast
  <2>2. QED
    BY <1>1, <1>5, <2>1, EnoughStill
<1>6. sweep'[i].at \in Judging => \A k \in sweep'[i].todo : k < sweep'[i].of
  BY DEF KeptFor
<1>7. ASSUME NEW j \in Instances, j = sweep'[i].of
      PROVE  /\ sweep'[i].at \in {"open", "try", "header"} =>
                   Seen(j)' >= sweep'[i].kept \/ Seen(j)' >= Keep
             /\ sweep'[i].at = "remove" /\ sweep'[i].segments # {} => Seen(j)' >= Keep
  <2>1. /\ sweep'[i].at \in {"open", "try", "header"} =>
                 Seen(j) >= sweep[i].kept \/ Seen(j) >= Keep
        /\ sweep'[i].at = "remove" /\ sweep'[i].segments # {} => Seen(j) >= Keep
    BY <1>7 DEF KeptFor, AtLeast
  <2>2. QED
    BY <1>1, <2>1, EnoughStill
<1>8. QED
  BY <1>2, <1>3, <1>4, <1>5, <1>6, <1>7 DEF KeptFor, AtLeast

(* What Sweep leaves alone.                                                *)
LEMMA SweepLeaves ==
    ASSUME sweep \in [Instances -> Sweeping], NEW i \in Instances, NEW step, Sweep(i, step)
    PROVE  /\ \A k \in Instances \ {i} : sweep'[k] = sweep[k]
           /\ sweep'[i].at = step /\ sweep'[i].of = sweep[i].of /\ sweep'[i].todo = sweep[i].todo
           /\ sweep'[i].found = sweep[i].found /\ sweep'[i].kept = sweep[i].kept
           /\ sweep'[i].segments = sweep[i].segments
BY DEF Sweep, Sweeping

(* A sweep that is over, or has not begun.                                 *)
LEMMA NoSweepKeeps ==
    ASSUME NEW i \in Instances, sweep'[i] = NoSweep
    PROVE  KeptFor(i)'
<1>1. sweep'[i].at = "off" /\ sweep'[i].kept = 0
  BY DEF NoSweep
<1>2. QED
  BY <1>1 DEF KeptFor, Judging

(* The sweep goes to the next instance without counting one.               *)
LEMMA GoesOnKeeps ==
    ASSUME TypeOK, StillSeen, NEW i \in Instances, KeptFor(i), StaysInUse(i),
           OpenLock(i) \/ TryLock(i) \/ RemoveLock(i) \/ DropLock(i)
             \/ (Sweeps(i, "header") /\ Sweep(i, "drop"))
    PROVE  /\ KeptFor(i)'
           /\ \A k \in Instances \ {i} : sweep'[k] = sweep[k]
<1>0. sweep \in [Instances -> Sweeping]
  BY DEF TypeOK
<1>1. PICK step \in {"try", "next", "header", "drop"} :
         /\ Sweep(i, step)
         /\ step = "try" => sweep[i].at = "open"
         /\ step = "header" => sweep[i].at = "try"
         /\ sweep[i].at \in Judging
  BY DEF OpenLock, TryLock, RemoveLock, DropLock, Sweeps, Judging
<1>2. /\ \A k \in Instances \ {i} : sweep'[k] = sweep[k]
      /\ sweep'[i].at = step /\ sweep'[i].of = sweep[i].of /\ sweep'[i].todo = sweep[i].todo
      /\ sweep'[i].found = sweep[i].found /\ sweep'[i].kept = sweep[i].kept
      /\ sweep'[i].segments = sweep[i].segments
  BY <1>0, <1>1, SweepLeaves
<1>3. KeptFor(i)'
  BY <1>1, <1>2, SweepKeeps DEF Judging
<1>4. QED
  BY <1>2, <1>3

(* What the folder shows of an instance counts at that moment.             *)
LEMMA LookKeeps ==
    ASSUME TypeOK, StillSeen, NEW i \in Instances, KeptFor(i), StaysInUse(i), Look(i)
    PROVE  /\ KeptFor(i)'
           /\ \A k \in Instances \ {i} : sweep'[k] = sweep[k]
<1>0. sweep \in [Instances -> Sweeping] /\ locks \subseteq Instances
  BY DEF TypeOK
<1>1. CASE sweep' = [sweep EXCEPT ![i] = NoSweep]
  <2>1. sweep'[i] = NoSweep /\ \A k \in Instances \ {i} : sweep'[k] = sweep[k]
    BY <1>0, <1>1
  <2>2. QED
    BY <2>1, NoSweepKeeps
<1>2. CASE sweep' # [sweep EXCEPT ![i] = NoSweep]
  <2> DEFINE s == [sweep[i] EXCEPT !.at = "next", !.todo = locks \ {i}, !.found = segments]
  <2>1. sweep[i].at = "look" /\ sweep' = [sweep EXCEPT ![i] = s] /\ UNCHANGED <<segments, life>>
    BY <1>2 DEF Look, Sweeps, files
  <2>2. s.at = "next" /\ s.todo = locks \ {i} /\ s.found = segments /\ s.kept = sweep[i].kept
    BY <1>0 DEF Sweeping
  <2> HIDE DEF s
  <2>3. sweep'[i] = s /\ \A k \in Instances \ {i} : sweep'[k] = sweep[k]
    BY <1>0, <2>1
  <2>4. sweep'[i].kept = 0 /\ life'[i].at \in InUse
    BY <2>1, <2>2, <2>3 DEF KeptFor
  <2>5. ASSUME NEW k \in Instances, sweep'[i].found[k] # {}
        PROVE  Counts(k)'
    BY <2>1, <2>2, <2>3, <2>5 DEF Counts
  <2>6. ASSUME NEW k \in sweep'[i].todo
        PROVE  Seen(k)' >= sweep'[i].kept
    <3>1. Seen(k)' >= 0
      BY SeenIsNatNext
    <3>2. QED
      BY <2>4, <3>1
  <2>7. KeptFor(i)'
    BY <2>2, <2>3, <2>4, <2>5, <2>6 DEF KeptFor, AtLeast, Judging
  <2>8. QED
    BY <2>3, <2>7
<1>3. QED
  BY <1>1, <1>2

(* The newest one that is left is judged: the others are older.            *)
LEMMA JudgeKeeps ==
    ASSUME TypeOK, StillSeen, NEW i \in Instances, KeptFor(i), StaysInUse(i), Judge(i)
    PROVE  /\ KeptFor(i)'
           /\ \A k \in Instances \ {i} : sweep'[k] = sweep[k]
<1>0. /\ sweep \in [Instances -> Sweeping] /\ sweep[i].todo \subseteq Instances
      /\ sweep[i].kept \in Nat /\ Keep \in Nat
  BY DEF TypeOK, Sweeping
<1>1. PICK j \in sweep[i].todo :
         /\ \A k \in sweep[i].todo : k <= j
         /\ sweep' = [sweep EXCEPT ![i] =
                        [sweep[i] EXCEPT !.of = j, !.todo = sweep[i].todo \ {j}, !.at = "open"]]
  BY DEF Judge
<1> DEFINE s == [sweep[i] EXCEPT !.of = j, !.todo = sweep[i].todo \ {j}, !.at = "open"]
<1>2. /\ s.at = "open" /\ s.of = j /\ s.todo = sweep[i].todo \ {j}
      /\ s.found = sweep[i].found /\ s.kept = sweep[i].kept
  <2>1. \A todo : /\ [sweep[i] EXCEPT !.of = j, !.todo = todo, !.at = "open"].at = "open"
                  /\ [sweep[i] EXCEPT !.of = j, !.todo = todo, !.at = "open"].of = j
                  /\ [sweep[i] EXCEPT !.of = j, !.todo = todo, !.at = "open"].todo = todo
                  /\ [sweep[i] EXCEPT !.of = j, !.todo = todo, !.at = "open"].found = sweep[i].found
                  /\ [sweep[i] EXCEPT !.of = j, !.todo = todo, !.at = "open"].kept = sweep[i].kept
    BY <1>0 DEF Sweeping
  <2>2. QED
    BY <2>1
<1>3. sweep[i].at = "next" /\ sweep' = [sweep EXCEPT ![i] = s]
  BY <1>1 DEF Judge, Sweeps
<1> HIDE DEF s
<1>4. sweep'[i] = s /\ \A k \in Instances \ {i} : sweep'[k] = sweep[k]
  BY <1>0, <1>3
<1>5. life'[i].at \in InUse
  <2>1. sweep[i].at # "off" /\ sweep'[i].at # "off"
    BY <1>2, <1>3, <1>4
  <2>2. QED
    BY <2>1 DEF KeptFor, StaysInUse
<1>6. ASSUME NEW k \in Instances, sweep'[i].found[k] # {}
      PROVE  Counts(k)' \/ Seen(k)' >= Keep
  <2>1. Counts(k) \/ Seen(k) >= Keep
    BY <1>2, <1>3, <1>4, <1>6 DEF KeptFor, AtLeast
  <2>2. QED
    BY <2>1, EnoughStill
<1>7. ASSUME NEW k \in sweep[i].todo
      PROVE  Seen(k)' >= sweep'[i].kept \/ Seen(k)' >= Keep
  <2>1. Seen(k) >= sweep[i].kept \/ Seen(k) >= Keep
    BY <1>3, <1>7 DEF KeptFor, AtLeast
  <2>2. QED
    BY <1>0, <1>2, <1>4, <1>7, <2>1, EnoughStill
<1>8. \A k \in sweep'[i].todo : k < sweep'[i].of
  <2>1. \A k \in sweep[i].todo : k \in Nat
    BY <1>0, Numbered
  <2>2. QED
    BY <1>1, <1>2, <1>4, <2>1
<1>9. KeptFor(i)'
  BY <1>1, <1>2, <1>4, <1>5, <1>6, <1>7, <1>8 DEF KeptFor, AtLeast, Judging
<1>10. QED
  BY <1>4, <1>9

(* A finished instance is counted: what was found of it still counts, or   *)
(* as many newer ones as are kept do.  Those that are left are older, and  *)
(* so see it too.                                                          *)
LEMMA HeaderKeeps ==
    ASSUME TypeOK, StillSeen, NEW i \in Instances, KeptFor(i), StaysInUse(i), ReadHeader(i)
    PROVE  /\ KeptFor(i)'
           /\ \A k \in Instances \ {i} : sweep'[k] = sweep[k]
<1> DEFINE j == sweep[i].of
           keeps == sweep[i].found[j] # {} /\ Kept(i, j) <= Keep
           gone == IF keeps THEN {} ELSE sweep[i].found[j]
           step == IF keeps THEN "drop" ELSE "remove"
           s == [sweep[i] EXCEPT !.kept = Kept(i, j), !.at = step,
                                 !.segments = gone, !.removed = TRUE]
<1>0. /\ sweep \in [Instances -> Sweeping] /\ sweep[i].todo \subseteq Instances
      /\ sweep[i].kept \in Nat /\ Keep \in Nat
  BY DEF TypeOK, Sweeping
<1>1. sweep[i].at = "header" /\ j \in Instances
  BY DEF ReadHeader, Sweeps, TypeOK, Judged, Judging
<1>2. CASE Sweep(i, "drop")
  BY <1>1, <1>2, GoesOnKeeps DEF Sweeps
<1>3. CASE ~Sweep(i, "drop")
  <2>1. sweep' = [sweep EXCEPT ![i] = s]
    BY <1>3 DEF ReadHeader
  <2>2. Kept(i, j) = sweep[i].kept + (IF sweep[i].found[j] # {} THEN 1 ELSE 0)
    BY DEF Kept
  <2>3. /\ s.at = step /\ s.of = j /\ s.todo = sweep[i].todo /\ s.found = sweep[i].found
        /\ s.kept = Kept(i, j) /\ s.segments = gone
    <3> DEFINE kept == Kept(i, j)
    <3> HIDE DEF gone, step, kept
    <3>1. \A c, a, g :
            LET r == [sweep[i] EXCEPT !.kept = c, !.at = a, !.segments = g, !.removed = TRUE]
            IN  /\ r.at = a /\ r.of = sweep[i].of /\ r.todo = sweep[i].todo
                /\ r.found = sweep[i].found /\ r.kept = c /\ r.segments = g
      BY <1>0 DEF Sweeping
    <3>2. QED
      BY <3>1
  <2>4. PICK c, f : c = Kept(i, j) /\ f = sweep[i].found[j]
    OBVIOUS
  <2>5. /\ c = sweep[i].kept + (IF f # {} THEN 1 ELSE 0) /\ c \in Nat
        /\ gone = IF f # {} /\ c <= Keep THEN {} ELSE f
        /\ step = IF f # {} /\ c <= Keep THEN "drop" ELSE "remove"
    BY <1>0, <2>2, <2>4
  <2> HIDE DEF s, gone, step, keeps
  <2>6. sweep'[i] = s /\ \A k \in Instances \ {i} : sweep'[k] = sweep[k]
    BY <1>0, <2>1
  <2>7. life'[i].at \in InUse
    <3>1. sweep[i].at # "off" /\ sweep'[i].at # "off"
      BY <1>1, <2>3, <2>5, <2>6
    <3>2. QED
      BY <3>1 DEF KeptFor, StaysInUse
  <2>8. ASSUME NEW k \in Instances, sweep'[i].found[k] # {}
        PROVE  Counts(k)' \/ Seen(k)' >= Keep
    <3>1. Counts(k) \/ Seen(k) >= Keep
      BY <1>1, <2>3, <2>6, <2>8 DEF KeptFor, AtLeast, Judging
    <3>2. QED
      BY <3>1, EnoughStill
  <2>9. Seen(j) \in Nat /\ (Seen(j) >= sweep[i].kept \/ Seen(j) >= Keep)
    BY <1>1, SeenIsNat DEF KeptFor, AtLeast
  <2>10. ASSUME NEW k \in sweep[i].todo
         PROVE  Seen(k)' >= sweep'[i].kept \/ Seen(k)' >= Keep
    <3>1. k \in Instances /\ k < j
      BY <1>0, <1>1, <2>10 DEF KeptFor, Judging
    <3>2. Seen(k) >= Seen(j) /\ (Counts(j) => Seen(k) >= Seen(j) + 1)
      BY <1>1, <3>1, SeenMore
    <3>3. f # {} => Counts(j) \/ Seen(j) >= Keep
      BY <1>1, <2>4 DEF KeptFor, AtLeast, Judging
    <3>4. Seen(k) >= c \/ Seen(k) >= Keep
      <4>1. Seen(k) \in Nat
        BY SeenIsNat
      <4>2. QED
        BY <1>0, <2>5, <2>9, <3>2, <3>3, <4>1
    <3>5. QED
      BY <2>3, <2>4, <2>5, <2>6, <3>1, <3>4, EnoughStill
  <2>11. ASSUME gone # {}, step = "remove"
         PROVE  Seen(j) >= Keep
    BY <1>0, <2>5, <2>9, <2>11
  <2>12. \A k \in sweep'[i].todo : k < sweep'[i].of
    BY <1>1, <2>3, <2>6 DEF KeptFor, Judging
  <2>13. ASSUME NEW k \in Instances, k = sweep'[i].of, sweep'[i].at = "remove",
                sweep'[i].segments # {}
         PROVE  Seen(k)' >= Keep
    <3>1. k = j
      BY <2>3, <2>6, <2>13
    <3>2. Seen(k) >= Keep
      BY <2>3, <2>6, <2>11, <2>13, <3>1
    <3>3. QED
      BY <1>0, <3>2, EnoughStill
  <2>14. sweep'[i].at \in {"drop", "remove"} /\ sweep'[i].todo = sweep[i].todo
    BY <2>3, <2>5, <2>6
  <2>15. KeptFor(i)'
    BY <2>7, <2>8, <2>10, <2>12, <2>13, <2>14 DEF KeptFor, AtLeast, Judging
  <2>16. QED
    BY <2>6, <2>15
<1>4. QED
  BY <1>2, <1>3

(* A segment of what a sweep found goes: it goes on with the rest.         *)
LEMMA RemoveKeeps ==
    ASSUME TypeOK, StillSeen, NEW i \in Instances, KeptFor(i), StaysInUse(i), RemoveSegment(i)
    PROVE  /\ KeptFor(i)'
           /\ \A k \in Instances \ {i} : sweep'[k] = sweep[k]
<1>0. sweep \in [Instances -> Sweeping]
  BY DEF TypeOK
<1>1. PICK n, s : /\ s \in {[sweep[i] EXCEPT !.segments = @ \ {n}],
                            [sweep[i] EXCEPT !.segments = @ \ {n}, !.removed = FALSE]}
                  /\ sweep' = [sweep EXCEPT ![i] = s]
  BY DEF RemoveSegment
<1>2. /\ s.at = sweep[i].at /\ s.of = sweep[i].of /\ s.todo = sweep[i].todo
      /\ s.found = sweep[i].found /\ s.kept = sweep[i].kept
      /\ s.segments \subseteq sweep[i].segments
  <2>1. PICK g : /\ g = sweep[i].segments \ {n}
                 /\ \/ s = [sweep[i] EXCEPT !.segments = g]
                    \/ s = [sweep[i] EXCEPT !.segments = g, !.removed = FALSE]
    BY <1>1
  <2>2. sweep[i] \in Sweeping
    BY <1>0
  <2>3. /\ s.at = sweep[i].at /\ s.of = sweep[i].of /\ s.todo = sweep[i].todo
        /\ s.found = sweep[i].found /\ s.kept = sweep[i].kept /\ s.segments = g
    <3>1. CASE s = [sweep[i] EXCEPT !.segments = g]
      BY <2>2, <3>1 DEF Sweeping
    <3>2. CASE s = [sweep[i] EXCEPT !.segments = g, !.removed = FALSE]
      BY <2>2, <3>2 DEF Sweeping
    <3>3. QED
      BY <2>1, <3>1, <3>2
  <2>4. g \subseteq sweep[i].segments
    BY <2>1
  <2>5. QED
    BY <2>3, <2>4
<1>3. sweep'[i] = s /\ \A k \in Instances \ {i} : sweep'[k] = sweep[k]
  BY <1>0, <1>1
<1>4. KeptFor(i)'
  BY <1>2, <1>3, SweepKeeps
<1>5. QED
  BY <1>3, <1>4

(* A journal that has started takes a look at the others.                  *)
LEMMA HeadKeeps ==
    ASSUME TypeOK, StillSeen, NEW i \in Instances, KeptFor(i), StaysInUse(i), HeadSegment(i)
    PROVE  /\ KeptFor(i)'
           /\ \A k \in Instances \ {i} : sweep'[k] = sweep[k]
<1>0. sweep \in [Instances -> Sweeping] /\ life \in [Instances -> Life]
  BY DEF TypeOK
<1>1. CASE life[i].at = "headFirst"
  <2>1. sweep' = [sweep EXCEPT ![i] = [sweep[i] EXCEPT !.at = "look"]]
    BY <1>1 DEF HeadSegment, At
  <2>2. /\ sweep'[i].at = "look" /\ sweep'[i].kept = sweep[i].kept
        /\ \A k \in Instances \ {i} : sweep'[k] = sweep[k]
    BY <1>0, <2>1 DEF Sweeping
  <2>3. sweep[i].at = "off"
    BY <1>1 DEF KeptFor, InUse
  <2>4. life' = [life EXCEPT ![i] = [life[i] EXCEPT !.segment = life[i].segment + 1, !.at = "runs"]]
    BY <1>1 DEF HeadSegment
  <2>5. life'[i].at = "runs"
    BY <1>0, <2>4 DEF Life
  <2>6. KeptFor(i)'
    BY <2>2, <2>3, <2>5 DEF KeptFor, Judging, InUse
  <2>7. QED
    BY <2>2, <2>6
<1>2. CASE life[i].at # "headFirst"
  <2>1. sweep' = sweep
    BY <1>2 DEF HeadSegment, At
  <2>2. QED
    BY <2>1, SweepKeeps
<1>3. QED
  BY <1>1, <1>2

(* Every step keeps what the sweeps rely on.                               *)
LEMMA SweepsStay ==
    ASSUME TypeOK, LocksAreMine, SweepsLock, SegmentsHeaded, SegmentsThere, KeptCount, [Next]_vars
    PROVE  KeptCount'
<1>0. /\ StillSeen /\ \A k \in Instances : StaysInUse(k)
      /\ \A k \in Instances : KeptFor(k)
      /\ sweep \in [Instances -> Sweeping]
  BY SegmentsStay DEF KeptCount, TypeOK
<1>1. \A k \in Instances : sweep'[k] = sweep[k] => KeptFor(k)'
  BY <1>0, SweepKeeps
<1>2. ASSUME NEW i \in Instances, KeptFor(i)', \A k \in Instances \ {i} : sweep'[k] = sweep[k]
      PROVE  KeptCount'
  BY <1>1, <1>2 DEF KeptCount
<1>3. ASSUME sweep' = sweep
      PROVE  KeptCount'
  BY <1>1, <1>3 DEF KeptCount
<1>4. ASSUME NEW i \in Instances,
             \/ Create(i) \/ (\E j \in Instances : CreateAgain(i, j))
             \/ Lock(i) \/ StartFails(i) \/ Name(i) \/ Abandon(i)
             \/ NewSegment(i) \/ HeadFails(i) \/ Append(i) \/ RemoveFull(i)
      PROVE  KeptCount'
  <2>1. sweep' = sweep
    BY <1>4 DEF Create, CreateAgain, Lock, StartFails, Name, Abandon, NewSegment, HeadFails,
                Append, RemoveFull
  <2>2. QED
    BY <1>3, <2>1
<1>5. ASSUME NEW i \in Instances, HeadSegment(i)
      PROVE  KeptCount'
  BY <1>0, <1>2, <1>5, HeadKeeps
<1>6. ASSUME NEW i \in Instances, End(i) \/ SweepEnds(i)
      PROVE  KeptCount'
  <2>1. sweep'[i] = NoSweep /\ \A k \in Instances \ {i} : sweep'[k] = sweep[k]
    BY <1>0, <1>6 DEF End, SweepEnds
  <2>2. QED
    BY <1>2, <2>1, NoSweepKeeps
<1>7. ASSUME NEW i \in Instances, Look(i)
      PROVE  KeptCount'
  BY <1>0, <1>2, <1>7, LookKeeps
<1>8. ASSUME NEW i \in Instances, Judge(i)
      PROVE  KeptCount'
  BY <1>0, <1>2, <1>8, JudgeKeeps
<1>9. ASSUME NEW i \in Instances, OpenLock(i) \/ TryLock(i) \/ RemoveLock(i) \/ DropLock(i)
      PROVE  KeptCount'
  BY <1>0, <1>2, <1>9, GoesOnKeeps
<1>10. ASSUME NEW i \in Instances, ReadHeader(i)
       PROVE  KeptCount'
  BY <1>0, <1>2, <1>10, HeaderKeeps
<1>11. ASSUME NEW i \in Instances, RemoveSegment(i)
       PROVE  KeptCount'
  BY <1>0, <1>2, <1>11, RemoveKeeps
<1>12. CASE UNCHANGED vars
  BY <1>3, <1>12 DEF vars
<1>13. QED
  BY <1>4, <1>5, <1>6, <1>7, <1>8, <1>9, <1>10, <1>11, <1>12 DEF Next

(* A sweep takes a segment only of an instance that is over, and only      *)
(* while as many newer ones as are kept still have theirs: sweep of        *)
(* journal.rs:482-549, however many windows sweep at once.  What a sweep   *)
(* counted may be taken by another one, but only of an instance that has   *)
(* as many newer ones itself, and those are newer than what this one       *)
(* judges next.                                                            *)
THEOREM OnlyTheOldestGo == Spec => NewestAreKept
<1>1. Init => SegmentsThere /\ KeptCount
  <2>1. ASSUME Init
        PROVE  SegmentsThere
    BY <2>1 DEF Init, SegmentsThere, InUse
  <2>2. ASSUME Init, NEW i \in Instances
        PROVE  KeptFor(i)
    BY <2>2 DEF Init, KeptFor, NoSweep, Judging
  <2>3. QED
    BY <2>1, <2>2 DEF KeptCount
<1>2. TypeOK /\ LocksAreMine /\ SweepsLock /\ SegmentsHeaded /\ SegmentsThere /\ KeptCount
        /\ [Next]_vars => SegmentsThere' /\ KeptCount'
  <2> SUFFICES ASSUME TypeOK, LocksAreMine, SweepsLock, SegmentsHeaded, SegmentsThere, KeptCount,
                      [Next]_vars
               PROVE  SegmentsThere' /\ KeptCount'
    BY Zenon
  <2>1. SegmentsThere'
    BY SegmentsStay
  <2>2. QED
    BY <2>1, SweepsStay
<1>3. TypeOK /\ LocksAreMine /\ SweepsLock /\ SegmentsHeaded /\ SegmentsThere /\ KeptCount
        /\ [Next]_vars
         => [\A j \in Instances :
                (\E n \in headed[j] : n \notin headed'[j]) /\ life'[j] = life[j] =>
                   /\ At(j, "ended")
                   /\ Cardinality({k \in Instances : k > j /\ (segments[k] # {} \/ Unheaded(k))})
                        >= Keep]_vars
  <2> SUFFICES ASSUME TypeOK, LocksAreMine, SweepsLock, SegmentsHeaded, SegmentsThere, KeptCount,
                      [Next]_vars
               PROVE  \A j \in Instances :
                (\E n \in headed[j] : n \notin headed'[j]) /\ life'[j] = life[j] =>
                   /\ At(j, "ended")
                   /\ Cardinality({k \in Instances : k > j /\ (segments[k] # {} \/ Unheaded(k))})
                        >= Keep
    OBVIOUS
  <2>1. TakesRightly
    BY SegmentsStay
  <2>2. QED
    BY <2>1 DEF TakesRightly, Seen, Newer, Counts
<1>4. QED
  BY <1>1, <1>2, <1>3, JournalLocked, PTL DEF Spec, NewestAreKept

=============================================================================
