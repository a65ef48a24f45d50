------------------------------- MODULE Journal -------------------------------
(***************************************************************************)
(* The launch journals that all viewers of one user keep in one folder:    *)
(* Journal and sweep of ferritecad-app journal.rs.                         *)
(*                                                                         *)
(* An instance is one try of one process at a journal of its own, numbered *)
(* in the order of creation (a UUIDv7).  It keeps its lock file locked for *)
(* its whole life and writes segments; once started it sweeps the files of *)
(* finished instances.  One step is one call of the file system, any       *)
(* process may end between two.  The files of an instance and the lock on  *)
(* its lock file are named by the instance; a removed lock file lives on   *)
(* for those who opened it.  Reading the folder is one step: what it finds *)
(* of one instance it finds at one moment.                                 *)
(***************************************************************************)
EXTENDS Naturals, FiniteSets

CONSTANTS
    Instances,      \* bound: how many are ever made, 1..N in their order
    Segments,       \* bound: the segments one instance makes, 1..N
    Keep,           \* KEEP_FINISHED
    Attempts,       \* OPEN_ATTEMPTS
    Errors          \* BOOLEAN: calls of the file system may fail

ASSUME JournalAssumption ==
    /\ Instances \subseteq Nat \ {0} /\ IsFiniteSet(Instances)
    /\ Segments \subseteq Nat \ {0} /\ Keep \in Nat /\ Attempts \in Nat \ {0}

VARIABLES
    locks,      \* the instances whose lock file is there
    named,      \* those whose lock file names them
    segments,   \* the segment files of each instance
    headed,     \* those of them that start with their header
    holder,     \* the instance whose process holds the lock on a lock file, 0: nobody
    life,       \* of each instance: where it is, its try, its current segment
    sweep       \* of each instance: where its sweep is

vars == <<locks, named, segments, headed, holder, life, sweep>>
files == <<locks, named, segments, headed>>

NoSweep == [at |-> "off", todo |-> {}, found |-> [i \in Instances |-> {}],
            of |-> 0, segments |-> {}, kept |-> 0, removed |-> TRUE]

At(i, step) == life[i].at = step
Sweeps(i, step) == sweep[i].at = step
Goto(i, step) == life' = [life EXCEPT ![i].at = step]
Running(i) == life[i].at \in {"runs", "full", "head", "rotate", "stopped"}

---------------------------------------------------------------------------
(* Journal::open and start                                                 *)

\* The instance a UUIDv7 names next.
Fresh(i) == At(i, "none") /\ \A j \in Instances : j < i => ~At(j, "none")

\* A process makes its lock file.
Create(i) ==
    /\ Fresh(i)
    /\ life' = [life EXCEPT ![i].at = "lock", ![i].try = 1]
    /\ locks' = locks \cup {i}
    /\ UNCHANGED <<named, segments, headed, holder, sweep>>

\* A process whose lock file was taken makes another, of a name of its own.
CreateAgain(i, j) ==
    /\ At(i, "again") /\ Fresh(j)
    /\ life' = [life EXCEPT ![i].at = "ended", ![j].at = "lock", ![j].try = life[i].try + 1]
    /\ locks' = locks \cup {j}
    /\ UNCHANGED <<named, segments, headed, holder, sweep>>

\* A sweep that judges the folder at this moment may have locked it first.
Lock(i) ==
    /\ At(i, "lock")
    /\ IF holder[i] = 0
       THEN holder' = [holder EXCEPT ![i] = i] /\ Goto(i, "name")
       ELSE UNCHANGED holder /\ Goto(i, "taken")
    /\ UNCHANGED <<files, sweep>>

\* The lock file cannot be locked or written, or the first segment made.
StartFails(i) ==
    /\ Errors /\ (At(i, "lock") \/ At(i, "name") \/ At(i, "first"))
    /\ holder' = [holder EXCEPT ![i] = IF @ = i THEN 0 ELSE @]
    /\ Goto(i, "failed")
    /\ UNCHANGED <<files, sweep>>

Name(i) ==
    /\ At(i, "name")
    /\ named' = named \cup {i} /\ Goto(i, "first")
    /\ UNCHANGED <<locks, segments, headed, holder, sweep>>

\* abandon: closed before, the lock file is removed; another try if it was taken.
Abandon(i) ==
    /\ At(i, "taken") \/ At(i, "failed")
    /\ \/ locks' = locks \ {i}
       \/ Errors /\ UNCHANGED locks
    /\ Goto(i, IF At(i, "taken") /\ life[i].try < Attempts THEN "again" ELSE "ended")
    /\ UNCHANGED <<named, segments, headed, holder, sweep>>

NextSegment(i) == life[i].segment + 1

\* new_segment, made exclusively and then headed: the first one of an instance,
\* or the next one of a full segment.
NewSegment(i) ==
    /\ At(i, "first") \/ At(i, "full")
    /\ NextSegment(i) \in Segments
    /\ segments' = [segments EXCEPT ![i] = @ \cup {NextSegment(i)}]
    /\ Goto(i, IF At(i, "first") THEN "headFirst" ELSE "head")
    /\ UNCHANGED <<locks, named, headed, holder, sweep>>

HeadSegment(i) ==
    /\ At(i, "headFirst") \/ At(i, "head")
    /\ headed' = [headed EXCEPT ![i] = @ \cup {NextSegment(i)}]
    /\ life' = [life EXCEPT ![i].segment = @ + 1,
                            ![i].at = IF @ = "head" /\ life[i].segment # 1 THEN "rotate" ELSE "runs"]
    /\ sweep' = IF At(i, "headFirst") THEN [sweep EXCEPT ![i].at = "look"] ELSE sweep
    /\ UNCHANGED <<locks, named, segments, holder>>

\* The header cannot be written: the segment is abandoned, and with it the start
\* or every later record.
HeadFails(i) ==
    /\ Errors /\ (At(i, "headFirst") \/ At(i, "head"))
    /\ \/ segments' = [segments EXCEPT ![i] = @ \ {NextSegment(i)}]
       \/ UNCHANGED segments
    /\ holder' = [holder EXCEPT ![i] = IF At(i, "headFirst") THEN 0 ELSE @]
    /\ Goto(i, IF At(i, "headFirst") THEN "failed" ELSE "stopped")
    /\ UNCHANGED <<locks, named, headed, sweep>>

---------------------------------------------------------------------------
(* Journal::append, rotate and the end of a process                        *)

\* A process sweeps before it goes on to its window.
Append(i) ==
    /\ At(i, "runs") /\ Sweeps(i, "off")
    /\ \/ Goto(i, "full")
       \/ Errors /\ Goto(i, "stopped")
    /\ UNCHANGED <<files, holder, sweep>>

\* The segment before the current one is removed, the first never.
RemoveFull(i) ==
    /\ At(i, "rotate")
    /\ \/ /\ segments' = [segments EXCEPT ![i] = @ \ {life[i].segment - 1}]
          /\ headed' = [headed EXCEPT ![i] = @ \ {life[i].segment - 1}]
          /\ Goto(i, "runs")
       \/ Errors /\ Goto(i, "stopped") /\ UNCHANGED <<segments, headed>>
    /\ UNCHANGED <<locks, named, holder, sweep>>

\* A process ends, however it ends, and lets its locks go.
End(i) ==
    /\ life[i].at \notin {"none", "ended"}
    /\ holder' = [j \in Instances |-> IF holder[j] = i THEN 0 ELSE holder[j]]
    /\ Goto(i, "ended")
    /\ sweep' = [sweep EXCEPT ![i] = NoSweep]
    /\ UNCHANGED files

---------------------------------------------------------------------------
(* sweep                                                                   *)

Look(i) ==
    /\ Sweeps(i, "look")
    /\ \/ sweep' = [sweep EXCEPT ![i].at = "next", ![i].todo = locks \ {i}, ![i].found = segments]
       \/ Errors /\ sweep' = [sweep EXCEPT ![i] = NoSweep]
    /\ UNCHANGED <<files, holder, life>>

\* Mutant: the oldest first.
Judge_Oldest(i) ==
    /\ Sweeps(i, "next")
    /\ \E j \in sweep[i].todo :
          /\ \A k \in sweep[i].todo : j <= k
          /\ sweep' = [sweep EXCEPT ![i].of = j, ![i].todo = @ \ {j}, ![i].at = "open"]
    /\ UNCHANGED <<files, holder, life>>

\* The newest one that is left.
Judge(i) ==
    /\ Sweeps(i, "next")
    /\ \E j \in sweep[i].todo :
          /\ \A k \in sweep[i].todo : k <= j
          /\ sweep' = [sweep EXCEPT ![i].of = j, ![i].todo = @ \ {j}, ![i].at = "open"]
    /\ UNCHANGED <<files, holder, life>>

SweepEnds(i) ==
    /\ Sweeps(i, "next") /\ sweep[i].todo = {}
    /\ sweep' = [sweep EXCEPT ![i] = NoSweep]
    /\ UNCHANGED <<files, holder, life>>

Sweep(i, step) == sweep' = [sweep EXCEPT ![i].at = step]

OpenLock(i) ==
    /\ Sweeps(i, "open")
    /\ \/ sweep[i].of \in locks /\ Sweep(i, "try")
       \/ (sweep[i].of \notin locks \/ Errors) /\ Sweep(i, "next")
    /\ UNCHANGED <<files, holder, life>>

\* Mutant: the lock is not asked for, the header is enough.
TryLock_Never(i) ==
    /\ Sweeps(i, "try")
    /\ Sweep(i, "header") /\ UNCHANGED <<files, holder, life>>

TryLock(i) ==
    LET j == sweep[i].of IN
    /\ Sweeps(i, "try")
    /\ IF holder[j] = 0
       THEN holder' = [holder EXCEPT ![j] = i] /\ Sweep(i, "header")
       ELSE UNCHANGED holder /\ Sweep(i, "next")
    /\ UNCHANGED <<files, life>>

\* How many count as kept once this one is judged.
Kept(i, j) == sweep[i].kept + (IF sweep[i].found[j] # {} THEN 1 ELSE 0)

\* A finished instance is kept, or the files that were found of it go under its
\* lock.  What is not our lock file, or not yet, is let go.
ReadHeader(i) ==
    LET j == sweep[i].of
        keeps == sweep[i].found[j] # {} /\ Kept(i, j) <= Keep
    IN
    /\ Sweeps(i, "header")
    /\ \/ /\ j \in named
          /\ sweep' = [sweep EXCEPT ![i].kept = Kept(i, j),
                                    ![i].at = IF keeps THEN "drop" ELSE "remove",
                                    ![i].segments = IF keeps THEN {} ELSE sweep[i].found[j],
                                    ![i].removed = TRUE]
       \/ (j \notin named \/ Errors) /\ Sweep(i, "drop")
    /\ UNCHANGED <<files, holder, life>>

\* One segment: ours is removed, another name is left.  It may be gone already.
RemoveSegment(i) ==
    LET j == sweep[i].of IN
    /\ Sweeps(i, "remove")
    /\ \E n \in sweep[i].segments :
          \/ /\ sweep' = [sweep EXCEPT ![i].segments = @ \ {n}]
             /\ segments' = [segments EXCEPT ![j] = @ \ ({n} \cap headed[j])]
             /\ headed' = [headed EXCEPT ![j] = @ \ {n}]
          \/ /\ Errors /\ n \in segments[j]
             /\ sweep' = [sweep EXCEPT ![i].segments = @ \ {n}, ![i].removed = FALSE]
             /\ UNCHANGED <<segments, headed>>
    /\ UNCHANGED <<locks, named, holder, life>>

\* The lock file last; then the lock is let go.
RemoveLock(i) ==
    /\ Sweeps(i, "remove") /\ sweep[i].segments = {}
    /\ \/ locks' = IF sweep[i].removed THEN locks \ {sweep[i].of} ELSE locks
       \/ Errors /\ UNCHANGED locks
    /\ Sweep(i, "drop")
    /\ UNCHANGED <<named, segments, headed, holder, life>>

DropLock(i) ==
    /\ Sweeps(i, "drop")
    /\ holder' = [holder EXCEPT ![sweep[i].of] = IF @ = i THEN 0 ELSE @]
    /\ Sweep(i, "next")
    /\ UNCHANGED <<files, life>>

---------------------------------------------------------------------------

Init ==
    /\ locks = {} /\ named = {}
    /\ segments = [i \in Instances |-> {}] /\ headed = [i \in Instances |-> {}]
    /\ holder = [i \in Instances |-> 0]
    /\ life = [i \in Instances |-> [at |-> "none", try |-> 0, segment |-> 0]]
    /\ sweep = [i \in Instances |-> NoSweep]

Next ==
    \E i \in Instances :
        \/ Create(i) \/ (\E j \in Instances : CreateAgain(i, j))
        \/ Lock(i) \/ StartFails(i) \/ Name(i) \/ Abandon(i)
        \/ NewSegment(i) \/ HeadSegment(i) \/ HeadFails(i)
        \/ Append(i) \/ RemoveFull(i) \/ End(i)
        \/ Look(i) \/ Judge(i) \/ SweepEnds(i) \/ OpenLock(i) \/ TryLock(i)
        \/ ReadHeader(i) \/ RemoveSegment(i) \/ RemoveLock(i) \/ DropLock(i)

Spec == Init /\ [][Next]_vars

---------------------------------------------------------------------------
(* Properties                                                              *)

Lives == {"none", "lock", "taken", "again", "name", "first", "headFirst", "failed",
          "runs", "full", "head", "rotate", "stopped", "ended"}

Life == [at : Lives, try : Nat, segment : Nat]

Sweeping == [at : {"off", "look", "next", "open", "try", "header", "remove", "drop"},
             todo : SUBSET Instances, found : [Instances -> SUBSET Segments],
             of : Instances \cup {0}, segments : SUBSET Segments, kept : Nat,
             removed : BOOLEAN]

\* The steps in which a sweep has an instance before it.
Judging == {"open", "try", "header", "remove", "drop"}

Judged == \A i \in Instances : sweep[i].at \in Judging => sweep[i].of \in Instances

TypeOK ==
    /\ locks \subseteq Instances /\ named \subseteq Instances
    /\ segments \in [Instances -> SUBSET Segments]
    /\ headed \in [Instances -> SUBSET Nat]
    /\ holder \in [Instances -> Instances \cup {0}]
    /\ life \in [Instances -> Life] /\ sweep \in [Instances -> Sweeping]
    /\ Judged

\* A journal in use is whole: its lock file is there and locked by its own
\* process, and so are its first and its current segment, whatever the sweeps of
\* other windows do meanwhile.
RunningIsWhole ==
    \A i \in Instances :
        Running(i) => /\ holder[i] = i /\ i \in locks \cap named
                      /\ {1, life[i].segment} \subseteq headed[i]

\* The start failed, and its segment may be gone.
Unheaded(i) == life[i].at \in {"failed", "ended"} /\ life[i].segment = 0

\* A sweep takes a segment only of an instance that is not running, and only
\* while as many newer ones as are kept still have theirs, however many sweeps
\* run at once.  A segment whose header could not be written counts as seen.
NewestAreKept ==
    [][\A j \in Instances :
          (\E n \in headed[j] : n \notin headed'[j]) /\ life'[j] = life[j] =>
             /\ At(j, "ended")
             /\ Cardinality({k \in Instances : k > j /\ (segments[k] # {} \/ Unheaded(k))})
                  >= Keep]_vars

=============================================================================
