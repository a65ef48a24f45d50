--------------------------- MODULE DocumentSession ---------------------------
(***************************************************************************)
(* The open document: `DocumentSession`, `StepTicket`, `ProducedStep` and  *)
(* `Move` (crates/ferritecad-jobs/src/session.rs).                         *)
(*                                                                         *)
(* A session keeps a line of accepted versions and a place in it.  An edit *)
(* takes a ticket, makes a candidate on a worker and is committed when its *)
(* picture is ready; Undo and Redo are asked for and committed the same    *)
(* way.  The API lets any number of them be under way at once, each        *)
(* planned against the session as it was.  A Save publishes on a worker    *)
(* (module Save, here its compare-and-replace register) and is recorded    *)
(* later.                                                                  *)
(*                                                                         *)
(* A version is the number of its private file.  Its model is what dirty   *)
(* compares; two versions may have one model and differ in their stamp.    *)
(***************************************************************************)
EXTENDS Integers, Sequences, FiniteSets, Functions

CONSTANTS
    Models,       \* model contents
    Paths,        \* files a person saves to
    None,         \* no path; no version; nothing at a path
    Foreign,      \* what an outsider puts at a path
    Sizes,        \* bytes of a private file
    MaxVersions,  \* HistoryLimits::max_versions
    MaxBytes,     \* HistoryLimits::max_bytes
    MaxFile,      \* bound: private files made
    MaxGeneration,\* bound: changes of the current version
    MaxJobs,      \* bound: steps and moves under way
    MaxSaves,     \* saves under way: one, in the window's controller
    MaxEdits      \* bound: changes of a user's file by an outsider

ASSUME SetAssumption ==
    /\ None \notin Models \cup Paths \cup Nat \cup {Foreign}
    /\ Foreign \notin Nat
    /\ Sizes \subseteq Nat \ {0}
    /\ Models # {} /\ Sizes # {}

ASSUME LimitAssumption ==
    /\ MaxVersions \in Nat /\ MaxBytes \in Nat
    /\ MaxFile \in Nat /\ MaxGeneration \in Nat /\ MaxJobs \in Nat
    /\ MaxSaves \in Nat /\ MaxEdits \in Nat

VARIABLES
    history,    \* DocumentSession::history, oldest first
    current,    \* DocumentSession::current, an index from 0
    generation, \* DocumentSession::generation
    nextFile,   \* DocumentSession::next_file
    saved,      \* DocumentSession::saved: the version known to be at logical
    logical,    \* DocumentSession::logical
    model,      \* Snapshot::model of each version
    size,       \* Snapshot::bytes of each version
    base,       \* the version each version was made from
    form,       \* the version the form of its edit showed
    tickets,    \* StepTickets on their workers
    steps,      \* ProducedSteps nobody has accepted yet
    moves,      \* Moves nobody has committed yet
    saves,      \* SavePlans on their workers, and Saveds not recorded yet
    files,      \* what is at each path
    edits       \* an outsider's changes so far

lineVars == <<history, current, generation>>
factVars == <<model, size, base, form>>
jobVars == <<tickets, steps, moves, saves>>
vars == <<lineVars, nextFile, saved, logical, factVars, jobVars, files, edits>>

File == 0 .. MaxFile

Tickets == [source : File, file : File, form : File, gen : 0 .. MaxGeneration]
Steps == [base : File, file : File, gen : 0 .. MaxGeneration]
Moves == [gen : 0 .. MaxGeneration, index : Nat, target : File]
Saves == [source : File, path : Paths, expected : File \cup {None},
          kind : {"InPlace", "As"}, state : {"planned", "published"}]

TypeOK ==
    /\ history \in Seq(File)
    /\ current \in 0 .. Len(history) - 1
    /\ generation \in 0 .. MaxGeneration
    /\ nextFile \in 1 .. MaxFile + 1
    /\ saved \in File \cup {None}
    /\ logical \in Paths \cup {None}
    /\ model \in [File -> Models]
    /\ size \in [File -> Sizes]
    /\ base \in [File -> File]
    /\ form \in [File -> File]
    /\ tickets \subseteq Tickets
    /\ steps \subseteq Steps
    /\ moves \subseteq Moves
    /\ saves \subseteq Saves
    /\ files \in [Paths -> File \cup {None, Foreign}]
    /\ edits \in 0 .. MaxEdits

-----------------------------------------------------------------------------

Current == history[current + 1]
Dirty == saved = None \/ model[saved] # model[Current]
Total(sizes) == FoldFunction(+, 0, sizes)
Bytes(line) == Total([i \in DOMAIN line |-> size[line[i]]])
Jobs == Cardinality(tickets) + Cardinality(steps) + Cardinality(moves)

(* open_in: a file and its copy.  create_in and recover_in: untitled, with *)
(* no path and no checkpoint.                                              *)
Init ==
    /\ history = <<0>>
    /\ current = 0
    /\ generation = 0
    /\ nextFile = 1
    /\ model \in {[f \in File |-> m] : m \in Models}
    /\ size \in {[f \in File |-> z] : z \in Sizes}
    /\ base = [f \in File |-> 0]
    /\ form = [f \in File |-> 0]
    /\ tickets = {} /\ steps = {} /\ moves = {} /\ saves = {}
    /\ edits = 0
    /\ \/ /\ logical \in Paths
          /\ saved = 0
          /\ files = [p \in Paths |-> IF p = logical THEN 0 ELSE None]
       \/ /\ logical = None
          /\ saved = None
          /\ files = [p \in Paths |-> None]

-----------------------------------------------------------------------------
(* Steps                                                                   *)

(* Mutant: the file number is not used up.                                 *)
BeginStep_SameFile ==
    /\ Jobs < MaxJobs
    /\ nextFile <= MaxFile
    /\ \E i \in DOMAIN history :
         tickets' = tickets \cup {[source |-> Current, file |-> nextFile,
                                   form |-> history[i], gen |-> generation]}
    /\ UNCHANGED <<lineVars, nextFile, saved, logical, factVars, steps, moves,
                   saves, files, edits>>

(* The form whose values the edit carries may have been opened when        *)
(* another version was current.                                            *)
BeginStep ==
    /\ Jobs < MaxJobs
    /\ nextFile <= MaxFile
    /\ \E i \in DOMAIN history :
         tickets' = tickets \cup {[source |-> Current, file |-> nextFile,
                                   form |-> history[i], gen |-> generation]}
    /\ nextFile' = nextFile + 1
    /\ UNCHANGED <<lineVars, saved, logical, factVars, steps, moves, saves, files, edits>>

(* StepTicket::edit and run: the candidate is made, unless the form is of  *)
(* another version.                                                        *)
RunStep(t) ==
    /\ t \in tickets
    /\ t.form = t.source
    /\ \E m \in Models, z \in Sizes :
        /\ model' = [model EXCEPT ![t.file] = m]
        /\ size' = [size EXCEPT ![t.file] = z]
    /\ base' = [base EXCEPT ![t.file] = t.source]
    /\ form' = [form EXCEPT ![t.file] = t.form]
    /\ tickets' = tickets \ {t}
    /\ steps' = steps \cup {[base |-> t.source, file |-> t.file, gen |-> t.gen]}
    /\ UNCHANGED <<lineVars, nextFile, saved, logical, moves, saves, files, edits>>

(* An outdated form, a cancellation, a candidate that does not build, a    *)
(* copy that is no document of this identity.                              *)
StepFails(t) ==
    /\ t \in tickets
    /\ tickets' = tickets \ {t}
    /\ UNCHANGED <<lineVars, nextFile, saved, logical, factVars, steps, moves,
                   saves, files, edits>>

(* Mutant: a step is committed whatever happened since.                    *)
Stale_Never(p) == p.file = None

Stale(p) == p.gen # generation \/ p.base # Current

(* enforce_limits: whether the line may stay as it is from version k on.   *)
Fits(line, k) ==
    LET rest == SubSeq(line, k + 1, Len(line))
    IN  Len(rest) <= (IF MaxVersions > 1 THEN MaxVersions ELSE 1)
          /\ Bytes(rest) <= MaxBytes

(* Mutant: one version goes for each that comes, however large that is.    *)
Dropped_One(line, k) == k = IF Fits(line, 0) THEN 0 ELSE 1

(* The k oldest versions go: the fewest that make the rest fit, and never  *)
(* the current one, here the last.                                         *)
Dropped(line, k) ==
    /\ k = Len(line) - 1 \/ Fits(line, k)
    /\ \A j \in 0 .. k - 1 : ~Fits(line, j)

CommitStep(p) ==
    /\ p \in steps
    /\ generation < MaxGeneration
    /\ steps' = steps \ {p}
    /\ ~Stale(p)
    /\ model[p.file] # model[Current]
    /\ LET line == Append(SubSeq(history, 1, current + 1), p.file)
       IN  \E k \in 0 .. current + 1 :
            /\ Dropped(line, k)
            /\ history' = SubSeq(line, k + 1, Len(line))
            /\ current' = current + 1 - k
    /\ generation' = generation + 1
    /\ UNCHANGED <<nextFile, saved, logical, factVars, tickets, moves, saves, files, edits>>

(* STALE_STEP, StepCommit::NoChange, or a candidate nobody wants any more: *)
(* its file goes and the session is as it was.                             *)
DropStep(p) ==
    /\ p \in steps
    /\ steps' = steps \ {p}
    /\ UNCHANGED <<lineVars, nextFile, saved, logical, factVars, tickets, moves,
                   saves, files, edits>>

-----------------------------------------------------------------------------
(* Undo and Redo                                                           *)

BeginMove ==
    /\ Jobs < MaxJobs
    /\ \E index \in {current - 1, current + 1} \cap 0 .. Len(history) - 1 :
         moves' = moves \cup {[gen |-> generation, index |-> index,
                               target |-> history[index + 1]]}
    /\ UNCHANGED <<lineVars, nextFile, saved, logical, factVars, tickets, steps,
                   saves, files, edits>>

CommitMove(r) ==
    /\ r \in moves
    /\ generation < MaxGeneration
    /\ moves' = moves \ {r}
    /\ r.gen = generation
    /\ r.index < Len(history) /\ history[r.index + 1] = r.target
    /\ current' = r.index
    /\ generation' = generation + 1
    /\ UNCHANGED <<history, nextFile, saved, logical, factVars, tickets, steps,
                   saves, files, edits>>

DropMove(r) ==
    /\ r \in moves
    /\ moves' = moves \ {r}
    /\ UNCHANGED <<lineVars, nextFile, saved, logical, factVars, tickets, steps,
                   saves, files, edits>>

-----------------------------------------------------------------------------
(* Saving                                                                  *)

BeginSave ==
    /\ Cardinality(saves) < MaxSaves
    /\ \/ /\ logical # None
          /\ saves' = saves \cup {[source |-> Current, path |-> logical,
                                   expected |-> saved, kind |-> "InPlace",
                                   state |-> "planned"]}
       \/ \E p \in Paths :
            saves' = saves \cup {[source |-> Current, path |-> p,
                                  expected |-> saved, kind |-> "As",
                                  state |-> "planned"]}
    /\ UNCHANGED <<lineVars, nextFile, saved, logical, factVars, tickets, steps,
                   moves, files, edits>>

(* SavePlan::run, as the register of module VersionedFile.                 *)
PublishSave(v) ==
    /\ v \in saves
    /\ v.state = "planned"
    /\ files[v.path] = (IF v.kind = "InPlace" THEN v.expected ELSE None)
    /\ files' = [files EXCEPT ![v.path] = v.source]
    /\ saves' = (saves \ {v}) \cup {[v EXCEPT !.state = "published"]}
    /\ UNCHANGED <<lineVars, nextFile, saved, logical, factVars, tickets, steps,
                   moves, edits>>

FailSave(v) ==
    /\ v \in saves
    /\ v.state = "planned"
    /\ saves' = saves \ {v}
    /\ UNCHANGED <<lineVars, nextFile, saved, logical, factVars, tickets, steps,
                   moves, files, edits>>

(* Mutant: what is on the screen is taken to be what was saved.            *)
RecordSaved_Screen(v) ==
    /\ v \in saves
    /\ v.state = "published"
    /\ saves' = saves \ {v}
    /\ saved' = Current
    /\ logical' = v.path
    /\ UNCHANGED <<lineVars, nextFile, factVars, tickets, steps, moves, files, edits>>

RecordSaved(v) ==
    /\ v \in saves
    /\ v.state = "published"
    /\ saves' = saves \ {v}
    /\ \/ /\ v.kind = "InPlace" /\ logical = None
          /\ UNCHANGED <<saved, logical>>
       \/ /\ v.kind = "InPlace" /\ logical # None
          /\ saved' = v.source
          /\ UNCHANGED logical
       \/ /\ v.kind = "As"
          /\ saved' = v.source
          /\ logical' = v.path
    /\ UNCHANGED <<lineVars, nextFile, factVars, tickets, steps, moves, files, edits>>

Outsider ==
    /\ edits < MaxEdits
    /\ edits' = edits + 1
    /\ \E p \in Paths, what \in {None, Foreign} :
         files' = [files EXCEPT ![p] = what]
    /\ UNCHANGED <<lineVars, nextFile, saved, logical, factVars, jobVars>>

Next ==
    \/ BeginStep \/ BeginMove \/ BeginSave \/ Outsider
    \/ \E t \in tickets : RunStep(t) \/ StepFails(t)
    \/ \E p \in steps : CommitStep(p) \/ DropStep(p)
    \/ \E r \in moves : CommitMove(r) \/ DropMove(r)
    \/ \E v \in saves : PublishSave(v) \/ FailSave(v) \/ RecordSaved(v)

Spec == Init /\ [][Next]_vars

-----------------------------------------------------------------------------
(* Properties                                                              *)

(* The history is one line: every version in it was made from the version  *)
(* before it, from a form that showed that version, however the edits,     *)
(* Undos and Redos under way were interleaved (session.rs:557-581,         *)
(* 772-779).                                                               *)
LinearLineage ==
    \A i \in 1 .. Len(history) - 1 :
        /\ base[history[i + 1]] = history[i]
        /\ form[history[i + 1]] = history[i]

(* Two workers never write one private file, and no worker writes the file *)
(* of a version that anybody may still read (session.rs:538-547).          *)
FilesAreOwned ==
    /\ \A t, u \in tickets : t.file = u.file => t = u
    /\ \A p, q \in steps : p.file = q.file => p = q
    /\ \A t \in tickets :
        /\ \A i \in DOMAIN history : t.file # history[i]
        /\ \A p \in steps : t.file # p.file
        /\ \A r \in moves : t.file # r.target
        /\ \A v \in saves : t.file # v.source
    /\ \A p \in steps : \A i \in DOMAIN history : p.file # history[i]
    /\ \A i, j \in DOMAIN history : history[i] = history[j] => i = j

(* Every file in use was numbered before the next one.                     *)
Numbered ==
    /\ \A i \in DOMAIN history : history[i] < nextFile
    /\ \A t \in tickets : t.file < nextFile
    /\ \A p \in steps : p.file < nextFile
    /\ \A r \in moves : r.target < nextFile
    /\ \A v \in saves : v.source < nextFile

(* A step nobody has accepted was made from the version it says.           *)
StepsAreBased == \A p \in steps : base[p.file] = p.base /\ form[p.file] = p.base

(* A move is one step away from the place it was asked for at.             *)
MovesAreNear ==
    \A r \in moves :
        /\ r.gen <= generation
        /\ r.gen = generation => r.index \in {current - 1, current + 1}

(* The inductive invariant: what the line is owed by everything under way. *)
LineInv ==
    /\ TypeOK /\ Numbered /\ FilesAreOwned /\ StepsAreBased /\ MovesAreNear
    /\ LinearLineage

(* The history keeps to its limits, or is a single version that is larger  *)
(* than they allow, whatever the workers write and whichever way the       *)
(* session has gone through it since (session.rs:66-76, 583-591).          *)
WithinLimits ==
    \/ Len(history) = 1
    \/ Len(history) <= MaxVersions /\ Bytes(history) <= MaxBytes

(* An Undo or a Redo goes one version back or forth and keeps every        *)
(* version, even one asked for before other things happened                *)
(* (session.rs:593-626).                                                   *)
MovesOneStep ==
    [][ current' # current /\ history' = history => current' \in {current - 1, current + 1} ]_vars

(* A document that is shown as saved is: unless an outsider changed the    *)
(* file, or a save has just published and is not recorded yet, the file at *)
(* its path has the model on the screen (session.rs:484-489, 643-662).     *)
CleanMeansSaved ==
    edits = 0 /\ ~Dirty /\ (\A v \in saves : v.state # "published") =>
        /\ logical # None
        /\ files[logical] \in File
        /\ model[files[logical]] = model[Current]

(* The inductive invariant behind it, with the one save at a time that the *)
(* window's controller allows: a save in place writes the session's file,  *)
(* what is published is there, and so is what was recorded.                *)
OneSave == IsFiniteSet(saves) /\ \A v, w \in saves : v = w
SaveInv ==
    /\ OneSave
    /\ \A v \in saves : v.kind = "InPlace" => v.path = logical
    /\ edits = 0 =>
        /\ \A v \in saves : v.state = "published" => files[v.path] = v.source
        /\ logical # None /\ (\A v \in saves : v.state # "published")
             => files[logical] = saved

(* A checkpoint is absent exactly when there is no path (session.rs:264-267). *)
CheckpointHasPath == saved = None <=> logical = None

(* The line of an ever-growing number of versions, as a person sees it.    *)
Line == INSTANCE LinearHistory
    WITH Versions <- File, line <- history, place <- current + 1, parent <- base

(* Whatever is under way, the session is one line with Undo and Redo.      *)
ImplementsLine == Line!Spec
=============================================================================
