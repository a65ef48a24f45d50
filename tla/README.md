# FerriteCAD: specifications, model checking and proofs

FerriteCAD is a local parametric CAD. A document is a SQLite file (`.fcad`), and
the window never edits that file in place. It keeps a private history of accepted
versions, makes every edit in a worker that produces a candidate, and replaces
the user's file only in Save. A worker of its own keeps one crash copy of every
unsaved document, and every window a launch journal of what it said.

This directory models the parts of the program whose correctness is about order:
who may write which file when, which answer of which worker is still wanted, which
shape of the kernel belongs to which version, which rows a request of several changes
leaves behind, what is on disk when a process stops
in the middle, and what a person can lose. TLC
checks the models on small instances; TLAPS proves some of the properties for
every value of the constants.

Paths below are relative to `src/`. `PROJECT.json` maps every definition to its
lines in the source, and lists the runs, the mutants, the findings, the hazards
and the theorems.

## 1. Inventory

### Modelled

**Save lock** (`crates/ferritecad-jobs/src/save.rs`, `SaveLock`).
State: the sidecar name beside the target, the file it refers to, whether that
file has the lock's header, an advisory lock on it, and each saver's descriptor.
Operations: acquire (create or open, lock, write or read the header, compare the
name with the descriptor, at most four turns) and Drop. Hard: every pair of file
system calls of two savers interleaves; the name may be removed or replaced in
between; a saver may die at any call. Correct when two savers never both hold
it, nobody's own file is locked or removed by a saver, and nothing stays behind.

**Save and publication** (`save.rs`, `publish.rs`, `SavePlan`, `Temporary`).
State: the target, a scratch copy beside it, the version the window expects.
Operations: Save in place (compare, copy, lock, compare, rename) and Save As
(link where nothing is). Hard: the compare and the rename are two operations;
two windows on one file; read-only and hard-linked files; cancellation as late as
the rename. Correct when no version is replaced that the window did not know, and
the answer says what happened to the file.

**Document session** (`session.rs`).
State: the line of accepted versions and the place in it, a generation, what was
last saved and where, the numbers of private files. Operations: begin, run and
accept a step; prepare and commit an Undo or Redo; begin, publish and record a
Save. Hard: work is planned against one version and committed to a session that
may have moved; limits forget the oldest versions. Correct when the versions form
one line, no worker writes a file somebody may read, and a document shown as
saved is.

**Document edit** (`crates/ferritecad-document`: `candidate.rs`, `expression_edit.rs`,
`parameters.rs`, `formula.rs`, `graph.rs`, `validate.rs`; `ferritecad-jobs/src/edit.rs`).
State: the rows of the document and, beside them, the dependency rows that say what
each row reads; a candidate in memory with the rows it changed, the links they had,
what was added and what removed; the private file. Operations: eleven kinds of
change in any order, the transaction that writes them, acceptance or refusal of the
rebuilt file. Hard: a row is edited twice, or edited and later pulled in by the
evaluation, or added and removed again, and its dependency rows must be replaced as
if once; a second feature must follow the first of the same request; a rename rewrites
formulas all over; a stored value may have been wrong before. Correct when the
dependency rows say exactly what the rows say, features form lines, no stale value
enters a new one, and a rename changes nothing but the name.

**Live document and evaluator** (`crates/ferritecad-eval`: `cold.rs`, `cold/live.rs`,
`cache.rs`, `status.rs`; `ferritecad-document`: `graph.rs`, `cache.rs`;
`ferritecad-jobs/src/live.rs`; `ferritecad-scene/src/live.rs`).
State: the shapes the kernel holds, the accepted evaluation and a pending one,
each with the status, the key and the shapes of every object, the meshes of the
picture, and the sidecar with cached results. Operations: open, edit, undo, redo,
cached rebuild; per object: fail, skip, fall back, borrow, restore, build; cancel,
refuse, draw, commit, drop. Hard: a result is borrowed by its key, so the key must
hold all its geometry depends on; two versions share shapes and one of them is
released; an object that failed takes others with it; a rebuild stops anywhere.
Correct when reuse gives what a rebuild from nothing gives, every shape has one
owner, and the picture is of the version the session is at.

**Recovery record** (`recovery.rs`, `RecoveryRecord`, `RecoveryClaim`).
State: numbered copies, a manifest naming one, partial files, and what the owner
remembers (current, confirmed, last order). Operations: publish, clear, retire,
and, on an orphan, claim, restore, adopt, discard. Hard: each is several file
system calls; a process or the power may end after any of them; any may fail;
requests come out of order. Correct when the previous or the new copy always
survives, and an answer never claims more than there is.

**Recovery store and leases** (`recovery.rs` 376–955, `RecoveryStore`, `Lease`).
State: the folder all windows and command lines of one user share: records with
their lease file, manifest and copies, and the advisory lock on each lease, shared
or exclusive. Operations: list, claim, delete, create with its sweep for empty
records, publish, adopt, drop. Hard: several processes look at the folder call by
call; a lease may be removed between being opened and being locked; a lock is
probed to learn whether somebody waits. Correct when the record of a live owner is
never touched, what can be recovered goes only by somebody's decision, and what is
being read stays still.

**Recovery recorder** (`recovery.rs`, `RecoveryRecorder`, `run`).
State: a channel, the worker's batch and its records, and a status per lane.
Operations: observe, end, and the worker's adopt, checkpoint, clear, end, stop.
Hard: requests are coalesced; answers arrive for observations the tab has moved
on from; documents end with requests in the channel; the folder has a limit.
Correct when "written" is true, every decision is kept, and nothing waits for
ever.

**Launch journals** (`crates/ferritecad-app/src/journal.rs`).
State: lock files and segments of every instance in one folder, and which instance
holds which lock. Operations: open (up to so many tries), write, rotate, end, and
the sweep that keeps the newest finished instances. Hard: every window sweeps when
it starts, over files of instances that are starting, running, ending or dead.
Correct when no sweep takes what a running journal needs, and the newest ones are
kept.

**Window** (`crates/ferritecad-app/src/tabs.rs`, `sessions.rs`, `main.rs`, `restores.rs`,
and the state of `creates.rs`, `edits.rs`, `numeric.rs`, `recoveries.rs`).
State: the row of tabs, the shown tab, one operation slot per document, the open
form and where it is kept while something else needs the place, the Quit pass,
the readings whose answers are wanted. Operations: open, switch, close, quit,
New, recover, copy, reopen the last files one after the other, Apply, checkpoint,
Undo/Redo, Save, Save As, cancel, and all the answers. Hard: answers arrive in any order, for things that were cancelled,
replaced or closed; a form travels through five places; Close and Quit ask several
questions with Saves in between. Correct when the picture is the version Save
would write, a file has one writer, no form is lost or doubled, and nothing
unsaved goes without the user's consent.

### Modelled in part, or not yet

| component | what is there and what is not |
|---|---|
| restoring the last tabs, offering recovery (`restores.rs`, `last_tabs.rs`, `recoveries.rs`) | the reopening of a list of files is in Window. Not yet: how the list is written and read (`last_tabs.rs`), and which records are offered (`recoveries.rs`); the records themselves are in RecoveryStore |
| edit jobs and candidates (`edit.rs`, `create.rs`, `checkpoint.rs`, `import.rs`, `validate.rs`) | `edit_object_copy` is in DocumentEdit, where its results are accepted in DocumentSession, what they evaluate and draw in LiveModel. Not modelled: creation, import and checkpoints, which write a new private file and publish it as `publish.rs` does (Save) |
| document format (`ferritecad-document`: `document.rs`, `model.rs`, `validate.rs`, ...) | rows, dependency rows, what opening and validation refuse: DocumentEdit; the cache's rows: LiveModel. Not modelled: tables, encodings, imported sources, snapshots |
| formulas and parameters (`formula.rs`, `parameters.rs`) | names, references, cycles, renames and the order of evaluation are in DocumentEdit, where a formula adds up a literal and parameters. Not modelled: its text, units and other arithmetic |
| dirty set and its plan (`ferritecad-eval`: `dirty.rs`, `plan.rs`) | no caller outside tests: the window and the jobs rebuild with reuse and cache |

### Left out, with the reason

| component | reason |
|---|---|
| evaluator's geometry, OpenCASCADE adapter, sketch solver | real numbers and foreign libraries: out of TLC's reach |
| geometry kernel interface and its mock | a sequential contract over handles; who owns which handle is in LiveModel |
| persistent naming (`ferritecad-topology`) | pure functions over geometry results; bounded checks of its archive may follow the evaluator |
| types | values without state; identities and hashes are opaque values in the models |
| forms and panels | what a form lets a person type is presentation; that a form exists, what it was made on and where it is kept is in Window |
| exports, STEP exchange | sequential encoders and decoders; exports publish through `publish.rs`, which Save models |
| scene and viewport | which mesh a body is drawn with is in LiveModel; the rest are projections of an accepted model and GPU resources |
| command line | one command at a time over the same jobs |
| benchmarks, fixtures, packaging | not part of the running program |

### How the parts interact

```
 person, event loop                                       workers (threads)
 ------------------                                       -----------------
 Window ── begin/commit ──> DocumentSession ── ticket ──> step: private candidate
    │                             │                            ├── DocumentEdit: change, write
    │                             │                            └── LiveModel: evaluate, draw
    │ ── Save ────────────────────┴────────── SavePlan ─> Save ── SaveLock ── user's file
    │
    ├── observe, end ── channel ──> RecoveryRecorder ──> RecoveryRecord
    │                                                          │
    │                                                    RecoveryStore ── recovery folder
    └── events ─────────────────────────────────────────> Journal ── journal folder
```

The event loop is one thread. It hands each piece of work to a thread and goes
on; the answer comes back as an event with the generation it was issued for. The
three places where several *processes* meet are the user's file (hence the lock
and the compares of Save), the recovery folder (hence the leases) and the folder
of journals (hence the lock files).

## 2. Modules

| module | models | role |
|---|---|---|
| `SaveLock` | `SaveLock::acquire_with`, its Drop | one step per file system call of each saver, with crashes, errors and an outsider |
| `Save` (extends `SaveLock`) | `SavePlan::run`, `Temporary` | adds the target, the copies and the publication around the lock's own steps |
| `SaveProofs` | | theorems about it and about the lock |
| `VersionedFile` | save.rs:1–36 | abstract: a compare-and-replace register, implemented by `Save` |
| `DocumentSession` | `DocumentSession`, `StepTicket`, `ProducedStep`, `Move` | any number of steps, moves and a save under way |
| `LinearHistory` | | abstract: a line of versions with Undo and Redo, implemented by `DocumentSession` |
| `DocumentEdit` | `Candidate`, `write_changes`, `edit_object_copy` | one action per kind of change, then the transaction and its acceptance |
| `DocumentProofs` | | theorems about sessions and edits |
| `RecoveryRecord` | `RecoveryRecord`, `RecoveryClaim`, `remove_contents` | one step per file system call, with errors, process ends and power cuts |
| `RecoverableCopy` | recovery.rs:1–60 | abstract: one copy of a model that changes in one step, implemented by `RecoveryRecord` and used as such by `RecoveryRecorder` |
| `RecoveryRecordProofs` | | theorems about the record |
| `RecoveryStore` | `RecoveryStore`, `Lease`, `RecoveryClaim` | one step per file system call of each caller, with locks, errors and processes that end |
| `RecoveryStoreProofs` | | theorems about it |
| `RecoveryRecorder` | `RecoveryRecorder`, `Shared`, `run` | event loop, channel and worker; a record as `RecoveryRecord` shows it between operations |
| `RecoveryRecorderProofs` | | theorems about it |
| `Journal` | `Journal`, `sweep` | one step per file system call of each instance and of its sweep |
| `JournalProofs` | | theorems about it |
| `LiveModel` | `RebuildResult`, `LiveModel`, `BodyMeshes`, `LiveDocument`, the sidecar | one object of a rebuild per step, two versions and their shapes, meshes and cache |
| `LiveModelProofs` | | theorems about it |
| `Window` | tabs, controller slots, handlers | one handler per action, answers in any order |
| `WindowProofs` | | theorems about it |
| `MC...` | | the instances TLC checks, with their symmetry |

The modules compose by abstraction. `Save` contains `SaveLock` whole.
`DocumentSession` sees a Save as what `VersionedFile` promises (publish if the
file still holds the version expected), `RecoveryRecorder` sees a record as what
`RecoveryRecord` shows between two operations (`RecoverableCopy` is what they agree
on: the record implements it, `RecordIsACopy`, and whatever the recorder does to a
record it allows, `RecordsAreCopies`), `RecoveryStore` sees a record as a
directory that has or has not a lease, a header, a manifest and contents, `LiveModel`
sees an edit as the document it ends with, while
`RecoveryRecord` takes the lease as given (`owner`), and `Window` sees a document as
its line of versions and the version its file holds. Composing them state by
state would multiply millions of states by millions without a new question.

### How state and actions correspond to the code

* **SaveLock.** `name` and `header` are what the directory and the file hold;
  `origin` (history) is who made the file. `pc[s]` is the next system call:
  create, inspect, open, lock, write or read, compare; then held; then drop,
  unlink, close. `fd`, `fresh`, `removable` are the fields and locals of those
  names. A crash closes the descriptors and leaves the name. An inode may be
  reused when nobody refers to it.
* **Save.** `phase[s]` is the next operation of `SavePlan::run`; while it is
  "acquiring" or "unlocking", the steps are those of `SaveLock`. `scratch` is the
  Temporary: nothing, a copy, or (between link and unlink of Save As) a second
  name of the target. The target's content is a version number, `Alien`, or
  `Nothing`. `disturbed` (history) marks what an outsider changed after a save's
  last look at it: the window of two calls that save.rs:26–31 admits.
* **DocumentSession.** A version is the number of its private file; `model` and
  `size` are what was written there. `tickets`, `steps`, `moves` and `saves` are
  the values the API hands out and takes back. `base` and `form` (history) say
  which version each was made from and from whose form.
* **DocumentEdit.** `candidate` has the fields of `Candidate`; `copy` is the private
  file, `document` the one it was copied from and, after `Accept`, the one published;
  `baseline` is what did not rebuild before. A row is a kind, one formula with the
  value stored beside it, and links with roles; `deps` are the dependency rows. A sum
  above `Cap` is an evaluation that fails. The transaction is one step, since nobody
  sees the private file before it ends; a change that is refused, a failed write, a
  rebuild that is not accepted and a cancelled job are all `Refuse`.
* **RecoveryRecord.** `pc` and `job` are the operation under way; `manifest`,
  `copies` and `partials` the directory; `onDisk` is, for the manifest and every
  copy's name, the set of contents a power cut may leave: what was synced there
  and everything put there since. `lapses` (history) records the ways in which
  the record stopped being as described (a clear that failed half way, a copy
  kept after a failed sync, an adoption of an unsynced name, a removal that failed).
  The code ignores a failing removal of a copy or a partial file (`let _ =
  remove_file`): in the previous copy's removal, the tidying after an error, the
  sweep and the adoption, any of the files may stay, nobody is told (`RemoveQuietly`),
  and a partial file that stays makes the copy of that number fail.
* **RecoveryStore.** `directories`, `leases`, `headers`, `manifests`, `contents` are
  the folder, `holder` and `readers` the advisory lock of each lease, `owner` and
  `claims` the `RecoveryRecord`s and `RecoveryClaim`s that processes hold. `call[a]`
  is what a caller is doing: the operation, its next system call, the record it is
  at, the records it has still to look at, how many it counted, how often it tried.
  A lease file is made once in the life of its directory, so file and lock are
  named by the record; a name nobody refers to is a new random one. The deadline a
  claim waits for readers until is a choice at every probe of the lock.
* **Journal.** An instance is one try of one process at a journal, numbered by its
  UUIDv7. `locks`, `named`, `segments`, `headed` are the folder, `holder` the locks,
  `life[i]` where the instance is, `sweep[i]` where its sweep is and what it has
  listed.
* **LiveModel.** A document is a function from objects to payloads; a payload has
  a kind, a number, a note that no geometry depends on, what it reads, and the
  curves and regions that a sketch edit can break. A shape's geometry (`solid`) is
  the term of all the kernel was given, and a key the term that is hashed, so two
  keys agree exactly when their hashes would. `work` is the rebuild under way,
  `candidate` and `accepted` the two versions of `LiveModel`, `drawing` and
  `picture` their meshes. The owning thread rebuilds alone: between two objects
  only a cancellation can come. `Sound` is what `ensure_rebuildable` and the
  validation ask of a document before it is evaluated (its edges are those of its
  payloads, each to an object of the right kind, and they do not come back), and an
  assumption on the documents. `Cold` says what a document means, by what each
  object needs (`Needs`) and with no order, cache or earlier version; it is the
  property's side, the code's is the rebuild object by object.
* **RecoveryRecorder.** `lanes` and `shared` are the event loop's side and the
  mutex; `queue` the channel; `batch`, `newest`, `owned`, `ended` the worker's
  variables; `answer` an outcome not told yet, so that a newer observation can
  come between the operation and its answer.
* **Window.** An action is one handler of the event loop. When a handler goes on
  into another (the next question of a Quit, the close after a Save) `turn` says
  which, and nothing else happens first. `workers` are the threads that have not
  answered, each with its generation and tab. `slot[t]` is the controller's
  operation: nothing, a step, an Undo's scene, a save (with what to do next), or a
  reservation. Forms are in `form`, `draft`, `aside`, `closing` or `quit`. `reopen`
  is the Reopen of the last window's files: what it has still to read, the reading
  it waits for, and what it opened; the list itself is chosen freely at each
  Reopen. `typed`, `agreed` and `overrun` are history.

## 3. Runs

| run | question | what it shows |
|---|---|---|
| `lock` | does the lock exclude, leave other files alone, and let everybody answer? | mutual exclusion (`MutualExclusion`); while only savers touch the sidecar, none of them removes a user's file under that name or the lock another one holds (`RemovesOnlyItsOwn`; section 4 says what may happen to an outsider's file); every attempt to take the lock ends (`EveryAttemptEnds`) |
| `save` | does Save ever replace what it should not, or lie about it? | `NoLostUpdate`, `NeverDetachesLinks` (read-only and hard-linked files stay), `AnswerTellsTheTruth`, `LeavesNothingBehind`, with an outsider who ignores the lock; and a Save is one compare-and-replace: `Save` implements `VersionedFile` (`ImplementsRegister`) |
| `session` | is a session one line, whatever is under way? | `FilesAreOwned` (private files), the limits of the history (`WithinLimits`), `CleanMeansSaved`, and that it implements `LinearHistory` (`ImplementsLine`) |
| `edit` | what does a request of several changes leave behind? | `GraphIsSound`, `HistoryIsALine`, `StalenessNeverSpreads`, `RenameKeepsMeaning` |
| `live` | is what is reused what would be rebuilt, and is it whose? | `AgreesWithCold`, `HandlesAreOwned`, `PictureIsCurrent`, and that no edit is taken that adds a failure (`EditAddsNoFailure`) |
| `record` | what is left of a record after any stop, error or power cut? | `CrashLeavesACopy`, `PowerCutLeavesACopy`, `NewestRequestHolds`; and a record is one copy that changes in one step: `RecoveryRecord` implements `RecoverableCopy` (`ImplementsCopy`) |
| `record_unchanged` | does Unchanged mean the copy is there (`UnchangedMeansHeld`)? | no: see findings |
| `store` | can one process take what another owns, reads or may recover? | no: `OwnedIsWhole`, `RecoverableStays`, `ReadIsStill`; and windows that start together pass the limit by one each at most (`WithinRoom`) |
| `journal` | can a sweep take what it should not? | no: `RunningIsWhole`, `NewestAreKept` |
| `recorder` | do lanes say what is true, and are decisions kept? | `WrittenIsTrue`, `CopiesAreSafe`, `DecisionsAreKept`, whatever is coalesced and fails once |
| `recorder_settles` | does everything end? | no lane writes for ever (`EverythingSettles`); the worker ends when the last lane does (`WorkerEnds`) |
| `window` | can a person lose or confuse anything? | `ShownIsCurrent`, `OneWriter` (per file), `FormsAreKept`, `ReopenAccountsForAll` (a Reopen opens each file of its list, or says so), `NothingLostUnasked` |

Every property of a passing run has a mutant: a plausible bug in one mapped
definition that makes TLC find that property violated under the run's own bounds.
The type invariants are in the modules, and no run checks one by itself; they are
proved or part of a proved invariant.

### Bounds, and why they are enough

* `lock`: two savers, two inodes (so that one is used again as soon as nobody refers to
  it), four turns as in the code, one crash or error, one change by an outsider.
  Both safety properties are also proved for any number. A liveness property admits
  no symmetry, and with a third inode or a second fault the run would not end in time.
* `save`: two windows; two versions after the first (both windows save, or one
  saves over the other's); one fault; two changes of the target by an outsider,
  which may be its content, its mode or the link to it; two turns of the lock's
  loop, which have no effect on the target. No outsider touches the *sidecar*
  here (`MaxMeddles = 0`; `lock` has one), and none strikes between a save's second
  compare and its rename (`WindowEdits = FALSE`): save.rs:26–31 concedes that instant,
  and the register would not be one if it were used.
* `session`: at most three versions and 5 bytes of sizes 1 and 3, so that either
  limit may be the one that bites; three private files after the first, four
  changes of the current version, two steps or moves under way, one save, one
  change by an outsider. Two models let versions differ or agree in content.
* `record`: two versions, three requests, three publications (so a copy is
  superseded and the superseding one too), two steps with errors or failed removals,
  two ends of the owner, and power cuts.
* `live`: ten versions of a plate with a cut in a sketch on its own face, which is
  the smallest document in which one feature reads another's geometry: other
  drawings, another width that moves the face, a note, a failing formula, sketch,
  region and boolean, no cut. One place of undo and of redo, one damage to the
  sidecar, five shapes: two for each of two versions and one for the tool of a
  boolean.
* `edit`: 96 documents of two parameters, the second reading the first or not, and a
  body of one feature or two, each value right or wrong; a third parameter, feature and
  name and a second body for what is added; formulas that are a number or one name;
  two changes, since every hazard here is of two changes meeting (edited and pulled in,
  added and removed, appended twice, renamed and read); values up to three, so that a
  sum may fail. The soundness of the graph and the line are also proved for any number.
* `store`: two callers, each of which may do anything; three records and a limit of
  one, so that a sweep meets its own record, another's and an orphan; two names
  tried; any call may fail. States are told apart up to the headers of leases that
  are gone and that nobody refers to.
* `journal`: three instances, one finished one kept, three segments each (the
  first, one that goes, the current), two tries, any call may fail.
* `recorder`: two lanes, two documents, two records, room for one record, three
  observations *in all*, one failing operation. `recorder_settles` has one
  version, two observations and no failing operation (`MaxFaults = 0`): an error
  is an answer like any other, and a fault-free worker is the harder case for
  "always answers" only in what it coalesces, which `recorder` covers with faults
  for safety.
* `window`: two tabs, two files, two versions of a document at a time on a line
  of two, two workers that have not answered. Versions of no further use are
  renumbered away, and an answer that accepts a version waits until a number is free.
  With two tabs there is a shown and a hidden one, a
  neighbour to show after a close, a Quit that goes from one to the other, and no
  room for a third document, so that both refusals occur. Two workers suffice for
  an answer to be overtaken by any other, and for a Reopen of two files to meet a
  file that is open, one that fails and one there is no room for. A million and a
  half distinct states, 50 deep.

What the environment does is a choice: any file system call may fail (where a
bound says how often), a worker's result is any of those its job can have, a
file's folder may hold anything when it is asked about (Window), an outsider may
write any content.

### Fairness

* `lock`: weak fairness of each saver's own steps (`SaverGoesOn`). A save is a thread;
  its calls return, and the lock is tried, never waited for (`try_lock`), so the thread
  always goes on to its answer. Nobody is assumed to start a save or to die.
* `recorder_settles`: weak fairness of the worker's steps. The worker waits only
  for its channel and the disk; the event loop is assumed to do nothing.
* No other run assumes fairness. Liveness of the Window is not stated: whether a
  worker ends is the geometry library's matter.

### Deadlock

`lock`, `save` and `store` check for deadlock. (In `save`, `Done` is
the state in which nothing is left to make; a caller of the store can always start
another call.) The others have states in which the real system
rests too: a session whose bounded counters are used up, a record that was
removed, an edit that was accepted or refused, a worker that has stopped, a journal whose process ended, a live document
whose sidecar rebuild is done, a window that has ended. For them the cfg
says `CHECK_DEADLOCK FALSE`.

## 4. Findings

1. **`UnchangedMeansHeld`** (code bug, `recovery.rs:1492`). When a clear fails
   *after* it removed the manifest (the directory's sync, or listing it), `clear`
   returns early and leaves `current` and `confirmed` as they were. A later
   publish of the same model (an Undo back to it, say) is answered Unchanged and
   shown as written, with nothing on disk. Any other model repairs it. The other
   properties of the record except this case by `lapses`.

Observed while modelling, and not a run:

* `main.rs:4948`: `settled()` is meant to refuse a Save while anything runs that opens
  a document, but does not ask about a copy being made (`edits.running()`). A person
  starts a copy, then Save As; the copy is published and opened (3238, 5711) beside
  the save. If the reading answers first, the new tab hides the saving one and
  `finish_save` (`sessions.rs:999`) ignores the answer: the file is not recorded as
  saved and the tab keeps a running operation for ever. `OneWriter` excepts tabs this
  happened to (`overrun`), so that it still says nothing else does it.
* `recovery.rs:1615`: an adopted record counts as confirmed though the process that
  renamed its manifest may have ended before the directory's sync; an identical
  publish is then answered Unchanged, which the comment at 1326–1327 rules out
  (`lapses` has "adopt").
* `save.rs:555, 586`: a second saver may be told Failed rather than the Busy of save.rs:22–23:
  when the sidecar vanishes between two of its calls, and when it locks the sidecar
  before its maker has written the header.
* `publish.rs:119`: a process that dies between the link of Save As and the removal of
  the scratch name leaves the published file with a second name, and later Saves
  refuse it as hard-linked.
* `recovery.rs:612–624`: a process that dies between making a lease and writing its
  header leaves a directory that no sweep removes, no listing shows and no delete
  accepts, and that counts against the limit (docs/document-crash-recovery.md:107
  promises the sweep). A listing may call a record Damaged that is just being made;
  "at most 32 records" (line 105) is passed by windows that start together
  (`WithinRoom`), and three sweeps at once can fail a creation.
* `journal.rs:484, 541, 557`: a sweep lists segments before it has the lock; an
  instance that heads its first segment and ends in between loses its lock file while
  the segment stays, which no later sweep recognises (contrary to the comment at
  539–540).
* `last_tabs.rs`: between reading the list and renaming the new one over it, a list
  another window published is overwritten.
* After a copy edit is published and its document cannot be shown,
  `draft_load_finished` compares the private file's path with the destination's, so
  the form typed for it does not come back.
* `SaveLock`'s Drop compares and removes in two calls (save.rs:628–633), so a file an
  outsider puts under the name exactly between them goes; `RemovesOnlyItsOwn` speaks
  of savers only.
* Two saves of one document recorded out of order would break `CleanMeansSaved`; the
  API allows them, the controller's single slot does not, and `MaxSaves = 1` says so.

## 5. Proofs

Every theorem holds for any values of the constants that satisfy the named
assumptions, and nothing else is assumed.

**`SaveProofs`: the lock.** `LockTyped`: the type invariant. `SaversExcludeEachOther`:
mutual exclusion while only savers touch the sidecar. It is not inductive: that two
savers hold *different* files is no contradiction until one knows that a holder's
file has the name. `LockInv` has three parts: a lock belongs to whoever has the file
open, and whoever is past `try_lock` has it (`FlockInv`); only the file's maker,
while nobody could have taken it over, or the lock's holder may remove
(`RemovableInv`); and the holder's file has the name (`PointInv`), which is kept
because the only way for a name to go is a removal, and the second part says a
removal is by the holder. `NobodyHoldsAUsersFile` needs no such restriction: a saver
compares a handle only after it wrote or read the header under the lock
(`HeaderInv`). `SaversRemoveTheirOwn` is an action property from the same parts.

**`SaveProofs`: Save.** `SaveIsKept` is the inductive invariant of Save with any number of
windows, versions, faults and outsiders; the four properties of the run `save` that
name no other module follow (`NoUpdateIsLost`, `LinksStayAttached`, `AnswersAreTrue`, `NothingIsLeftBehind`), and
`SaveIsARegister`, the refinement of `VersionedFile`, under `LocksSupported` and with
outsiders that keep out of the instant between the second compare and the rename
(`~WindowEdits`), of whose changes the run `save` has two and the theorem any number. The lock's invariants carry over because a step of Save is a step of
the lock, or one the lock sees only as a fault (`LockSide`). Two parts are Save's own.
`FreshInv`: the version a save is publishing is not at the path, expected by no window
and saved by no other, so a publication always changes the file and never brings it to
what somebody else compares with. `GuardInv`: a save past the lock's first look holds
the lock, and what its last looks saw is still so unless an outsider has struck since;
it is kept because the one other step that could change the file is another saver's
rename, which the lock excludes, or a link, which needs the path to be empty.
`NothingIsLeftBehind` adds that without faults the sidecar always has a saver who will
remove it (`Owned`) and the second name of a Save As is about to go (`OneName`).

**`DocumentProofs`: sessions.** `SessionTyped`; `LineIsKept`, the invariant `LineInv`;
from it `HistoryIsOneLine` (which no run checks), `PrivateFilesAreOwned`; `UndoGoesOneStep` and
`CheckpointGoesWithPath`; and `SessionIsALine`, that every behaviour of a session is
one of `LinearHistory`. That the history is a line says nothing about work under
way, so `LineInv` adds what the line is owed: every file in use was numbered before
the next one, no ticket's file is anybody else's, a step was made from the version
it names, and a move prepared in this generation is one place away. Each operation
then keeps the line because a stale one is refused by its generation. The refinement
maps Accept to Edit, a move to Undo or Redo, a worker's finished file to Make, and
everything else to a stutter. `HistoryKeepsToItsLimits` says the limits hold at any
time, for any sizes: what `enforce_limits` leaves fits (`CommitFits`), and it goes on
to fit because no worker writes the file of a version in the history (`SizeStays`,
from `LineInv`).
`SavedMeansSaved` assumes one Save at a time, as the controller's slot allows:
`SaveInv` follows the version saved from the request through the publication to its
record.

**`DocumentProofs`: edits.** `EditIsSound` and `HistoryStaysALine`, for any identifiers,
names, formulas, requests of any length and any sound documents to begin with, and
`DocumentStaysSound`, that what an edit publishes is as sound. That the written graph
is sound says nothing of the changes before the write, so `EditInv` adds what the
candidate owes the stored document: which rows there are and which of them changed
(`Domains`), that the links kept of a changed row are those it is stored with, and none
for an added one (`OldLinks`), and that kinds never change (`Rows`). The write then
replaces exactly the stored links of the rows it puts (`WriteInv`): the rows it does
not put are as stored, so the dependency rows left are theirs. `OneLine` is kept
because a feature that is appended was not there, so nothing leads to it, and the
body's old link, the only one to the old tip, goes in the same step (`TipMoved`).

`RenamesKeepMeaning` is the action property of a rename, at any point of a request.
Names are unique throughout (a part of `EditInv`), so each formula adds up the same
terms before and after (`RenameKeeps`), and rows that add up the same terms mean the
same (`MeaningsAlike`).

`StalenessStays` is that no stored value that was wrong enters a value the edit writes,
and that the edit leaves no row behind that reads what it changed. It is about what
recursive definitions compute (`Acyclic`, `Affected`, `Evaluation`, `Meaning`, and the
fold that adds up a formula), so it begins with `Recursion`: over a well-founded
relation there is a function that is everywhere what its step says, glued together from
the partial ones, which agree where they meet (`PartlyOnce`). Then edges that pass
`Acyclic` lead out of every set of rows (`AcyclicOrders`), which makes the rows of such
a document well-founded; a value that is not the failure read no failure
(`ValueBounds`), so a least row where the evaluation and the meaning differ cannot be
(`EvaluationMeans`); and a row that is not computed again reads only rows of its kind
(`UnaffectedReads`), which are as stored, so it means what it meant (`UnaffectedMeans`).

`DocumentsAssumption` is that a document is sound before its first edit, has finitely
many rows and that these are as their types make them; `FormulasAssumption` that a
formula is a literal and how often it names each name, and that `Cap` is a number.

**`LiveModelProofs`.** `ShapesHaveOneOwner`, for any documents, payloads and numbers
of handles: every shape the kernel holds belongs to exactly one of the accepted
evaluation, the pending one and the rebuild under way, and nothing refers to a shape
that is gone. `OwnershipInv` adds who may refer to whose: a rebuild or a candidate to
its own and to the accepted one's, the accepted one only to its own; a rebuild and a
candidate never exist together. Commit keeps it because what the new version borrowed
is handed over before the rest is released.

`HeldIsCold` is that whatever a version holds, built, borrowed or restored from the
sidecar, is what a rebuild of its document from nothing gives. It takes two facts
about documents. That there is such a rebuild: `TruthRule` says each object of a sound
document is what is judged of the objects it needs (partial rebuilds agree, and were
one of them the largest, its first missing object could be added). And that a key
says enough: `KeyDetermines` is that two versions which key an object alike make the
same of it, for otherwise there would be a first object of which they do not, and
everything its key was hashed from would be the same. `FaithInv` is then what the
rebuild needs of the session: ownership, a line of sound documents, that each of the
three versions is `Faithful` (its objects are closed under what they read, all that is
kept is right, and every key is the one its object has in that version: `Keying`), and
that an entry of the sidecar is what *some* version makes under that key (`Trusted`).
A restored or borrowed result is right because its key was computed from this version
and found in another, and the two make the same. The assumptions are that documents
are sound (`DocumentsAssumption`), and that `None` is nothing else (`NoneAssumption`).

`ShownIsTheSession` and `EditsFailNothingNew` follow from `FaithInv` and `PictureInv`:
a candidate and the accepted version are complete, a drawing is of the candidate, the
picture is of the accepted version, which is the one the line is at, and an edit is
measured against what that version left unbuilt. A mesh may be kept from the last
picture because its key is the body's, and keys tell what bodies are made of.

**`RecoveryStoreProofs`.** `OwnedRecordsAreWhole`, for any number of callers and
records. The invariant says what each call under way knows: a manifest is there only
under a lease with a header and beside its copy (`FilesAreOrdered`); shared and
exclusive locks exclude each other (`LocksExclude`); a call past the lock holds it,
and nobody owns the record (`CallsLock`); a removal has read the header and takes the
manifest first (`HeaderWasRead`); a record that has no header yet is made by one call
(`MadeByOne`), so a sweep that comes upon it finds nothing it may remove.
`RecoverableCopiesStay` and `RecordsInReadingAreStill` are action properties from the
same invariant, with two more parts: a sweep that goes on to remove has found no
manifest under the lease (`SweepsLook`), and a listing reads under the shared lock
(`ListsLock`). `FilesGo` is that only removals, the undoing of a creation and a clear
take a file. `RecordsStayWithinRoom`: with finitely many callers, the records pass the
limit by fewer than there are callers. That a creation counted fewer than the limit
says nothing of what others made since, so `RoomInv` counts both: however many records
there are at or above the limit, those of them and the creations that would still go
on from a lower count are together less than one for each caller more (`Crowded`). It
is kept because a creation that makes its record no longer counts among those under way, and
a record being made is one caller's (`MakersAlone`).

**`RecoveryRecordProofs`.** `RecordIsKept` is the inductive invariant of a record
through publications, clears, removals, claims, errors, ends and power cuts, and from
it follow the properties of the run (`ACopyIsLeft`, `SyncedCopyIsLeft`,
`NewestRequestIsHeld`, `RecordIsACopy`) and two that no run checks, `RecordHasOneCopy`
(one copy and nothing half-written between operations, with those exceptions) and
`NamedCopyStays`: nobody touches a copy a manifest names, not even a removal that
fails half way. Its parts: only a session
publishes, always the number after its last (`HolderInv`); the manifest is what the
session remembers or what it has just named, and its copy is there (`NamedInv`); the
operation under way is the newest request's (`RequestInv`); what else lies about
belongs to that operation, unless a copy was kept after a failed sync or a removal
failed (`LitterInv`, from `QuietlyRemoved`: where no failed removal is noted, all that
should go is gone);
a copy is synced before a manifest names it, and a manifest a power cut may bring
back names a copy that is still there (`SyncInv`); and what a session is sure of is
the only manifest a power cut can leave (`SureInv`). `RecordIsACopy` maps the record to
`RecoverableCopy`: what is recovered is what the manifest names (or `Torn`, when a power
cut left it naming nothing), the owner remembers a copy from the rename that names it,
and is sure of it once the directory is synced. A publication changes the abstract copy
at that rename and a clear when the manifest goes; all the other calls, and those that
fail, leave it as it was. What a clear that failed half way leaves (section 4)
is allowed by `Clear` of `RecoverableCopy`: nothing is recovered, and the session may
still remember the copy. A session is sure of an adopted record only when its manifest
had been synced before, since the code does not sync what it takes over.

**`JournalProofs`.** `JournalTyped`, and `JournalsInUseAreWhole`: a starting or running
instance has its lock file and nobody else holds its lock (`LocksAreMine`); a sweep
removes only what it has locked, and never its own (`SweepsLock`); so nobody but the
instance removes its segments, and that is neither the first nor the current one
(`SegmentsHeaded`). `OnlyTheOldestGo` is that a sweep takes a finished journal only
when as many newer ones as are kept stay. What the sweep saw may be gone when it goes
on, so `KeptCount` says that what it counted still counts, or that as many newer ones
as are kept do: what goes in between went by another sweep, which found as many. What
is still to judge is older than all that was judged. A journal in use is not an
obstacle, since the segment it heads or writes is there (`SegmentsThere`). Counting
asks for finitely many instances.

**`RecoveryRecorderProofs`.** `RecorderIsKept` is the inductive invariant of the
recorder with any number of tabs, documents, records and requests waiting. From it
follow `RecordsAreLeasedOnce`, that no two documents ever write one record; `WrittenMeansCopied`;
and, as action properties, `OthersCopiesAreSafe` and `EndsAreAsDecided`. Its parts
follow a request from the tab to the disk. In the batch and the channel taken
together the requests of one document come as an Adopt, what was asked, the newer the
later, and its End (`SentInv`, `OrderInv`), because one lane tracks an open document
and counts every request (`LaneInv`); hence the newest order the worker remembers is
that of the last request, and the last request asks for what the lane observed last
(`LatestInv`, `NewestInv`), so skipping what is superseded loses nothing. A record is
owned, waits for its recovered document to be observed, or is in one Adopt on its way
(`LeaseInv`). The worker remembers what the record holds, unless a clear stopped half
way (`MemoryInv`), which is what makes Unchanged true. With nothing pending and
nothing failed, the copy is of what was observed last (`DoneInv`), and a lane that
says "written", or an answer that will make it say so, has nothing pending (`WrittenInv`):
an answer for an older observation is dropped by its order. `RecordsAreCopies` is the
other half of the composition: under the same invariant every step of the worker is,
for each record, a step of `RecoverableCopy` or none, so what was proved of a record's
calls is what the worker relies on.

**`WindowProofs`.** `WindowHolds` is the inductive invariant `WindowInv` of the window,
for any finite number of tabs, any files and any bounds on versions and workers, and
from it follow the five properties of the run: `WindowShowsTheCurrent`,
`OneFileOneWriter`, `TypedFormsAreKept`, `AReopenAccountsForAll` and the action property
`LosesNothingUnasked`. `WindowTyped` is the type invariant. Two assumptions on the
constants are used, `WindowAssumption` (finitely many identities of tabs, bounds that
are positive) and `NothingIsNothing` (None is no record and no version of a tab). None
of the five is inductive, since a late answer acts on what was so when it was asked for:

* `Core` says what an answer may still find. No two workers have the same generation
  (`WorkersInv`), and a new one is nobody's (`GenIsNew`), so an answer that matches a
  slot is the one the slot waits for. The awaited picture is of the current version of a
  hidden tab (`SwitchInv`), because every operation on a hidden tab is refused. A tab
  that saves is shown, writes its current version, and no other tab has the file it
  saves to (`SaverInv`): Open refuses a file a tab has, `Settled` keeps readings and
  saves apart, and only tabs a new document hid are excepted (`overrun`).
* `FormsInv` says where forms may be. A form is held by its tab if that is hidden, by
  the window, by New, by a Close or by a Quit, and by one of them only (`Kept`): a Close
  and a Quit exclude each other, New excludes both, the shown tab has no draft
  (`PlacesInv`). What a question was answered for is in `agreed` as long as the
  answer counts (`Confirmed`, `PassInv`), and a version that was
  answered for lies on its tab's line, so a new one is never taken for it.
* `Control` says what the running handler is owed. The tab it is about to close or show
  is there (`TurnInv`), and nothing is to be lost with it unless that was agreed
  (`CloseInv`), for which a Save on the way to a Close must have found no form
  (`Formless`). A Reopen reads alone, each file before the one it is at is accounted
  for, and the reading it waits for is on its way (`ReopenInv`); while New is open
  nothing else is begun (`MakingInv`).

There is one lemma for each handler and each answer, and one for each thing several of
them share (a switch begins, a form goes, a Close or a Quit is given up, a tab is opened
or closed, a version is accepted). `LosesNothingUnasked` needs besides that every step
but the closing of a tab is `Steady`: every tab is still open, beside at most one new
one.

**Only model-checked.** Liveness, which is out of the prover's reach as ENABLED is:
`EveryAttemptEnds` of the lock, `EverythingSettles` and `WorkerEnds` of the recorder.
Every other property of the passing runs is a theorem. The library's theorems about induction and
recursion take an operator as a parameter, which the provers cannot instantiate; where an
argument needs one, it takes a minimal counterexample instead (of a set of naturals, of
the subsets of a finite set, or of a document's rows), and a recursive function is shown
to exist by `Recursion` of `DocumentProofs`, which takes its step as a function. No
module here declares a RECURSIVE operator.

## 6. What is left out of the modelled parts

* Save: the permission bits copied to the new file, the text of messages,
  symbolic links other than the one that leads to the target.
* Session: the removal of the private directory, the scene beside a step.
* Edit: links of sketches and datum planes and those to profiles; text and units of
  formulas; imported sources and their attachments; the editors of one field, which
  check what a form offered and end in the same changes; a change of the source file
  during the job, which publication compares (Save).
* Live document: the geometry itself, whose terms stand for it; how the number a
  formula comes to is worked out; what an extrusion is
  made of beside its profile, its numbers and the solid before it, such as the face it
  may end at.
* Record: the bytes of the manifest; `restore` and `extract` only read.
* Store: what a listing reads of a manifest; what a publication does step by step
  (RecoveryRecord). Journal: what is written; the panic hook; clock and folder names.
* Recorder: records of *other* windows, which the leases keep apart; the sweep for
  empty records and the limit are one step of `CheckpointFirst`.
* Window: exports, how the list of the last files is kept, choosing a file or quitting while
  New is unfinished, pointer gestures, drawing. A form whose attempt to close or
  quit was taken back returns in the same step, where the code does it in the next
  frame (`main.rs:4274`).

## 7. Plan

Done: `SaveLock`, `Save`, `DocumentSession`, `RecoveryRecord`, `RecoveryRecorder`,
`Window` with Reopen, `LiveModel`, `DocumentEdit`, `RecoveryStore`, `Journal`, three abstract
specifications, and the theorems listed in `PROJECT.json`.

Next modules, in this order:
1. `LastTabs`: how the list is read and published by several windows.
2. `Creation`: how a new or imported document is written, checked and published.
3. `Solver`: what of the sketch constraints can be told without real numbers (which
   constraints an edit of a sketch keeps, drops or refuses).

Next theorems: those of the modules above. What is left of the present ones is
liveness, which stays with TLC.
