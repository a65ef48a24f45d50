-------------------------------- MODULE Save --------------------------------
(***************************************************************************)
(* Save and Save As: `SavePlan::run` (crates/ferritecad-jobs/src/save.rs)  *)
(* and `Temporary::publish` (publish.rs), for windows whose documents live *)
(* at one path.  An in-place Save checks the file, makes a private copy    *)
(* beside it, takes the lock of module SaveLock, checks again, and renames *)
(* the copy over the file; Save As links the copy where nothing is.        *)
(*                                                                         *)
(* A version of the document is a number: a content hash that differs      *)
(* whenever the content does.  Alien stands for anything else that can be  *)
(* at the path.  A window always has something new to save.                *)
(***************************************************************************)
EXTENDS SaveLock

CONSTANTS
    Alien,       \* a file that is not this document
    MaxVersion,  \* versions made in a behaviour
    MaxEdits,    \* changes of the target by an outsider
    WindowEdits  \* whether the outsider may strike between compare and rename

ASSUME VersionAssumption ==
    /\ MaxVersion \in Nat
    /\ MaxEdits \in Nat
    /\ WindowEdits \in BOOLEAN

ASSUME ContentAssumption ==
    /\ Nothing \notin Nat \cup {Alien}
    /\ Alien \notin Nat

VARIABLES
    target,    \* what is at the path
    writable,  \* neither read-only nor hard-linked elsewhere
    linked,    \* whether the windows' path still resolves to the target
    phase,     \* where each window's save is
    kind,      \* SavePlan::target
    expected,  \* SavePlan::expected: the version last read or written
    source,    \* SavePlan::source: the version being saved
    scratch,   \* the window's Temporary: none, a copy, or a link to the target
    cancelled, \* the OperationContext of the save
    ending,    \* the answer, once it is settled
    versions,  \* versions made so far
    edits,     \* the outsider's changes so far
    disturbed  \* what the outsider changed behind a window's last checks

saveVars == <<target, writable, linked, phase, kind, expected, source, scratch,
              cancelled, ending, versions, edits, disturbed>>
vars == <<lockVars, saveVars>>

Version == 0 .. MaxVersion
Contents == Version \cup {Alien}

Phases == {"idle", "start", "resolve", "replaceable", "compare", "copy",
           "acquire", "acquiring", "replaceable2", "compare2", "publish",
           "link", "linked", "unlock", "unlocking"}
Answers == {"none", "Saved", "Modified", "Replaced", "Missing", "Unwritable",
            "Busy", "Cancelled", "Failed", "Occupied"}

TypeOK ==
    /\ LockTypeOK
    /\ target \in Contents \cup {Nothing}
    /\ writable \in BOOLEAN
    /\ linked \in BOOLEAN
    /\ phase \in [Savers -> Phases]
    /\ kind \in [Savers -> {"InPlace", "As", "AsInside"}]
    /\ expected \in [Savers -> Version \cup {Nothing}]
    /\ source \in [Savers -> Version \cup {Nothing}]
    /\ scratch \in [Savers -> {"none", "copy", "link"}]
    /\ cancelled \in [Savers -> BOOLEAN]
    /\ ending \in [Savers -> Answers]
    /\ versions \in Version
    /\ edits \in 0 .. MaxEdits
    /\ disturbed \in [Savers -> SUBSET {"content", "mode"}]

(* The file holds version 0, and every window has opened it or is          *)
(* untitled; or there is no file yet.                                      *)
Init ==
    /\ LockInit
    /\ name = Nothing
    /\ target \in {0, Nothing}
    /\ writable = TRUE
    /\ linked = TRUE
    /\ phase = [s \in Savers |-> "idle"]
    /\ kind = [s \in Savers |-> "InPlace"]
    /\ expected \in [Savers -> {target, Nothing}]
    /\ source = [s \in Savers |-> Nothing]
    /\ scratch = [s \in Savers |-> "none"]
    /\ cancelled = [s \in Savers |-> FALSE]
    /\ ending = [s \in Savers |-> "none"]
    /\ versions = 0
    /\ edits = 0
    /\ disturbed = [s \in Savers |-> {}]

In(s, where) == phase[s] = where
Proceed(s, where) == phase' = [phase EXCEPT ![s] = where]

(* `return Err(..)` or `Ok(..)`: whatever is held is let go of first, the  *)
(* lock and then the scratch directory.                                    *)
End(s, answer) ==
    /\ phase' = [phase EXCEPT ![s] = "unlock"]
    /\ ending' = [ending EXCEPT ![s] = answer]

-----------------------------------------------------------------------------
(* The person and the session: what a plan is made of                      *)

Plan(s) ==
    /\ In(s, "idle")
    /\ versions < MaxVersion
    /\ versions' = versions + 1
    /\ source' = [source EXCEPT ![s] = versions + 1]
    /\ \E k \in {"InPlace", "As", "AsInside"} : kind' = [kind EXCEPT ![s] = k]
    /\ ending' = [ending EXCEPT ![s] = "none"]
    /\ cancelled' = [cancelled EXCEPT ![s] = FALSE]
    /\ Proceed(s, "start")
    /\ UNCHANGED <<lockVars, target, writable, linked, expected, scratch, edits,
                   disturbed>>

(* The window opens what is at the path now.                               *)
Reopen(s) ==
    /\ In(s, "idle")
    /\ linked
    /\ target \in Version
    /\ expected[s] # target
    /\ expected' = [expected EXCEPT ![s] = target]
    /\ ending' = [ending EXCEPT ![s] = "none"]
    /\ UNCHANGED <<lockVars, target, writable, linked, phase, kind, source,
                   scratch, cancelled, versions, edits, disturbed>>

Cancel(s) ==
    /\ phase[s] # "idle"
    /\ ~cancelled[s]
    /\ cancelled' = [cancelled EXCEPT ![s] = TRUE]
    /\ UNCHANGED <<lockVars, target, writable, linked, phase, kind, expected,
                   source, scratch, ending, versions, edits, disturbed>>

-----------------------------------------------------------------------------
(* SavePlan::run                                                           *)

saveFrame == <<target, writable, linked, kind, expected, source, cancelled,
               versions, edits>>

Start(s) ==
    /\ In(s, "start")
    /\ \/ cancelled[s] /\ End(s, "Cancelled")
       \/ ~cancelled[s] /\ kind[s] = "InPlace" /\ expected[s] = Nothing
            /\ End(s, "Failed")
       \/ ~cancelled[s] /\ kind[s] = "InPlace" /\ expected[s] # Nothing
            /\ Proceed(s, "resolve") /\ UNCHANGED ending
       \/ ~cancelled[s] /\ kind[s] = "AsInside" /\ End(s, "Failed")
       \/ ~cancelled[s] /\ kind[s] = "As" /\ target # Nothing /\ End(s, "Occupied")
       \/ ~cancelled[s] /\ kind[s] = "As" /\ target = Nothing
            /\ Proceed(s, "copy") /\ UNCHANGED ending
    /\ UNCHANGED <<lockVars, saveFrame, scratch, disturbed>>

(* canonicalize: before the copy a path that leads elsewhere is another    *)
(* save's target and not this module's; under the lock it is a conflict.   *)
Resolve(s) ==
    /\ \/ /\ In(s, "resolve")
          /\ linked
          /\ \/ target = Nothing /\ End(s, "Missing")
             \/ target # Nothing /\ Proceed(s, "replaceable") /\ UNCHANGED ending
       \/ /\ In(s, "resolve")
          /\ ~linked
          /\ End(s, "Missing")
       \/ /\ In(s, "acquiring")
          /\ At(s, "held")
          /\ \/ linked /\ target = Nothing /\ End(s, "Missing")
             \/ ~linked /\ End(s, "Replaced")
             \/ /\ linked /\ target # Nothing
                /\ Proceed(s, "replaceable2") /\ UNCHANGED ending
    /\ UNCHANGED <<lockVars, saveFrame, scratch, disturbed>>

(* Mutant: asked once, before the copy, and not again under the lock.      *)
Replaceable_Once(s) ==
    /\ phase[s] \in {"replaceable", "replaceable2"}
    /\ \/ target = Nothing /\ End(s, "Missing")
       \/ /\ target # Nothing /\ In(s, "replaceable2")
          /\ Proceed(s, "compare2") /\ UNCHANGED ending
       \/ /\ target # Nothing /\ In(s, "replaceable")
          /\ IF writable THEN Proceed(s, "compare") /\ UNCHANGED ending
                         ELSE End(s, "Unwritable")
    /\ UNCHANGED <<lockVars, saveFrame, scratch, disturbed>>

Replaceable(s) ==
    /\ phase[s] \in {"replaceable", "replaceable2"}
    /\ \/ target = Nothing /\ End(s, "Missing")
       \/ target # Nothing /\ ~writable /\ End(s, "Unwritable")
       \/ /\ target # Nothing /\ writable
          /\ Proceed(s, IF In(s, "replaceable") THEN "compare" ELSE "compare2")
          /\ UNCHANGED ending
    /\ UNCHANGED <<lockVars, saveFrame, scratch, disturbed>>

Differs(s) ==
    \/ target = Nothing /\ End(s, "Missing")
    \/ target = Alien /\ End(s, "Replaced")
    \/ target \in Version \ {expected[s]} /\ End(s, "Modified")

Compare(s) ==
    /\ In(s, "compare")
    /\ \/ Differs(s)
       \/ target = expected[s] /\ Proceed(s, "copy") /\ UNCHANGED ending
    /\ UNCHANGED <<lockVars, saveFrame, scratch, disturbed>>

(* Temporary::beside, copy_to, and the cancellation check after the copy.  *)
Copy(s) ==
    /\ In(s, "copy")
    /\ scratch' = [scratch EXCEPT ![s] = "copy"]
    /\ \/ cancelled[s] /\ End(s, "Cancelled")
       \/ /\ ~cancelled[s]
          /\ Proceed(s, IF kind[s] = "InPlace" THEN "acquire" ELSE "link")
          /\ UNCHANGED ending
    /\ UNCHANGED <<lockVars, saveFrame, disturbed>>

TakeLock(s) ==
    /\ In(s, "acquire")
    /\ Begin(s)
    /\ Proceed(s, "acquiring")
    /\ UNCHANGED <<saveFrame, scratch, ending, disturbed>>

LockRefused(s) ==
    /\ In(s, "acquiring")
    /\ At(s, "idle")
    /\ End(s, IF verdict[s] = "Busy" THEN "Busy" ELSE "Failed")
    /\ UNCHANGED <<lockVars, saveFrame, scratch, disturbed>>

(* Mutant: the early compare is trusted.                                   *)
CompareLocked_None(s) ==
    /\ In(s, "compare2")
    /\ IF cancelled[s] THEN End(s, "Cancelled")
                       ELSE Proceed(s, "publish") /\ UNCHANGED ending
    /\ UNCHANGED <<lockVars, saveFrame, scratch, disturbed>>

(* The second compare, under the lock, and the last cancellation check.    *)
CompareLocked(s) ==
    /\ In(s, "compare2")
    /\ \/ Differs(s)
       \/ target = expected[s] /\ cancelled[s] /\ End(s, "Cancelled")
       \/ target = expected[s] /\ ~cancelled[s] /\ Proceed(s, "publish")
            /\ UNCHANGED ending
    /\ UNCHANGED <<lockVars, saveFrame, scratch, disturbed>>

(* Mutant: a cancellation is honoured after the rename as well.            *)
Rename_LateCancel(s) ==
    /\ In(s, "publish")
    /\ target' = source[s]
    /\ writable' = TRUE
    /\ scratch' = [scratch EXCEPT ![s] = "none"]
    /\ End(s, IF cancelled[s] THEN "Cancelled" ELSE "Saved")
    /\ UNCHANGED <<lockVars, linked, kind, expected, source, cancelled, versions,
                   edits, disturbed>>

(* Temporary::publish, Existing::Replace: the rename takes the scratch     *)
(* file with it.                                                           *)
Rename(s) ==
    /\ In(s, "publish")
    /\ target' = source[s]
    /\ writable' = TRUE
    /\ scratch' = [scratch EXCEPT ![s] = "none"]
    /\ End(s, "Saved")
    /\ UNCHANGED <<lockVars, linked, kind, expected, source, cancelled, versions,
                   edits, disturbed>>

(* Mutant: Save As publishes with a rename too.                            *)
Link_Clobbers(s) ==
    /\ In(s, "link")
    /\ scratch' = [scratch EXCEPT ![s] = "none"]
    /\ target' = source[s]
    /\ writable' = TRUE
    /\ End(s, "Saved")
    /\ UNCHANGED <<lockVars, linked, kind, expected, source, cancelled, versions,
                   edits, disturbed>>

(* Temporary::publish, Existing::Keep: an atomic no-clobber link.  Until   *)
(* the scratch name is removed the file has two names.                     *)
Link(s) ==
    /\ In(s, "link")
    /\ \/ /\ target = Nothing
          /\ target' = source[s]
          /\ writable' = FALSE
          /\ scratch' = [scratch EXCEPT ![s] = "link"]
          /\ ending' = [ending EXCEPT ![s] = "Saved"]
          /\ Proceed(s, "linked")
       \/ /\ target # Nothing
          /\ End(s, "Occupied")
          /\ UNCHANGED <<target, writable, scratch>>
    /\ UNCHANGED <<lockVars, linked, kind, expected, source, cancelled, versions,
                   edits, disturbed>>

(* Mutant: the scratch name stays after a link.                            *)
CleanLink_Forgets(s) ==
    /\ In(s, "linked")
    /\ scratch' = [scratch EXCEPT ![s] = "none"]
    /\ Proceed(s, "unlock")
    /\ UNCHANGED <<lockVars, saveFrame, ending, disturbed>>

(* The Temporary's Drop, inside publish.                                   *)
CleanLink(s) ==
    /\ In(s, "linked")
    /\ writable' = (writable \/ scratch[s] = "link")
    /\ scratch' = [scratch EXCEPT ![s] = "none"]
    /\ Proceed(s, "unlock")
    /\ UNCHANGED <<lockVars, target, linked, kind, expected, source, cancelled,
                   ending, versions, edits, disturbed>>

(* An input/output error of any of the calls above.                        *)
SaveFails(s) ==
    /\ phase[s] \in {"resolve", "replaceable", "compare", "copy",
                     "replaceable2", "compare2", "publish", "link"}
    /\ Fault
    /\ End(s, "Failed")
    /\ UNCHANGED <<name, header, origin, flock, pc, fd, fresh, removable, verdict,
                   tries, meddles, saveFrame, scratch, disturbed>>

Unlock(s) ==
    /\ In(s, "unlock")
    /\ Proceed(s, "unlocking")
    /\ IF At(s, "held") THEN Release(s) ELSE UNCHANGED lockVars
    /\ UNCHANGED <<saveFrame, scratch, ending, disturbed>>

(* The scratch directory is gone and the answer is delivered; a save that  *)
(* published becomes what the session expects at the path.                 *)
Finish(s) ==
    /\ In(s, "unlocking")
    /\ At(s, "idle")
    /\ Proceed(s, "idle")
    /\ scratch' = [scratch EXCEPT ![s] = "none"]
    /\ expected' = [expected EXCEPT ![s] =
                        IF ending[s] = "Saved" THEN source[s] ELSE @]
    /\ source' = [source EXCEPT ![s] = Nothing]
    /\ disturbed' = [disturbed EXCEPT ![s] = {}]
    /\ UNCHANGED <<lockVars, target, writable, linked, kind, cancelled, ending,
                   versions, edits>>

LockStep(s) ==
    /\ phase[s] \in {"acquiring", "unlocking"}
    /\ AcquireStep(s) \/ DropStep(s)
    /\ UNCHANGED saveVars

SaverStep(s) ==
    \/ Start(s) \/ Resolve(s) \/ Replaceable(s) \/ Compare(s) \/ Copy(s)
    \/ TakeLock(s) \/ LockRefused(s) \/ CompareLocked(s) \/ Rename(s) \/ Link(s)
    \/ CleanLink(s) \/ SaveFails(s) \/ Unlock(s) \/ Finish(s) \/ LockStep(s)

(* The process dies: the window forgets its document and leaves its        *)
(* scratch directory, as well as its sidecar, behind.                      *)
Die(s) ==
    /\ phase[s] # "idle"
    /\ \/ Crash(s)
       \/ /\ At(s, "idle")
          /\ Fault
          /\ verdict' = [verdict EXCEPT ![s] = "Crashed"]
          /\ UNCHANGED <<name, header, origin, flock, pc, fd, fresh, removable,
                         tries, meddles>>
    /\ Proceed(s, "idle")
    /\ expected' = [expected EXCEPT ![s] = Nothing]
    /\ source' = [source EXCEPT ![s] = Nothing]
    /\ scratch' = [scratch EXCEPT ![s] = "none"]
    /\ ending' = [ending EXCEPT ![s] = "none"]
    /\ disturbed' = [disturbed EXCEPT ![s] = {}]
    /\ UNCHANGED <<target, writable, linked, kind, cancelled, versions, edits>>

-----------------------------------------------------------------------------
(* A program that knows nothing of the lock                                *)

InWindow(s) == phase[s] = "publish"

(* Marks the saves whose last look at this side of the file is behind them. *)
Disturb(what, phases) ==
    disturbed' = [s \in Savers |-> IF phase[s] \in phases
                                  THEN disturbed[s] \cup {what}
                                  ELSE disturbed[s]]

Outsider ==
    /\ edits < MaxEdits
    /\ edits' = edits + 1
    /\ WindowEdits \/ \A s \in Savers : ~InWindow(s)
    /\ \/ /\ target' \in {Nothing, Alien, 0} \ {target}
          /\ writable' = TRUE
          /\ scratch' = [s \in Savers |-> IF scratch[s] = "link" THEN "copy"
                                                              ELSE scratch[s]]
          /\ Disturb("content", {"publish"})
          /\ UNCHANGED linked
       \/ /\ target # Nothing
          /\ \A s \in Savers : scratch[s] # "link"
          /\ writable' = ~writable
          /\ Disturb("mode", {"compare2", "publish"})
          /\ UNCHANGED <<target, linked, scratch>>
       \/ /\ linked' = ~linked
          /\ UNCHANGED <<target, writable, scratch, disturbed>>
    /\ UNCHANGED <<lockVars, phase, kind, expected, source, cancelled, ending,
                   versions>>

(* The savers are idle and no version is left to make.                     *)
Done ==
    /\ \A s \in Savers : In(s, "idle")
    /\ versions = MaxVersion
    /\ UNCHANGED vars

Next ==
    \/ \E s \in Savers : SaverStep(s) \/ Plan(s) \/ Reopen(s) \/ Cancel(s) \/ Die(s)
    \/ Outsider
    \/ Done

Spec == Init /\ [][Next]_vars

-----------------------------------------------------------------------------
(* Properties                                                              *)

(* A rename never discards a version nobody expected to be there: the file *)
(* replaced holds exactly what the window last read or wrote, unless an    *)
(* outsider struck between the second compare and the rename               *)
(* (save.rs:12-31).                                                        *)
NoLostUpdate ==
    [][ LocksSupported =>
          \A s \in Savers :
            In(s, "publish") /\ ending'[s] = "Saved"
              => target = expected[s] \/ "content" \in disturbed[s] ]_vars

(* A failure means nothing was published, and a success that it was, even  *)
(* when it was cancelled meanwhile: the target changes by a save exactly   *)
(* when that save will answer Saved (save.rs:33-36).                       *)
AnswerTellsTheTruth ==
    [][ edits' = edits =>
          (target' # target <=>
             \E s \in Savers : ending'[s] = "Saved" /\ ending[s] # "Saved") ]_vars

(* A file that turned read-only or got another hard link before it was     *)
(* asked about under the lock is not replaced (save.rs:275-278, 336-343).  *)
NeverDetachesLinks ==
    [][ \A s \in Savers :
          In(s, "publish") /\ ending'[s] = "Saved"
            => writable \/ disturbed[s] # {} ]_vars

(* Nothing is left beside the file by saves that were not cut short: no    *)
(* scratch directory, no sidecar, and no second name for the file, which   *)
(* would make the next Save refuse it (publish.rs:140-160).                *)
LeavesNothingBehind ==
    faults = 0 /\ LocksSupported /\ (\A s \in Savers : In(s, "idle")) =>
        /\ name = Nothing
        /\ \A s \in Savers : scratch[s] = "none"
        /\ edits = 0 => writable

(* What each window takes the path to hold, from the instant it replaced   *)
(* the file.                                                               *)
View == [s \in Savers |-> IF ending[s] = "Saved" /\ phase[s] # "idle"
                          THEN source[s] ELSE expected[s]]

Register == INSTANCE VersionedFile
    WITH Writers <- Savers, Absent <- Nothing, content <- target, view <- View

(* Seen from the path alone, a Save is one compare-and-replace.            *)
ImplementsRegister == Register!Spec
=============================================================================
