---------------------------- MODULE RecoveryRecord ----------------------------
(***************************************************************************)
(* One crash-recovery record: `RecoveryRecord` and `RecoveryClaim`         *)
(* (crates/ferritecad-jobs/src/recovery.rs).                               *)
(*                                                                         *)
(* A record is a directory of copies c1, c2, ... and a manifest that names *)
(* one of them.  Its live owner publishes, clears and retires one step at  *)
(* a time; every step is a file system call that can fail or be the last   *)
(* of its process.  Whoever claims the orphan verifies it, then gives it   *)
(* to a new session, lets it go again or removes it.  A power cut leaves   *)
(* at each name either what was synced there or anything put there since.  *)
(*                                                                         *)
(* Who may hold the record at all is the lease's matter: here there is at  *)
(* most one holder.                                                        *)
(***************************************************************************)
EXTENDS Integers, FiniteSets

CONSTANTS
    Versions,   \* model contents, each standing for its three identities
    None,       \* nothing under a name; nothing wanted
    Torn,       \* a copy that is not the version it was made from
    MaxOrder,   \* bound: request numbers of one owner
    MaxSequence,\* bound: copies ever published
    MaxFaults,  \* bound: steps in which a file system call fails
    MaxEnds,    \* bound: owners that end without a decision
    PowerCuts   \* whether an end may be a power cut

ASSUME RecordAssumption ==
    /\ None \notin Versions \cup {Torn} /\ Torn \notin Versions
    /\ None \notin [sequence : 1 .. MaxSequence, version : Versions]
    /\ MaxOrder \in Nat /\ MaxSequence \in Nat
    /\ MaxFaults \in Nat /\ MaxEnds \in Nat
    /\ PowerCuts \in BOOLEAN

VARIABLES
    owner,     \* who holds the lease: a session, a claim, a removal, nobody
    pc,        \* the next file system call of the operation under way
    job,       \* the copy being published
    sequence,  \* RecoveryRecord::sequence
    current,   \* RecoveryRecord::current
    confirmed, \* RecoveryRecord::confirmed
    lastOrder, \* RecoveryRecord::last_order
    manifest,  \* the manifest's file, as every process sees it
    copies,    \* the files c<n>.fcad
    partials,  \* partial names left; 0 is the manifest's
    drafted,   \* what the copy under way holds before it has its name
    onDisk,    \* what a power cut may leave: manifests and, per name, copies
    outcome,   \* what the last operation that was not stale came to
    wanted,    \* the request with the highest number this owner was given
    lapses,    \* ways in which the record stopped being as described
    faults, ends,
    cuts        \* whether one of the ends was a power cut

memory == <<sequence, current, confirmed, lastOrder>>
disk == <<manifest, copies, partials, drafted, onDisk>>
ghosts == <<outcome, wanted, lapses>>
bounds == <<faults, ends, cuts>>
vars == <<owner, pc, job, memory, disk, ghosts, bounds>>

Sequences == 1 .. MaxSequence
Manifest == [sequence : Sequences, version : Versions]
Contents == Versions \cup {Torn}

TypeOK ==
    /\ owner \in {"session", "claim", "removal", "nobody", "removed"}
    /\ pc \in {"idle", "copy", "verify", "place", "syncCopy", "write", "name",
               "syncName", "forget", "abort", "unname", "syncUnname", "sweep"}
    /\ job \in Manifest \cup {None}
    /\ sequence \in 0 .. MaxSequence
    /\ current \in Manifest \cup {None}
    /\ current # None => current.sequence = sequence
    /\ confirmed \in BOOLEAN
    /\ lastOrder \in 0 .. MaxOrder
    /\ manifest \in Manifest \cup {None}
    /\ copies \in [Sequences -> Contents \cup {None}]
    /\ partials \subseteq 0 .. MaxSequence
    /\ drafted \in Contents \cup {None}
    /\ onDisk \in [manifest : SUBSET (Manifest \cup {None}),
                   copies : [Sequences -> SUBSET (Contents \cup {None})]]
    /\ outcome \in {"none", "written", "unchanged", "cleared", "failed"}
    /\ wanted \in [order : 0 .. MaxOrder, version : Versions \cup {None}]
    /\ lapses \subseteq {"clear", "adopt", "kept", "left"}
    /\ faults \in 0 .. MaxFaults
    /\ ends \in 0 .. MaxEnds
    /\ cuts \in BOOLEAN

-----------------------------------------------------------------------------

At(point) == pc = point
Owned == owner = "session"
(* A rename or a removal that is not synced yet may or may not survive.    *)
Touched ==
    onDisk' = [manifest |-> onDisk.manifest \cup {manifest'},
               copies |-> [n \in Sequences |-> onDisk.copies[n] \cup {copies'[n]}]]

(* sync_directory: what everybody sees is what a power cut leaves.         *)
Synced ==
    onDisk' = [manifest |-> {manifest}, copies |-> [n \in Sequences |-> {copies[n]}]]

(* Of what should go, some goes.                                           *)
RemoveSome(files, drafts) ==
    /\ \E stay \in SUBSET files :
         copies' = [n \in Sequences |-> IF n \in files \ stay THEN None ELSE copies[n]]
    /\ \E stay \in SUBSET (drafts \cap partials) : partials' = partials \ (drafts \ stay)

(* `let _ = remove_file(..)`: a removal may fail, and nobody is told.      *)
RemoveQuietly(files, drafts, excused) ==
    /\ RemoveSome(files, drafts)
    /\ IF (\A n \in files : copies'[n] = None) /\ drafts \cap partials' = {}
       THEN lapses' = excused /\ UNCHANGED faults
       ELSE faults < MaxFaults /\ faults' = faults + 1 /\ lapses' = excused \cup {"left"}

(* verify: the manifest names a copy that is what it says.                 *)
Recoverable == manifest # None /\ copies[manifest.sequence] = manifest.version

(* What a process that ends takes with it.                                 *)
Forgotten ==
    /\ owner' = "nobody"
    /\ sequence' = 0 /\ current' = None /\ confirmed' = TRUE /\ lastOrder' = 0
    /\ outcome' = "none" /\ wanted' = [order |-> 0, version |-> None] /\ lapses' = {}

(* create_record: a new record of a live session.                          *)
Init ==
    /\ owner = "session" /\ pc = "idle" /\ job = None
    /\ sequence = 0 /\ current = None /\ confirmed = TRUE /\ lastOrder = 0
    /\ manifest = None /\ copies = [n \in Sequences |-> None]
    /\ partials = {} /\ drafted = None
    /\ onDisk = [manifest |-> {None}, copies |-> [n \in Sequences |-> {None}]]
    /\ outcome = "none" /\ wanted = [order |-> 0, version |-> None] /\ lapses = {}
    /\ faults = 0 /\ ends = 0 /\ cuts = FALSE

Asked(order, version) ==
    wanted' = IF order > wanted.order
              THEN [order |-> order, version |-> version] ELSE wanted

-----------------------------------------------------------------------------
(* Publishing                                                              *)

(* Mutant: the request is carried out, in the order it came.               *)
RefuseStale_Late(order, version) ==
    /\ Owned /\ At("idle")
    /\ order <= lastOrder
    /\ version # None
    /\ sequence < MaxSequence
    /\ job' = [sequence |-> sequence + 1, version |-> version]
    /\ drafted' = None
    /\ pc' = "copy"
    /\ Asked(order, version)
    /\ UNCHANGED <<owner, memory, manifest, copies, partials, onDisk, outcome, lapses, bounds>>

(* STALE_RECOVERY: refused, and nothing is written.                        *)
RefuseStale(order, version) ==
    /\ Owned /\ At("idle")
    /\ order <= lastOrder
    /\ Asked(order, version)
    /\ UNCHANGED <<owner, pc, job, memory, disk, outcome, lapses, bounds>>

(* The record already holds exactly this model.                            *)
Unchanged(order, version) ==
    /\ Owned /\ At("idle")
    /\ order > lastOrder
    /\ current # None /\ confirmed /\ current.version = version
    /\ lastOrder' = order
    /\ outcome' = "unchanged"
    /\ Asked(order, version)
    /\ UNCHANGED <<owner, pc, job, sequence, current, confirmed, disk, lapses, bounds>>

(* The partial file an earlier process left under this name goes first.    *)
Publish(order, version) ==
    /\ Owned /\ At("idle")
    /\ order > lastOrder
    /\ ~(current # None /\ confirmed /\ current.version = version)
    /\ sequence < MaxSequence
    /\ lastOrder' = order
    /\ job' = [sequence |-> sequence + 1, version |-> version]
    /\ RemoveQuietly({}, {sequence + 1}, lapses)
    /\ drafted' = None
    /\ pc' = "copy"
    /\ Asked(order, version)
    /\ UNCHANGED <<owner, sequence, current, confirmed, manifest, onDisk, outcome, ends, cuts>>

(* The copy is made and synced; what it holds is not known yet.  Its       *)
(* partial file must be new.                                               *)
Copy ==
    /\ At("copy")
    /\ job.sequence \notin partials
    /\ partials' = partials \cup {job.sequence}
    /\ \/ drafted' = job.version /\ UNCHANGED faults
       \/ faults < MaxFaults /\ faults' = faults + 1 /\ drafted' = Torn
    /\ pc' = "verify"
    /\ UNCHANGED <<owner, job, memory, manifest, copies, onDisk, ghosts, ends, cuts>>

(* Mutant: what was written is not read back.                              *)
Verify_Trusts ==
    /\ At("verify")
    /\ pc' = "place"
    /\ UNCHANGED <<owner, job, memory, disk, ghosts, bounds>>

(* The copy is checked as a reader will check it.                          *)
Verify ==
    /\ At("verify")
    /\ pc' = IF drafted = job.version THEN "place" ELSE "abort"
    /\ UNCHANGED <<owner, job, memory, disk, ghosts, bounds>>

Place ==
    /\ At("place")
    /\ copies' = [copies EXCEPT ![job.sequence] = drafted]
    /\ partials' = partials \ {job.sequence}
    /\ drafted' = None
    /\ pc' = "syncCopy"
    /\ UNCHANGED <<owner, job, memory, manifest, ghosts, bounds>>
    /\ Touched

(* Mutant: the copy's name is not made durable before it is referred to.   *)
SyncCopy_Skipped ==
    /\ At("syncCopy")
    /\ pc' = "write"
    /\ UNCHANGED <<owner, job, memory, disk, ghosts, bounds>>

SyncCopy ==
    /\ At("syncCopy")
    /\ Synced
    /\ lapses' = lapses \ {"adopt"}
    /\ pc' = "write"
    /\ UNCHANGED <<owner, job, memory, manifest, copies, partials, drafted, outcome,
                   wanted, bounds>>

WriteManifest ==
    /\ At("write")
    /\ partials' = partials \cup {0}
    /\ pc' = "name"
    /\ UNCHANGED <<owner, job, memory, manifest, copies, drafted, onDisk, ghosts, bounds>>

(* From here on the new copy is the one that is recovered.                 *)
NameCopy ==
    /\ At("name")
    /\ manifest' = job
    /\ partials' = partials \ {0}
    /\ pc' = "syncName"
    /\ UNCHANGED <<owner, job, memory, copies, drafted, ghosts, bounds>>
    /\ Touched

SyncName ==
    /\ At("syncName")
    /\ Synced
    /\ pc' = "forget"
    /\ UNCHANGED <<owner, job, memory, manifest, copies, partials, drafted, ghosts, bounds>>

(* The manifest names the new copy already, so it stays; the answer is a   *)
(* failure.                                                                *)
SyncNameFails ==
    /\ At("syncName")
    /\ faults < MaxFaults /\ faults' = faults + 1
    /\ sequence' = job.sequence /\ current' = job /\ confirmed' = FALSE
    /\ lapses' = (lapses \ {"clear"}) \cup {"kept"}
    /\ outcome' = "failed"
    /\ pc' = "idle" /\ job' = None
    /\ UNCHANGED <<owner, lastOrder, disk, wanted, ends, cuts>>

(* The previous copy goes if it can, and the answer is Written.            *)
Forget ==
    /\ At("forget")
    /\ sequence' = job.sequence /\ current' = job /\ confirmed' = TRUE
    /\ RemoveQuietly(IF current = None THEN {} ELSE {current.sequence} \ {job.sequence},
                     {}, lapses \ {"clear"})
    /\ outcome' = "written"
    /\ pc' = "idle" /\ job' = None
    /\ UNCHANGED <<owner, lastOrder, manifest, drafted, wanted, ends, cuts>>
    /\ Touched

CallFails ==
    /\ pc \in {"copy", "verify", "place", "syncCopy", "write", "name"}
    /\ IF At("copy") /\ job.sequence \in partials THEN UNCHANGED faults
       ELSE faults < MaxFaults /\ faults' = faults + 1
    /\ pc' = "abort"
    /\ UNCHANGED <<owner, job, memory, disk, ghosts, ends, cuts>>

(* Partial names and a copy that nothing names do not stay if they can go. *)
Abort ==
    /\ At("abort")
    /\ RemoveQuietly({job.sequence} \ (IF current = None THEN {} ELSE {current.sequence}),
                     {0, job.sequence}, lapses)
    /\ drafted' = None
    /\ outcome' = "failed"
    /\ pc' = "idle" /\ job' = None
    /\ UNCHANGED <<owner, memory, manifest, wanted, ends, cuts>>
    /\ Touched
-----------------------------------------------------------------------------
(* Clearing and removing                                                   *)

Clear(order) ==
    /\ Owned /\ At("idle")
    /\ order > lastOrder
    /\ lastOrder' = order
    /\ pc' = "unname"
    /\ Asked(order, None)
    /\ UNCHANGED <<owner, job, sequence, current, confirmed, disk, outcome, lapses, bounds>>

(* retire, discard, delete, and the removal of an orphan without a         *)
(* manifest when another session wants a record.                           *)
Remove ==
    /\ owner \in {"session", "claim", "nobody"} /\ At("idle")
    /\ owner' = "removal"
    /\ pc' = "unname"
    /\ UNCHANGED <<job, memory, disk, ghosts, bounds>>

(* Mutant: the copies go first.                                            *)
Unname_Last ==
    /\ At("unname")
    /\ copies' = [n \in Sequences |-> None]
    /\ pc' = IF manifest = None THEN "sweep" ELSE "syncUnname"
    /\ UNCHANGED <<owner, job, memory, manifest, partials, drafted, ghosts, bounds>>
    /\ Touched

(* The manifest goes first: nothing is recoverable any more.               *)
Unname ==
    /\ At("unname")
    /\ manifest' = None
    /\ pc' = IF manifest = None THEN "sweep" ELSE "syncUnname"
    /\ UNCHANGED <<owner, job, memory, copies, partials, drafted, ghosts, bounds>>
    /\ Touched

SyncUnname ==
    /\ At("syncUnname")
    /\ Synced
    /\ lapses' = lapses \ {"adopt"}
    /\ pc' = "sweep"
    /\ UNCHANGED <<owner, job, memory, manifest, copies, partials, drafted, outcome,
                   wanted, bounds>>

(* Then every copy and partial name that can go, and for a removal the     *)
(* record: what stays of it has no manifest and no lease.                  *)
Sweep ==
    /\ At("sweep")
    /\ RemoveQuietly(Sequences, partials, {})
    /\ drafted' = None
    /\ pc' = "idle"
    /\ \/ Owned /\ current' = None /\ outcome' = "cleared" /\ UNCHANGED owner
       \/ ~Owned /\ owner' = "removed" /\ UNCHANGED <<current, outcome>>
    /\ UNCHANGED <<job, sequence, confirmed, lastOrder, manifest, wanted, ends, cuts>>
    /\ Touched

(* An error ends the operation where it is, a sweep after some of the      *)
(* files; of a removal the lease is let go.  RecoveryRecord::current stays *)
(* as it was.                                                              *)
ClearFails ==
    /\ pc \in {"unname", "syncUnname", "sweep"}
    /\ faults < MaxFaults /\ faults' = faults + 1
    /\ pc' = "idle"
    /\ \/ /\ Owned
          /\ outcome' = "failed"
          /\ lapses' = IF At("unname") \/ current = None THEN lapses
                        ELSE lapses \cup {"clear"}
          /\ UNCHANGED <<owner, memory, wanted>>
       \/ /\ ~Owned
          /\ Forgotten
    /\ UNCHANGED <<job, manifest, drafted, ends, cuts>>
    /\ IF At("sweep") THEN RemoveSome(Sequences, partials) /\ Touched
       ELSE UNCHANGED <<copies, partials, onDisk>>

-----------------------------------------------------------------------------
(* Ends and claims                                                         *)

(* The process ends without a decision: an error nobody answers, a crash,  *)
(* a window that just goes.  The lease goes with it.                       *)
End ==
    /\ owner \in {"session", "claim", "removal"}
    /\ ends < MaxEnds /\ ends' = ends + 1
    /\ Forgotten
    /\ pc' = "idle" /\ job' = None /\ drafted' = None
    /\ UNCHANGED <<manifest, copies, partials, onDisk, faults, cuts>>

PowerCut ==
    /\ PowerCuts
    /\ owner # "removed"
    /\ ends < MaxEnds /\ ends' = ends + 1
    /\ cuts' = TRUE
    /\ Forgotten
    /\ pc' = "idle" /\ job' = None /\ drafted' = None
    /\ manifest' \in onDisk.manifest
    /\ copies' \in {found \in [Sequences -> UNION {onDisk.copies[n] : n \in Sequences}] :
                       \A n \in Sequences : found[n] \in onDisk.copies[n]}
    /\ onDisk' = [manifest |-> {manifest'}, copies |-> [n \in Sequences |-> {copies'[n]}]]
    /\ UNCHANGED <<partials, faults>>

(* RecoveryStore::claim: the manifest and the copy it names are verified.  *)
Claim ==
    /\ owner = "nobody"
    /\ Recoverable
    /\ owner' = "claim"
    /\ UNCHANGED <<pc, job, memory, disk, ghosts, bounds>>

(* restore_to and extract_to only read; the claim is dropped.              *)
DropClaim ==
    /\ owner = "claim"
    /\ owner' = "nobody"
    /\ UNCHANGED <<pc, job, memory, disk, ghosts, bounds>>

(* The record becomes that of the session restored from it; of the rest    *)
(* goes what can.                                                          *)
IntoRecord ==
    /\ owner = "claim" /\ At("idle")
    /\ owner' = "session"
    /\ sequence' = manifest.sequence
    /\ current' = manifest /\ confirmed' = TRUE /\ lastOrder' = 0
    /\ RemoveQuietly(Sequences \ {manifest.sequence}, partials,
                     IF onDisk.manifest = {manifest} THEN {} ELSE {"adopt"})
    /\ drafted' = None
    /\ outcome' = "none" /\ wanted' = [order |-> 0, version |-> manifest.version]
    /\ UNCHANGED <<pc, job, manifest, ends, cuts>>
    /\ Touched

-----------------------------------------------------------------------------

Step ==
    \/ Copy \/ Verify \/ Place \/ SyncCopy \/ WriteManifest \/ NameCopy
    \/ SyncName \/ SyncNameFails \/ Forget \/ CallFails \/ Abort
    \/ Unname \/ SyncUnname \/ Sweep \/ ClearFails

Next ==
    \/ \E order \in 1 .. MaxOrder, version \in Versions :
         RefuseStale(order, version) \/ Unchanged(order, version) \/ Publish(order, version)
    \/ \E order \in 1 .. MaxOrder : RefuseStale(order, None) \/ Clear(order)
    \/ Step
    \/ Remove \/ End \/ PowerCut \/ Claim \/ DropClaim \/ IntoRecord

Spec == Init /\ [][Next]_vars

-----------------------------------------------------------------------------
(* Properties                                                              *)

Named == IF manifest = None THEN {} ELSE {manifest.sequence}

(* Wherever a process stops, the manifest names a copy that is whole, or   *)
(* the record has none; a publication under way leaves the previous copy   *)
(* or the new one (recovery.rs:47-53).                                     *)
CrashLeavesACopy ==
    ~cuts =>
      /\ manifest # None => Recoverable
      /\ Owned /\ "clear" \notin lapses /\ pc \notin {"unname", "syncUnname", "sweep"}
         => manifest \in {current, job} /\ (current # None => manifest # None)

(* Once every request is answered the record holds what the one with the   *)
(* highest number asked for, whatever came out of order, unless that one   *)
(* failed or a clear before it stopped half way (recovery.rs:1345-1347).   *)
NewestRequestHolds ==
    Owned /\ At("idle") /\ "clear" \notin lapses
      /\ outcome \in {"written", "unchanged", "cleared"}
        => IF wanted.version = None THEN manifest = None
           ELSE Recoverable /\ manifest.version = wanted.version

(* The order of the syncs: what a power cut leaves of a record that is     *)
(* kept up is a whole copy, and some copy once one was confirmed, if the   *)
(* platform honours fsync (docs/document-crash-recovery.md:49-59).         *)
PowerCutLeavesACopy ==
    Owned /\ current # None /\ lapses \cap {"clear", "adopt"} = {}
      /\ pc \notin {"unname", "syncUnname", "sweep"} =>
        /\ \A m \in onDisk.manifest \ {None} : onDisk.copies[m.sequence] = {m.version}
        /\ confirmed => None \notin onDisk.manifest

(* One copy per record: between operations nothing lies about that the     *)
(* manifest does not name, whatever failed or died before, unless a        *)
(* removal failed since, and nobody was told, or the manifest's own sync   *)
(* or a clear did (docs/document-crash-recovery.md:57-59, 104-105).        *)
OneCopy ==
    Owned /\ At("idle") /\ lapses \subseteq {"adopt"} =>
        {n \in Sequences : copies[n] # None} = Named /\ partials = {}

(* A copy that a manifest names is never written again or taken away under *)
(* it, by its owner or by whoever removes the record.                      *)
NamedCopyIsFrozen ==
    [][ manifest # None /\ manifest' = manifest /\ owner' # "nobody"
          => copies'[manifest.sequence] = copies[manifest.sequence] ]_vars

(* What Publication::Unchanged says: the record already holds exactly this *)
(* model (recovery.rs:331).                                                *)
UnchangedMeansHeld ==
    Owned /\ At("idle") /\ outcome = "unchanged" =>
        Recoverable /\ manifest.version = wanted.version

-----------------------------------------------------------------------------
(* What the record is to its owner                                         *)

(* What is recovered from the record.                                      *)
Shown ==
    IF manifest = None THEN None ELSE IF Recoverable THEN manifest.version ELSE Torn

(* A session remembers a copy from when it is named, and is sure of it     *)
(* when that has been synced: of an adopted one, when it was before.       *)
Remembered ==
    IF ~Owned THEN None
    ELSE IF pc \in {"syncName", "forget"} THEN job.version
    ELSE IF current = None THEN None ELSE current.version
Sure == Owned /\ pc \notin {"syncName", "forget"} /\ confirmed /\ "adopt" \notin lapses

Copied == INSTANCE RecoverableCopy
    WITH Models <- Versions, holds <- Shown, owned <- Owned, current <- Remembered, sure <- Sure

(* Seen from outside, a record is one copy that is replaced and cleared in *)
(* one step, whatever fails or ends on the way (recovery.rs:47-53), and    *)
(* that no power cut takes once it is confirmed.                           *)
ImplementsCopy == Copied!Spec

-----------------------------------------------------------------------------
(* The inductive invariant behind these properties.                        *)

Publishing == {"copy", "verify", "place", "syncCopy", "write", "name", "syncName",
               "forget", "abort"}
Unnaming == {"unname", "syncUnname", "sweep"}
Renamed == {"syncName", "forget"}
Placed == {"syncCopy", "write", "name", "syncName", "forget"}
Answered == {"written", "unchanged", "cleared"}

(* Only a session publishes, always the copy after its last one.           *)
HolderInv ==
    /\ pc \in Publishing => Owned
    /\ pc \in Unnaming => owner \in {"session", "removal"}
    /\ job # None <=> pc \in Publishing
    /\ job # None => job.sequence = sequence + 1

(* The manifest is what the session remembers, or the copy it has just     *)
(* named, and the copy it names is there. A clear that failed half way     *)
(* took the manifest from a session that still remembers it.               *)
NamedInv ==
    /\ pc = "place" => drafted = job.version
    /\ pc \in Placed => copies[job.sequence] = job.version
    /\ ~cuts \/ owner \in {"session", "claim"} => manifest = None \/ Recoverable
    /\ owner = "claim" => manifest # None
    /\ pc \in {"syncUnname", "sweep"} => manifest = None
    /\ Owned /\ pc \in Renamed => manifest = job
    /\ Owned /\ pc \notin Renamed \cup {"syncUnname", "sweep"} =>
         manifest = current \/ (manifest = None /\ "clear" \in lapses)

(* The operation under way is the newest request's, and so is what the     *)
(* session remembers once it has answered that.                            *)
RequestInv ==
    /\ lastOrder = wanted.order
    /\ pc \in Publishing => wanted.version = job.version
    /\ Owned /\ pc \in Unnaming => wanted.version = None
    /\ Owned /\ At("idle") /\ outcome \in Answered =>
         IF wanted.version = None THEN current = None
         ELSE current # None /\ current.version = wanted.version

(* Names that are neither the current copy's nor the operation's own.      *)
LitterInv ==
    Owned /\ lapses \cap {"kept", "left"} = {} =>
        /\ \A n \in Sequences : copies[n] # None =>
             \/ current # None /\ n = current.sequence
             \/ pc \in Placed \cup {"abort"} /\ n = job.sequence
        /\ partials \subseteq CASE pc \in {"verify", "place"} -> {job.sequence}
                               [] pc = "name" -> {0}
                               [] pc = "abort" -> {0, job.sequence}
                               [] OTHER -> {}

(* A copy is synced before it is named, and a manifest that a power cut    *)
(* may bring back names a copy that stayed.                                *)
KeptUp ==
    /\ Owned /\ pc \notin {"syncUnname", "sweep"}
    /\ pc \in {"write", "name", "syncName", "forget"} \/ (current # None /\ lapses \cap {"clear", "adopt"} = {})
SyncInv ==
    /\ manifest # None => onDisk.copies[manifest.sequence] = {copies[manifest.sequence]}
    /\ pc \in {"write", "name"} =>
         onDisk.manifest = {manifest} /\ onDisk.copies[job.sequence] = {job.version}
    /\ pc = "forget" => onDisk.manifest = {job}
    /\ KeptUp => \A m \in onDisk.manifest \ {None} :
         /\ copies[m.sequence] = m.version /\ onDisk.copies[m.sequence] = {m.version}
         /\ m.sequence <= sequence \/ (pc \in Renamed /\ m = job)
    /\ KeptUp /\ confirmed /\ current # None /\ lapses \cap {"clear", "adopt"} = {} => None \notin onDisk.manifest

(* What a session is sure of is the only manifest a power cut may leave.   *)
SureInv == Sure /\ current # None /\ manifest = current => onDisk.manifest = {manifest}

RecordInv == HolderInv /\ NamedInv /\ RequestInv /\ LitterInv /\ SyncInv /\ SureInv

=============================================================================
