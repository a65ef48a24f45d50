------------------------- MODULE RecoveryRecordProofs -------------------------
(***************************************************************************)
(* Proofs about RecoveryRecord: what is left of a record wherever its      *)
(* owner stops, what its answers claim, and what a power cut leaves, for   *)
(* any number of copies, requests, failures and ends.                      *)
(***************************************************************************)
EXTENDS RecoveryRecord, TLAPS

USE DEF At, Owned

(* What a power cut may leave is typed as what everybody sees.             *)
LEMMA TouchedTyped ==
    ASSUME TypeOK, Touched, manifest' \in Manifest \cup {None},
           copies' \in [Sequences -> Contents \cup {None}]
    PROVE  onDisk' \in [manifest : SUBSET (Manifest \cup {None}),
                       copies : [Sequences -> SUBSET (Contents \cup {None})]]
  BY DEF TypeOK, Touched

(* What can be removed goes, and nothing else does.                        *)
LEMMA SomeRemoved ==
    ASSUME TypeOK, NEW files \in SUBSET Sequences, NEW drafts, RemoveSome(files, drafts)
    PROVE  /\ copies' \in [Sequences -> Contents \cup {None}]
           /\ \A n \in Sequences : copies'[n] = copies[n] \/ (n \in files /\ copies'[n] = None)
           /\ files = {} => copies' = copies
           /\ partials' \subseteq partials
<1>1. PICK stay \in SUBSET files :
        copies' = [n \in Sequences |-> IF n \in files \ stay THEN None ELSE copies[n]]
  BY DEF RemoveSome
<1>2. copies \in [Sequences -> Contents \cup {None}]
  BY DEF TypeOK
<1>3. partials' \subseteq partials
  BY DEF RemoveSome
<1> HIDE DEF Sequences, Contents
<1>4. copies' \in [Sequences -> Contents \cup {None}]
  BY <1>1, <1>2
<1>5. \A n \in Sequences : copies'[n] = copies[n] \/ (n \in files /\ copies'[n] = None)
  BY <1>1, <1>2
<1>6. files = {} => copies' = copies
  BY <1>2, <1>4, <1>5
<1>7. QED
  BY <1>3, <1>4, <1>5, <1>6

(* Where nothing is noted as left, all that should go is gone.             *)
LEMMA QuietlyRemoved ==
    ASSUME TypeOK, NEW files \in SUBSET Sequences, NEW drafts, NEW excused,
           RemoveQuietly(files, drafts, excused)
    PROVE  /\ copies' \in [Sequences -> Contents \cup {None}]
           /\ \A n \in Sequences : copies'[n] = copies[n] \/ (n \in files /\ copies'[n] = None)
           /\ files = {} => copies' = copies
           /\ partials' \subseteq partials
           /\ faults' \in 0 .. MaxFaults
           /\ lapses' = excused \/ lapses' = excused \cup {"left"}
           /\ "left" \in lapses'
              \/ (drafts \cap partials' = {} /\ \A n \in files : copies'[n] = None)
<1>1. RemoveSome(files, drafts)
  BY DEF RemoveQuietly
<1>2. /\ faults' \in 0 .. MaxFaults
      /\ lapses' = excused \/ lapses' = excused \cup {"left"}
      /\ "left" \in lapses'
         \/ (drafts \cap partials' = {} /\ \A n \in files : copies'[n] = None)
  BY RecordAssumption DEF RemoveQuietly, TypeOK
<1>3. QED
  BY <1>1, <1>2, SomeRemoved

(* A publication begins without the partial file that is in its way.       *)
LEMMA PublishRemoves ==
    ASSUME TypeOK, NEW order, NEW version, Publish(order, version)
    PROVE  /\ copies' = copies /\ partials' \subseteq partials
           /\ faults' \in 0 .. MaxFaults
           /\ lapses' = lapses \/ lapses' = lapses \cup {"left"}
  BY QuietlyRemoved DEF Publish

(* Of the copies only the one before the new one goes.                     *)
LEMMA ForgetRemoves ==
    ASSUME TypeOK, Forget
    PROVE  /\ copies' \in [Sequences -> Contents \cup {None}]
           /\ \A n \in Sequences :
                copies'[n] = copies[n] \/ (current # None /\ n = current.sequence
                                           /\ n # job.sequence /\ copies'[n] = None)
           /\ partials' \subseteq partials
           /\ faults' \in 0 .. MaxFaults
           /\ lapses' \in {lapses \ {"clear"}, (lapses \ {"clear"}) \cup {"left"}}
           /\ "left" \in lapses' \/ current = None \/ current.sequence = job.sequence
                \/ copies'[current.sequence] = None
<1> DEFINE files == IF current = None THEN {} ELSE {current.sequence} \ {job.sequence}
<1>1. files \in SUBSET Sequences
  BY DEF TypeOK, Manifest
<1>2. RemoveQuietly(files, {}, lapses \ {"clear"})
  BY DEF Forget
<1>3. /\ copies' \in [Sequences -> Contents \cup {None}]
      /\ \A n \in Sequences : copies'[n] = copies[n] \/ (n \in files /\ copies'[n] = None)
      /\ partials' \subseteq partials
      /\ faults' \in 0 .. MaxFaults
      /\ lapses' \in {lapses \ {"clear"}, (lapses \ {"clear"}) \cup {"left"}}
      /\ "left" \in lapses' \/ \A n \in files : copies'[n] = None
  <2> HIDE DEF files
  <2>1. QED
    BY <1>1, <1>2, QuietlyRemoved
<1>4. QED
  BY <1>3

(* Of the copies only the one nothing names yet goes.                      *)
LEMMA AbortRemoves ==
    ASSUME TypeOK, Abort, job # None
    PROVE  /\ copies' \in [Sequences -> Contents \cup {None}]
           /\ \A n \in Sequences :
                copies'[n] = copies[n] \/ ((current = None \/ n # current.sequence)
                                           /\ n = job.sequence /\ copies'[n] = None)
           /\ partials' \subseteq partials
           /\ faults' \in 0 .. MaxFaults
           /\ lapses' \in {lapses, lapses \cup {"left"}}
           /\ \/ "left" \in lapses'
              \/ /\ 0 \notin partials' /\ job.sequence \notin partials'
                 /\ (current # None /\ current.sequence = job.sequence)
                      \/ copies'[job.sequence] = None
<1> DEFINE files == {job.sequence} \ (IF current = None THEN {} ELSE {current.sequence})
<1>1. files \in SUBSET Sequences
  BY DEF TypeOK, Manifest
<1>2. RemoveQuietly(files, {0, job.sequence}, lapses)
  BY DEF Abort
<1>3. /\ copies' \in [Sequences -> Contents \cup {None}]
      /\ \A n \in Sequences : copies'[n] = copies[n] \/ (n \in files /\ copies'[n] = None)
      /\ partials' \subseteq partials
      /\ faults' \in 0 .. MaxFaults
      /\ lapses' \in {lapses, lapses \cup {"left"}}
      /\ \/ "left" \in lapses'
         \/ {0, job.sequence} \cap partials' = {} /\ \A n \in files : copies'[n] = None
  <2> HIDE DEF files
  <2>1. QED
    BY <1>1, <1>2, QuietlyRemoved
<1>4. QED
  BY <1>3

LEMMA SweepRemoves ==
    ASSUME TypeOK, Sweep
    PROVE  /\ copies' \in [Sequences -> Contents \cup {None}]
           /\ \A n \in Sequences : copies'[n] = copies[n] \/ copies'[n] = None
           /\ partials' \subseteq partials
           /\ faults' \in 0 .. MaxFaults
           /\ lapses' \in {{}, {"left"}}
           /\ "left" \in lapses' \/ (partials' = {} /\ \A n \in Sequences : copies'[n] = None)
<1>1. RemoveQuietly(Sequences, partials, {})
  BY DEF Sweep
<1>2. Sequences \in SUBSET Sequences
  OBVIOUS
<1>3. /\ copies' \in [Sequences -> Contents \cup {None}]
      /\ \A n \in Sequences : copies'[n] = copies[n] \/ copies'[n] = None
      /\ partials' \subseteq partials
      /\ faults' \in 0 .. MaxFaults
      /\ lapses' \in {{}, {} \cup {"left"}}
      /\ \/ "left" \in lapses'
         \/ partials \cap partials' = {} /\ \A n \in Sequences : copies'[n] = None
  BY <1>1, <1>2, QuietlyRemoved
<1>4. QED
  BY <1>3

(* A sweep that fails has removed some, any other step of it none.         *)
LEMMA FailingSweepRemoves ==
    ASSUME TypeOK, ClearFails
    PROVE  /\ copies' \in [Sequences -> Contents \cup {None}]
           /\ \A n \in Sequences : copies'[n] = copies[n] \/ (pc = "sweep" /\ copies'[n] = None)
           /\ pc # "sweep" => copies' = copies /\ onDisk' = onDisk
           /\ partials' \subseteq partials
<1>1. CASE pc = "sweep"
  <2>1. RemoveSome(Sequences, partials)
    BY <1>1 DEF ClearFails
  <2>2. QED
    BY <1>1, <2>1, SomeRemoved
<1>2. CASE pc # "sweep"
  BY <1>2 DEF ClearFails, TypeOK
<1>3. QED
  BY <1>1, <1>2

(* Who takes a record over removes nothing that its manifest names.        *)
LEMMA AdoptRemoves ==
    ASSUME TypeOK, IntoRecord
    PROVE  /\ copies' \in [Sequences -> Contents \cup {None}]
           /\ \A n \in Sequences :
                copies'[n] = copies[n] \/ (n # manifest.sequence /\ copies'[n] = None)
           /\ partials' \subseteq partials
           /\ faults' \in 0 .. MaxFaults
           /\ \E excused \in {{}, {"adopt"}} :
                /\ lapses' \in {excused, excused \cup {"left"}}
                /\ excused = {} => onDisk.manifest = {manifest}
           /\ \/ "left" \in lapses'
              \/ partials' = {} /\ \A n \in Sequences : n # manifest.sequence => copies'[n] = None
<1> DEFINE excused == IF onDisk.manifest = {manifest} THEN {} ELSE {"adopt"}
<1>1. RemoveQuietly(Sequences \ {manifest.sequence}, partials, excused)
  BY DEF IntoRecord
<1>2. /\ copies' \in [Sequences -> Contents \cup {None}]
      /\ \A n \in Sequences :
           copies'[n] = copies[n] \/ (n # manifest.sequence /\ copies'[n] = None)
      /\ partials' \subseteq partials
      /\ faults' \in 0 .. MaxFaults
      /\ lapses' \in {excused, excused \cup {"left"}}
      /\ \/ "left" \in lapses'
         \/ partials' = {} /\ \A n \in Sequences : n # manifest.sequence => copies'[n] = None
  <2>1. Sequences \ {manifest.sequence} \in SUBSET Sequences
    OBVIOUS
  <2> DEFINE files == Sequences \ {manifest.sequence}
  <2>2. /\ copies' \in [Sequences -> Contents \cup {None}]
        /\ \A n \in Sequences : copies'[n] = copies[n] \/ (n \in files /\ copies'[n] = None)
        /\ partials' \subseteq partials
        /\ faults' \in 0 .. MaxFaults
        /\ lapses' \in {excused, excused \cup {"left"}}
        /\ \/ "left" \in lapses'
           \/ partials \cap partials' = {} /\ \A n \in files : copies'[n] = None
    <3> HIDE DEF excused, files
    <3>1. QED
      BY <1>1, <2>1, QuietlyRemoved DEF files
  <2>3. QED
    BY <2>2
<1>3. excused \in {{}, {"adopt"}} /\ (excused = {} => onDisk.manifest = {manifest})
  OBVIOUS
<1>4. QED
  BY <1>2, <1>3

(* Whatever is removed, what is left keeps its type.                       *)
LEMMA RemovalsTyped ==
    ASSUME TypeOK,
           \/ \E order \in 1 .. MaxOrder, version \in Versions : Publish(order, version)
           \/ Forget \/ (Abort /\ job # None) \/ Sweep \/ IntoRecord
    PROVE  /\ copies' \in [Sequences -> Contents \cup {None}]
           /\ partials' \subseteq 0 .. MaxSequence
           /\ faults' \in 0 .. MaxFaults
           /\ lapses' \subseteq {"clear", "adopt", "kept", "left"}
<1>1. /\ partials \subseteq 0 .. MaxSequence
      /\ lapses \subseteq {"clear", "adopt", "kept", "left"}
      /\ copies \in [Sequences -> Contents \cup {None}]
  BY DEF TypeOK
<1>2. CASE \E order \in 1 .. MaxOrder, version \in Versions : Publish(order, version)
  BY <1>1, <1>2, PublishRemoves
<1>3. CASE Forget
  BY <1>1, <1>3, ForgetRemoves
<1>4. CASE Abort /\ job # None
  BY <1>1, <1>4, AbortRemoves
<1>5. CASE Sweep
  BY <1>1, <1>5, SweepRemoves
<1>6. CASE IntoRecord
  BY <1>1, <1>6, AdoptRemoves
<1>7. QED
  BY <1>2, <1>3, <1>4, <1>5, <1>6

(* Every step of a record keeps the types.                                 *)
LEMMA TypedStep ==
    TypeOK /\ RecordInv /\ [Next]_vars => TypeOK'
<1> SUFFICES ASSUME TypeOK, RecordInv, [Next]_vars PROVE TypeOK'
  OBVIOUS
<1> USE RecordAssumption DEF RecordInv, HolderInv, Publishing, Unnaming, TypeOK, Manifest, Sequences, Contents, memory, disk, ghosts, bounds
<1>1. ASSUME NEW order \in 1 .. MaxOrder, NEW version \in Versions \cup {None},
             RefuseStale(order, version)
      PROVE  TypeOK'
  BY <1>1 DEF RefuseStale, Asked
<1>2. ASSUME NEW order \in 1 .. MaxOrder, NEW version \in Versions, Unchanged(order, version)
      PROVE  TypeOK'
  BY <1>2 DEF Unchanged, Asked
<1>3. ASSUME NEW order \in 1 .. MaxOrder, NEW version \in Versions, Publish(order, version)
      PROVE  TypeOK'
  <2>1. /\ copies' \in [Sequences -> Contents \cup {None}]
        /\ partials' \subseteq 0 .. MaxSequence
        /\ faults' \in 0 .. MaxFaults
        /\ lapses' \subseteq {"clear", "adopt", "kept", "left"}
    BY <1>3, RemovalsTyped
  <2>2. QED
    BY <1>3, <2>1 DEF Publish, Asked
<1>4. ASSUME NEW order \in 1 .. MaxOrder, Clear(order) PROVE TypeOK'
  BY <1>4 DEF Clear, Asked
<1>5. CASE Copy
  <2>1. job \in Manifest
    BY <1>5 DEF Copy
  <2>2. partials' \subseteq 0 .. MaxSequence
    <3>1. partials' = partials \cup {job.sequence}
      BY <1>5 DEF Copy
    <3>2. job.sequence \in 0 .. MaxSequence
      BY <2>1
    <3>3. partials \subseteq 0 .. MaxSequence
      OBVIOUS
    <3> HIDE DEF TypeOK
    <3>4. QED
      BY <3>1, <3>2, <3>3
  <2>3. faults' \in 0 .. MaxFaults
    BY <1>5 DEF Copy
  <2>4. drafted' \in Contents \cup {None}
    BY <1>5, <2>1 DEF Copy
  <2>5. QED
    BY <1>5, <2>2, <2>3, <2>4 DEF Copy
<1>6. CASE Verify
  BY <1>6 DEF Verify
<1>7. CASE Place
  <2>1. job \in Manifest
    BY <1>7 DEF Place
  <2>2. copies' \in [Sequences -> Contents \cup {None}] /\ partials' \subseteq 0 .. MaxSequence
    BY <1>7, <2>1 DEF Place
  <2>3. onDisk' \in [manifest : SUBSET (Manifest \cup {None}),
                     copies : [Sequences -> SUBSET (Contents \cup {None})]]
    BY <1>7, <2>2, TouchedTyped DEF Place
  <2>4. QED
    BY <1>7, <2>2, <2>3 DEF Place
<1>8. CASE SyncCopy
  BY <1>8 DEF SyncCopy, Synced
<1>9. CASE WriteManifest
  BY <1>9 DEF WriteManifest
<1>10. CASE NameCopy
  BY <1>10 DEF NameCopy, Touched
<1>11. CASE SyncName
  BY <1>11 DEF SyncName, Synced
<1>12. CASE SyncNameFails
  <2>1. job \in Manifest
    BY <1>12 DEF SyncNameFails
  <2>2. /\ sequence' \in 0 .. MaxSequence /\ current' \in Manifest \cup {None}
        /\ current'.sequence = sequence'
    BY <1>12, <2>1 DEF SyncNameFails
  <2>3. lapses' \subseteq {"clear", "adopt", "kept", "left"}
    BY <1>12 DEF SyncNameFails
  <2>4. faults' \in 0 .. MaxFaults
    BY <1>12 DEF SyncNameFails
  <2>5. /\ confirmed' \in BOOLEAN /\ job' = None /\ pc' = "idle"
        /\ outcome' = "failed"
    BY <1>12 DEF SyncNameFails
  <2>6. QED
    BY <1>12, <2>2, <2>3, <2>4, <2>5 DEF SyncNameFails
<1>13. CASE Forget
  <2>1. /\ copies' \in [Sequences -> Contents \cup {None}]
        /\ partials' \subseteq 0 .. MaxSequence
        /\ faults' \in 0 .. MaxFaults
        /\ lapses' \subseteq {"clear", "adopt", "kept", "left"}
    BY <1>13, RemovalsTyped
  <2>2. onDisk' \in [manifest : SUBSET (Manifest \cup {None}),
                     copies : [Sequences -> SUBSET (Contents \cup {None})]]
    BY <1>13, <2>1, TouchedTyped DEF Forget
  <2>3. QED
    BY <1>13, <2>1, <2>2 DEF Forget
<1>14. CASE CallFails
  BY <1>14 DEF CallFails
<1>15. CASE Abort
  <2>1. /\ copies' \in [Sequences -> Contents \cup {None}]
        /\ partials' \subseteq 0 .. MaxSequence
        /\ faults' \in 0 .. MaxFaults
        /\ lapses' \subseteq {"clear", "adopt", "kept", "left"}
    BY <1>15, RemovalsTyped DEF Abort
  <2>2. onDisk' \in [manifest : SUBSET (Manifest \cup {None}),
                     copies : [Sequences -> SUBSET (Contents \cup {None})]]
    BY <1>15, <2>1, TouchedTyped DEF Abort
  <2>3. QED
    BY <1>15, <2>1, <2>2 DEF Abort
<1>16. CASE Unname
  BY <1>16 DEF Unname, Touched
<1>17. CASE SyncUnname
  BY <1>17 DEF SyncUnname, Synced
<1>18. CASE Sweep
  <2>1. /\ copies' \in [Sequences -> Contents \cup {None}]
        /\ partials' \subseteq 0 .. MaxSequence
        /\ faults' \in 0 .. MaxFaults
        /\ lapses' \subseteq {"clear", "adopt", "kept", "left"}
    BY <1>18, RemovalsTyped
  <2>2. onDisk' \in [manifest : SUBSET (Manifest \cup {None}),
                     copies : [Sequences -> SUBSET (Contents \cup {None})]]
    BY <1>18, <2>1, TouchedTyped DEF Sweep
  <2>3. QED
    BY <1>18, <2>1, <2>2 DEF Sweep
<1>19. CASE ClearFails
  <2>1. copies' \in [Sequences -> Contents \cup {None}] /\ partials' \subseteq 0 .. MaxSequence
    BY <1>19, FailingSweepRemoves
  <2>2. onDisk' \in [manifest : SUBSET (Manifest \cup {None}),
                     copies : [Sequences -> SUBSET (Contents \cup {None})]]
    BY <1>19, <2>1, TouchedTyped DEF ClearFails
  <2>3. /\ faults' \in 0 .. MaxFaults /\ pc' = "idle"
        /\ UNCHANGED <<job, manifest, drafted, ends, cuts>>
    BY <1>19 DEF ClearFails
  <2>4. CASE Owned
    <3>1. lapses' \subseteq {"clear", "adopt", "kept", "left"}
      BY <1>19, <2>4 DEF ClearFails
    <3>2. outcome' = "failed" /\ UNCHANGED <<owner, memory, wanted>>
      BY <1>19, <2>4 DEF ClearFails
    <3>3. QED
      BY <2>1, <2>2, <2>3, <3>1, <3>2
  <2>5. CASE ~Owned
    <3>1. Forgotten
      BY <1>19, <2>5 DEF ClearFails
    <3>2. /\ owner' = "nobody" /\ sequence' \in 0 .. MaxSequence /\ lastOrder' \in 0 .. MaxOrder
          /\ wanted' \in [order : 0 .. MaxOrder, version : Versions \cup {None}]
          /\ current' = None /\ confirmed' = TRUE /\ outcome' = "none" /\ lapses' = {}
      BY <3>1 DEF Forgotten
    <3>3. QED
      BY <2>1, <2>2, <2>3, <3>2
  <2>6. QED
    BY <2>4, <2>5
<1>20. CASE Remove
  BY <1>20 DEF Remove
<1>21. CASE End
  BY <1>21 DEF End, Forgotten
<1>22. CASE PowerCut
  <2>1. /\ owner' = "nobody" /\ sequence' \in 0 .. MaxSequence /\ lastOrder' \in 0 .. MaxOrder
        /\ wanted' \in [order : 0 .. MaxOrder, version : Versions \cup {None}]
        /\ current' = None /\ confirmed' \in BOOLEAN
        /\ outcome' \in {"none"} /\ lapses' = {}
    BY <1>22 DEF PowerCut, Forgotten
  <2>2. manifest' \in Manifest \cup {None}
    BY <1>22 DEF PowerCut
  <2>3. copies' \in [Sequences -> Contents \cup {None}]
    <3>1. /\ \E Found : copies' \in [Sequences -> Found]
          /\ \A n \in Sequences : copies'[n] \in onDisk.copies[n]
      BY <1>22 DEF PowerCut
    <3>2. \A n \in Sequences : onDisk.copies[n] \subseteq Contents \cup {None}
      OBVIOUS
    <3> HIDE DEF Sequences, Contents
    <3>3. QED
      BY <3>1, <3>2
  <2>4. onDisk' \in [manifest : SUBSET (Manifest \cup {None}),
                     copies : [Sequences -> SUBSET (Contents \cup {None})]]
    <3>1. onDisk' = [manifest |-> {manifest'}, copies |-> [n \in Sequences |-> {copies'[n]}]]
      BY <1>22 DEF PowerCut
    <3> HIDE DEF Sequences, Contents, Manifest
    <3>2. QED
      BY <2>2, <2>3, <3>1
  <2>5. /\ pc' = "idle" /\ job' = None /\ drafted' = None /\ cuts' = TRUE /\ ends' \in 0 .. MaxEnds
        /\ UNCHANGED <<partials, faults>>
    BY <1>22 DEF PowerCut
  <2>6. QED
    BY <2>1, <2>2, <2>3, <2>4, <2>5
<1>23. CASE Claim
  BY <1>23 DEF Claim, Recoverable
<1>24. CASE DropClaim
  BY <1>24 DEF DropClaim
<1>25. CASE IntoRecord
  <2>1. manifest \in Manifest
    BY <1>25 DEF IntoRecord, NamedInv
  <2>2. /\ copies' \in [Sequences -> Contents \cup {None}]
        /\ partials' \subseteq 0 .. MaxSequence
        /\ faults' \in 0 .. MaxFaults
        /\ lapses' \subseteq {"clear", "adopt", "kept", "left"}
    BY <1>25, RemovalsTyped
  <2>3. onDisk' \in [manifest : SUBSET (Manifest \cup {None}),
                     copies : [Sequences -> SUBSET (Contents \cup {None})]]
    BY <1>25, <2>1, <2>2, TouchedTyped DEF IntoRecord
  <2>4. /\ wanted' \in [order : 0 .. MaxOrder, version : Versions \cup {None}]
        /\ current' \in Manifest /\ sequence' \in 0 .. MaxSequence
        /\ current'.sequence = sequence'
    BY <1>25, <2>1 DEF IntoRecord
  <2>5. QED
    BY <1>25, <2>2, <2>3, <2>4 DEF IntoRecord
<1>26. CASE UNCHANGED vars
  BY <1>26 DEF vars, memory, disk, ghosts, bounds
<1>27. QED
  BY <1>1, <1>2, <1>3, <1>4, <1>5, <1>6, <1>7, <1>8, <1>9, <1>10,
     <1>11, <1>12, <1>13, <1>14, <1>15, <1>16, <1>17, <1>18, <1>19, <1>20,
     <1>21, <1>22, <1>23, <1>24, <1>25, <1>26
  DEF Next, Step

(* Only a session publishes, always the copy after its last one.           *)
LEMMA HolderStep ==
    TypeOK /\ RecordInv /\ [Next]_vars => HolderInv'
<1> SUFFICES ASSUME TypeOK, RecordInv, [Next]_vars PROVE HolderInv'
  OBVIOUS
<1> USE RecordAssumption DEF RecordInv, HolderInv, Publishing, Unnaming, TypeOK, Manifest, Sequences, memory, disk, ghosts, bounds
<1>1. ASSUME NEW order \in 1 .. MaxOrder, NEW version \in Versions \cup {None},
             RefuseStale(order, version)
      PROVE  HolderInv'
  BY <1>1 DEF RefuseStale, Asked
<1>2. ASSUME NEW order \in 1 .. MaxOrder, NEW version \in Versions, Unchanged(order, version)
      PROVE  HolderInv'
  BY <1>2 DEF Unchanged, Asked
<1>3. ASSUME NEW order \in 1 .. MaxOrder, NEW version \in Versions, Publish(order, version)
      PROVE  HolderInv'
  BY <1>3 DEF Publish, Asked
<1>4. ASSUME NEW order \in 1 .. MaxOrder, Clear(order) PROVE HolderInv'
  BY <1>4 DEF Clear, Asked
<1>5. CASE Copy
  BY <1>5 DEF Copy
<1>6. CASE Verify
  BY <1>6 DEF Verify
<1>7. CASE Place
  BY <1>7 DEF Place
<1>8. CASE SyncCopy
  BY <1>8 DEF SyncCopy
<1>9. CASE WriteManifest
  BY <1>9 DEF WriteManifest
<1>10. CASE NameCopy
  BY <1>10 DEF NameCopy
<1>11. CASE SyncName
  BY <1>11 DEF SyncName
<1>12. CASE SyncNameFails
  BY <1>12 DEF SyncNameFails
<1>13. CASE Forget
  BY <1>13 DEF Forget
<1>14. CASE CallFails
  BY <1>14 DEF CallFails
<1>15. CASE Abort
  BY <1>15 DEF Abort
<1>16. CASE Unname
  BY <1>16 DEF Unname
<1>17. CASE SyncUnname
  BY <1>17 DEF SyncUnname
<1>18. CASE Sweep
  BY <1>18 DEF Sweep
<1>19. CASE ClearFails
  BY <1>19 DEF ClearFails, Forgotten
<1>20. CASE Remove
  BY <1>20 DEF Remove
<1>21. CASE End
  BY <1>21 DEF End, Forgotten
<1>22. CASE PowerCut
  BY <1>22 DEF PowerCut, Forgotten
<1>23. CASE Claim
  BY <1>23 DEF Claim, Recoverable
<1>24. CASE DropClaim
  BY <1>24 DEF DropClaim
<1>25. CASE IntoRecord
  BY <1>25 DEF IntoRecord
<1>26. CASE UNCHANGED vars
  BY <1>26 DEF vars, memory, disk, ghosts, bounds
<1>27. QED
  BY <1>1, <1>2, <1>3, <1>4, <1>5, <1>6, <1>7, <1>8, <1>9, <1>10,
     <1>11, <1>12, <1>13, <1>14, <1>15, <1>16, <1>17, <1>18, <1>19, <1>20,
     <1>21, <1>22, <1>23, <1>24, <1>25, <1>26
  DEF Next, Step

(* The manifest stays what the session remembers, and its copy is there.   *)
LEMMA NamedStep ==
    TypeOK /\ RecordInv /\ [Next]_vars => NamedInv'
<1> SUFFICES ASSUME TypeOK, RecordInv, [Next]_vars PROVE NamedInv'
  OBVIOUS
<1> USE RecordAssumption DEF RecordInv, HolderInv, Publishing, Unnaming, TypeOK, Manifest, Sequences, NamedInv, Renamed, Placed, Recoverable, memory, disk, ghosts, bounds
<1>1. ASSUME NEW order \in 1 .. MaxOrder, NEW version \in Versions \cup {None},
             RefuseStale(order, version)
      PROVE  NamedInv'
  BY <1>1 DEF RefuseStale, Asked
<1>2. ASSUME NEW order \in 1 .. MaxOrder, NEW version \in Versions, Unchanged(order, version)
      PROVE  NamedInv'
  BY <1>2 DEF Unchanged, Asked
<1>3. ASSUME NEW order \in 1 .. MaxOrder, NEW version \in Versions, Publish(order, version)
      PROVE  NamedInv'
  BY <1>3, PublishRemoves DEF Publish, Asked
<1>4. ASSUME NEW order \in 1 .. MaxOrder, Clear(order) PROVE NamedInv'
  BY <1>4 DEF Clear, Asked
<1>5. CASE Copy
  BY <1>5 DEF Copy
<1>6. CASE Verify
  BY <1>6 DEF Verify
<1>7. CASE Place
  BY <1>7 DEF Place
<1>8. CASE SyncCopy
  BY <1>8 DEF SyncCopy
<1>9. CASE WriteManifest
  BY <1>9 DEF WriteManifest
<1>10. CASE NameCopy
  BY <1>10 DEF NameCopy
<1>11. CASE SyncName
  BY <1>11 DEF SyncName
<1>12. CASE SyncNameFails
  BY <1>12 DEF SyncNameFails
<1>13. CASE Forget
  BY <1>13, ForgetRemoves DEF Forget
<1>14. CASE CallFails
  BY <1>14 DEF CallFails
<1>15. CASE Abort
  BY <1>15, AbortRemoves DEF Abort
<1>16. CASE Unname
  BY <1>16 DEF Unname
<1>17. CASE SyncUnname
  BY <1>17 DEF SyncUnname
<1>18. CASE Sweep
  BY <1>18, SweepRemoves DEF Sweep
<1>19. CASE ClearFails
  BY <1>19, FailingSweepRemoves DEF ClearFails, Forgotten
<1>20. CASE Remove
  BY <1>20 DEF Remove
<1>21. CASE End
  BY <1>21 DEF End, Forgotten
<1>22. CASE PowerCut
  BY <1>22 DEF PowerCut, Forgotten
<1>23. CASE Claim
  BY <1>23 DEF Claim, Recoverable
<1>24. CASE DropClaim
  BY <1>24 DEF DropClaim
<1>25. CASE IntoRecord
  BY <1>25, AdoptRemoves DEF IntoRecord
<1>26. CASE UNCHANGED vars
  BY <1>26 DEF vars, memory, disk, ghosts, bounds
<1>27. QED
  BY <1>1, <1>2, <1>3, <1>4, <1>5, <1>6, <1>7, <1>8, <1>9, <1>10,
     <1>11, <1>12, <1>13, <1>14, <1>15, <1>16, <1>17, <1>18, <1>19, <1>20,
     <1>21, <1>22, <1>23, <1>24, <1>25, <1>26
  DEF Next, Step

(* The operation under way is the newest request's.                        *)
LEMMA RequestStep ==
    TypeOK /\ RecordInv /\ [Next]_vars => RequestInv'
<1> SUFFICES ASSUME TypeOK, RecordInv, [Next]_vars PROVE RequestInv'
  OBVIOUS
<1> USE RecordAssumption DEF RecordInv, HolderInv, Publishing, Unnaming, TypeOK, Manifest, Sequences, NamedInv, RequestInv, Answered, Renamed, Placed, memory, disk, ghosts, bounds
<1>1. ASSUME NEW order \in 1 .. MaxOrder, NEW version \in Versions \cup {None},
             RefuseStale(order, version)
      PROVE  RequestInv'
  BY <1>1 DEF RefuseStale, Asked
<1>2. ASSUME NEW order \in 1 .. MaxOrder, NEW version \in Versions, Unchanged(order, version)
      PROVE  RequestInv'
  BY <1>2 DEF Unchanged, Asked
<1>3. ASSUME NEW order \in 1 .. MaxOrder, NEW version \in Versions, Publish(order, version)
      PROVE  RequestInv'
  BY <1>3 DEF Publish, Asked
<1>4. ASSUME NEW order \in 1 .. MaxOrder, Clear(order) PROVE RequestInv'
  BY <1>4 DEF Clear, Asked
<1>5. CASE Copy
  BY <1>5 DEF Copy
<1>6. CASE Verify
  BY <1>6 DEF Verify
<1>7. CASE Place
  BY <1>7 DEF Place
<1>8. CASE SyncCopy
  BY <1>8 DEF SyncCopy
<1>9. CASE WriteManifest
  BY <1>9 DEF WriteManifest
<1>10. CASE NameCopy
  BY <1>10 DEF NameCopy
<1>11. CASE SyncName
  BY <1>11 DEF SyncName
<1>12. CASE SyncNameFails
  BY <1>12 DEF SyncNameFails
<1>13. CASE Forget
  BY <1>13 DEF Forget
<1>14. CASE CallFails
  BY <1>14 DEF CallFails
<1>15. CASE Abort
  BY <1>15 DEF Abort
<1>16. CASE Unname
  BY <1>16 DEF Unname
<1>17. CASE SyncUnname
  BY <1>17 DEF SyncUnname
<1>18. CASE Sweep
  BY <1>18 DEF Sweep
<1>19. CASE ClearFails
  BY <1>19 DEF ClearFails, Forgotten
<1>20. CASE Remove
  BY <1>20 DEF Remove
<1>21. CASE End
  BY <1>21 DEF End, Forgotten
<1>22. CASE PowerCut
  BY <1>22 DEF PowerCut, Forgotten
<1>23. CASE Claim
  BY <1>23 DEF Claim, Recoverable
<1>24. CASE DropClaim
  BY <1>24 DEF DropClaim
<1>25. CASE IntoRecord
  BY <1>25 DEF IntoRecord
<1>26. CASE UNCHANGED vars
  BY <1>26 DEF vars, memory, disk, ghosts, bounds
<1>27. QED
  BY <1>1, <1>2, <1>3, <1>4, <1>5, <1>6, <1>7, <1>8, <1>9, <1>10,
     <1>11, <1>12, <1>13, <1>14, <1>15, <1>16, <1>17, <1>18, <1>19, <1>20,
     <1>21, <1>22, <1>23, <1>24, <1>25, <1>26
  DEF Next, Step

(* Only a failed sync or removal makes a record keep two copies.           *)
LEMMA LitterStep ==
    TypeOK /\ RecordInv /\ [Next]_vars => LitterInv'
<1> SUFFICES ASSUME TypeOK, RecordInv, [Next]_vars PROVE LitterInv'
  OBVIOUS
<1> USE RecordAssumption DEF RecordInv, HolderInv, Publishing, Unnaming, TypeOK, Manifest, Sequences, NamedInv, LitterInv, Renamed, Placed, Recoverable, memory, disk, ghosts, bounds
<1>1. ASSUME NEW order \in 1 .. MaxOrder, NEW version \in Versions \cup {None},
             RefuseStale(order, version)
      PROVE  LitterInv'
  BY <1>1 DEF RefuseStale, Asked
<1>2. ASSUME NEW order \in 1 .. MaxOrder, NEW version \in Versions, Unchanged(order, version)
      PROVE  LitterInv'
  BY <1>2 DEF Unchanged, Asked
<1>3. ASSUME NEW order \in 1 .. MaxOrder, NEW version \in Versions, Publish(order, version)
      PROVE  LitterInv'
  BY <1>3, PublishRemoves DEF Publish, Asked
<1>4. ASSUME NEW order \in 1 .. MaxOrder, Clear(order) PROVE LitterInv'
  BY <1>4 DEF Clear, Asked
<1>5. CASE Copy
  BY <1>5 DEF Copy
<1>6. CASE Verify
  BY <1>6 DEF Verify
<1>7. CASE Place
  BY <1>7 DEF Place
<1>8. CASE SyncCopy
  BY <1>8 DEF SyncCopy
<1>9. CASE WriteManifest
  BY <1>9 DEF WriteManifest
<1>10. CASE NameCopy
  BY <1>10 DEF NameCopy
<1>11. CASE SyncName
  BY <1>11 DEF SyncName
<1>12. CASE SyncNameFails
  BY <1>12 DEF SyncNameFails
<1>13. CASE Forget
  BY <1>13, ForgetRemoves DEF Forget
<1>14. CASE CallFails
  BY <1>14 DEF CallFails
<1>15. CASE Abort
  <2>1. Owned /\ job # None /\ job.sequence = sequence + 1
    BY <1>15 DEF Abort
  <2>2. /\ \A n \in Sequences : copies'[n] = copies[n] \/ copies'[n] = None
        /\ partials' \subseteq partials
        /\ lapses' \in {lapses, lapses \cup {"left"}}
        /\ \/ "left" \in lapses'
           \/ /\ 0 \notin partials' /\ job.sequence \notin partials'
              /\ (current # None /\ current.sequence = job.sequence)
                   \/ copies'[job.sequence] = None
    BY <1>15, <2>1, AbortRemoves
  <2>3. pc' = "idle" /\ UNCHANGED <<owner, current>>
    BY <1>15 DEF Abort
  <2>4. CASE lapses' \cap {"kept", "left"} = {}
    <3>1. lapses \cap {"kept", "left"} = {} /\ partials \subseteq {0, job.sequence}
      BY <1>15, <2>1, <2>2, <2>4 DEF Abort
    <3>2. partials' = {}
      BY <2>2, <2>4, <3>1
    <3>3. \A n \in Sequences : copies'[n] # None => current # None /\ n = current.sequence
      BY <1>15, <2>1, <2>2, <2>4, <3>1 DEF Abort
    <3>4. QED
      BY <2>3, <3>2, <3>3
  <2>5. QED
    BY <2>4
<1>16. CASE Unname
  BY <1>16 DEF Unname
<1>17. CASE SyncUnname
  BY <1>17 DEF SyncUnname
<1>18. CASE Sweep
  BY <1>18, SweepRemoves DEF Sweep
<1>19. CASE ClearFails
  BY <1>19, FailingSweepRemoves DEF ClearFails, Forgotten
<1>20. CASE Remove
  BY <1>20 DEF Remove
<1>21. CASE End
  BY <1>21 DEF End, Forgotten
<1>22. CASE PowerCut
  BY <1>22 DEF PowerCut, Forgotten
<1>23. CASE Claim
  BY <1>23 DEF Claim, Recoverable
<1>24. CASE DropClaim
  BY <1>24 DEF DropClaim
<1>25. CASE IntoRecord
  BY <1>25, AdoptRemoves DEF IntoRecord
<1>26. CASE UNCHANGED vars
  BY <1>26 DEF vars, memory, disk, ghosts, bounds
<1>27. QED
  BY <1>1, <1>2, <1>3, <1>4, <1>5, <1>6, <1>7, <1>8, <1>9, <1>10,
     <1>11, <1>12, <1>13, <1>14, <1>15, <1>16, <1>17, <1>18, <1>19, <1>20,
     <1>21, <1>22, <1>23, <1>24, <1>25, <1>26
  DEF Next, Step

(* A copy is synced before it is named.                                    *)
LEMMA SyncStep ==
    TypeOK /\ RecordInv /\ [Next]_vars => SyncInv'
<1> SUFFICES ASSUME TypeOK, RecordInv, [Next]_vars PROVE SyncInv'
  OBVIOUS
<1> USE RecordAssumption DEF RecordInv, HolderInv, Publishing, Unnaming, TypeOK, Manifest, Sequences, NamedInv, SyncInv, KeptUp, Renamed, Placed, Recoverable, memory, disk, ghosts, bounds
<1>1. ASSUME NEW order \in 1 .. MaxOrder, NEW version \in Versions \cup {None},
             RefuseStale(order, version)
      PROVE  SyncInv'
  BY <1>1 DEF RefuseStale, Asked
<1>2. ASSUME NEW order \in 1 .. MaxOrder, NEW version \in Versions, Unchanged(order, version)
      PROVE  SyncInv'
  BY <1>2 DEF Unchanged, Asked
<1>3. ASSUME NEW order \in 1 .. MaxOrder, NEW version \in Versions, Publish(order, version)
      PROVE  SyncInv'
  BY <1>3, PublishRemoves DEF Publish, Asked
<1>4. ASSUME NEW order \in 1 .. MaxOrder, Clear(order) PROVE SyncInv'
  BY <1>4 DEF Clear, Asked
<1>5. CASE Copy
  BY <1>5 DEF Copy
<1>6. CASE Verify
  BY <1>6 DEF Verify
<1>7. CASE Place
  BY <1>7 DEF Place, Touched
<1>8. CASE SyncCopy
  BY <1>8 DEF SyncCopy, Synced
<1>9. CASE WriteManifest
  BY <1>9 DEF WriteManifest
<1>10. CASE NameCopy
  BY <1>10 DEF NameCopy, Touched
<1>11. CASE SyncName
  BY <1>11 DEF SyncName, Synced
<1>12. CASE SyncNameFails
  BY <1>12 DEF SyncNameFails
<1>13. CASE Forget
  BY <1>13, ForgetRemoves DEF Forget, Touched
<1>14. CASE CallFails
  BY <1>14 DEF CallFails
<1>15. CASE Abort
  BY <1>15, AbortRemoves DEF Abort, Touched
<1>16. CASE Unname
  BY <1>16 DEF Unname, Touched
<1>17. CASE SyncUnname
  BY <1>17 DEF SyncUnname, Synced
<1>18. CASE Sweep
  BY <1>18, SweepRemoves DEF Sweep, Touched
<1>19. CASE ClearFails
  BY SMTT(60), <1>19, FailingSweepRemoves DEF ClearFails, Forgotten
<1>20. CASE Remove
  BY <1>20 DEF Remove
<1>21. CASE End
  BY <1>21 DEF End, Forgotten
<1>22. CASE PowerCut
  BY <1>22 DEF PowerCut, Forgotten
<1>23. CASE Claim
  BY <1>23 DEF Claim, Recoverable
<1>24. CASE DropClaim
  BY <1>24 DEF DropClaim
<1>25. CASE IntoRecord
  <2>1. /\ manifest # None /\ manifest \in Manifest /\ manifest' = manifest /\ current' = manifest
        /\ sequence' = manifest.sequence /\ pc' = "idle" /\ Recoverable
    BY <1>25 DEF IntoRecord
  <2>2. /\ copies'[manifest.sequence] = copies[manifest.sequence]
        /\ \E excused \in {{}, {"adopt"}} :
             /\ lapses' \in {excused, excused \cup {"left"}}
             /\ excused = {} => onDisk.manifest = {manifest}
    BY <1>25, <2>1, AdoptRemoves
  <2>3. /\ onDisk'.manifest = onDisk.manifest \cup {manifest}
        /\ onDisk'.copies[manifest.sequence]
             = onDisk.copies[manifest.sequence] \cup {copies'[manifest.sequence]}
    BY <1>25, <2>1 DEF IntoRecord, Touched
  <2>4. "adopt" \in lapses' \/ onDisk'.manifest = {manifest}
    BY <2>2, <2>3
  <2>5. onDisk'.copies[manifest.sequence] = {copies[manifest.sequence]}
    BY <2>1, <2>2, <2>3
  <2>6. QED
    BY <2>1, <2>2, <2>4, <2>5
<1>26. CASE UNCHANGED vars
  BY <1>26 DEF vars, memory, disk, ghosts, bounds
<1>27. QED
  BY <1>1, <1>2, <1>3, <1>4, <1>5, <1>6, <1>7, <1>8, <1>9, <1>10,
     <1>11, <1>12, <1>13, <1>14, <1>15, <1>16, <1>17, <1>18, <1>19, <1>20,
     <1>21, <1>22, <1>23, <1>24, <1>25, <1>26
  DEF Next, Step

(* What a session is sure of has been synced.                              *)
LEMMA SureStep ==
    TypeOK /\ RecordInv /\ [Next]_vars => SureInv'
<1> SUFFICES ASSUME TypeOK, RecordInv, [Next]_vars PROVE SureInv'
  OBVIOUS
<1> USE RecordAssumption DEF RecordInv, HolderInv, Publishing, Unnaming, TypeOK, Manifest, Sequences, NamedInv, SyncInv, SureInv, Sure, Renamed, Placed, Recoverable, memory, disk, ghosts, bounds
<1>1. ASSUME NEW order \in 1 .. MaxOrder, NEW version \in Versions \cup {None},
             RefuseStale(order, version)
      PROVE  SureInv'
  BY <1>1 DEF RefuseStale, Asked
<1>2. ASSUME NEW order \in 1 .. MaxOrder, NEW version \in Versions, Unchanged(order, version)
      PROVE  SureInv'
  BY <1>2 DEF Unchanged, Asked
<1>3. ASSUME NEW order \in 1 .. MaxOrder, NEW version \in Versions, Publish(order, version)
      PROVE  SureInv'
  BY <1>3, PublishRemoves DEF Publish, Asked
<1>4. ASSUME NEW order \in 1 .. MaxOrder, Clear(order) PROVE SureInv'
  BY <1>4 DEF Clear, Asked
<1>5. CASE Copy
  BY <1>5 DEF Copy
<1>6. CASE Verify
  BY <1>6 DEF Verify
<1>7. CASE Place
  BY <1>7 DEF Place, Touched
<1>8. CASE SyncCopy
  BY <1>8 DEF SyncCopy, Synced
<1>9. CASE WriteManifest
  BY <1>9 DEF WriteManifest
<1>10. CASE NameCopy
  BY <1>10 DEF NameCopy, Touched
<1>11. CASE SyncName
  BY <1>11 DEF SyncName, Synced
<1>12. CASE SyncNameFails
  BY <1>12 DEF SyncNameFails
<1>13. CASE Forget
  BY <1>13 DEF Forget, Touched
<1>14. CASE CallFails
  BY <1>14 DEF CallFails
<1>15. CASE Abort
  <2>1. /\ job # None /\ pc' = "idle" /\ onDisk'.manifest = onDisk.manifest \cup {manifest}
        /\ UNCHANGED <<owner, current, confirmed, manifest>>
    BY <1>15 DEF Abort, Touched
  <2>2. "adopt" \in lapses' <=> "adopt" \in lapses
    BY <1>15, <2>1, AbortRemoves
  <2>3. QED
    BY <1>15, <2>1, <2>2 DEF Abort
<1>16. CASE Unname
  BY <1>16 DEF Unname, Touched
<1>17. CASE SyncUnname
  BY <1>17 DEF SyncUnname, Synced
<1>18. CASE Sweep
  BY <1>18 DEF Sweep, Touched
<1>19. CASE ClearFails
  <2>1. CASE ~Owned
    BY <1>19, <2>1 DEF ClearFails, Forgotten
  <2>2. CASE Owned
    <3>1. UNCHANGED <<owner, current, confirmed, manifest>> /\ pc' = "idle" /\ lapses \subseteq lapses'
      BY <1>19, <2>2 DEF ClearFails
    <3>2. pc \in {"syncUnname", "sweep"} \/ onDisk' = onDisk
      BY <1>19 DEF ClearFails
    <3>3. CASE At("unname")
      BY <1>19, <2>2, <3>1, <3>2, <3>3 DEF At
    <3>4. CASE ~At("unname")
      BY <1>19, <2>2, <3>1, <3>4 DEF ClearFails, At
    <3> QED BY <3>3, <3>4
  <2> QED BY <2>1, <2>2
<1>20. CASE Remove
  BY <1>20 DEF Remove
<1>21. CASE End
  BY <1>21 DEF End, Forgotten
<1>22. CASE PowerCut
  BY <1>22 DEF PowerCut, Forgotten
<1>23. CASE Claim
  BY <1>23 DEF Claim, Recoverable
<1>24. CASE DropClaim
  BY <1>24 DEF DropClaim
<1>25. CASE IntoRecord
  BY <1>25, AdoptRemoves DEF IntoRecord, Touched
<1>26. CASE UNCHANGED vars
  BY <1>26 DEF vars, memory, disk, ghosts, bounds
<1>27. QED
  BY <1>1, <1>2, <1>3, <1>4, <1>5, <1>6, <1>7, <1>8, <1>9, <1>10,
     <1>11, <1>12, <1>13, <1>14, <1>15, <1>16, <1>17, <1>18, <1>19, <1>20,
     <1>21, <1>22, <1>23, <1>24, <1>25, <1>26
  DEF Next, Step

(* A new record of a live session.                                         *)
LEMMA RecordInvInit == Init => TypeOK /\ RecordInv
<1> SUFFICES ASSUME Init PROVE TypeOK /\ RecordInv
  OBVIOUS
<1> USE RecordAssumption DEF Init, Sequences, Owned, At
<1>1. TypeOK
  <2>1. /\ copies \in [Sequences -> Contents \cup {None}]
        /\ onDisk \in [manifest : SUBSET (Manifest \cup {None}),
                      copies : [Sequences -> SUBSET (Contents \cup {None})]]
        /\ wanted \in [order : 0 .. MaxOrder, version : Versions \cup {None}]
    OBVIOUS
  <2>2. /\ sequence \in 0 .. MaxSequence /\ lastOrder \in 0 .. MaxOrder
        /\ faults \in 0 .. MaxFaults /\ ends \in 0 .. MaxEnds
    OBVIOUS
  <2>3. /\ job = None /\ current = None /\ manifest = None /\ drafted = None
        /\ partials = {} /\ lapses = {} /\ confirmed = TRUE /\ cuts = FALSE
        /\ owner = "session" /\ pc = "idle" /\ outcome = "none"
    OBVIOUS
  <2>4. QED
    BY <2>1, <2>2, <2>3 DEF TypeOK
<1>2. HolderInv /\ NamedInv /\ RequestInv
  BY DEF HolderInv, NamedInv, RequestInv, Publishing, Unnaming, Renamed, Placed, Answered
<1>3. LitterInv /\ SyncInv /\ SureInv
  BY DEF LitterInv, SyncInv, SureInv, KeptUp, Renamed, Placed
<1>4. QED
  BY <1>1, <1>2, <1>3 DEF RecordInv

(* The inductive invariant of a record.                                    *)
THEOREM RecordIsKept == Spec => [](TypeOK /\ RecordInv)
<1>1. TypeOK /\ RecordInv /\ [Next]_vars => (TypeOK /\ RecordInv)'
  BY TypedStep, HolderStep, NamedStep, RequestStep, LitterStep, SyncStep, SureStep DEF RecordInv
<1>2. QED
  BY <1>1, RecordInvInit, PTL DEF Spec

(* Wherever a process stops, the manifest names a copy that is whole, and  *)
(* a publication under way leaves the previous copy or the new one         *)
(* (recovery.rs:47-53).                                                    *)
THEOREM ACopyIsLeft == Spec => []CrashLeavesACopy
<1>1. TypeOK /\ RecordInv => CrashLeavesACopy
  BY RecordAssumption
  DEF TypeOK, RecordInv, HolderInv, NamedInv, CrashLeavesACopy, Publishing, Unnaming,
      Renamed, Owned, At
<1>2. QED
  BY <1>1, RecordIsKept, PTL

(* What a power cut leaves of a record that is kept up is a whole copy, if *)
(* the platform honours fsync (docs/document-crash-recovery.md:49-59).     *)
THEOREM SyncedCopyIsLeft == Spec => []PowerCutLeavesACopy
<1>1. RecordInv => PowerCutLeavesACopy
  BY DEF RecordInv, SyncInv, KeptUp, PowerCutLeavesACopy, Owned
<1>2. QED
  BY <1>1, RecordIsKept, PTL

(* Once every request is answered the record holds what the newest asked   *)
(* for, whatever came out of order (recovery.rs:1345-1347).                *)
THEOREM NewestRequestIsHeld == Spec => []NewestRequestHolds
<1>1. TypeOK /\ RecordInv => NewestRequestHolds
  BY RecordAssumption
  DEF TypeOK, RecordInv, NamedInv, RequestInv, NewestRequestHolds, Answered, Renamed,
      Recoverable, Owned, At
<1>2. QED
  BY <1>1, RecordIsKept, PTL

(* Between operations a record has one copy, the one its manifest names    *)
(* (docs/document-crash-recovery.md:57-59, 104-105).                       *)
THEOREM RecordHasOneCopy == Spec => []OneCopy
<1>1. TypeOK /\ RecordInv => OneCopy
  BY RecordAssumption
  DEF TypeOK, RecordInv, NamedInv, LitterInv, OneCopy, Named, Renamed, Placed,
      Recoverable, Owned, At, Manifest
<1>2. QED
  BY <1>1, RecordIsKept, PTL

(* Nobody writes or takes away a copy while a manifest names it.           *)
THEOREM NamedCopyStays == Spec => NamedCopyIsFrozen
<1> DEFINE Frozen == manifest # None /\ manifest' = manifest /\ owner' # "nobody"
                       => copies'[manifest.sequence] = copies[manifest.sequence]
<1>1. TypeOK /\ RecordInv /\ [Next]_vars => [Frozen]_vars
  <2> SUFFICES ASSUME TypeOK, RecordInv, Next, manifest # None, manifest' = manifest,
                      owner' # "nobody"
               PROVE  copies'[manifest.sequence] = copies[manifest.sequence]
    OBVIOUS
  <2>1. manifest \in Manifest
    BY DEF TypeOK
  <2> USE <2>1, RecordAssumption
      DEF RecordInv, TypeOK, HolderInv, NamedInv, Publishing, Unnaming, Renamed, Placed,
          Manifest, Sequences
  <2>2. CASE Place
    BY <2>2 DEF Place
  <2>3. CASE Forget
    <3>1. manifest = job /\ manifest # None /\ manifest.sequence \in Sequences
      BY <2>3 DEF Forget
    <3>2. QED
      BY <2>3, <3>1, ForgetRemoves
  <2>4. CASE Abort
    <3>1. job # None /\ manifest = current /\ manifest.sequence \in Sequences
      BY <2>4 DEF Abort
    <3>2. QED
      BY <2>4, <3>1, AbortRemoves
  <2>5. CASE Sweep
    BY <2>5 DEF Sweep
  <2>6. CASE IntoRecord
    BY <2>6, AdoptRemoves
  <2>7. CASE UNCHANGED copies
    BY <2>7
  <2>a. CASE \E order, version : Publish(order, version)
    BY <2>a, PublishRemoves
  <2>b. CASE ClearFails
    <3>1. pc # "sweep"
      BY <2>b DEF ClearFails
    <3>2. QED
      BY <2>b, <3>1, FailingSweepRemoves
  <2>8. ~PowerCut
    BY DEF PowerCut, Forgotten
  <2>9. QED
    BY <2>2, <2>3, <2>4, <2>5, <2>6, <2>7, <2>8, <2>a, <2>b
    DEF Next, Step, RefuseStale, Unchanged, Clear, Copy, Verify, SyncCopy,
        WriteManifest, NameCopy, SyncName, SyncNameFails, CallFails, Unname, SyncUnname,
        Remove, End, Claim, DropClaim, disk
<1>2. QED
  BY <1>1, RecordIsKept, PTL DEF Spec, NamedCopyIsFrozen

-----------------------------------------------------------------------------
(* A record is one copy, replaced as if in one step                        *)

(* What is recovered from a session's record is what its manifest names.   *)
LEMMA ShownIsNamed ==
    ASSUME TypeOK, RecordInv, owner \in {"session", "claim"}
    PROVE  /\ Shown = IF manifest = None THEN None ELSE manifest.version
           /\ manifest # None => manifest \in Manifest /\ Shown \in Versions /\ Shown # None /\ Shown # Torn
  BY RecordAssumption DEF TypeOK, RecordInv, NamedInv, Shown, Recoverable, Manifest, Sequences

(* The same after a step.                                                  *)
LEMMA ShownNext ==
    ASSUME TypeOK', RecordInv', owner' \in {"session", "claim"}
    PROVE  /\ Shown' = IF manifest' = None THEN None ELSE manifest'.version
           /\ manifest' # None => manifest' \in Manifest /\ Shown' \in Versions /\ Shown' # None /\ Shown' # Torn
  BY RecordAssumption DEF TypeOK, RecordInv, NamedInv, Shown, Recoverable, Manifest, Sequences

(* Where the manifest and the copy it names stay, so does what is shown.   *)
LEMMA ShownStays ==
    ASSUME TypeOK, manifest' = manifest,
           manifest # None => copies'[manifest.sequence] = copies[manifest.sequence]
    PROVE  Shown' = Shown
  BY DEF Shown, Recoverable

(* A step that changes none of what the owner sees.                        *)
LEMMA CopyRests ==
    ASSUME Shown' = Shown, Owned' = Owned, Remembered' = Remembered, Sure' = Sure
    PROVE  UNCHANGED Copied!vars
  BY DEF Copied!vars

LEMMA CopyStep ==
    TypeOK /\ RecordInv /\ (TypeOK /\ RecordInv)' /\ [Next]_vars => [Copied!Next]_(Copied!vars)
<1> SUFFICES ASSUME TypeOK, RecordInv, TypeOK', RecordInv', [Next]_vars
             PROVE  [Copied!Next]_(Copied!vars)
  OBVIOUS
<1> USE DEF memory, disk, ghosts, bounds
<1>0. None \notin Manifest /\ None \notin Versions /\ Torn \notin Versions /\ Torn # None
  BY RecordAssumption DEF Manifest, Sequences
<1>a. Sure \in BOOLEAN /\ Sure' \in BOOLEAN
  BY DEF Sure, TypeOK
<1>1. ASSUME NEW order \in 1 .. MaxOrder, NEW version \in Versions \cup {None},
             RefuseStale(order, version)
      PROVE  UNCHANGED Copied!vars
  BY <1>1, CopyRests DEF RefuseStale, Shown, Recoverable, Remembered, Sure
<1>2. ASSUME NEW order \in 1 .. MaxOrder, NEW version \in Versions, Unchanged(order, version)
      PROVE  UNCHANGED Copied!vars
  BY <1>2, CopyRests DEF Unchanged, Shown, Recoverable, Remembered, Sure
<1>3. ASSUME NEW order \in 1 .. MaxOrder, NEW version \in Versions, Publish(order, version)
      PROVE  UNCHANGED Copied!vars
  BY <1>3, PublishRemoves, CopyRests DEF Publish, Shown, Recoverable, Remembered, Sure
<1>4. ASSUME NEW order \in 1 .. MaxOrder, Clear(order) PROVE UNCHANGED Copied!vars
  BY <1>4, CopyRests DEF Clear, Shown, Recoverable, Remembered, Sure
<1>5. CASE Copy
  BY <1>5, CopyRests DEF Copy, Shown, Recoverable, Remembered, Sure
<1>6. CASE Verify
  BY <1>6, CopyRests DEF Verify, Shown, Recoverable, Remembered, Sure
<1>7. CASE Place
  <2>1. Shown' = Shown
    <3>1. Owned /\ Owned' /\ manifest' = manifest
      BY <1>7 DEF Place, RecordInv, HolderInv, Publishing
    <3> QED BY <3>1, ShownIsNamed, ShownNext
  <2> QED BY <1>7, <2>1, CopyRests DEF Place, Remembered, Sure
<1>8. CASE SyncCopy
  <2>1. Owned /\ Owned' /\ Shown' = Shown /\ Remembered' = Remembered
    BY <1>8 DEF SyncCopy, Shown, Recoverable, Remembered, RecordInv, HolderInv, Publishing
  <2>2. Remembered = (IF current = None THEN None ELSE current.version)
    BY <1>8, <2>1 DEF SyncCopy, Remembered
  <2>3. CASE Sure' = Sure
    BY <2>1, <2>3, CopyRests
  <2>4. CASE Sure' # Sure
    <3>1. Sure'
      BY <1>8, <2>4 DEF SyncCopy, Sure
    <3>2. CASE manifest = current
      <4>1. Shown = Remembered
        BY <2>1, <2>2, <3>2, ShownIsNamed
      <4> QED BY <2>1, <3>1, <4>1 DEF Copied!Next, Copied!Settle
    <3>3. CASE manifest = None
      <4>1. Shown' = None
        BY <2>1, <3>3 DEF Shown
      <4> QED BY <1>a, <2>1, <4>1 DEF Copied!Next, Copied!Clear
    <3> QED BY <1>8, <2>1, <3>2, <3>3 DEF SyncCopy, RecordInv, NamedInv, Renamed
  <2> QED BY <2>3, <2>4
<1>9. CASE WriteManifest
  BY <1>9, CopyRests DEF WriteManifest, Shown, Recoverable, Remembered, Sure
<1>10. CASE NameCopy
  <2>1. Owned /\ Owned' /\ manifest' = job /\ job' = job /\ job \in Manifest /\ pc' = "syncName"
    BY <1>10 DEF NameCopy, RecordInv, HolderInv, Publishing, TypeOK
  <2>2. Shown' = job.version /\ job.version \in Versions
    BY <1>0, <2>1, ShownNext DEF Manifest
  <2>3. Remembered' = job.version
    BY <2>1 DEF Remembered
  <2> QED BY <1>a, <2>1, <2>2, <2>3 DEF Copied!Next, Copied!Publish
<1>11. CASE SyncName
  BY <1>11, CopyRests DEF SyncName, Shown, Recoverable, Remembered, Sure
<1>12. CASE SyncNameFails
  <2>1. job # None
    BY <1>12 DEF SyncNameFails, RecordInv, HolderInv, Publishing
  <2> QED BY <1>12, <2>1, CopyRests DEF SyncNameFails, Shown, Recoverable, Remembered, Sure
<1>13. CASE Forget
  <2>1. Owned /\ Owned' /\ manifest' = manifest /\ manifest = job /\ job # None
    BY <1>13 DEF Forget, RecordInv, HolderInv, NamedInv, Publishing, Renamed
  <2>2. Shown' = Shown /\ Shown = job.version
    BY <2>1, ShownIsNamed, ShownNext
  <2>3. Remembered = job.version /\ Remembered' = job.version
    BY <1>13, <2>1 DEF Forget, Remembered
  <2>4. ~Sure
    BY <1>13 DEF Forget, Sure
  <2>5. CASE Sure'
    BY <2>1, <2>2, <2>3, <2>5 DEF Copied!Next, Copied!Settle
  <2>6. CASE ~Sure'
    BY <1>a, <2>1, <2>2, <2>3, <2>4, <2>6, CopyRests
  <2> QED BY <2>5, <2>6
<1>14. CASE CallFails
  BY <1>14, CopyRests DEF CallFails, Shown, Recoverable, Remembered, Sure
<1>15. CASE Abort
  <2>1. Owned /\ Owned' /\ manifest' = manifest /\ job # None
    BY <1>15 DEF Abort, RecordInv, HolderInv, Publishing
  <2>2. Shown' = Shown
    BY <2>1, ShownIsNamed, ShownNext
  <2>3. Remembered' = Remembered
    BY <1>15, <2>1 DEF Abort, Remembered
  <2>4. "adopt" \in lapses' <=> "adopt" \in lapses
    BY <1>15, <2>1, AbortRemoves
  <2>5. Sure' = Sure
    BY <1>15, <2>1, <2>4 DEF Abort, Sure
  <2> QED BY <2>1, <2>2, <2>3, <2>5, CopyRests
<1>16. CASE Unname
  <2>1. Shown' = None /\ Owned' = Owned /\ Remembered' = Remembered
    BY <1>16 DEF Unname, Shown, Remembered
  <2> QED BY <1>a, <2>1 DEF Copied!Next, Copied!Clear
<1>17. CASE SyncUnname
  <2>1. Shown' = None /\ Owned' = Owned /\ Remembered' = Remembered
    BY <1>17 DEF SyncUnname, Shown, Remembered, RecordInv, NamedInv
  <2> QED BY <1>a, <2>1 DEF Copied!Next, Copied!Clear
<1>18. CASE Sweep
  <2>1. Shown' = None /\ Owned' = Owned
    BY <1>18 DEF Sweep, Shown, RecordInv, NamedInv
  <2>2. Remembered' \in {Remembered, None}
    BY <1>18 DEF Sweep, Remembered
  <2> QED BY <1>a, <2>1, <2>2 DEF Copied!Next, Copied!Clear
<1>19. CASE ClearFails
  <2>1. Shown' = Shown
    <3>1. manifest' = manifest
      BY <1>19 DEF ClearFails
    <3>2. manifest # None => copies' = copies
      BY <1>19, FailingSweepRemoves DEF RecordInv, NamedInv
    <3> QED BY <3>1, <3>2, ShownStays
  <2>2. CASE Owned
    BY <1>19, <2>1, <2>2, CopyRests DEF ClearFails, Remembered, Sure
  <2>3. CASE ~Owned
    BY <1>19, <2>1, <2>3, CopyRests DEF ClearFails, Forgotten, Remembered, Sure
  <2> QED BY <2>2, <2>3
<1>20. CASE Remove
  <2>1. Shown' = Shown /\ ~Owned' /\ Remembered' = None
    BY <1>20 DEF Remove, Shown, Recoverable, Remembered
  <2>2. CASE Owned
    BY <1>a, <2>1, <2>2 DEF Copied!Next, Copied!LetGo
  <2>3. CASE ~Owned
    BY <1>20, <2>1, <2>3, CopyRests DEF Remembered, Sure
  <2> QED BY <2>2, <2>3
<1>21. CASE End
  <2>1. Shown' = Shown /\ ~Owned' /\ Remembered' = None
    BY <1>21 DEF End, Forgotten, Shown, Recoverable, Remembered
  <2>2. CASE Owned
    BY <1>a, <2>1, <2>2 DEF Copied!Next, Copied!LetGo
  <2>3. CASE ~Owned
    BY <2>1, <2>3, CopyRests DEF Remembered, Sure
  <2> QED BY <2>2, <2>3
<1>22. CASE PowerCut
  <2>1. ~Owned' /\ Remembered' = None
    BY <1>22 DEF PowerCut, Forgotten, Remembered
  <2>2. Shown' \in Versions \cup {None, Torn}
    BY DEF Shown, Manifest, TypeOK
  <2>3. ASSUME Owned, Sure, Remembered # None, Remembered = Shown
        PROVE  Shown' = Shown
    <3>1. current # None /\ manifest # None /\ manifest \in Manifest
      BY <2>3 DEF Sure, Remembered, Shown, TypeOK
    <3>2. manifest = current \/ pc \in {"syncUnname", "sweep"}
      BY <2>3, <3>1 DEF Sure, RecordInv, NamedInv, Renamed
    <3>3. manifest = current
      BY <3>1, <3>2 DEF RecordInv, NamedInv
    <3>4. onDisk.manifest = {manifest} /\ onDisk.copies[manifest.sequence] = {copies[manifest.sequence]}
      BY <2>3, <3>1, <3>3 DEF RecordInv, SureInv, SyncInv
    <3>5. manifest' = manifest
      BY <1>22, <3>4 DEF PowerCut
    <3>6. \A n \in Sequences : copies'[n] \in onDisk.copies[n]
      BY <1>22 DEF PowerCut
    <3>7. copies'[manifest.sequence] = copies[manifest.sequence]
      BY <3>1, <3>4, <3>6 DEF Manifest
    <3> QED BY <3>5, <3>7, ShownStays
  <2> QED BY <1>a, <2>1, <2>2, <2>3 DEF Copied!Next, Copied!PowerCut
<1>23. CASE Claim
  BY <1>23, CopyRests DEF Claim, Shown, Recoverable, Remembered, Sure
<1>24. CASE DropClaim
  BY <1>24, CopyRests DEF DropClaim, Shown, Recoverable, Remembered, Sure
<1>25. CASE IntoRecord
  <2>1. ~Owned /\ Owned' /\ manifest' = manifest /\ manifest # None /\ pc' = "idle"
    BY <1>25, AdoptRemoves DEF IntoRecord, RecordInv, NamedInv
  <2>2. Shown' = Shown /\ Shown = manifest.version /\ Shown \in Versions
    BY <1>25, AdoptRemoves, <2>1, ShownIsNamed, ShownNext DEF IntoRecord
  <2>3. Remembered' = manifest.version
    BY <1>25, AdoptRemoves, <2>1 DEF IntoRecord, Remembered
  <2> QED BY <1>0, <1>a, <2>1, <2>2, <2>3 DEF Copied!Next, Copied!Own
<1>26. CASE UNCHANGED vars
  BY <1>26, CopyRests DEF vars, Shown, Recoverable, Remembered, Sure
<1>27. QED
  BY <1>1, <1>2, <1>3, <1>4, <1>5, <1>6, <1>7, <1>8, <1>9, <1>10,
     <1>11, <1>12, <1>13, <1>14, <1>15, <1>16, <1>17, <1>18, <1>19, <1>20,
     <1>21, <1>22, <1>23, <1>24, <1>25, <1>26
  DEF Next, Step

(* Seen from outside, a record is one copy that is replaced and cleared in *)
(* one step, whatever fails or ends on the way (recovery.rs:47-53), and    *)
(* that no power cut takes once it is confirmed.                           *)
THEOREM RecordIsACopy == Spec => ImplementsCopy
<1>1. Init => Copied!Init
  BY DEF Init, Copied!Init, Shown, Remembered, Sure
<1>2. TypeOK /\ RecordInv /\ (TypeOK /\ RecordInv)' /\ [Next]_vars => [Copied!Next]_(Copied!vars)
  BY CopyStep
<1>3. QED
  BY <1>1, <1>2, RecordIsKept, PTL DEF Spec, ImplementsCopy, Copied!Spec
=============================================================================
