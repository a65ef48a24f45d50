--------------------------- MODULE RecoveryRecorder ---------------------------
(***************************************************************************)
(* The one worker that writes crash copies for a window, and the lanes     *)
(* through which the open documents talk to it: `RecoveryRecorder` and     *)
(* `run` (crates/ferritecad-jobs/src/recovery.rs).                         *)
(*                                                                         *)
(* The event loop only sends requests and says "writing"; the worker takes *)
(* what is in the channel, drops what a newer request of the same document *)
(* makes pointless, does the rest in order and tells the lane.  A record   *)
(* is what module RecoveryRecord shows of it between operations: the model *)
(* its manifest names, and what its owner remembers.                       *)
(***************************************************************************)
EXTENDS Integers, Sequences, FiniteSets, FiniteSetsExt

CONSTANTS
    Lanes,      \* lanes: one per tab, and the window's own
    Keys,       \* DocumentSession::id of the documents opened
    Records,    \* record directories
    Versions,   \* model contents
    None,       \* no document, record, answer or copy
    Absent,     \* no such record directory
    MaxRecords, \* RecoveryStore::limit
    MaxOrders,  \* bound: observations, of all the lanes
    MaxFaults   \* bound: failing record operations

ASSUME RecorderAssumption ==
    /\ {None, Absent} \cap (Lanes \cup Keys \cup Records \cup Versions) = {}
    /\ None # Absent
    /\ MaxRecords \in Nat /\ MaxOrders \in Nat /\ MaxFaults \in Nat
    /\ IsFiniteSet(Records)

VARIABLES
    lanes,   \* RecoveryRecorder: the order counter, the document tracked, whether it is there
    shared,  \* Shared: what a lane shows, under its mutex
    last,    \* what each document was when its lane last observed it
    fate,    \* how the lane of each document ended it
    claims,  \* the RecoveryClaim a recovered document brings along
    queue,   \* the channel
    batch,   \* what the worker took and has not done
    newest,  \* the newest request of each document in the batch
    owned,   \* the worker's records, by document
    ended,   \* the worker's ended documents
    answer,  \* an outcome the worker has not told the lane yet
    running, \* the worker thread
    holds,   \* the model each record's manifest names
    memory,  \* RecoveryRecord's fields
    failed,  \* documents whose last request failed
    half,    \* records a failed clear took the manifest of
    faults

loopVars == <<lanes, shared, last, fate, claims>>
workVars == <<batch, newest, owned, ended, answer, running>>
diskVars == <<holds, memory, failed, half, faults>>
vars == <<loopVars, queue, workVars, diskVars>>

Order == Nat
Request == [op : {"Adopt", "Checkpoint", "Clear", "End", "Stop"},
            key : Keys \cup {None}, order : Order, lane : Lanes \cup {None},
            version : Versions \cup {None}, record : Records \cup {None},
            ending : {"Retire", "Keep", "none"}]
Status == {"Off", "Writing", "Written", "Failed"}
Outcome == [lane : Lanes, key : Keys, order : Order, result : Status]
Memory == [current : Versions \cup {None}, confirmed : BOOLEAN, order : Order]

TypeOK ==
    /\ lanes \in [Lanes -> [order : Order, tracked : Keys \cup {None}, live : BOOLEAN]]
    /\ shared \in [Lanes -> [key : Keys \cup {None}, requested : Order, done : Order,
                             status : Status]]
    /\ last \in [Keys -> [version : Versions \cup {None}, dirty : BOOLEAN]]
    /\ fate \in [Keys -> {"unborn", "open", "Retire", "Keep"}]
    /\ claims \in [Keys -> Records \cup {None}]
    /\ queue \in Seq(Request) /\ batch \in Seq(Request)
    /\ newest \in [Keys -> Order]
    /\ owned \in [Keys -> Records \cup {None}]
    /\ ended \subseteq Keys
    /\ answer \in Outcome \cup {None}
    /\ running \in BOOLEAN
    /\ holds \in [Records -> Versions \cup {None, Absent}]
    /\ memory \in [Records -> Memory]
    /\ failed \subseteq Keys
    /\ half \subseteq Records
    /\ faults \in 0 .. MaxFaults
    /\ \A l \in Lanes : shared[l].done <= shared[l].requested
    /\ \A k \in Keys : owned[k] # None => holds[owned[k]] # Absent

-----------------------------------------------------------------------------

NoMemory == [current |-> None, confirmed |-> TRUE, order |-> 0]

(* What earlier runs left is in the folder: orphans with a copy or without. *)
Init ==
    /\ lanes = [l \in Lanes |-> [order |-> 0, tracked |-> None, live |-> TRUE]]
    /\ shared = [l \in Lanes |-> [key |-> None, requested |-> 0, done |-> 0, status |-> "Off"]]
    /\ last = [k \in Keys |-> [version |-> None, dirty |-> FALSE]]
    /\ fate = [k \in Keys |-> "unborn"]
    /\ claims = [k \in Keys |-> None]
    /\ queue = <<>> /\ batch = <<>> /\ newest = [k \in Keys |-> 0]
    /\ owned = [k \in Keys |-> None] /\ ended = {} /\ answer = None /\ running = TRUE
    /\ holds \in [Records -> Versions \cup {None, Absent}]
    /\ memory = [r \in Records |-> NoMemory]
    /\ failed = {} /\ half = {} /\ faults = 0

Nobody == [op |-> "Stop", key |-> None, order |-> 0, lane |-> None, version |-> None,
           record |-> None, ending |-> "none"]

Leased(r) ==
    \/ \E k \in Keys : owned[k] = r \/ claims[k] = r
    \/ \E i \in DOMAIN queue : queue[i].record = r
    \/ \E i \in DOMAIN batch : batch[i].record = r

-----------------------------------------------------------------------------
(* The event loop                                                          *)

Ending(k, how) == [Nobody EXCEPT !.op = "End", !.key = k, !.ending = how]

(* observe: the lane's document is k now, and is version, saved or not.    *)
Observe(l, k, version, dirty) ==
    /\ lanes[l].live
    /\ MapThenSumSet(LAMBDA m : lanes[m].order, Lanes) < MaxOrders
    /\ LET old == lanes[l].tracked
           order == lanes[l].order + 1
           about == [Nobody EXCEPT !.key = k, !.order = order, !.lane = l]
       IN  /\ queue' = queue
                \o (IF old \in {None, k} THEN <<>> ELSE <<Ending(old, "Retire")>>)
                \o (IF claims[k] = None THEN <<>>
                    ELSE <<[Nobody EXCEPT !.op = "Adopt", !.key = k, !.lane = l,
                                          !.record = claims[k]]>>)
                \o <<IF dirty THEN [about EXCEPT !.op = "Checkpoint", !.version = version]
                              ELSE [about EXCEPT !.op = "Clear"]>>
           /\ lanes' = [lanes EXCEPT ![l].tracked = k, ![l].order = order]
           /\ shared' = [shared EXCEPT ![l].key = k, ![l].requested = order,
                                       ![l].status = IF dirty THEN "Writing" ELSE "Off"]
           /\ fate' = [f \in Keys |-> IF f = k THEN "open"
                                      ELSE IF f = old THEN "Retire" ELSE fate[f]]
    /\ last' = [last EXCEPT ![k] = [version |-> version, dirty |-> dirty]]

(* A version is accepted, undone or saved.                                 *)
Change(l, version, dirty) ==
    /\ lanes[l].tracked # None
    /\ Observe(l, lanes[l].tracked, version, dirty)
    /\ claims' = [claims EXCEPT ![lanes[l].tracked] = None]
    /\ UNCHANGED <<workVars, diskVars>>

(* Another document takes the tab: opened, or new and untitled.            *)
Open(l, k, version, dirty) ==
    /\ fate[k] = "unborn"
    /\ Observe(l, k, version, dirty)
    /\ UNCHANGED <<claims, workVars, diskVars>>

(* An orphan is claimed and restored into a new document; its lane         *)
(* observes it later, if the person lets it.                               *)
Recover(k, r) ==
    /\ fate[k] = "unborn" /\ claims[k] = None
    /\ \E l \in Lanes : lanes[l].live
    /\ holds[r] \in Versions /\ ~Leased(r)
    /\ claims' = [claims EXCEPT ![k] = r]
    /\ UNCHANGED <<lanes, shared, last, fate, queue, workVars, diskVars>>

AcceptRecovered(l, k) ==
    /\ fate[k] = "unborn" /\ claims[k] # None
    /\ Observe(l, k, holds[claims[k]], TRUE)
    /\ claims' = [claims EXCEPT ![k] = None]
    /\ UNCHANGED <<workVars, diskVars>>

DropRecovered(k) ==
    /\ fate[k] = "unborn" /\ claims[k] # None
    /\ claims' = [claims EXCEPT ![k] = None]
    /\ UNCHANGED <<lanes, shared, last, fate, queue, workVars, diskVars>>

(* Mutant: only a lane with a document stops the worker.                   *)
Finish_WhenTracking(l, how) ==
    /\ lanes[l].live
    /\ LET k == lanes[l].tracked
           last_lane == \A m \in Lanes \ {l} : ~lanes[m].live
       IN  /\ queue' = IF k = None THEN queue
                       ELSE queue \o <<Ending(k, how)>>
                              \o (IF last_lane THEN <<Nobody>> ELSE <<>>)
           /\ fate' = [f \in Keys |-> IF f = k THEN how ELSE fate[f]]
    /\ lanes' = [lanes EXCEPT ![l].tracked = None, ![l].live = FALSE]
    /\ shared' = [shared EXCEPT ![l].key = None, ![l].status = "Off"]
    /\ UNCHANGED <<last, claims, workVars, diskVars>>

(* finish or Drop: the last lane stops the worker after what was sent.     *)
Finish(l, how) ==
    /\ lanes[l].live
    /\ LET k == lanes[l].tracked
       IN  /\ queue' = queue
                \o (IF k = None THEN <<>> ELSE <<Ending(k, how)>>)
                \o (IF \A m \in Lanes \ {l} : ~lanes[m].live THEN <<Nobody>> ELSE <<>>)
           /\ fate' = [f \in Keys |-> IF f = k THEN how ELSE fate[f]]
    /\ lanes' = [lanes EXCEPT ![l].tracked = None, ![l].live = FALSE]
    /\ shared' = [shared EXCEPT ![l].key = None, ![l].status = "Off"]
    /\ UNCHANGED <<last, claims, workVars, diskVars>>

-----------------------------------------------------------------------------
(* The worker                                                              *)

(* Mutant: newest is kept for the batch, not for each document.            *)
Newest_OfAll(requests) ==
    [k \in Keys |->
       LET orders == {requests[i].order : i \in DOMAIN requests}
       IN  CHOOSE most \in orders \cup {0} : \A o \in orders : o <= most]

(* The newest Checkpoint or Clear of each document in a batch.             *)
Newest(requests) ==
    [k \in Keys |->
       LET orders == {requests[i].order : i \in {j \in DOMAIN requests : requests[j].key = k}}
       IN  CHOOSE most \in orders \cup {0} : \A o \in orders : o <= most]

(* Mutant: only the last of what was sent is kept.                         *)
Take_Last ==
    /\ running /\ batch = <<>> /\ answer = None
    /\ \E n \in 1 .. Len(queue) :
        /\ batch' = SubSeq(queue, n, n)
        /\ newest' = Newest(batch')
        /\ queue' = SubSeq(queue, n + 1, Len(queue))
    /\ UNCHANGED <<loopVars, owned, ended, answer, running, diskVars>>

(* recv and try_iter: one request and whatever else has been sent by then. *)
Take ==
    /\ running /\ batch = <<>> /\ answer = None
    /\ \E n \in 1 .. Len(queue) :
        /\ batch' = SubSeq(queue, 1, n)
        /\ newest' = Newest(batch')
        /\ queue' = SubSeq(queue, n + 1, Len(queue))
    /\ UNCHANGED <<loopVars, owned, ended, answer, running, diskVars>>

Done(outcome) ==
    /\ batch' = Tail(batch)
    /\ answer' = outcome
    /\ UNCHANGED <<loopVars, queue, newest>>

Due(op) ==
    /\ running /\ answer = None
    /\ batch # <<>> /\ Head(batch).op = op

Superseded(request) == request.order # 0 /\ newest[request.key] # request.order

Wanted(op) ==
    /\ Due(op)
    /\ ~Superseded(Head(batch))
    /\ Head(batch).key \notin ended

Answer(request, result) ==
    [lane |-> request.lane, key |-> request.key, order |-> request.order, result |-> result]

(* A newer request makes this one pointless, or its document has ended; a  *)
(* claim that comes with it is let go, kept.                               *)
Skip ==
    /\ running /\ answer = None /\ batch # <<>>
    /\ Head(batch).op # "Stop"
    /\ Superseded(Head(batch)) \/ Head(batch).key \in ended
    /\ Done(None)
    /\ UNCHANGED <<owned, ended, running, diskVars>>

Fault == faults < MaxFaults /\ faults' = faults + 1

(* into_record: the adopted record already holds the document's model.     *)
Adopt ==
    /\ Wanted("Adopt")
    /\ LET q == Head(batch)
       IN  \/ /\ owned' = [owned EXCEPT ![q.key] = q.record]
              /\ memory' = [memory EXCEPT ![q.record] =
                              [current |-> holds[q.record], confirmed |-> TRUE, order |-> 0]]
              /\ Done(None)
              /\ UNCHANGED faults
           \/ /\ Fault
              /\ Done(Answer(q, "Failed"))
              /\ UNCHANGED <<owned, memory>>
    /\ UNCHANGED <<ended, running, holds, failed, half>>

(* Mutant: whatever is not leased goes, to make room.                      *)
Swept_All(r) == holds[r] # Absent /\ ~Leased(r)

(* create_record removes orphans without a manifest first.                 *)
Swept(r) == holds[r] = None /\ ~Leased(r)

Kept == {r \in Records : holds[r] # Absent /\ ~Swept(r)}

(* RecoveryRecord::publish on record r, as module RecoveryRecord has it:   *)
(* Unchanged, Written, or an error with the old copy or the new one.       *)
PublishTo(r, q, swept, mem) ==
    \/ /\ mem.current = q.version /\ mem.confirmed
       /\ holds' = swept
       /\ memory' = [memory EXCEPT ![r] = [mem EXCEPT !.order = q.order]]
       /\ Done(Answer(q, "Written"))
       /\ failed' = failed \ {q.key}
       /\ UNCHANGED <<half, faults>>
    \/ /\ ~(mem.current = q.version /\ mem.confirmed)
       /\ holds' = [swept EXCEPT ![r] = q.version]
       /\ memory' = [memory EXCEPT ![r] =
                       [current |-> q.version, confirmed |-> TRUE, order |-> q.order]]
       /\ half' = half \ {r}
       /\ Done(Answer(q, "Written"))
       /\ failed' = failed \ {q.key}
       /\ UNCHANGED faults
    \/ /\ ~(mem.current = q.version /\ mem.confirmed)
       /\ Fault
       /\ failed' = failed \cup {q.key}
       /\ Done(Answer(q, "Failed"))
       /\ \/ /\ holds' = swept
             /\ memory' = [memory EXCEPT ![r] = [mem EXCEPT !.order = q.order]]
             /\ UNCHANGED half
          \/ /\ holds' = [swept EXCEPT ![r] = q.version]
             /\ memory' = [memory EXCEPT ![r] =
                             [current |-> q.version, confirmed |-> FALSE, order |-> q.order]]
             /\ half' = half \ {r}

(* The document has a record.                                              *)
CheckpointAgain ==
    /\ Wanted("Checkpoint")
    /\ LET q == Head(batch)
           r == owned[q.key]
       IN  /\ r # None
           /\ q.order > memory[r].order
           /\ PublishTo(r, q, holds, memory[r])
    /\ UNCHANGED <<owned, ended, running>>

(* The document gets one, if the folder is not full.                       *)
CheckpointFirst ==
    /\ Wanted("Checkpoint")
    /\ owned[Head(batch).key] = None
    /\ Cardinality(Kept) < MaxRecords
    /\ LET q == Head(batch)
           swept == [r \in Records |-> IF Swept(r) THEN Absent ELSE holds[r]]
       IN  \E r \in Records :
            /\ swept[r] = Absent
            /\ owned' = [owned EXCEPT ![q.key] = r]
            /\ PublishTo(r, q, [swept EXCEPT ![r] = None], NoMemory)
    /\ UNCHANGED <<ended, running>>

(* No record can be made: the folder is full, or the file system refuses.  *)
(* What was swept is gone all the same.                                    *)
CheckpointRefused ==
    /\ Wanted("Checkpoint")
    /\ LET q == Head(batch)
       IN  /\ owned[q.key] = None
           /\ \/ Cardinality(Kept) >= MaxRecords /\ UNCHANGED faults
              \/ Cardinality(Kept) < MaxRecords /\ Fault
           /\ holds' = [r \in Records |-> IF Swept(r) THEN Absent ELSE holds[r]]
           /\ failed' = failed \cup {q.key}
           /\ Done(Answer(q, "Failed"))
    /\ UNCHANGED <<owned, ended, running, memory, half>>

Clear ==
    /\ Wanted("Clear")
    /\ LET q == Head(batch)
           r == owned[q.key]
       IN  \/ /\ r = None
              /\ Done(Answer(q, "Off"))
              /\ failed' = failed \ {q.key}
              /\ UNCHANGED <<holds, memory, half, faults>>
           \/ /\ r # None
              /\ q.order > memory[r].order
              /\ holds' = [holds EXCEPT ![r] = None]
              /\ memory' = [memory EXCEPT ![r].current = None, ![r].order = q.order]
              /\ half' = half \ {r}
              /\ Done(Answer(q, "Off"))
              /\ failed' = failed \ {q.key}
              /\ UNCHANGED faults
           \/ /\ r # None
              /\ q.order > memory[r].order
              /\ Fault
              /\ memory' = [memory EXCEPT ![r].order = q.order]
              /\ Done(Answer(q, "Failed"))
              /\ failed' = failed \cup {q.key}
              /\ \/ UNCHANGED <<holds, half>>
                 \/ /\ holds[r] # None
                    /\ holds' = [holds EXCEPT ![r] = None]
                    /\ half' = half \cup {r}
    /\ UNCHANGED <<owned, ended, running>>

(* The record is removed when the person decided, and left otherwise.      *)
End ==
    /\ Wanted("End")
    /\ LET q == Head(batch)
           r == owned[q.key]
       IN  /\ ended' = ended \cup {q.key}
           /\ owned' = [owned EXCEPT ![q.key] = None]
           /\ \/ /\ r = None \/ q.ending = "Keep"
                 /\ UNCHANGED <<holds, failed, faults>>
              \/ /\ r # None /\ q.ending = "Retire"
                 /\ holds' = [holds EXCEPT ![r] = Absent]
                 /\ UNCHANGED <<failed, faults>>
              \/ /\ r # None /\ q.ending = "Retire"
                 /\ Fault
                 /\ failed' = failed \cup {q.key}
                 /\ \E left \in {holds[r], None} : holds' = [holds EXCEPT ![r] = left]
           /\ Done(None)
    /\ UNCHANGED <<running, memory, half>>

(* Everything sent before it is done; records nobody ended stay.           *)
Stop ==
    /\ Due("Stop")
    /\ running' = FALSE
    /\ owned' = [k \in Keys |-> None]
    /\ Done(None)
    /\ UNCHANGED <<ended, diskVars>>

(* Mutant: the lane shows the answer to whatever was asked.                *)
Post_Any ==
    /\ answer # None
    /\ LET l == answer.lane
       IN  shared' = IF shared[l].key = answer.key
                     THEN [shared EXCEPT ![l].done = answer.order,
                                         ![l].status = answer.result]
                     ELSE shared
    /\ answer' = None
    /\ UNCHANGED <<lanes, last, fate, claims, queue, batch, newest, owned, ended,
                   running, diskVars>>

(* The lane shows the answer, if it is the one it waits for.               *)
Post ==
    /\ answer # None
    /\ LET l == answer.lane
           due == /\ shared[l].key = answer.key
                  /\ answer.order \in {0, shared[l].requested}
       IN  shared' = IF ~due THEN shared
                     ELSE [shared EXCEPT ![l].status = answer.result,
                              ![l].done = IF answer.order > @ THEN answer.order ELSE @]
    /\ answer' = None
    /\ UNCHANGED <<lanes, last, fate, claims, queue, batch, newest, owned, ended,
                   running, diskVars>>

-----------------------------------------------------------------------------

Work ==
    \/ Take \/ Skip \/ Adopt \/ CheckpointAgain \/ CheckpointFirst
    \/ CheckpointRefused \/ Clear \/ End \/ Stop \/ Post

Next ==
    \/ \E l \in Lanes, k \in Keys, version \in Versions, dirty \in BOOLEAN :
         Open(l, k, version, dirty) /\ claims[k] = None
    \/ \E l \in Lanes, version \in Versions, dirty \in BOOLEAN : Change(l, version, dirty)
    \/ \E k \in Keys, r \in Records : Recover(k, r)
    \/ \E l \in Lanes, k \in Keys : AcceptRecovered(l, k)
    \/ \E k \in Keys : DropRecovered(k)
    \/ \E l \in Lanes, how \in {"Retire", "Keep"} : Finish(l, how)
    \/ Work

Spec == Init /\ [][Next]_vars

(* The worker is a thread that waits for nothing but the channel and the   *)
(* disk.                                                                   *)
FairSpec == Spec /\ WF_vars(Work)

-----------------------------------------------------------------------------
(* Properties                                                              *)

Holding(k) == IF owned[k] = None THEN None ELSE holds[owned[k]]

(* A lane says "written" only when a copy of exactly the version it last   *)
(* observed is in the document's record: never for a copy that is pending, *)
(* failed, or of an older version (docs/document-crash-recovery.md:48-51;  *)
(* that a clear may stop half way is module RecoveryRecord's finding).     *)
WrittenIsTrue ==
    \A l \in Lanes :
        shared[l].status = "Written" /\ running =>
            LET k == shared[l].key
            IN  /\ last[k].dirty
                /\ owned[k] \in half \/ Holding(k) = last[k].version

(* A document ends as it was decided, whatever was dropped as superseded   *)
(* on the way: retired, its record goes; kept with something unsaved, the  *)
(* record it leaves holds the last version observed, unless its last       *)
(* request failed (docs/document-crash-recovery.md:96-103).                *)
DecisionsAreKept ==
    [][ \A k \in (ended' \ ended) \ failed' :
          LET r == owned[k]
          IN  /\ fate[k] = "Retire" /\ r # None => holds'[r] = Absent
              /\ fate[k] = "Keep" /\ last[k].dirty =>
                    r # None /\ (r \in half \/ holds'[r] = last[k].version) ]_vars

(* A copy nobody in this window owns is not taken away or written over: no *)
(* document's request touches another's record or an orphan that can still *)
(* be recovered (docs/document-crash-recovery.md:104-110).                 *)
CopiesAreSafe ==
    [][ \A r \in Records :
          holds[r] \in Versions /\ holds'[r] # holds[r] =>
            /\ batch # <<>>
            /\ owned[Head(batch).key] = r ]_vars

(* "Writing" is never shown for ever, whatever was coalesced away          *)
(* (docs/document-crash-recovery.md:43-51).                                *)
EverythingSettles ==
    \A l \in Lanes :
        shared[l].status = "Writing" ~> shared[l].status # "Writing"

(* Once the last lane is gone the worker ends, so the window that joins it *)
(* does too (Drop of Worker).                                              *)
WorkerEnds ==
    (\A l \in Lanes : ~lanes[l].live) ~> ~running

-----------------------------------------------------------------------------
(* What a record is to the document that owns it, as module RecoveryRecord *)
(* has it between two operations.                                          *)

Owned(r) == \E k \in Keys : owned[k] = r
CopyIn(r) == IF holds[r] = Absent THEN None ELSE holds[r]
Remembered(r) == IF Owned(r) THEN memory[r].current ELSE None
Sure(r) == Owned(r) /\ memory[r].confirmed

Copied(r) == INSTANCE RecoverableCopy
    WITH Models <- Versions, Torn <- Absent, holds <- CopyIn(r), owned <- Owned(r),
         current <- Remembered(r), sure <- Sure(r)

(* To the worker every record is one copy that changes as module           *)
(* RecoverableCopy says, which a record's own calls implement.             *)
ImplementsCopies ==
    /\ \A r \in Records : Copied(r)!Init
    /\ [][\A r \in Records : Copied(r)!Next \/ UNCHANGED Copied(r)!vars]_vars
=============================================================================
