---------------------------- MODULE RecoveryStore ----------------------------
(***************************************************************************)
(* The folder of recovery records that every window and command line of    *)
(* one user shares: RecoveryStore, and the lease of a record, of           *)
(* ferritecad-jobs recovery.rs.                                            *)
(*                                                                         *)
(* A record is a directory with a lease file, a manifest and copies.  Who  *)
(* may touch it is decided by an advisory lock on the lease, exclusive for *)
(* an owner, a claim and a removal, shared for a listing.  One step is one *)
(* call of the file system; any agent's process may end between two.  What *)
(* a publication does step by step is RecoveryRecord; here the copies and  *)
(* the manifest appear.                                                    *)
(*                                                                         *)
(* A lease file is made once in the life of its directory, so the file and *)
(* its lock are named by the record; removed, it lives on for those who    *)
(* opened it.  An open file that is closed lets its lock go (Unix).        *)
(***************************************************************************)
EXTENDS Integers, FiniteSets

CONSTANTS
    Agents,     \* callers: each one thread of one process
    Records,    \* names of records; a name nothing refers to is a new one
    None,
    Limit,      \* RecoveryStore.limit
    Attempts,   \* how often create_record tries a new name
    Errors      \* BOOLEAN: calls of the file system may fail

ASSUME BoundsAssumption == Limit \in Nat /\ Attempts \in Nat \ {0}
ASSUME AgentsAssumption == IsFiniteSet(Agents) /\ Agents # {}
ASSUME NoneAssumption == None \notin Agents \cup Records

VARIABLES
    directories,    \* the records whose directory exists
    leases,         \* those with a lease file in it
    headers,        \* those whose lease file has the header
    manifests,      \* those with a manifest
    contents,       \* those with copies or partial names
    holder,         \* who holds the lock of the lease exclusively
    readers,        \* who holds it shared
    owner,          \* whose RecoveryRecord or RecoveryClaim a record is
    claims,         \* the owned records that are claims
    call            \* what each agent is doing

vars == <<directories, leases, headers, manifests, contents, holder, readers,
          owner, claims, call>>

files == <<directories, leases, headers, manifests, contents>>
locks == <<holder, readers>>
owners == <<owner, claims>>

Idle == [of |-> "none", at |-> "idle", record |-> None, todo |-> {},
         kept |-> 0, tries |-> 0]

---------------------------------------------------------------------------
(* A call                                                                  *)

At(a, step) == call[a].at = step
In(a, of) == call[a].of = of
On(a) == call[a].record

Goto(a, step) == call' = [call EXCEPT ![a].at = step]
\* The record is done with, and counted as so many that stay.
Done(a, count) ==
    call' = [call EXCEPT ![a].at = "next", ![a].record = None, ![a].kept = @ + count]
Answer(a) == call' = [call EXCEPT ![a] = Idle]

\* The record is done with, whatever came of it: a sweep counts what is still
\* there, a listing looks at the next one, any other call has its answer.
LeaveRecord(a) ==
    CASE In(a, "create") -> Goto(a, "tally")
      [] In(a, "list") -> Done(a, 0)
      [] OTHER -> Answer(a)

Free(r) == holder[r] = None /\ readers[r] = {}
Unlocked(r) == holder' = [holder EXCEPT ![r] = None]

\* A name nothing and nobody refers to any more, the random name of a new one.
New(r) ==
    /\ r \notin directories /\ owner[r] = None /\ Free(r)
    /\ \A a \in Agents : On(a) # r /\ r \notin call[a].todo

Start(a, of, record, todo, step) ==
    /\ At(a, "idle")
    /\ call' = [call EXCEPT ![a] = [Idle EXCEPT !.of = of, !.record = record,
                                                !.todo = todo, !.at = step]]

StartList(a) == Start(a, "list", None, directories, "next") /\ UNCHANGED <<files, locks, owners>>
StartClaim(a, r) == Start(a, "claim", r, {}, "open") /\ UNCHANGED <<files, locks, owners>>
StartDelete(a, r) == Start(a, "delete", r, {}, "open") /\ UNCHANGED <<files, locks, owners>>
StartCreate(a) == Start(a, "create", None, directories, "next") /\ UNCHANGED <<files, locks, owners>>

\* The next record of a listing; of a sweep, which leaves a manifest alone.
NextRecord(a) ==
    /\ At(a, "next")
    /\ \E r \in call[a].todo :
          call' = [call EXCEPT ![a].record = r, ![a].todo = @ \ {r},
                               ![a].at = IF In(a, "create") /\ r \in manifests THEN "tally"
                                         ELSE "open"]
    /\ UNCHANGED <<files, locks, owners>>

ListEnds(a) ==
    /\ At(a, "next") /\ In(a, "list") /\ call[a].todo = {}
    /\ Answer(a) /\ UNCHANGED <<files, locks, owners>>

---------------------------------------------------------------------------
(* lock_lease and own_lease                                                *)

OpenLease(a) ==
    /\ At(a, "open") /\ On(a) \in leases
    /\ Goto(a, "lock") /\ UNCHANGED <<files, locks, owners>>

\* No directory, or no lease in it.  A sweep then tries to remove the directory.
LeaseMissing(a) ==
    /\ At(a, "open") /\ On(a) \notin leases
    /\ IF In(a, "create") THEN Goto(a, "removeEmpty") ELSE LeaveRecord(a)
    /\ UNCHANGED <<files, locks, owners>>

\* Mutant: a directory without a lease goes with whatever has come into it.
RemoveEmpty_All(a) ==
    /\ At(a, "removeEmpty")
    /\ directories' = directories \ {On(a)} /\ leases' = leases \ {On(a)}
    /\ Done(a, 0)
    /\ UNCHANGED <<headers, manifests, contents, locks, owners>>

RemoveEmpty(a) ==
    /\ At(a, "removeEmpty")
    /\ IF On(a) \in directories \ (leases \cup manifests \cup contents)
       THEN directories' = directories \ {On(a)} /\ Done(a, 0)
       ELSE UNCHANGED directories /\ LeaveRecord(a)
    /\ UNCHANGED <<leases, headers, manifests, contents, locks, owners>>

\* The directory, the lease or its lock cannot be read, opened or asked for.
LeaseUnreadable(a) ==
    /\ Errors /\ (At(a, "open") \/ At(a, "lock"))
    /\ LeaveRecord(a) /\ UNCHANGED <<files, locks, owners>>

LockShared(a) ==
    /\ At(a, "lock") /\ In(a, "list")
    /\ IF holder[On(a)] = None
       THEN readers' = [readers EXCEPT ![On(a)] = @ \cup {a}] /\ Goto(a, "header")
       ELSE UNCHANGED readers /\ LeaveRecord(a)
    /\ UNCHANGED <<files, holder, owners>>

LockExclusive(a) ==
    /\ At(a, "lock") /\ ~In(a, "list")
    /\ IF Free(On(a))
       THEN holder' = [holder EXCEPT ![On(a)] = a] /\ Goto(a, "header")
       ELSE UNCHANGED holder /\ Goto(a, "probe")
    /\ UNCHANGED <<files, readers, owners>>

\* only_readers: a shared lock is granted when nobody holds it exclusively.
Probe(a) ==
    /\ At(a, "probe")
    /\ IF holder[On(a)] = None
       THEN readers' = [readers EXCEPT ![On(a)] = @ \cup {a}] /\ Goto(a, "unprobe")
       ELSE UNCHANGED readers /\ LeaveRecord(a)
    /\ UNCHANGED <<files, holder, owners>>

\* own_lease: claims and removals try again until a deadline, which may pass at
\* any of their tries; a sweep does not wait.
Waits(a) == In(a, "claim") \/ In(a, "delete")

\* Mutant: who finds only readers takes the record with them.
Unprobe_Takes(a) ==
    /\ At(a, "unprobe")
    /\ readers' = [readers EXCEPT ![On(a)] = @ \ {a}]
    /\ holder' = [holder EXCEPT ![On(a)] = IF @ = None THEN a ELSE @]
    /\ IF holder[On(a)] = None THEN Goto(a, "header") ELSE LeaveRecord(a)
    /\ UNCHANGED <<files, owners>>

Unprobe(a) ==
    /\ At(a, "unprobe")
    /\ readers' = [readers EXCEPT ![On(a)] = @ \ {a}]
    /\ \/ Waits(a) /\ Goto(a, "open")
       \/ LeaveRecord(a)
    /\ UNCHANGED <<files, holder, owners>>

\* The person cancels a claim that waits.
CancelClaim(a) ==
    /\ At(a, "open") /\ In(a, "claim")
    /\ Answer(a) /\ UNCHANGED <<files, locks, owners>>

\* What the call has locked; what the agent owns is another open file.
LetGo(a) ==
    /\ holder' = IF holder[On(a)] = a /\ owner[On(a)] = None
                 THEN [holder EXCEPT ![On(a)] = None] ELSE holder
    /\ readers' = [readers EXCEPT ![On(a)] = @ \ {a}]

\* The locked file is not a lease of ours, or not yet.
NotOurs(a) ==
    /\ At(a, "header") /\ On(a) \notin headers
    /\ LetGo(a) /\ LeaveRecord(a) /\ UNCHANGED <<files, owners>>

Held(a) ==
    /\ At(a, "header") /\ On(a) \in headers
    /\ Goto(a, IF In(a, "delete") THEN "manifest" ELSE "held")
    /\ UNCHANGED <<files, locks, owners>>

---------------------------------------------------------------------------
(* What is done under the lease                                            *)

\* A listing has read its record, copy and all, or there was none to read.
ListReads(a) ==
    /\ At(a, "held") /\ In(a, "list")
    /\ LetGo(a) /\ LeaveRecord(a) /\ UNCHANGED <<files, owners>>

\* The copy was verified: the claim is the caller's.
Claim(a) ==
    /\ At(a, "held") /\ In(a, "claim") /\ On(a) \in manifests
    /\ owner' = [owner EXCEPT ![On(a)] = a] /\ claims' = claims \cup {On(a)}
    /\ Answer(a) /\ UNCHANGED <<files, locks>>

\* No copy, or one that is refused.
ClaimRefused(a) ==
    /\ At(a, "held") /\ In(a, "claim")
    /\ On(a) \in manifests => Errors
    /\ LetGo(a) /\ Answer(a) /\ UNCHANGED <<files, owners>>

\* Mutant: what looked empty before it was locked is taken for empty.
SweepDecides_Unchecked(a) ==
    /\ At(a, "held") /\ In(a, "create")
    /\ Goto(a, "manifest") /\ UNCHANGED <<files, locks, owners>>

\* Checked again under the lease: a publication may have come before it.
SweepDecides(a) ==
    /\ At(a, "held") /\ In(a, "create")
    /\ Goto(a, IF On(a) \in manifests THEN "tally" ELSE "manifest")
    /\ UNCHANGED <<files, locks, owners>>

\* Mutant: only what is recoverable counts.
Tally_Manifests(a) ==
    /\ At(a, "tally")
    /\ Done(a, IF On(a) \in manifests THEN 1 ELSE 0)
    /\ LetGo(a) /\ UNCHANGED <<files, owners>>

\* A record that stays counts while its directory is there.
Tally(a) ==
    /\ At(a, "tally")
    /\ Done(a, IF On(a) \in directories THEN 1 ELSE 0)
    /\ LetGo(a) /\ UNCHANGED <<files, owners>>

---------------------------------------------------------------------------
(* remove_record                                                           *)

\* A removal fails: the lease goes, and a sweep counts the record.
RemovalFails(a) ==
    /\ LetGo(a)
    /\ IF In(a, "create") THEN Done(a, 1) ELSE Answer(a)
    /\ UNCHANGED owners

\* The manifest goes first.
RemoveManifest(a) ==
    /\ At(a, "manifest")
    /\ manifests' = manifests \ {On(a)}
    /\ \/ Goto(a, "contents") /\ UNCHANGED <<locks, owners>>
       \/ Errors /\ On(a) \in manifests /\ RemovalFails(a)    \* the directory was not synced
    /\ UNCHANGED <<directories, leases, headers, contents>>

\* What is left then; a name that cannot be removed stays.
RemoveContents(a) ==
    /\ At(a, "contents") /\ On(a) \in directories
    /\ \/ contents' = contents \ {On(a)}
       \/ Errors /\ UNCHANGED contents
    /\ Goto(a, "unlink") /\ UNCHANGED <<directories, leases, headers, manifests, locks, owners>>

\* Reading or syncing the directory fails, or it is gone with its stale lease.
ContentsFail(a) ==
    /\ At(a, "manifest") \/ At(a, "contents")
    /\ On(a) \notin directories \/ Errors
    /\ RemovalFails(a) /\ UNCHANGED files

\* The lease, while it is held.
UnlinkLease(a) ==
    /\ At(a, "unlink")
    /\ leases' = leases \ {On(a)} /\ Goto(a, "unlock")
    /\ UNCHANGED <<directories, headers, manifests, contents, locks, owners>>

Unlock(a) ==
    /\ At(a, "unlock")
    /\ LetGo(a) /\ Goto(a, "removeDirectory") /\ UNCHANGED <<files, owners>>

\* remove_dir: refused while something is in it.
RemoveDirectory(a) ==
    /\ At(a, "removeDirectory")
    /\ IF On(a) \in leases \cup manifests \cup contents
       THEN RemovalFails(a) /\ UNCHANGED directories
       ELSE /\ directories' = directories \ {On(a)}
            /\ IF In(a, "create") THEN Done(a, 0) ELSE Answer(a)
            /\ UNCHANGED <<locks, owners>>
    /\ UNCHANGED <<leases, headers, manifests, contents>>

---------------------------------------------------------------------------
(* create_record, after its sweep                                          *)

SweepEnds(a) == At(a, "next") /\ In(a, "create") /\ call[a].todo = {}

AtLimit(a) ==
    /\ SweepEnds(a) /\ call[a].kept >= Limit
    /\ Answer(a) /\ UNCHANGED <<files, locks, owners>>

MakeDirectory(a) ==
    /\ \/ SweepEnds(a) /\ call[a].kept < Limit
       \/ At(a, "again") /\ call[a].tries < Attempts
    /\ \E r \in Records :
          /\ New(r)
          /\ directories' = directories \cup {r}
          /\ headers' = headers \ {r}
          /\ call' = [call EXCEPT ![a].record = r, ![a].at = "makeLease"]
    /\ UNCHANGED <<leases, manifests, contents, locks, owners>>

CreateFails(a) ==
    /\ \/ SweepEnds(a) /\ call[a].kept < Limit /\ (Errors \/ \A r \in Records : ~New(r))
       \/ At(a, "again") /\ (call[a].tries = Attempts \/ Errors \/ \A r \in Records : ~New(r))
    /\ Answer(a) /\ UNCHANGED <<files, locks, owners>>

\* create_lease.  The directory may have been swept away.
MakeLease(a) ==
    /\ At(a, "makeLease")
    /\ IF On(a) \in directories
       THEN leases' = leases \cup {On(a)} /\ Goto(a, "lockNew")
       ELSE UNCHANGED leases /\ Goto(a, "undo")
    /\ UNCHANGED <<directories, headers, manifests, contents, locks, owners>>

LockNew(a) ==
    /\ At(a, "lockNew")
    /\ IF Free(On(a))
       THEN holder' = [holder EXCEPT ![On(a)] = a] /\ Goto(a, "write")
       ELSE UNCHANGED holder /\ Goto(a, "undo")
    /\ UNCHANGED <<files, readers, owners>>

WriteHeader(a) ==
    /\ At(a, "write")
    /\ headers' = headers \cup {On(a)}
    /\ owner' = [owner EXCEPT ![On(a)] = a]
    /\ Answer(a)
    /\ UNCHANGED <<directories, leases, manifests, contents, locks, claims>>

\* The lease cannot be made, locked or written.
LeaseFails(a) ==
    /\ Errors /\ (At(a, "makeLease") \/ At(a, "lockNew") \/ At(a, "write"))
    /\ LetGo(a) /\ Goto(a, "undo") /\ UNCHANGED <<files, owners>>

UndoLease(a) ==
    /\ At(a, "undo")
    /\ leases' = leases \ {On(a)} /\ Goto(a, "undoDirectory")
    /\ UNCHANGED <<directories, headers, manifests, contents, locks, owners>>

UndoDirectory(a) ==
    /\ At(a, "undoDirectory")
    /\ directories' = directories \ ({On(a)} \ (leases \cup manifests \cup contents))
    /\ call' = [call EXCEPT ![a].tries = @ + 1, ![a].record = None, ![a].at = "again"]
    /\ UNCHANGED <<leases, headers, manifests, contents, locks, owners>>

---------------------------------------------------------------------------
(* A record that is owned                                                  *)

Owns(a, r) == owner[r] = a /\ At(a, "idle")
Live(a, r) == Owns(a, r) /\ r \notin claims

Disowned(r) == owner' = [owner EXCEPT ![r] = None] /\ claims' = claims \ {r}

\* RecoveryRecord::publish copies, then names the copy; clear forgets it.
Copy(a, r) ==
    /\ Live(a, r)
    /\ contents' = contents \cup {r}
    /\ UNCHANGED <<directories, leases, headers, manifests, locks, owners, call>>

Publish(a, r) ==
    /\ Live(a, r) /\ r \in contents
    /\ manifests' = manifests \cup {r}
    /\ UNCHANGED <<directories, leases, headers, contents, locks, owners, call>>

Clear(a, r) ==
    /\ Live(a, r)
    /\ manifests' = manifests \ {r}
    /\ \/ contents' = contents \ {r}
       \/ UNCHANGED contents
    /\ UNCHANGED <<directories, leases, headers, locks, owners, call>>

\* RecoveryClaim::into_record
IntoRecord(a, r) ==
    /\ Owns(a, r) /\ r \in claims
    /\ claims' = claims \ {r}
    /\ UNCHANGED <<files, locks, owner, call>>

\* RecoveryRecord::retire and RecoveryClaim::discard
Retire(a, r) ==
    /\ Owns(a, r)
    /\ Start(a, "retire", r, {}, "manifest")
    /\ Disowned(r) /\ UNCHANGED <<files, locks>>

\* The record or the claim is dropped, and stays for the next start.
Keep(a, r) ==
    /\ Owns(a, r) /\ Disowned(r)
    /\ Unlocked(r) /\ UNCHANGED <<files, readers, call>>

\* The agent's process ends, and the system lets its locks go.
End(a) ==
    /\ holder' = [r \in Records |-> IF holder[r] = a THEN None ELSE holder[r]]
    /\ readers' = [r \in Records |-> readers[r] \ {a}]
    /\ owner' = [r \in Records |-> IF owner[r] = a THEN None ELSE owner[r]]
    /\ claims' = {r \in claims : owner[r] # a}
    /\ Answer(a) /\ UNCHANGED files

---------------------------------------------------------------------------

Init ==
    /\ directories = {} /\ leases = {} /\ headers = {} /\ manifests = {} /\ contents = {}
    /\ holder = [r \in Records |-> None] /\ readers = [r \in Records |-> {}]
    /\ owner = [r \in Records |-> None] /\ claims = {}
    /\ call = [a \in Agents |-> Idle]

\* The steps of a call, which an agent takes by itself.
Step(a) ==
    \/ NextRecord(a) \/ ListEnds(a)
    \/ OpenLease(a) \/ LeaseMissing(a) \/ LeaseUnreadable(a) \/ RemoveEmpty(a)
    \/ LockShared(a) \/ LockExclusive(a) \/ Probe(a) \/ Unprobe(a)
    \/ NotOurs(a) \/ Held(a) \/ ListReads(a) \/ Claim(a) \/ ClaimRefused(a)
    \/ SweepDecides(a) \/ Tally(a)
    \/ RemoveManifest(a) \/ RemoveContents(a) \/ ContentsFail(a)
    \/ UnlinkLease(a) \/ Unlock(a) \/ RemoveDirectory(a)
    \/ AtLimit(a) \/ MakeDirectory(a) \/ CreateFails(a)
    \/ MakeLease(a) \/ LockNew(a) \/ WriteHeader(a) \/ LeaseFails(a)
    \/ UndoLease(a) \/ UndoDirectory(a)

Next ==
    \E a \in Agents :
        \/ StartList(a) \/ StartCreate(a) \/ Step(a)
        \/ CancelClaim(a) \/ End(a)
        \/ \E r \in Records :
              \/ StartClaim(a, r) \/ StartDelete(a, r)
              \/ Copy(a, r) \/ Publish(a, r) \/ Clear(a, r)
              \/ IntoRecord(a, r) \/ Retire(a, r) \/ Keep(a, r)

Spec == Init /\ [][Next]_vars

---------------------------------------------------------------------------
(* Properties                                                              *)

\* The record of a live session, and a claim, is whole and under its owner's
\* lock: no sweep, listing, claim or removal of another takes any of it, from
\* the first moment its owner believes in it.
OwnedIsWhole ==
    \A r \in Records :
        owner[r] # None =>
        /\ holder[r] = owner[r] /\ readers[r] = {}
        /\ r \in directories /\ r \in leases /\ r \in headers
        /\ r \in claims => r \in manifests /\ r \in contents

\* What can be recovered goes only by the decision of a person or by the end
\* of its own session, under its lock; no sweep takes it.
RecoverableStays ==
    [][\A r \in manifests \ manifests' :
          \E a \in Agents : /\ holder[r] = a
                            /\ owner[r] = a \/ (On(a) = r /\ ~In(a, "create"))]_vars

\* A record that is being read, under either lock, is not changed by another.
ReadIsStill ==
    [][\A r \in Records, a \in Agents :
          On(a) = r /\ At(a, "held") /\ r \in manifests /\ call'[a] = call[a] =>
             /\ r \in manifests' /\ r \in leases' /\ (r \in contents <=> r \in contents')]_vars

\* Windows that start together may pass the limit together, each by one.
WithinRoom == Cardinality(directories) <= Limit + Cardinality(Agents) - 1

=============================================================================
