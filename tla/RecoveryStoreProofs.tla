------------------------ MODULE RecoveryStoreProofs ------------------------
(***************************************************************************)
(* Proofs about RecoveryStore: the record of a live session, and a claim,  *)
(* stays whole and under its owner's lock; what can be recovered or is     *)
(* being read stays; and the records that pass the limit are those of      *)
(* creations under way; for any number of agents and records, whatever the *)
(* limit and whichever calls fail.                                         *)
(***************************************************************************)
EXTENDS RecoveryStore, FunctionTheorems, FiniteSetTheorems, TLAPS

USE NoneAssumption

Steps == {"idle", "next", "tally", "again", "open", "removeEmpty", "lock", "probe", "unprobe",
          "header", "held", "manifest", "contents", "unlink", "unlock", "removeDirectory",
          "makeLease", "lockNew", "write", "undo", "undoDirectory"}

Call == [of : {"none", "list", "claim", "delete", "create", "retire"}, at : Steps,
         record : Records \cup {None}, todo : SUBSET Records, kept : Nat, tries : Nat]

\* The steps of a call that has no record before it.
Between == {"idle", "next", "again"}

Typed ==
    /\ directories \subseteq Records
    /\ holder \in [Records -> Agents \cup {None}]
    /\ readers \in [Records -> SUBSET Agents]
    /\ owner \in [Records -> Agents \cup {None}]
    /\ call \in [Agents -> Call]
    /\ \A a \in Agents : call[a].at \notin Between => call[a].record \in Records

\* A manifest is there only with its copy and under a lease with its header.
FilesAreOrdered ==
    /\ leases \subseteq directories
    /\ manifests \subseteq leases /\ manifests \subseteq headers /\ manifests \subseteq contents

ClaimsAreOwned == \A r \in Records : r \in claims => owner[r] # None

LocksExclude == \A r \in Records : holder[r] # None => readers[r] = {}

\* The steps of a removal, from its decision on, under the lease.
Removing == {"manifest", "contents", "unlink", "unlock"}

\* A call holds the lease of the record it works on, which nobody owns.
CallsLock ==
    \A a \in Agents :
        \/ call[a].at \in Removing \cup {"write"}
        \/ call[a].at \in {"header", "held"} /\ call[a].of # "list"
        => holder[call[a].record] = a /\ owner[call[a].record] = None

\* Under the lease the header was read, and the manifest goes first.
HeaderWasRead ==
    \A a \in Agents :
        /\ call[a].at \in Removing \cup {"held"} => call[a].record \in headers
        /\ call[a].at \in {"contents", "unlink", "unlock"} => call[a].record \notin manifests

\* The steps of a creation until its header is written.
Making == {"makeLease", "lockNew", "write", "undo"}

\* A record that is being made is made by one call, and has no header yet.
MadeByOne ==
    \A a \in Agents :
        call[a].at \in Making =>
        /\ call[a].record \notin headers
        /\ call[a].at \in {"lockNew", "write"} => call[a].record \in leases
        /\ \A b \in Agents \ {a} :
              call[b].at \in Making => call[b].record # call[a].record

\* What a sweep takes has no manifest: it looked under the lease.
SweepsLook ==
    \A a \in Agents :
        call[a].at = "manifest" /\ call[a].of = "create" => call[a].record \notin manifests

\* A listing reads under the shared lock.
ListsLock ==
    \A a \in Agents :
        call[a].at \in {"header", "held"} /\ call[a].of = "list" => a \in readers[call[a].record]

IInv == /\ Typed /\ FilesAreOrdered /\ OwnedIsWhole /\ ClaimsAreOwned /\ LocksExclude
        /\ CallsLock /\ HeaderWasRead /\ MadeByOne /\ SweepsLook /\ ListsLock

---------------------------------------------------------------------------
(* The steps of a call                                                     *)

\* The steps in which a call holds nothing and makes nothing.
Quiet == Between \cup {"tally", "open", "removeEmpty", "lock", "probe", "unprobe",
                      "removeDirectory", "undoDirectory"}

\* Only the call of a changes, to one of some steps, on the same record.
Moves(a, steps) ==
    /\ call' \in [Agents -> Call]
    /\ \A b \in Agents \ {a} : call'[b] = call[b]
    /\ call'[a].at \in steps
    /\ call'[a].at \notin Between => /\ call'[a].record = call[a].record
                                    /\ call'[a].of = call[a].of

\* The same, to a quiet step on any record.
Rests(a) ==
    /\ call' \in [Agents -> Call]
    /\ \A b \in Agents \ {a} : call'[b] = call[b]
    /\ call'[a].at \in Quiet
    /\ call'[a].at \notin Between => call'[a].record \in Records

\* Locks are let go, by the call that holds them.
LetsGo(a) ==
    /\ holder' \in [Records -> Agents \cup {None}]
    /\ readers' \in [Records -> SUBSET Agents]
    /\ \A r \in Records :
          /\ readers'[r] \subseteq readers[r] /\ readers[r] \subseteq readers'[r] \cup {a}
          /\ \/ holder'[r] = holder[r]
             \/ holder[r] = a /\ owner[r] = None /\ holder'[r] = None

(* A call goes to another step.                                            *)
LEMMA GotoMoves ==
    ASSUME call \in [Agents -> Call], NEW a \in Agents, NEW step \in Steps, Goto(a, step)
    PROVE  Moves(a, {step})
<1>1. /\ [call[a] EXCEPT !.at = step] \in Call
      /\ [call[a] EXCEPT !.at = step].at = step
      /\ [call[a] EXCEPT !.at = step].record = call[a].record
      /\ [call[a] EXCEPT !.at = step].of = call[a].of
  BY DEF Call
<1>2. call' = [call EXCEPT ![a] = [call[a] EXCEPT !.at = step]]
  BY DEF Goto
<1>3. QED
  BY <1>1, <1>2 DEF Moves

(* A call is done with its record.                                         *)
LEMMA DoneMoves ==
    ASSUME call \in [Agents -> Call], NEW a \in Agents, NEW n \in Nat, Done(a, n)
    PROVE  Moves(a, {"next"})
<1>1. call[a].kept + n \in Nat
  BY DEF Call
<1>2. ASSUME NEW k \in Nat
      PROVE  /\ [call[a] EXCEPT !.at = "next", !.record = None, !.kept = k] \in Call
             /\ [call[a] EXCEPT !.at = "next", !.record = None, !.kept = k].at = "next"
  BY ZenonT(60) DEF Call, Steps
<1>3. call' = [call EXCEPT ![a] = [call[a] EXCEPT !.at = "next", !.record = None,
                                                 !.kept = call[a].kept + n]]
  BY DEF Done
<1>4. QED
  BY <1>1, <1>2, <1>3 DEF Moves, Between

(* A call has its answer.                                                  *)
LEMMA AnswerMoves ==
    ASSUME call \in [Agents -> Call], NEW a \in Agents, Answer(a)
    PROVE  Moves(a, {"idle"})
<1>1. Idle \in Call /\ Idle.at = "idle"
  BY DEF Idle, Call, Steps
<1>2. QED
  BY <1>1 DEF Answer, Moves, Between

(* A call leaves its record, whatever it is.                               *)
LEMMA LeaveMoves ==
    ASSUME call \in [Agents -> Call], NEW a \in Agents, LeaveRecord(a)
    PROVE  Moves(a, {"tally", "next", "idle"})
<1>1. CASE In(a, "create")
  <2>1. Goto(a, "tally") /\ "tally" \in Steps
    BY <1>1 DEF LeaveRecord, Steps, In
  <2>2. Moves(a, {"tally"})
    BY <2>1, GotoMoves
  <2>3. QED
    BY <2>2 DEF Moves
<1>2. CASE In(a, "list")
  <2>1. Done(a, 0)
    BY <1>2 DEF LeaveRecord, In
  <2>2. QED
    BY <2>1, DoneMoves DEF Moves
<1>3. CASE ~In(a, "create") /\ ~In(a, "list")
  BY <1>3, AnswerMoves DEF LeaveRecord, Moves
<1>4. QED
  BY <1>1, <1>2, <1>3

(* An agent starts a call.                                                 *)
LEMMA StartMoves ==
    ASSUME call \in [Agents -> Call], NEW a \in Agents,
           NEW of \in {"list", "claim", "delete", "create", "retire"},
           NEW record \in Records \cup {None}, NEW todo \in SUBSET Records, NEW step \in Steps,
           Start(a, of, record, todo, step)
    PROVE  /\ call' \in [Agents -> Call]
           /\ \A b \in Agents \ {a} : call'[b] = call[b]
           /\ call'[a].at = step /\ call'[a].record = record /\ call'[a].of = of
<1>1. /\ [Idle EXCEPT !.of = of, !.record = record, !.todo = todo, !.at = step] \in Call
      /\ [Idle EXCEPT !.of = of, !.record = record, !.todo = todo, !.at = step].at = step
      /\ [Idle EXCEPT !.of = of, !.record = record, !.todo = todo, !.at = step].record = record
      /\ [Idle EXCEPT !.of = of, !.record = record, !.todo = todo, !.at = step].of = of
  BY DEF Idle, Call
<1>2. QED
  BY <1>1 DEF Start

(* A call lays its record down to try another one.                         *)
LEMMA CallRetries ==
    ASSUME NEW c \in Call, NEW n \in Nat
    PROVE  /\ [c EXCEPT !.tries = n, !.record = None, !.at = "again"] \in Call
           /\ [c EXCEPT !.tries = n, !.record = None, !.at = "again"].at = "again"
BY DEF Call, Steps

(* A call lets its record go.                                              *)
LEMMA LetGoLetsGo ==
    ASSUME Typed, NEW a \in Agents, call[a].record \in Records, LetGo(a)
    PROVE  LetsGo(a)
BY DEF Typed, LetGo, LetsGo, On

(* A step to a quiet step of a call that lets its locks go, and removes    *)
(* no more than an empty directory, keeps the invariant.                   *)
LEMMA QuietStep ==
    ASSUME IInv, NEW a \in Agents, Rests(a), LetsGo(a),
           UNCHANGED <<leases, headers, manifests, contents, owner, claims>>,
           directories' \subseteq directories, leases \subseteq directories'
    PROVE  IInv'
<1> USE DEF IInv
<1>0. ClaimsAreOwned'
  BY DEF ClaimsAreOwned
<1>1. Typed'
  BY DEF Typed, Rests, LetsGo
<1>2. FilesAreOrdered'
  BY DEF FilesAreOrdered
<1>3. OwnedIsWhole'
  BY DEF OwnedIsWhole, LetsGo, Typed, FilesAreOrdered
<1>4. LocksExclude'
  BY DEF LocksExclude, LetsGo, Typed
<1>5. CallsLock'
  <2>1. \A r \in Records : holder[r] # a => holder'[r] = holder[r]
    BY DEF LetsGo
  <2>2. ASSUME NEW b \in Agents \ {a}, call[b].at \notin Between
        PROVE  call[b].record \in Records
    BY <2>2 DEF Typed
  <2>3. QED
    BY <2>1, <2>2 DEF CallsLock, Rests, Quiet, Removing, Between
<1>6. HeaderWasRead'
  BY DEF HeaderWasRead, Rests, Quiet, Removing, Between
<1>7. MadeByOne'
  BY DEF MadeByOne, Rests, Quiet, Making, Between
<1>8. SweepsLook'
  BY DEF SweepsLook, Rests, Quiet, Between
<1>9. ListsLock'
  <2>1. ASSUME NEW b \in Agents \ {a}, call[b].at \in {"header", "held"}
        PROVE  call[b].record \in Records
    BY <2>1 DEF Typed, Between
  <2>2. QED
    BY <2>1 DEF ListsLock, Rests, Quiet, Between, LetsGo
<1>10. QED
  BY <1>0, <1>1, <1>2, <1>3, <1>4, <1>5, <1>6, <1>7, <1>8, <1>9

(* What every call of the folder knows and holds, at each of its steps.    *)
THEOREM StoreIsKept == Spec => []IInv
<1>1. Init => IInv
  BY DEF Init, IInv, Typed, FilesAreOrdered, OwnedIsWhole, ClaimsAreOwned, LocksExclude, CallsLock, HeaderWasRead,
         MadeByOne, SweepsLook, ListsLock, Idle, Call, Steps, Between, Removing, Making
<1>2. IInv /\ [Next]_vars => IInv'
  <2> SUFFICES ASSUME IInv, [Next]_vars PROVE IInv'
    OBVIOUS
  <2>0. /\ Typed /\ directories \subseteq Records
        /\ holder \in [Records -> Agents \cup {None}] /\ readers \in [Records -> SUBSET Agents]
        /\ owner \in [Records -> Agents \cup {None}] /\ call \in [Agents -> Call]
        /\ \A b \in Agents : call[b].at \notin Between => call[b].record \in Records
        /\ FilesAreOrdered
    BY DEF IInv, Typed
  <2>1. ASSUME NEW a \in Agents, StartList(a) PROVE IInv'
    <3>1. Rests(a)
      BY <2>0, <2>1, StartMoves DEF StartList, Typed, Rests, Moves, Quiet, Between, Steps
    <3>2. LetsGo(a)
      BY <2>0, <2>1 DEF StartList, LetsGo, files, locks, owners
    <3>3. UNCHANGED <<leases, headers, manifests, contents, owner, claims>>
      BY <2>1 DEF StartList, files, owners, RemovalFails
    <3>4. directories' \subseteq directories /\ leases \subseteq directories'
      BY <2>1, <2>0 DEF StartList, files, FilesAreOrdered
    <3>5. QED
      BY <3>1, <3>2, <3>3, <3>4, QuietStep
  <2>2. ASSUME NEW a \in Agents, StartCreate(a) PROVE IInv'
    <3>1. Rests(a)
      BY <2>0, <2>2, StartMoves DEF StartCreate, Typed, Rests, Moves, Quiet, Between, Steps
    <3>2. LetsGo(a)
      BY <2>0, <2>2 DEF StartCreate, LetsGo, files, locks, owners
    <3>3. UNCHANGED <<leases, headers, manifests, contents, owner, claims>>
      BY <2>2 DEF StartCreate, files, owners, RemovalFails
    <3>4. directories' \subseteq directories /\ leases \subseteq directories'
      BY <2>2, <2>0 DEF StartCreate, files, FilesAreOrdered
    <3>5. QED
      BY <3>1, <3>2, <3>3, <3>4, QuietStep
  <2>3. ASSUME NEW a \in Agents, NEW r \in Records, StartClaim(a, r) PROVE IInv'
    <3>1. Rests(a)
      BY <2>0, <2>3, StartMoves DEF StartClaim, Typed, Rests, Moves, Quiet, Between, Steps
    <3>2. LetsGo(a)
      BY <2>0, <2>3 DEF StartClaim, LetsGo, files, locks, owners
    <3>3. UNCHANGED <<leases, headers, manifests, contents, owner, claims>>
      BY <2>3 DEF StartClaim, files, owners, RemovalFails
    <3>4. directories' \subseteq directories /\ leases \subseteq directories'
      BY <2>3, <2>0 DEF StartClaim, files, FilesAreOrdered
    <3>5. QED
      BY <3>1, <3>2, <3>3, <3>4, QuietStep
  <2>4. ASSUME NEW a \in Agents, NEW r \in Records, StartDelete(a, r) PROVE IInv'
    <3>1. Rests(a)
      BY <2>0, <2>4, StartMoves DEF StartDelete, Typed, Rests, Moves, Quiet, Between, Steps
    <3>2. LetsGo(a)
      BY <2>0, <2>4 DEF StartDelete, LetsGo, files, locks, owners
    <3>3. UNCHANGED <<leases, headers, manifests, contents, owner, claims>>
      BY <2>4 DEF StartDelete, files, owners, RemovalFails
    <3>4. directories' \subseteq directories /\ leases \subseteq directories'
      BY <2>4, <2>0 DEF StartDelete, files, FilesAreOrdered
    <3>5. QED
      BY <3>1, <3>2, <3>3, <3>4, QuietStep
  <2>5. ASSUME NEW a \in Agents, NextRecord(a) PROVE IInv'
    <3>1. Rests(a)
      <4>1. PICK r \in call[a].todo, step \in {"tally", "open"} :
               call' = [call EXCEPT ![a] = [call[a] EXCEPT !.record = r,
                                               !.todo = call[a].todo \ {r}, !.at = step]]
        BY ZenonT(60), <2>5 DEF NextRecord
      <4>2. r \in Records /\ call[a].todo \ {r} \in SUBSET Records
        BY <2>0 DEF Call
      <4>3. ASSUME NEW todo \in SUBSET Records
            PROVE  /\ [call[a] EXCEPT !.record = r, !.todo = todo, !.at = step] \in Call
                   /\ [call[a] EXCEPT !.record = r, !.todo = todo, !.at = step].at = step
                   /\ [call[a] EXCEPT !.record = r, !.todo = todo, !.at = step].record = r
        <5>1. call[a] \in Call /\ r \in Records /\ step \in Steps
          BY <2>0, <4>1, <4>2 DEF Steps
        <5>2. PICK c \in Call : c = call[a]
          BY <5>1
        <5>3. /\ [c EXCEPT !.record = r, !.todo = todo, !.at = step] \in Call
              /\ [c EXCEPT !.record = r, !.todo = todo, !.at = step].at = step
              /\ [c EXCEPT !.record = r, !.todo = todo, !.at = step].record = r
          BY <5>1 DEF Call
        <5>4. QED
          BY <5>2, <5>3
      <4>4. QED
        BY <2>0, <4>1, <4>2, <4>3 DEF Rests, Quiet
    <3>2. LetsGo(a)
      BY <2>0, <2>5 DEF NextRecord, LetsGo, files, locks, owners
    <3>3. UNCHANGED <<leases, headers, manifests, contents, owner, claims>>
      BY <2>5 DEF NextRecord, files, owners, RemovalFails
    <3>4. directories' \subseteq directories /\ leases \subseteq directories'
      BY <2>5, <2>0 DEF NextRecord, files, FilesAreOrdered
    <3>5. QED
      BY <3>1, <3>2, <3>3, <3>4, QuietStep
  <2>6. ASSUME NEW a \in Agents, ListEnds(a) PROVE IInv'
    <3>1. Rests(a)
      BY <2>0, <2>6, AnswerMoves DEF ListEnds, Rests, Moves, Quiet, Between, Steps
    <3>2. LetsGo(a)
      BY <2>0, <2>6 DEF ListEnds, LetsGo, files, locks, owners
    <3>3. UNCHANGED <<leases, headers, manifests, contents, owner, claims>>
      BY <2>6 DEF ListEnds, files, owners, RemovalFails
    <3>4. directories' \subseteq directories /\ leases \subseteq directories'
      BY <2>6, <2>0 DEF ListEnds, files, FilesAreOrdered
    <3>5. QED
      BY <3>1, <3>2, <3>3, <3>4, QuietStep
  <2>7. ASSUME NEW a \in Agents, OpenLease(a) PROVE IInv'
    <3>1. Rests(a)
      BY <2>0, <2>7, GotoMoves DEF OpenLease, At, On, Rests, Moves, Quiet, Between, Steps
    <3>2. LetsGo(a)
      BY <2>0, <2>7 DEF OpenLease, LetsGo, files, locks, owners
    <3>3. UNCHANGED <<leases, headers, manifests, contents, owner, claims>>
      BY <2>7 DEF OpenLease, files, owners, RemovalFails
    <3>4. directories' \subseteq directories /\ leases \subseteq directories'
      BY <2>7, <2>0 DEF OpenLease, files, FilesAreOrdered
    <3>5. QED
      BY <3>1, <3>2, <3>3, <3>4, QuietStep
  <2>8. ASSUME NEW a \in Agents, LeaseMissing(a) PROVE IInv'
    <3>1. Rests(a)
      BY <2>0, <2>8, GotoMoves, LeaveMoves DEF LeaseMissing, At, On, Rests, Moves, Quiet, Between, Steps
    <3>2. LetsGo(a)
      BY <2>0, <2>8 DEF LeaseMissing, LetsGo, files, locks, owners
    <3>3. UNCHANGED <<leases, headers, manifests, contents, owner, claims>>
      BY <2>8 DEF LeaseMissing, files, owners, RemovalFails
    <3>4. directories' \subseteq directories /\ leases \subseteq directories'
      BY <2>8, <2>0 DEF LeaseMissing, files, FilesAreOrdered
    <3>5. QED
      BY <3>1, <3>2, <3>3, <3>4, QuietStep
  <2>9. ASSUME NEW a \in Agents, LeaseUnreadable(a) PROVE IInv'
    <3>1. Rests(a)
      BY <2>0, <2>9, LeaveMoves DEF LeaseUnreadable, Rests, Moves, Quiet, Between, Steps, At, On
    <3>2. LetsGo(a)
      BY <2>0, <2>9 DEF LeaseUnreadable, LetsGo, files, locks, owners
    <3>3. UNCHANGED <<leases, headers, manifests, contents, owner, claims>>
      BY <2>9 DEF LeaseUnreadable, files, owners, RemovalFails
    <3>4. directories' \subseteq directories /\ leases \subseteq directories'
      BY <2>9, <2>0 DEF LeaseUnreadable, files, FilesAreOrdered
    <3>5. QED
      BY <3>1, <3>2, <3>3, <3>4, QuietStep
  <2>10. ASSUME NEW a \in Agents, RemoveEmpty(a) PROVE IInv'
    <3>1. Rests(a)
      BY <2>0, <2>10, DoneMoves, LeaveMoves DEF RemoveEmpty, At, On, Rests, Moves, Quiet, Between, Steps
    <3>2. LetsGo(a)
      BY <2>0, <2>10 DEF RemoveEmpty, LetsGo, locks
    <3>3. UNCHANGED <<leases, headers, manifests, contents, owner, claims>>
      BY <2>10 DEF RemoveEmpty, files, owners, RemovalFails
    <3>4. directories' \subseteq directories /\ leases \subseteq directories'
      BY <2>10, <2>0 DEF RemoveEmpty, FilesAreOrdered
    <3>5. QED
      BY <3>1, <3>2, <3>3, <3>4, QuietStep
  <2>11. ASSUME NEW a \in Agents, LockShared(a) PROVE IInv'
    <3>1. Moves(a, {"header", "tally", "next", "idle"})
      BY <2>0, <2>11, GotoMoves, LeaveMoves DEF LockShared, Moves, Steps
    <3>2. call[a].at = "lock" /\ call[a].of = "list" /\ call[a].record \in Records
      BY <2>0, <2>11 DEF LockShared, At, In, Between
    <3>3. \A r \in Records : readers'[r] # readers[r] => holder[r] = None
      BY <2>0, <2>11, <3>2 DEF LockShared, On
    <3>4. readers' \in [Records -> SUBSET Agents]
      BY <2>0, <2>11 DEF LockShared
    <3>5. \A r \in Records : readers[r] \subseteq readers'[r]
      BY <2>0, <2>11, <3>2 DEF LockShared, On
    <3>6. call'[a].at = "header" => a \in readers'[call[a].record]
      BY <2>0, <2>11, <3>2, LeaveMoves DEF LockShared, On, Moves
    <3>7. UNCHANGED <<directories, leases, headers, manifests, contents, owner, claims, holder>>
      BY <2>11 DEF LockShared, files, locks, owners
    <3>8. Typed'
      BY <2>0, <3>1, <3>2, <3>3, <3>4, <3>5, <3>6, <3>7
         DEF IInv, Moves, LetsGo, Typed, Between
    <3>9. FilesAreOrdered'
      BY <2>0, <3>1, <3>2, <3>3, <3>4, <3>5, <3>6, <3>7
         DEF IInv, Moves, LetsGo, FilesAreOrdered, HeaderWasRead, MadeByOne, OwnedIsWhole, Making, Removing
    <3>10. OwnedIsWhole'
      BY <2>0, <3>1, <3>2, <3>3, <3>4, <3>5, <3>6, <3>7
         DEF IInv, Moves, LetsGo, OwnedIsWhole, ClaimsAreOwned, LocksExclude, CallsLock, HeaderWasRead, MadeByOne, FilesAreOrdered, Making, Removing
    <3>11. ClaimsAreOwned'
      BY <2>0, <3>1, <3>2, <3>3, <3>4, <3>5, <3>6, <3>7
         DEF IInv, Moves, LetsGo, ClaimsAreOwned
    <3>12. LocksExclude'
      BY <2>0, <3>1, <3>2, <3>3, <3>4, <3>5, <3>6, <3>7
         DEF IInv, Moves, LetsGo, LocksExclude, OwnedIsWhole
    <3>13. CallsLock'
      BY <2>0, <3>1, <3>2, <3>3, <3>4, <3>5, <3>6, <3>7
         DEF IInv, Moves, LetsGo, CallsLock, OwnedIsWhole, Removing, Between
    <3>14. HeaderWasRead'
      BY <2>0, <3>1, <3>2, <3>3, <3>4, <3>5, <3>6, <3>7
         DEF IInv, Moves, LetsGo, HeaderWasRead, CallsLock, OwnedIsWhole, MadeByOne, Removing, Making, Between
    <3>15. MadeByOne'
      BY <2>0, <3>1, <3>2, <3>3, <3>4, <3>5, <3>6, <3>7
         DEF IInv, Moves, LetsGo, MadeByOne, HeaderWasRead, Making, Removing, Between
    <3>16. SweepsLook'
      BY <2>0, <3>1, <3>2, <3>3, <3>4, <3>5, <3>6, <3>7
         DEF IInv, Moves, LetsGo, SweepsLook, CallsLock, OwnedIsWhole, Removing, Between
    <3>17. ListsLock'
      BY <2>0, <3>1, <3>2, <3>3, <3>4, <3>5, <3>6, <3>7
         DEF IInv, Moves, LetsGo, ListsLock, Typed, Between
    <3>18. QED
      BY <3>8, <3>9, <3>10, <3>11, <3>12, <3>13, <3>14, <3>15, <3>16, <3>17 DEF IInv
  <2>12. ASSUME NEW a \in Agents, LockExclusive(a) PROVE IInv'
    <3>1. Moves(a, {"header", "probe"})
      BY <2>0, <2>12, GotoMoves DEF LockExclusive, Moves, Steps
    <3>2. call[a].at = "lock" /\ call[a].of # "list" /\ call[a].record \in Records
      BY <2>0, <2>12 DEF LockExclusive, At, In, Between
    <3>3. holder' \in [Records -> Agents \cup {None}]
      BY <2>0, <2>12 DEF LockExclusive
    <3>4. \A r \in Records : holder'[r] # holder[r] => holder[r] = None /\ readers[r] = {}
      BY <2>0, <2>12, <3>2 DEF LockExclusive, On, Free
    <3>5. call'[a].at = "header" => holder'[call[a].record] = a /\ holder[call[a].record] = None
      BY <2>0, <2>12, <3>2, GotoMoves DEF LockExclusive, On, Free, Moves, Steps
    <3>6. UNCHANGED <<directories, leases, headers, manifests, contents, owner, claims, readers>>
      BY <2>12 DEF LockExclusive, files, locks, owners
    <3>7. Typed'
      BY <2>0, <3>1, <3>2, <3>3, <3>4, <3>5, <3>6
         DEF IInv, Moves, LetsGo, Typed, Between
    <3>8. FilesAreOrdered'
      BY <2>0, <3>1, <3>2, <3>3, <3>4, <3>5, <3>6
         DEF IInv, Moves, LetsGo, FilesAreOrdered, HeaderWasRead, MadeByOne, OwnedIsWhole, Making, Removing
    <3>9. OwnedIsWhole'
      BY <2>0, <3>1, <3>2, <3>3, <3>4, <3>5, <3>6
         DEF IInv, Moves, LetsGo, OwnedIsWhole, ClaimsAreOwned, LocksExclude, CallsLock, HeaderWasRead, MadeByOne, FilesAreOrdered, Making, Removing
    <3>10. ClaimsAreOwned'
      BY <2>0, <3>1, <3>2, <3>3, <3>4, <3>5, <3>6
         DEF IInv, Moves, LetsGo, ClaimsAreOwned
    <3>11. LocksExclude'
      BY <2>0, <3>1, <3>2, <3>3, <3>4, <3>5, <3>6
         DEF IInv, Moves, LetsGo, LocksExclude, OwnedIsWhole
    <3>12. CallsLock'
      BY <2>0, <3>1, <3>2, <3>3, <3>4, <3>5, <3>6
         DEF IInv, Moves, LetsGo, CallsLock, OwnedIsWhole, Removing, Between
    <3>13. HeaderWasRead'
      BY <2>0, <3>1, <3>2, <3>3, <3>4, <3>5, <3>6
         DEF IInv, Moves, LetsGo, HeaderWasRead, CallsLock, OwnedIsWhole, MadeByOne, Removing, Making, Between
    <3>14. MadeByOne'
      BY <2>0, <3>1, <3>2, <3>3, <3>4, <3>5, <3>6
         DEF IInv, Moves, LetsGo, MadeByOne, HeaderWasRead, Making, Removing, Between
    <3>15. SweepsLook'
      BY <2>0, <3>1, <3>2, <3>3, <3>4, <3>5, <3>6
         DEF IInv, Moves, LetsGo, SweepsLook, CallsLock, OwnedIsWhole, Removing, Between
    <3>16. ListsLock'
      BY <2>0, <3>1, <3>2, <3>3, <3>4, <3>5, <3>6
         DEF IInv, Moves, LetsGo, ListsLock, Typed, Between
    <3>17. QED
      BY <3>7, <3>8, <3>9, <3>10, <3>11, <3>12, <3>13, <3>14, <3>15, <3>16 DEF IInv
  <2>13. ASSUME NEW a \in Agents, Probe(a) PROVE IInv'
    <3>1. Moves(a, {"unprobe", "tally", "next", "idle"})
      BY <2>0, <2>13, GotoMoves, LeaveMoves DEF Probe, Moves, Steps
    <3>2. call[a].at = "probe" /\ call[a].record \in Records
      BY <2>0, <2>13 DEF Probe, At, Between
    <3>3. \A r \in Records : readers'[r] # readers[r] => holder[r] = None
      BY <2>0, <2>13, <3>2 DEF Probe, On
    <3>4. readers' \in [Records -> SUBSET Agents]
      BY <2>0, <2>13 DEF Probe
    <3>5. \A r \in Records : readers[r] \subseteq readers'[r]
      BY <2>0, <2>13, <3>2 DEF Probe, On
    <3>6. UNCHANGED <<directories, leases, headers, manifests, contents, owner, claims, holder>>
      BY <2>13 DEF Probe, files, locks, owners
    <3>7. Typed'
      BY <2>0, <3>1, <3>2, <3>3, <3>4, <3>5, <3>6
         DEF IInv, Moves, LetsGo, Typed, Between
    <3>8. FilesAreOrdered'
      BY <2>0, <3>1, <3>2, <3>3, <3>4, <3>5, <3>6
         DEF IInv, Moves, LetsGo, FilesAreOrdered, HeaderWasRead, MadeByOne, OwnedIsWhole, Making, Removing
    <3>9. OwnedIsWhole'
      BY <2>0, <3>1, <3>2, <3>3, <3>4, <3>5, <3>6
         DEF IInv, Moves, LetsGo, OwnedIsWhole, ClaimsAreOwned, LocksExclude, CallsLock, HeaderWasRead, MadeByOne, FilesAreOrdered, Making, Removing
    <3>10. ClaimsAreOwned'
      BY <2>0, <3>1, <3>2, <3>3, <3>4, <3>5, <3>6
         DEF IInv, Moves, LetsGo, ClaimsAreOwned
    <3>11. LocksExclude'
      BY <2>0, <3>1, <3>2, <3>3, <3>4, <3>5, <3>6
         DEF IInv, Moves, LetsGo, LocksExclude, OwnedIsWhole
    <3>12. CallsLock'
      BY <2>0, <3>1, <3>2, <3>3, <3>4, <3>5, <3>6
         DEF IInv, Moves, LetsGo, CallsLock, OwnedIsWhole, Removing, Between
    <3>13. HeaderWasRead'
      BY <2>0, <3>1, <3>2, <3>3, <3>4, <3>5, <3>6
         DEF IInv, Moves, LetsGo, HeaderWasRead, CallsLock, OwnedIsWhole, MadeByOne, Removing, Making, Between
    <3>14. MadeByOne'
      BY <2>0, <3>1, <3>2, <3>3, <3>4, <3>5, <3>6
         DEF IInv, Moves, LetsGo, MadeByOne, HeaderWasRead, Making, Removing, Between
    <3>15. SweepsLook'
      BY <2>0, <3>1, <3>2, <3>3, <3>4, <3>5, <3>6
         DEF IInv, Moves, LetsGo, SweepsLook, CallsLock, OwnedIsWhole, Removing, Between
    <3>16. ListsLock'
      BY <2>0, <3>1, <3>2, <3>3, <3>4, <3>5, <3>6
         DEF IInv, Moves, LetsGo, ListsLock, Typed, Between
    <3>17. QED
      BY <3>7, <3>8, <3>9, <3>10, <3>11, <3>12, <3>13, <3>14, <3>15, <3>16 DEF IInv
  <2>14. ASSUME NEW a \in Agents, Unprobe(a) PROVE IInv'
    <3>1. Rests(a)
      BY <2>0, <2>14, GotoMoves, LeaveMoves DEF Unprobe, Waits, At, On, Rests, Moves, Quiet, Between, Steps
    <3>2. LetsGo(a)
      BY <2>0, <2>14 DEF Unprobe, LetsGo
    <3>3. UNCHANGED <<leases, headers, manifests, contents, owner, claims>>
      BY <2>14 DEF Unprobe, files, owners, RemovalFails
    <3>4. directories' \subseteq directories /\ leases \subseteq directories'
      BY <2>14, <2>0 DEF Unprobe, files, FilesAreOrdered
    <3>5. QED
      BY <3>1, <3>2, <3>3, <3>4, QuietStep
  <2>15. ASSUME NEW a \in Agents, CancelClaim(a) PROVE IInv'
    <3>1. Rests(a)
      BY <2>0, <2>15, AnswerMoves DEF CancelClaim, Rests, Moves, Quiet, Between, Steps
    <3>2. LetsGo(a)
      BY <2>0, <2>15 DEF CancelClaim, LetsGo, files, locks, owners
    <3>3. UNCHANGED <<leases, headers, manifests, contents, owner, claims>>
      BY <2>15 DEF CancelClaim, files, owners, RemovalFails
    <3>4. directories' \subseteq directories /\ leases \subseteq directories'
      BY <2>15, <2>0 DEF CancelClaim, files, FilesAreOrdered
    <3>5. QED
      BY <3>1, <3>2, <3>3, <3>4, QuietStep
  <2>16. ASSUME NEW a \in Agents, NotOurs(a) PROVE IInv'
    <3>1. Rests(a)
      BY <2>0, <2>16, LeaveMoves DEF NotOurs, Rests, Moves, Quiet, Between, Steps, At, On
    <3>2. LetsGo(a)
      BY <2>0, <2>16, LetGoLetsGo DEF NotOurs, At, On, Between, RemovalFails
    <3>3. UNCHANGED <<leases, headers, manifests, contents, owner, claims>>
      BY <2>16 DEF NotOurs, files, owners, RemovalFails
    <3>4. directories' \subseteq directories /\ leases \subseteq directories'
      BY <2>16, <2>0 DEF NotOurs, files, FilesAreOrdered
    <3>5. QED
      BY <3>1, <3>2, <3>3, <3>4, QuietStep
  <2>17. ASSUME NEW a \in Agents, Held(a) PROVE IInv'
    <3>1. Moves(a, {"manifest", "held"})
      BY <2>0, <2>17, GotoMoves DEF Held, Moves, Steps
    <3>2. call[a].at = "header" /\ call[a].record \in Records /\ call[a].record \in headers
      BY <2>0, <2>17 DEF Held, At, On, Between
    <3>3. call'[a].at = "manifest" => call[a].of = "delete"
      BY <2>0, <2>17, GotoMoves DEF Held, In, Moves, Steps
    <3>4. UNCHANGED <<directories, leases, headers, manifests, contents, owner, claims, holder, readers>>
      BY <2>17 DEF Held, files, locks, owners
    <3>5. Typed'
      BY <2>0, <3>1, <3>2, <3>3, <3>4
         DEF IInv, Moves, LetsGo, Typed, Between
    <3>6. FilesAreOrdered'
      BY <2>0, <3>1, <3>2, <3>3, <3>4
         DEF IInv, Moves, LetsGo, FilesAreOrdered, HeaderWasRead, MadeByOne, OwnedIsWhole, Making, Removing
    <3>7. OwnedIsWhole'
      BY <2>0, <3>1, <3>2, <3>3, <3>4
         DEF IInv, Moves, LetsGo, OwnedIsWhole, ClaimsAreOwned, LocksExclude, CallsLock, HeaderWasRead, MadeByOne, FilesAreOrdered, Making, Removing
    <3>8. ClaimsAreOwned'
      BY <2>0, <3>1, <3>2, <3>3, <3>4
         DEF IInv, Moves, LetsGo, ClaimsAreOwned
    <3>9. LocksExclude'
      BY <2>0, <3>1, <3>2, <3>3, <3>4
         DEF IInv, Moves, LetsGo, LocksExclude, OwnedIsWhole
    <3>10. CallsLock'
      BY <2>0, <3>1, <3>2, <3>3, <3>4
         DEF IInv, Moves, LetsGo, CallsLock, OwnedIsWhole, Removing, Between
    <3>11. HeaderWasRead'
      BY <2>0, <3>1, <3>2, <3>3, <3>4
         DEF IInv, Moves, LetsGo, HeaderWasRead, CallsLock, OwnedIsWhole, MadeByOne, Removing, Making, Between
    <3>12. MadeByOne'
      BY <2>0, <3>1, <3>2, <3>3, <3>4
         DEF IInv, Moves, LetsGo, MadeByOne, HeaderWasRead, Making, Removing, Between
    <3>13. SweepsLook'
      BY <2>0, <3>1, <3>2, <3>3, <3>4
         DEF IInv, Moves, LetsGo, SweepsLook, CallsLock, OwnedIsWhole, Removing, Between
    <3>14. ListsLock'
      BY <2>0, <3>1, <3>2, <3>3, <3>4
         DEF IInv, Moves, LetsGo, ListsLock, Typed, Between
    <3>15. QED
      BY <3>5, <3>6, <3>7, <3>8, <3>9, <3>10, <3>11, <3>12, <3>13, <3>14 DEF IInv
  <2>18. ASSUME NEW a \in Agents, ListReads(a) PROVE IInv'
    <3>1. Rests(a)
      BY <2>0, <2>18, LeaveMoves DEF ListReads, Rests, Moves, Quiet, Between, Steps, At, On
    <3>2. LetsGo(a)
      BY <2>0, <2>18, LetGoLetsGo DEF ListReads, At, On, Between, RemovalFails
    <3>3. UNCHANGED <<leases, headers, manifests, contents, owner, claims>>
      BY <2>18 DEF ListReads, files, owners, RemovalFails
    <3>4. directories' \subseteq directories /\ leases \subseteq directories'
      BY <2>18, <2>0 DEF ListReads, files, FilesAreOrdered
    <3>5. QED
      BY <3>1, <3>2, <3>3, <3>4, QuietStep
  <2>19. ASSUME NEW a \in Agents, Claim(a) PROVE IInv'
    <3>1. Moves(a, {"idle"})
      BY <2>0, <2>19, AnswerMoves DEF Claim, Moves, Steps
    <3>2. /\ call[a].at = "held" /\ call[a].of = "claim" /\ call[a].record \in Records
          /\ call[a].record \in manifests
      BY <2>0, <2>19 DEF Claim, At, In, On, Between
    <3>3. /\ owner' = [owner EXCEPT ![call[a].record] = a] /\ claims' = claims \cup {call[a].record}
      BY <2>19 DEF Claim, On
    <3>4. UNCHANGED <<directories, leases, headers, manifests, contents, holder, readers>>
      BY <2>19 DEF Claim, files, locks, owners
    <3>5. Typed'
      BY <2>0, <3>1, <3>2, <3>3, <3>4
         DEF IInv, Moves, LetsGo, Typed, Between
    <3>6. FilesAreOrdered'
      BY <2>0, <3>1, <3>2, <3>3, <3>4
         DEF IInv, Moves, LetsGo, FilesAreOrdered, HeaderWasRead, MadeByOne, OwnedIsWhole, Making, Removing
    <3>7. OwnedIsWhole'
      BY <2>0, <3>1, <3>2, <3>3, <3>4
         DEF IInv, Moves, LetsGo, OwnedIsWhole, ClaimsAreOwned, LocksExclude, CallsLock, HeaderWasRead, MadeByOne, FilesAreOrdered, Making, Removing
    <3>8. ClaimsAreOwned'
      BY <2>0, <3>1, <3>2, <3>3, <3>4
         DEF IInv, Moves, LetsGo, ClaimsAreOwned
    <3>9. LocksExclude'
      BY <2>0, <3>1, <3>2, <3>3, <3>4
         DEF IInv, Moves, LetsGo, LocksExclude, OwnedIsWhole
    <3>10. CallsLock'
      BY <2>0, <3>1, <3>2, <3>3, <3>4
         DEF IInv, Moves, LetsGo, CallsLock, OwnedIsWhole, Removing, Between
    <3>11. HeaderWasRead'
      BY <2>0, <3>1, <3>2, <3>3, <3>4
         DEF IInv, Moves, LetsGo, HeaderWasRead, CallsLock, OwnedIsWhole, MadeByOne, Removing, Making, Between
    <3>12. MadeByOne'
      BY <2>0, <3>1, <3>2, <3>3, <3>4
         DEF IInv, Moves, LetsGo, MadeByOne, HeaderWasRead, Making, Removing, Between
    <3>13. SweepsLook'
      BY <2>0, <3>1, <3>2, <3>3, <3>4
         DEF IInv, Moves, LetsGo, SweepsLook, CallsLock, OwnedIsWhole, Removing, Between
    <3>14. ListsLock'
      BY <2>0, <3>1, <3>2, <3>3, <3>4
         DEF IInv, Moves, LetsGo, ListsLock, Typed, Between
    <3>15. QED
      BY <3>5, <3>6, <3>7, <3>8, <3>9, <3>10, <3>11, <3>12, <3>13, <3>14 DEF IInv
  <2>20. ASSUME NEW a \in Agents, ClaimRefused(a) PROVE IInv'
    <3>1. Rests(a)
      BY <2>0, <2>20, AnswerMoves DEF ClaimRefused, Rests, Moves, Quiet, Between, Steps
    <3>2. LetsGo(a)
      BY <2>0, <2>20, LetGoLetsGo DEF ClaimRefused, At, On, Between, RemovalFails
    <3>3. UNCHANGED <<leases, headers, manifests, contents, owner, claims>>
      BY <2>20 DEF ClaimRefused, files, owners, RemovalFails
    <3>4. directories' \subseteq directories /\ leases \subseteq directories'
      BY <2>20, <2>0 DEF ClaimRefused, files, FilesAreOrdered
    <3>5. QED
      BY <3>1, <3>2, <3>3, <3>4, QuietStep
  <2>21. ASSUME NEW a \in Agents, SweepDecides(a) PROVE IInv'
    <3>1. Moves(a, {"tally", "manifest"})
      BY <2>0, <2>21, GotoMoves DEF SweepDecides, Moves, Steps
    <3>2. call[a].at = "held" /\ call[a].of = "create" /\ call[a].record \in Records
      BY <2>0, <2>21 DEF SweepDecides, At, In, Between
    <3>3. call'[a].at = "manifest" => call[a].record \notin manifests
      BY <2>0, <2>21, GotoMoves DEF SweepDecides, On, Moves, Steps
    <3>4. UNCHANGED <<directories, leases, headers, manifests, contents, owner, claims, holder, readers>>
      BY <2>21 DEF SweepDecides, files, locks, owners
    <3>5. Typed'
      BY <2>0, <3>1, <3>2, <3>3, <3>4
         DEF IInv, Moves, LetsGo, Typed, Between
    <3>6. FilesAreOrdered'
      BY <2>0, <3>1, <3>2, <3>3, <3>4
         DEF IInv, Moves, LetsGo, FilesAreOrdered, HeaderWasRead, MadeByOne, OwnedIsWhole, Making, Removing
    <3>7. OwnedIsWhole'
      BY <2>0, <3>1, <3>2, <3>3, <3>4
         DEF IInv, Moves, LetsGo, OwnedIsWhole, ClaimsAreOwned, LocksExclude, CallsLock, HeaderWasRead, MadeByOne, FilesAreOrdered, Making, Removing
    <3>8. ClaimsAreOwned'
      BY <2>0, <3>1, <3>2, <3>3, <3>4
         DEF IInv, Moves, LetsGo, ClaimsAreOwned
    <3>9. LocksExclude'
      BY <2>0, <3>1, <3>2, <3>3, <3>4
         DEF IInv, Moves, LetsGo, LocksExclude, OwnedIsWhole
    <3>10. CallsLock'
      BY <2>0, <3>1, <3>2, <3>3, <3>4
         DEF IInv, Moves, LetsGo, CallsLock, OwnedIsWhole, Removing, Between
    <3>11. HeaderWasRead'
      BY <2>0, <3>1, <3>2, <3>3, <3>4
         DEF IInv, Moves, LetsGo, HeaderWasRead, CallsLock, OwnedIsWhole, MadeByOne, Removing, Making, Between
    <3>12. MadeByOne'
      BY <2>0, <3>1, <3>2, <3>3, <3>4
         DEF IInv, Moves, LetsGo, MadeByOne, HeaderWasRead, Making, Removing, Between
    <3>13. SweepsLook'
      BY <2>0, <3>1, <3>2, <3>3, <3>4
         DEF IInv, Moves, LetsGo, SweepsLook, CallsLock, OwnedIsWhole, Removing, Between
    <3>14. ListsLock'
      BY <2>0, <3>1, <3>2, <3>3, <3>4
         DEF IInv, Moves, LetsGo, ListsLock, Typed, Between
    <3>15. QED
      BY <3>5, <3>6, <3>7, <3>8, <3>9, <3>10, <3>11, <3>12, <3>13, <3>14 DEF IInv
  <2>22. ASSUME NEW a \in Agents, Tally(a) PROVE IInv'
    <3>1. Rests(a)
      BY <2>0, <2>22, DoneMoves DEF Tally, Rests, Moves, Quiet, Between, Steps
    <3>2. LetsGo(a)
      BY <2>0, <2>22, LetGoLetsGo DEF Tally, At, On, Between, RemovalFails
    <3>3. UNCHANGED <<leases, headers, manifests, contents, owner, claims>>
      BY <2>22 DEF Tally, files, owners, RemovalFails
    <3>4. directories' \subseteq directories /\ leases \subseteq directories'
      BY <2>22, <2>0 DEF Tally, files, FilesAreOrdered
    <3>5. QED
      BY <3>1, <3>2, <3>3, <3>4, QuietStep
  <2>23. ASSUME NEW a \in Agents, RemoveManifest(a) PROVE IInv'
    <3>1. call[a].at = "manifest" /\ call[a].record \in Records
      BY <2>0, <2>23 DEF RemoveManifest, At, Between
    <3>2. manifests' = manifests \ {call[a].record}
      BY <2>23 DEF RemoveManifest, On
    <3>3. Moves(a, {"contents", "next", "idle"})
      BY <2>0, <2>23, GotoMoves, DoneMoves, AnswerMoves DEF RemoveManifest, RemovalFails, Moves, Steps
    <3>4. LetsGo(a)
      <4>1. CASE LetGo(a)
        BY <2>0, <3>1, <4>1, LetGoLetsGo
      <4>2. CASE UNCHANGED locks
        BY <2>0, <4>2 DEF locks, LetsGo
      <4>3. QED
        BY <2>23, <4>1, <4>2 DEF RemoveManifest, RemovalFails
    <3>5. call'[a].at = "contents" => holder' = holder
      BY <2>0, <2>23, DoneMoves, AnswerMoves DEF RemoveManifest, RemovalFails, locks, Moves
    <3>6. UNCHANGED <<directories, leases, headers, contents, owner, claims>>
      BY <2>23 DEF RemoveManifest, files, locks, owners, RemovalFails
    <3>7. Typed'
      BY <2>0, <3>1, <3>2, <3>3, <3>4, <3>5, <3>6
         DEF IInv, Moves, LetsGo, Typed, Between
    <3>8. FilesAreOrdered'
      BY <2>0, <3>1, <3>2, <3>3, <3>4, <3>5, <3>6
         DEF IInv, Moves, LetsGo, FilesAreOrdered, HeaderWasRead, MadeByOne, OwnedIsWhole, Making, Removing
    <3>9. OwnedIsWhole'
      BY <2>0, <3>1, <3>2, <3>3, <3>4, <3>5, <3>6
         DEF IInv, Moves, LetsGo, OwnedIsWhole, ClaimsAreOwned, LocksExclude, CallsLock, HeaderWasRead, MadeByOne, FilesAreOrdered, Making, Removing
    <3>10. ClaimsAreOwned'
      BY <2>0, <3>1, <3>2, <3>3, <3>4, <3>5, <3>6
         DEF IInv, Moves, LetsGo, ClaimsAreOwned
    <3>11. LocksExclude'
      BY <2>0, <3>1, <3>2, <3>3, <3>4, <3>5, <3>6
         DEF IInv, Moves, LetsGo, LocksExclude, OwnedIsWhole
    <3>12. CallsLock'
      BY <2>0, <3>1, <3>2, <3>3, <3>4, <3>5, <3>6
         DEF IInv, Moves, LetsGo, CallsLock, OwnedIsWhole, Removing, Between
    <3>13. HeaderWasRead'
      BY <2>0, <3>1, <3>2, <3>3, <3>4, <3>5, <3>6
         DEF IInv, Moves, LetsGo, HeaderWasRead, CallsLock, OwnedIsWhole, MadeByOne, Removing, Making, Between
    <3>14. MadeByOne'
      BY <2>0, <3>1, <3>2, <3>3, <3>4, <3>5, <3>6
         DEF IInv, Moves, LetsGo, MadeByOne, HeaderWasRead, Making, Removing, Between
    <3>15. SweepsLook'
      BY <2>0, <3>1, <3>2, <3>3, <3>4, <3>5, <3>6
         DEF IInv, Moves, LetsGo, SweepsLook, CallsLock, OwnedIsWhole, Removing, Between
    <3>16. ListsLock'
      BY <2>0, <3>1, <3>2, <3>3, <3>4, <3>5, <3>6
         DEF IInv, Moves, LetsGo, ListsLock, Typed, Between
    <3>17. QED
      BY <3>7, <3>8, <3>9, <3>10, <3>11, <3>12, <3>13, <3>14, <3>15, <3>16 DEF IInv
  <2>24. ASSUME NEW a \in Agents, RemoveContents(a) PROVE IInv'
    <3>1. Moves(a, {"unlink"})
      BY <2>0, <2>24, GotoMoves DEF RemoveContents, Moves, Steps
    <3>2. call[a].at = "contents" /\ call[a].record \in Records
      BY <2>0, <2>24 DEF RemoveContents, At, Between
    <3>3. contents \ {call[a].record} \subseteq contents'
      BY <2>24 DEF RemoveContents, On
    <3>4. UNCHANGED <<directories, leases, headers, manifests, owner, claims, holder, readers>>
      BY <2>24 DEF RemoveContents, files, locks, owners
    <3>5. Typed'
      BY <2>0, <3>1, <3>2, <3>3, <3>4
         DEF IInv, Moves, LetsGo, Typed, Between
    <3>6. FilesAreOrdered'
      BY <2>0, <3>1, <3>2, <3>3, <3>4
         DEF IInv, Moves, LetsGo, FilesAreOrdered, HeaderWasRead, MadeByOne, OwnedIsWhole, Making, Removing
    <3>7. OwnedIsWhole'
      BY <2>0, <3>1, <3>2, <3>3, <3>4
         DEF IInv, Moves, LetsGo, OwnedIsWhole, ClaimsAreOwned, LocksExclude, CallsLock, HeaderWasRead, MadeByOne, FilesAreOrdered, Making, Removing
    <3>8. ClaimsAreOwned'
      BY <2>0, <3>1, <3>2, <3>3, <3>4
         DEF IInv, Moves, LetsGo, ClaimsAreOwned
    <3>9. LocksExclude'
      BY <2>0, <3>1, <3>2, <3>3, <3>4
         DEF IInv, Moves, LetsGo, LocksExclude, OwnedIsWhole
    <3>10. CallsLock'
      BY <2>0, <3>1, <3>2, <3>3, <3>4
         DEF IInv, Moves, LetsGo, CallsLock, OwnedIsWhole, Removing, Between
    <3>11. HeaderWasRead'
      BY <2>0, <3>1, <3>2, <3>3, <3>4
         DEF IInv, Moves, LetsGo, HeaderWasRead, CallsLock, OwnedIsWhole, MadeByOne, Removing, Making, Between
    <3>12. MadeByOne'
      BY <2>0, <3>1, <3>2, <3>3, <3>4
         DEF IInv, Moves, LetsGo, MadeByOne, HeaderWasRead, Making, Removing, Between
    <3>13. SweepsLook'
      BY <2>0, <3>1, <3>2, <3>3, <3>4
         DEF IInv, Moves, LetsGo, SweepsLook, CallsLock, OwnedIsWhole, Removing, Between
    <3>14. ListsLock'
      BY <2>0, <3>1, <3>2, <3>3, <3>4
         DEF IInv, Moves, LetsGo, ListsLock, Typed, Between
    <3>15. QED
      BY <3>5, <3>6, <3>7, <3>8, <3>9, <3>10, <3>11, <3>12, <3>13, <3>14 DEF IInv
  <2>25. ASSUME NEW a \in Agents, ContentsFail(a) PROVE IInv'
    <3>1. Rests(a)
      BY <2>0, <2>25, DoneMoves, AnswerMoves DEF ContentsFail, RemovalFails, Rests, Moves, Quiet, Between, Steps
    <3>2. LetsGo(a)
      BY <2>0, <2>25, LetGoLetsGo DEF ContentsFail, At, On, Between, RemovalFails
    <3>3. UNCHANGED <<leases, headers, manifests, contents, owner, claims>>
      BY <2>25 DEF ContentsFail, files, owners, RemovalFails
    <3>4. directories' \subseteq directories /\ leases \subseteq directories'
      BY <2>25, <2>0 DEF ContentsFail, files, FilesAreOrdered
    <3>5. QED
      BY <3>1, <3>2, <3>3, <3>4, QuietStep
  <2>26. ASSUME NEW a \in Agents, UnlinkLease(a) PROVE IInv'
    <3>1. Moves(a, {"unlock"})
      BY <2>0, <2>26, GotoMoves DEF UnlinkLease, Moves, Steps
    <3>2. call[a].at = "unlink" /\ call[a].record \in Records
      BY <2>0, <2>26 DEF UnlinkLease, At, Between
    <3>3. leases' = leases \ {call[a].record}
      BY <2>26 DEF UnlinkLease, On
    <3>4. UNCHANGED <<directories, headers, manifests, contents, owner, claims, holder, readers>>
      BY <2>26 DEF UnlinkLease, files, locks, owners
    <3>5. Typed'
      BY <2>0, <3>1, <3>2, <3>3, <3>4
         DEF IInv, Moves, LetsGo, Typed, Between
    <3>6. FilesAreOrdered'
      BY <2>0, <3>1, <3>2, <3>3, <3>4
         DEF IInv, Moves, LetsGo, FilesAreOrdered, HeaderWasRead, MadeByOne, OwnedIsWhole, Making, Removing
    <3>7. OwnedIsWhole'
      BY <2>0, <3>1, <3>2, <3>3, <3>4
         DEF IInv, Moves, LetsGo, OwnedIsWhole, ClaimsAreOwned, LocksExclude, CallsLock, HeaderWasRead, MadeByOne, FilesAreOrdered, Making, Removing
    <3>8. ClaimsAreOwned'
      BY <2>0, <3>1, <3>2, <3>3, <3>4
         DEF IInv, Moves, LetsGo, ClaimsAreOwned
    <3>9. LocksExclude'
      BY <2>0, <3>1, <3>2, <3>3, <3>4
         DEF IInv, Moves, LetsGo, LocksExclude, OwnedIsWhole
    <3>10. CallsLock'
      BY <2>0, <3>1, <3>2, <3>3, <3>4
         DEF IInv, Moves, LetsGo, CallsLock, OwnedIsWhole, Removing, Between
    <3>11. HeaderWasRead'
      BY <2>0, <3>1, <3>2, <3>3, <3>4
         DEF IInv, Moves, LetsGo, HeaderWasRead, CallsLock, OwnedIsWhole, MadeByOne, Removing, Making, Between
    <3>12. MadeByOne'
      BY <2>0, <3>1, <3>2, <3>3, <3>4
         DEF IInv, Moves, LetsGo, MadeByOne, HeaderWasRead, Making, Removing, Between
    <3>13. SweepsLook'
      BY <2>0, <3>1, <3>2, <3>3, <3>4
         DEF IInv, Moves, LetsGo, SweepsLook, CallsLock, OwnedIsWhole, Removing, Between
    <3>14. ListsLock'
      BY <2>0, <3>1, <3>2, <3>3, <3>4
         DEF IInv, Moves, LetsGo, ListsLock, Typed, Between
    <3>15. QED
      BY <3>5, <3>6, <3>7, <3>8, <3>9, <3>10, <3>11, <3>12, <3>13, <3>14 DEF IInv
  <2>27. ASSUME NEW a \in Agents, Unlock(a) PROVE IInv'
    <3>1. Rests(a)
      BY <2>0, <2>27, GotoMoves DEF Unlock, At, On, Rests, Moves, Quiet, Between, Steps
    <3>2. LetsGo(a)
      BY <2>0, <2>27, LetGoLetsGo DEF Unlock, At, On, Between, RemovalFails
    <3>3. UNCHANGED <<leases, headers, manifests, contents, owner, claims>>
      BY <2>27 DEF Unlock, files, owners, RemovalFails
    <3>4. directories' \subseteq directories /\ leases \subseteq directories'
      BY <2>27, <2>0 DEF Unlock, files, FilesAreOrdered
    <3>5. QED
      BY <3>1, <3>2, <3>3, <3>4, QuietStep
  <2>28. ASSUME NEW a \in Agents, RemoveDirectory(a) PROVE IInv'
    <3>1. Rests(a)
      BY <2>0, <2>28, DoneMoves, AnswerMoves DEF RemoveDirectory, RemovalFails, Rests, Moves, Quiet, Between, Steps
    <3>2. LetsGo(a)
      <4>1. CASE LetGo(a)
        <5>1. call[a].record \in Records
          BY <2>0, <2>28 DEF RemoveDirectory, At, Between
        <5>2. QED
          BY <2>0, <4>1, <5>1, LetGoLetsGo
      <4>2. CASE UNCHANGED locks
        BY <2>0, <4>2 DEF locks, LetsGo
      <4>3. QED
        BY <2>28, <4>1, <4>2 DEF RemoveDirectory, RemovalFails
    <3>3. UNCHANGED <<leases, headers, manifests, contents, owner, claims>>
      BY <2>28 DEF RemoveDirectory, files, owners, RemovalFails
    <3>4. directories' \subseteq directories /\ leases \subseteq directories'
      BY <2>28, <2>0 DEF RemoveDirectory, FilesAreOrdered
    <3>5. QED
      BY <3>1, <3>2, <3>3, <3>4, QuietStep
  <2>29. ASSUME NEW a \in Agents, AtLimit(a) PROVE IInv'
    <3>1. Rests(a)
      BY <2>0, <2>29, AnswerMoves DEF AtLimit, Rests, Moves, Quiet, Between, Steps
    <3>2. LetsGo(a)
      BY <2>0, <2>29 DEF AtLimit, LetsGo, files, locks, owners
    <3>3. UNCHANGED <<leases, headers, manifests, contents, owner, claims>>
      BY <2>29 DEF AtLimit, files, owners, RemovalFails
    <3>4. directories' \subseteq directories /\ leases \subseteq directories'
      BY <2>29, <2>0 DEF AtLimit, files, FilesAreOrdered
    <3>5. QED
      BY <3>1, <3>2, <3>3, <3>4, QuietStep
  <2>30. ASSUME NEW a \in Agents, MakeDirectory(a) PROVE IInv'
    <3>1. call[a].at \in {"next", "again"}
      BY <2>30 DEF MakeDirectory, SweepEnds, At
    <3>2. PICK r \in Records :
             /\ New(r) /\ directories' = directories \cup {r} /\ headers' = headers \ {r}
             /\ call' = [call EXCEPT ![a] = [call[a] EXCEPT !.record = r, !.at = "makeLease"]]
      BY ZenonT(60), <2>30 DEF MakeDirectory
    <3>3. /\ [call[a] EXCEPT !.record = r, !.at = "makeLease"] \in Call
          /\ [call[a] EXCEPT !.record = r, !.at = "makeLease"].record = r
          /\ [call[a] EXCEPT !.record = r, !.at = "makeLease"].at = "makeLease"
      <4>1. call[a] \in Call /\ r \in Records /\ "makeLease" \in Steps
        BY <2>0, <3>2 DEF Steps
      <4>2. PICK c \in Call : c = call[a]
        BY <4>1
      <4>3. /\ [c EXCEPT !.record = r, !.at = "makeLease"] \in Call
            /\ [c EXCEPT !.record = r, !.at = "makeLease"].record = r
            /\ [c EXCEPT !.record = r, !.at = "makeLease"].at = "makeLease"
        BY <4>1 DEF Call
      <4>4. QED
        BY <4>2, <4>3
    <3>4. /\ call' \in [Agents -> Call] /\ call'[a].at = "makeLease" /\ call'[a].record = r
          /\ \A b \in Agents \ {a} : call'[b] = call[b]
      BY <2>0, <3>2, <3>3
    <3>5. /\ r \notin directories /\ owner[r] = None
          /\ \A b \in Agents : call[b].record # r
      BY <3>2 DEF New, On
    <3>6. UNCHANGED <<leases, manifests, contents, owner, claims, holder, readers>>
      BY <2>30 DEF MakeDirectory, files, locks, owners
    <3>7. Typed'
      BY <2>0, <3>1, <3>2, <3>3, <3>4, <3>5, <3>6
         DEF IInv, Moves, LetsGo, Typed, Between
    <3>8. FilesAreOrdered'
      BY <2>0, <3>1, <3>2, <3>3, <3>4, <3>5, <3>6
         DEF IInv, Moves, LetsGo, FilesAreOrdered, HeaderWasRead, MadeByOne, OwnedIsWhole, Making, Removing
    <3>9. OwnedIsWhole'
      BY <2>0, <3>1, <3>2, <3>3, <3>4, <3>5, <3>6
         DEF IInv, Moves, LetsGo, OwnedIsWhole, ClaimsAreOwned, LocksExclude, CallsLock, HeaderWasRead, MadeByOne, FilesAreOrdered, Making, Removing
    <3>10. ClaimsAreOwned'
      BY <2>0, <3>1, <3>2, <3>3, <3>4, <3>5, <3>6
         DEF IInv, Moves, LetsGo, ClaimsAreOwned
    <3>11. LocksExclude'
      BY <2>0, <3>1, <3>2, <3>3, <3>4, <3>5, <3>6
         DEF IInv, Moves, LetsGo, LocksExclude, OwnedIsWhole
    <3>12. CallsLock'
      BY <2>0, <3>1, <3>2, <3>3, <3>4, <3>5, <3>6
         DEF IInv, Moves, LetsGo, CallsLock, OwnedIsWhole, Removing, Between
    <3>13. HeaderWasRead'
      BY <2>0, <3>1, <3>2, <3>3, <3>4, <3>5, <3>6
         DEF IInv, Moves, LetsGo, HeaderWasRead, CallsLock, OwnedIsWhole, MadeByOne, Removing, Making, Between
    <3>14. MadeByOne'
      BY <2>0, <3>1, <3>2, <3>3, <3>4, <3>5, <3>6
         DEF IInv, Moves, LetsGo, MadeByOne, HeaderWasRead, Making, Removing, Between
    <3>15. SweepsLook'
      BY <2>0, <3>1, <3>2, <3>3, <3>4, <3>5, <3>6
         DEF IInv, Moves, LetsGo, SweepsLook, CallsLock, OwnedIsWhole, Removing, Between
    <3>16. ListsLock'
      BY <2>0, <3>1, <3>2, <3>3, <3>4, <3>5, <3>6
         DEF IInv, Moves, LetsGo, ListsLock, Typed, Between
    <3>17. QED
      BY <3>7, <3>8, <3>9, <3>10, <3>11, <3>12, <3>13, <3>14, <3>15, <3>16 DEF IInv
  <2>31. ASSUME NEW a \in Agents, CreateFails(a) PROVE IInv'
    <3>1. Rests(a)
      BY <2>0, <2>31, AnswerMoves DEF CreateFails, Rests, Moves, Quiet, Between, Steps
    <3>2. LetsGo(a)
      BY <2>0, <2>31 DEF CreateFails, LetsGo, files, locks, owners
    <3>3. UNCHANGED <<leases, headers, manifests, contents, owner, claims>>
      BY <2>31 DEF CreateFails, files, owners, RemovalFails
    <3>4. directories' \subseteq directories /\ leases \subseteq directories'
      BY <2>31, <2>0 DEF CreateFails, files, FilesAreOrdered
    <3>5. QED
      BY <3>1, <3>2, <3>3, <3>4, QuietStep
  <2>32. ASSUME NEW a \in Agents, MakeLease(a) PROVE IInv'
    <3>1. Moves(a, {"lockNew", "undo"})
      BY <2>0, <2>32, GotoMoves DEF MakeLease, Moves, Steps
    <3>2. call[a].at = "makeLease" /\ call[a].record \in Records
      BY <2>0, <2>32 DEF MakeLease, At, Between
    <3>3. leases \subseteq leases' /\ leases' \subseteq directories
      BY <2>0, <2>32 DEF MakeLease, On, FilesAreOrdered
    <3>4. call'[a].at = "lockNew" => call[a].record \in leases'
      BY <2>0, <2>32, GotoMoves DEF MakeLease, On, Moves, Steps
    <3>5. UNCHANGED <<directories, headers, manifests, contents, owner, claims, holder, readers>>
      BY <2>32 DEF MakeLease, files, locks, owners
    <3>6. Typed'
      BY <2>0, <3>1, <3>2, <3>3, <3>4, <3>5
         DEF IInv, Moves, LetsGo, Typed, Between
    <3>7. FilesAreOrdered'
      BY <2>0, <3>1, <3>2, <3>3, <3>4, <3>5
         DEF IInv, Moves, LetsGo, FilesAreOrdered, HeaderWasRead, MadeByOne, OwnedIsWhole, Making, Removing
    <3>8. OwnedIsWhole'
      BY <2>0, <3>1, <3>2, <3>3, <3>4, <3>5
         DEF IInv, Moves, LetsGo, OwnedIsWhole, ClaimsAreOwned, LocksExclude, CallsLock, HeaderWasRead, MadeByOne, FilesAreOrdered, Making, Removing
    <3>9. ClaimsAreOwned'
      BY <2>0, <3>1, <3>2, <3>3, <3>4, <3>5
         DEF IInv, Moves, LetsGo, ClaimsAreOwned
    <3>10. LocksExclude'
      BY <2>0, <3>1, <3>2, <3>3, <3>4, <3>5
         DEF IInv, Moves, LetsGo, LocksExclude, OwnedIsWhole
    <3>11. CallsLock'
      BY <2>0, <3>1, <3>2, <3>3, <3>4, <3>5
         DEF IInv, Moves, LetsGo, CallsLock, OwnedIsWhole, Removing, Between
    <3>12. HeaderWasRead'
      BY <2>0, <3>1, <3>2, <3>3, <3>4, <3>5
         DEF IInv, Moves, LetsGo, HeaderWasRead, CallsLock, OwnedIsWhole, MadeByOne, Removing, Making, Between
    <3>13. MadeByOne'
      BY <2>0, <3>1, <3>2, <3>3, <3>4, <3>5
         DEF IInv, Moves, LetsGo, MadeByOne, HeaderWasRead, Making, Removing, Between
    <3>14. SweepsLook'
      BY <2>0, <3>1, <3>2, <3>3, <3>4, <3>5
         DEF IInv, Moves, LetsGo, SweepsLook, CallsLock, OwnedIsWhole, Removing, Between
    <3>15. ListsLock'
      BY <2>0, <3>1, <3>2, <3>3, <3>4, <3>5
         DEF IInv, Moves, LetsGo, ListsLock, Typed, Between
    <3>16. QED
      BY <3>6, <3>7, <3>8, <3>9, <3>10, <3>11, <3>12, <3>13, <3>14, <3>15 DEF IInv
  <2>33. ASSUME NEW a \in Agents, LockNew(a) PROVE IInv'
    <3>1. Moves(a, {"write", "undo"})
      BY <2>0, <2>33, GotoMoves DEF LockNew, Moves, Steps
    <3>2. call[a].at = "lockNew" /\ call[a].record \in Records
      BY <2>0, <2>33 DEF LockNew, At, Between
    <3>3. holder' \in [Records -> Agents \cup {None}]
      BY <2>0, <2>33 DEF LockNew
    <3>4. \A r \in Records : holder'[r] # holder[r] => holder[r] = None /\ readers[r] = {}
      BY <2>0, <2>33, <3>2 DEF LockNew, On, Free
    <3>5. call'[a].at = "write" => holder'[call[a].record] = a /\ holder[call[a].record] = None
      BY <2>0, <2>33, <3>2, GotoMoves DEF LockNew, On, Free, Moves, Steps
    <3>6. UNCHANGED <<directories, leases, headers, manifests, contents, owner, claims, readers>>
      BY <2>33 DEF LockNew, files, locks, owners
    <3>7. Typed'
      BY <2>0, <3>1, <3>2, <3>3, <3>4, <3>5, <3>6
         DEF IInv, Moves, LetsGo, Typed, Between
    <3>8. FilesAreOrdered'
      BY <2>0, <3>1, <3>2, <3>3, <3>4, <3>5, <3>6
         DEF IInv, Moves, LetsGo, FilesAreOrdered, HeaderWasRead, MadeByOne, OwnedIsWhole, Making, Removing
    <3>9. OwnedIsWhole'
      BY <2>0, <3>1, <3>2, <3>3, <3>4, <3>5, <3>6
         DEF IInv, Moves, LetsGo, OwnedIsWhole, ClaimsAreOwned, LocksExclude, CallsLock, HeaderWasRead, MadeByOne, FilesAreOrdered, Making, Removing
    <3>10. ClaimsAreOwned'
      BY <2>0, <3>1, <3>2, <3>3, <3>4, <3>5, <3>6
         DEF IInv, Moves, LetsGo, ClaimsAreOwned
    <3>11. LocksExclude'
      BY <2>0, <3>1, <3>2, <3>3, <3>4, <3>5, <3>6
         DEF IInv, Moves, LetsGo, LocksExclude, OwnedIsWhole
    <3>12. CallsLock'
      BY <2>0, <3>1, <3>2, <3>3, <3>4, <3>5, <3>6
         DEF IInv, Moves, LetsGo, CallsLock, OwnedIsWhole, Removing, Between
    <3>13. HeaderWasRead'
      BY <2>0, <3>1, <3>2, <3>3, <3>4, <3>5, <3>6
         DEF IInv, Moves, LetsGo, HeaderWasRead, CallsLock, OwnedIsWhole, MadeByOne, Removing, Making, Between
    <3>14. MadeByOne'
      BY <2>0, <3>1, <3>2, <3>3, <3>4, <3>5, <3>6
         DEF IInv, Moves, LetsGo, MadeByOne, HeaderWasRead, Making, Removing, Between
    <3>15. SweepsLook'
      BY <2>0, <3>1, <3>2, <3>3, <3>4, <3>5, <3>6
         DEF IInv, Moves, LetsGo, SweepsLook, CallsLock, OwnedIsWhole, Removing, Between
    <3>16. ListsLock'
      BY <2>0, <3>1, <3>2, <3>3, <3>4, <3>5, <3>6
         DEF IInv, Moves, LetsGo, ListsLock, Typed, Between
    <3>17. QED
      BY <3>7, <3>8, <3>9, <3>10, <3>11, <3>12, <3>13, <3>14, <3>15, <3>16 DEF IInv
  <2>34. ASSUME NEW a \in Agents, WriteHeader(a) PROVE IInv'
    <3>1. Moves(a, {"idle"})
      BY <2>0, <2>34, AnswerMoves DEF WriteHeader, Moves, Steps
    <3>2. call[a].at = "write" /\ call[a].record \in Records
      BY <2>0, <2>34 DEF WriteHeader, At, Between
    <3>3. headers' = headers \cup {call[a].record} /\ owner' = [owner EXCEPT ![call[a].record] = a]
      BY <2>34 DEF WriteHeader, On
    <3>4. UNCHANGED <<directories, leases, manifests, contents, claims, holder, readers>>
      BY <2>34 DEF WriteHeader, files, locks, owners
    <3>5. Typed'
      BY <2>0, <3>1, <3>2, <3>3, <3>4
         DEF IInv, Moves, LetsGo, Typed, Between
    <3>6. FilesAreOrdered'
      BY <2>0, <3>1, <3>2, <3>3, <3>4
         DEF IInv, Moves, LetsGo, FilesAreOrdered, HeaderWasRead, MadeByOne, OwnedIsWhole, Making, Removing
    <3>7. OwnedIsWhole'
      BY <2>0, <3>1, <3>2, <3>3, <3>4
         DEF IInv, Moves, LetsGo, OwnedIsWhole, ClaimsAreOwned, LocksExclude, CallsLock, HeaderWasRead, MadeByOne, FilesAreOrdered, Making, Removing
    <3>8. ClaimsAreOwned'
      BY <2>0, <3>1, <3>2, <3>3, <3>4
         DEF IInv, Moves, LetsGo, ClaimsAreOwned
    <3>9. LocksExclude'
      BY <2>0, <3>1, <3>2, <3>3, <3>4
         DEF IInv, Moves, LetsGo, LocksExclude, OwnedIsWhole
    <3>10. CallsLock'
      BY <2>0, <3>1, <3>2, <3>3, <3>4
         DEF IInv, Moves, LetsGo, CallsLock, OwnedIsWhole, Removing, Between
    <3>11. HeaderWasRead'
      BY <2>0, <3>1, <3>2, <3>3, <3>4
         DEF IInv, Moves, LetsGo, HeaderWasRead, CallsLock, OwnedIsWhole, MadeByOne, Removing, Making, Between
    <3>12. MadeByOne'
      BY <2>0, <3>1, <3>2, <3>3, <3>4
         DEF IInv, Moves, LetsGo, MadeByOne, HeaderWasRead, Making, Removing, Between
    <3>13. SweepsLook'
      BY <2>0, <3>1, <3>2, <3>3, <3>4
         DEF IInv, Moves, LetsGo, SweepsLook, CallsLock, OwnedIsWhole, Removing, Between
    <3>14. ListsLock'
      BY <2>0, <3>1, <3>2, <3>3, <3>4
         DEF IInv, Moves, LetsGo, ListsLock, Typed, Between
    <3>15. QED
      BY <3>5, <3>6, <3>7, <3>8, <3>9, <3>10, <3>11, <3>12, <3>13, <3>14 DEF IInv
  <2>35. ASSUME NEW a \in Agents, LeaseFails(a) PROVE IInv'
    <3>1. Moves(a, {"undo"})
      BY <2>0, <2>35, GotoMoves DEF LeaseFails, Moves, Steps
    <3>2. call[a].at \in {"makeLease", "lockNew", "write"} /\ call[a].record \in Records
      BY <2>0, <2>35 DEF LeaseFails, At, Between
    <3>3. LetsGo(a)
      BY <2>0, <2>35, <3>2, LetGoLetsGo DEF LeaseFails
    <3>4. UNCHANGED <<directories, leases, headers, manifests, contents, owner, claims>>
      BY <2>35 DEF LeaseFails, files, locks, owners
    <3>5. Typed'
      BY <2>0, <3>1, <3>2, <3>3, <3>4
         DEF IInv, Moves, LetsGo, Typed, Between
    <3>6. FilesAreOrdered'
      BY <2>0, <3>1, <3>2, <3>3, <3>4
         DEF IInv, Moves, LetsGo, FilesAreOrdered, HeaderWasRead, MadeByOne, OwnedIsWhole, Making, Removing
    <3>7. OwnedIsWhole'
      BY <2>0, <3>1, <3>2, <3>3, <3>4
         DEF IInv, Moves, LetsGo, OwnedIsWhole, ClaimsAreOwned, LocksExclude, CallsLock, HeaderWasRead, MadeByOne, FilesAreOrdered, Making, Removing
    <3>8. ClaimsAreOwned'
      BY <2>0, <3>1, <3>2, <3>3, <3>4
         DEF IInv, Moves, LetsGo, ClaimsAreOwned
    <3>9. LocksExclude'
      BY <2>0, <3>1, <3>2, <3>3, <3>4
         DEF IInv, Moves, LetsGo, LocksExclude, OwnedIsWhole
    <3>10. CallsLock'
      BY <2>0, <3>1, <3>2, <3>3, <3>4
         DEF IInv, Moves, LetsGo, CallsLock, OwnedIsWhole, Removing, Between
    <3>11. HeaderWasRead'
      BY <2>0, <3>1, <3>2, <3>3, <3>4
         DEF IInv, Moves, LetsGo, HeaderWasRead, CallsLock, OwnedIsWhole, MadeByOne, Removing, Making, Between
    <3>12. MadeByOne'
      BY <2>0, <3>1, <3>2, <3>3, <3>4
         DEF IInv, Moves, LetsGo, MadeByOne, HeaderWasRead, Making, Removing, Between
    <3>13. SweepsLook'
      BY <2>0, <3>1, <3>2, <3>3, <3>4
         DEF IInv, Moves, LetsGo, SweepsLook, CallsLock, OwnedIsWhole, Removing, Between
    <3>14. ListsLock'
      BY <2>0, <3>1, <3>2, <3>3, <3>4
         DEF IInv, Moves, LetsGo, ListsLock, Typed, Between
    <3>15. QED
      BY <3>5, <3>6, <3>7, <3>8, <3>9, <3>10, <3>11, <3>12, <3>13, <3>14 DEF IInv
  <2>36. ASSUME NEW a \in Agents, UndoLease(a) PROVE IInv'
    <3>1. Moves(a, {"undoDirectory"})
      BY <2>0, <2>36, GotoMoves DEF UndoLease, Moves, Steps
    <3>2. call[a].at = "undo" /\ call[a].record \in Records
      BY <2>0, <2>36 DEF UndoLease, At, Between
    <3>3. leases' = leases \ {call[a].record}
      BY <2>36 DEF UndoLease, On
    <3>4. UNCHANGED <<directories, headers, manifests, contents, owner, claims, holder, readers>>
      BY <2>36 DEF UndoLease, files, locks, owners
    <3>5. Typed'
      BY <2>0, <3>1, <3>2, <3>3, <3>4
         DEF IInv, Moves, LetsGo, Typed, Between
    <3>6. FilesAreOrdered'
      BY <2>0, <3>1, <3>2, <3>3, <3>4
         DEF IInv, Moves, LetsGo, FilesAreOrdered, HeaderWasRead, MadeByOne, OwnedIsWhole, Making, Removing
    <3>7. OwnedIsWhole'
      BY <2>0, <3>1, <3>2, <3>3, <3>4
         DEF IInv, Moves, LetsGo, OwnedIsWhole, ClaimsAreOwned, LocksExclude, CallsLock, HeaderWasRead, MadeByOne, FilesAreOrdered, Making, Removing
    <3>8. ClaimsAreOwned'
      BY <2>0, <3>1, <3>2, <3>3, <3>4
         DEF IInv, Moves, LetsGo, ClaimsAreOwned
    <3>9. LocksExclude'
      BY <2>0, <3>1, <3>2, <3>3, <3>4
         DEF IInv, Moves, LetsGo, LocksExclude, OwnedIsWhole
    <3>10. CallsLock'
      BY <2>0, <3>1, <3>2, <3>3, <3>4
         DEF IInv, Moves, LetsGo, CallsLock, OwnedIsWhole, Removing, Between
    <3>11. HeaderWasRead'
      BY <2>0, <3>1, <3>2, <3>3, <3>4
         DEF IInv, Moves, LetsGo, HeaderWasRead, CallsLock, OwnedIsWhole, MadeByOne, Removing, Making, Between
    <3>12. MadeByOne'
      BY <2>0, <3>1, <3>2, <3>3, <3>4
         DEF IInv, Moves, LetsGo, MadeByOne, HeaderWasRead, Making, Removing, Between
    <3>13. SweepsLook'
      BY <2>0, <3>1, <3>2, <3>3, <3>4
         DEF IInv, Moves, LetsGo, SweepsLook, CallsLock, OwnedIsWhole, Removing, Between
    <3>14. ListsLock'
      BY <2>0, <3>1, <3>2, <3>3, <3>4
         DEF IInv, Moves, LetsGo, ListsLock, Typed, Between
    <3>15. QED
      BY <3>5, <3>6, <3>7, <3>8, <3>9, <3>10, <3>11, <3>12, <3>13, <3>14 DEF IInv
  <2>37. ASSUME NEW a \in Agents, UndoDirectory(a) PROVE IInv'
    <3>1. Rests(a)
      <4>1. /\ [call[a] EXCEPT !.tries = call[a].tries + 1, !.record = None, !.at = "again"] \in Call
            /\ [call[a] EXCEPT !.tries = call[a].tries + 1, !.record = None, !.at = "again"].at = "again"
        <5>1. call[a].tries + 1 \in Nat
          BY <2>0 DEF Call
        <5>2. call[a] \in Call /\ "again" \in Steps
          BY <2>0 DEF Steps
        <5>3. QED
          BY <5>1, <5>2, CallRetries
      <4>2. call' = [call EXCEPT ![a] = [call[a] EXCEPT !.tries = call[a].tries + 1,
                                                       !.record = None, !.at = "again"]]
        BY <2>37 DEF UndoDirectory
      <4>3. QED
        BY <2>0, <4>1, <4>2 DEF Rests, Quiet, Between
    <3>2. LetsGo(a)
      BY <2>0, <2>37 DEF UndoDirectory, LetsGo, locks
    <3>3. UNCHANGED <<leases, headers, manifests, contents, owner, claims>>
      BY <2>37 DEF UndoDirectory, files, owners, RemovalFails
    <3>4. directories' \subseteq directories /\ leases \subseteq directories'
      BY <2>37, <2>0 DEF UndoDirectory, FilesAreOrdered
    <3>5. QED
      BY <3>1, <3>2, <3>3, <3>4, QuietStep
  <2>38. ASSUME NEW a \in Agents, NEW r \in Records, Copy(a, r) PROVE IInv'
    <3>1. owner[r] = a /\ r \notin claims
      BY <2>38 DEF Copy, Live, Owns
    <3>2. contents' = contents \cup {r}
      BY <2>38 DEF Copy
    <3>3. UNCHANGED <<directories, leases, headers, manifests, owner, claims, holder, readers, call>>
      BY <2>38 DEF Copy, locks, owners
    <3>4. Typed'
      BY <2>0, <3>1, <3>2, <3>3
         DEF IInv, Moves, LetsGo, Typed, Between
    <3>5. FilesAreOrdered'
      BY <2>0, <3>1, <3>2, <3>3
         DEF IInv, Moves, LetsGo, FilesAreOrdered, HeaderWasRead, MadeByOne, OwnedIsWhole, Making, Removing
    <3>6. OwnedIsWhole'
      BY <2>0, <3>1, <3>2, <3>3
         DEF IInv, Moves, LetsGo, OwnedIsWhole, ClaimsAreOwned, LocksExclude, CallsLock, HeaderWasRead, MadeByOne, FilesAreOrdered, Making, Removing
    <3>7. ClaimsAreOwned'
      BY <2>0, <3>1, <3>2, <3>3
         DEF IInv, Moves, LetsGo, ClaimsAreOwned
    <3>8. LocksExclude'
      BY <2>0, <3>1, <3>2, <3>3
         DEF IInv, Moves, LetsGo, LocksExclude, OwnedIsWhole
    <3>9. CallsLock'
      BY <2>0, <3>1, <3>2, <3>3
         DEF IInv, Moves, LetsGo, CallsLock, OwnedIsWhole, Removing, Between
    <3>10. HeaderWasRead'
      BY <2>0, <3>1, <3>2, <3>3
         DEF IInv, Moves, LetsGo, HeaderWasRead, CallsLock, OwnedIsWhole, MadeByOne, Removing, Making, Between
    <3>11. MadeByOne'
      BY <2>0, <3>1, <3>2, <3>3
         DEF IInv, Moves, LetsGo, MadeByOne, HeaderWasRead, Making, Removing, Between
    <3>12. SweepsLook'
      BY <2>0, <3>1, <3>2, <3>3
         DEF IInv, Moves, LetsGo, SweepsLook, CallsLock, OwnedIsWhole, Removing, Between
    <3>13. ListsLock'
      BY <2>0, <3>1, <3>2, <3>3
         DEF IInv, Moves, LetsGo, ListsLock, Typed, Between
    <3>14. QED
      BY <3>4, <3>5, <3>6, <3>7, <3>8, <3>9, <3>10, <3>11, <3>12, <3>13 DEF IInv
  <2>39. ASSUME NEW a \in Agents, NEW r \in Records, Publish(a, r) PROVE IInv'
    <3>1. owner[r] = a /\ r \notin claims
      BY <2>39 DEF Publish, Live, Owns
    <3>2. manifests' = manifests \cup {r} /\ r \in contents
      BY <2>39 DEF Publish
    <3>3. UNCHANGED <<directories, leases, headers, contents, owner, claims, holder, readers, call>>
      BY <2>39 DEF Publish, locks, owners
    <3>4. Typed'
      BY <2>0, <3>1, <3>2, <3>3
         DEF IInv, Moves, LetsGo, Typed, Between
    <3>5. FilesAreOrdered'
      BY <2>0, <3>1, <3>2, <3>3
         DEF IInv, Moves, LetsGo, FilesAreOrdered, HeaderWasRead, MadeByOne, OwnedIsWhole, Making, Removing
    <3>6. OwnedIsWhole'
      BY <2>0, <3>1, <3>2, <3>3
         DEF IInv, Moves, LetsGo, OwnedIsWhole, ClaimsAreOwned, LocksExclude, CallsLock, HeaderWasRead, MadeByOne, FilesAreOrdered, Making, Removing
    <3>7. ClaimsAreOwned'
      BY <2>0, <3>1, <3>2, <3>3
         DEF IInv, Moves, LetsGo, ClaimsAreOwned
    <3>8. LocksExclude'
      BY <2>0, <3>1, <3>2, <3>3
         DEF IInv, Moves, LetsGo, LocksExclude, OwnedIsWhole
    <3>9. CallsLock'
      BY <2>0, <3>1, <3>2, <3>3
         DEF IInv, Moves, LetsGo, CallsLock, OwnedIsWhole, Removing, Between
    <3>10. HeaderWasRead'
      BY <2>0, <3>1, <3>2, <3>3
         DEF IInv, Moves, LetsGo, HeaderWasRead, CallsLock, OwnedIsWhole, MadeByOne, Removing, Making, Between
    <3>11. MadeByOne'
      BY <2>0, <3>1, <3>2, <3>3
         DEF IInv, Moves, LetsGo, MadeByOne, HeaderWasRead, Making, Removing, Between
    <3>12. SweepsLook'
      BY <2>0, <3>1, <3>2, <3>3
         DEF IInv, Moves, LetsGo, SweepsLook, CallsLock, OwnedIsWhole, Removing, Between
    <3>13. ListsLock'
      BY <2>0, <3>1, <3>2, <3>3
         DEF IInv, Moves, LetsGo, ListsLock, Typed, Between
    <3>14. QED
      BY <3>4, <3>5, <3>6, <3>7, <3>8, <3>9, <3>10, <3>11, <3>12, <3>13 DEF IInv
  <2>40. ASSUME NEW a \in Agents, NEW r \in Records, Clear(a, r) PROVE IInv'
    <3>1. owner[r] = a /\ r \notin claims
      BY <2>40 DEF Clear, Live, Owns
    <3>2. manifests' = manifests \ {r} /\ contents \ {r} \subseteq contents'
      BY <2>40 DEF Clear
    <3>3. UNCHANGED <<directories, leases, headers, owner, claims, holder, readers, call>>
      BY <2>40 DEF Clear, locks, owners
    <3>4. Typed'
      BY <2>0, <3>1, <3>2, <3>3
         DEF IInv, Moves, LetsGo, Typed, Between
    <3>5. FilesAreOrdered'
      BY <2>0, <3>1, <3>2, <3>3
         DEF IInv, Moves, LetsGo, FilesAreOrdered, HeaderWasRead, MadeByOne, OwnedIsWhole, Making, Removing
    <3>6. OwnedIsWhole'
      BY <2>0, <3>1, <3>2, <3>3
         DEF IInv, Moves, LetsGo, OwnedIsWhole, ClaimsAreOwned, LocksExclude, CallsLock, HeaderWasRead, MadeByOne, FilesAreOrdered, Making, Removing
    <3>7. ClaimsAreOwned'
      BY <2>0, <3>1, <3>2, <3>3
         DEF IInv, Moves, LetsGo, ClaimsAreOwned
    <3>8. LocksExclude'
      BY <2>0, <3>1, <3>2, <3>3
         DEF IInv, Moves, LetsGo, LocksExclude, OwnedIsWhole
    <3>9. CallsLock'
      BY <2>0, <3>1, <3>2, <3>3
         DEF IInv, Moves, LetsGo, CallsLock, OwnedIsWhole, Removing, Between
    <3>10. HeaderWasRead'
      BY <2>0, <3>1, <3>2, <3>3
         DEF IInv, Moves, LetsGo, HeaderWasRead, CallsLock, OwnedIsWhole, MadeByOne, Removing, Making, Between
    <3>11. MadeByOne'
      BY <2>0, <3>1, <3>2, <3>3
         DEF IInv, Moves, LetsGo, MadeByOne, HeaderWasRead, Making, Removing, Between
    <3>12. SweepsLook'
      BY <2>0, <3>1, <3>2, <3>3
         DEF IInv, Moves, LetsGo, SweepsLook, CallsLock, OwnedIsWhole, Removing, Between
    <3>13. ListsLock'
      BY <2>0, <3>1, <3>2, <3>3
         DEF IInv, Moves, LetsGo, ListsLock, Typed, Between
    <3>14. QED
      BY <3>4, <3>5, <3>6, <3>7, <3>8, <3>9, <3>10, <3>11, <3>12, <3>13 DEF IInv
  <2>41. ASSUME NEW a \in Agents, NEW r \in Records, IntoRecord(a, r) PROVE IInv'
    <3>1. claims' = claims \ {r}
      BY <2>41 DEF IntoRecord
    <3>2. UNCHANGED <<directories, leases, headers, manifests, contents, owner, holder, readers, call>>
      BY <2>41 DEF IntoRecord, files, locks
    <3>3. Typed'
      BY <2>0, <3>1, <3>2
         DEF IInv, Moves, LetsGo, Typed, Between
    <3>4. FilesAreOrdered'
      BY <2>0, <3>1, <3>2
         DEF IInv, Moves, LetsGo, FilesAreOrdered, HeaderWasRead, MadeByOne, OwnedIsWhole, Making, Removing
    <3>5. OwnedIsWhole'
      BY <2>0, <3>1, <3>2
         DEF IInv, Moves, LetsGo, OwnedIsWhole, ClaimsAreOwned, LocksExclude, CallsLock, HeaderWasRead, MadeByOne, FilesAreOrdered, Making, Removing
    <3>6. ClaimsAreOwned'
      BY <2>0, <3>1, <3>2
         DEF IInv, Moves, LetsGo, ClaimsAreOwned
    <3>7. LocksExclude'
      BY <2>0, <3>1, <3>2
         DEF IInv, Moves, LetsGo, LocksExclude, OwnedIsWhole
    <3>8. CallsLock'
      BY <2>0, <3>1, <3>2
         DEF IInv, Moves, LetsGo, CallsLock, OwnedIsWhole, Removing, Between
    <3>9. HeaderWasRead'
      BY <2>0, <3>1, <3>2
         DEF IInv, Moves, LetsGo, HeaderWasRead, CallsLock, OwnedIsWhole, MadeByOne, Removing, Making, Between
    <3>10. MadeByOne'
      BY <2>0, <3>1, <3>2
         DEF IInv, Moves, LetsGo, MadeByOne, HeaderWasRead, Making, Removing, Between
    <3>11. SweepsLook'
      BY <2>0, <3>1, <3>2
         DEF IInv, Moves, LetsGo, SweepsLook, CallsLock, OwnedIsWhole, Removing, Between
    <3>12. ListsLock'
      BY <2>0, <3>1, <3>2
         DEF IInv, Moves, LetsGo, ListsLock, Typed, Between
    <3>13. QED
      BY <3>3, <3>4, <3>5, <3>6, <3>7, <3>8, <3>9, <3>10, <3>11, <3>12 DEF IInv
  <2>42. ASSUME NEW a \in Agents, NEW r \in Records, Retire(a, r) PROVE IInv'
    <3>1. owner[r] = a /\ call[a].at = "idle"
      BY <2>42 DEF Retire, Owns, At
    <3>2. /\ call' \in [Agents -> Call]
          /\ \A b \in Agents \ {a} : call'[b] = call[b]
          /\ call'[a].at = "manifest" /\ call'[a].record = r /\ call'[a].of = "retire"
      BY <2>0, <2>42, StartMoves DEF Retire, Steps
    <3>3. owner' = [owner EXCEPT ![r] = None] /\ claims' = claims \ {r}
      BY <2>42 DEF Retire, Disowned
    <3>4. UNCHANGED <<directories, leases, headers, manifests, contents, holder, readers>>
      BY <2>42 DEF Retire, files, locks
    <3>5. Typed'
      BY <2>0, <3>1, <3>2, <3>3, <3>4
         DEF IInv, Moves, LetsGo, Typed, Between
    <3>6. FilesAreOrdered'
      BY <2>0, <3>1, <3>2, <3>3, <3>4
         DEF IInv, Moves, LetsGo, FilesAreOrdered, HeaderWasRead, MadeByOne, OwnedIsWhole, Making, Removing
    <3>7. OwnedIsWhole'
      BY <2>0, <3>1, <3>2, <3>3, <3>4
         DEF IInv, Moves, LetsGo, OwnedIsWhole, ClaimsAreOwned, LocksExclude, CallsLock, HeaderWasRead, MadeByOne, FilesAreOrdered, Making, Removing
    <3>8. ClaimsAreOwned'
      BY <2>0, <3>1, <3>2, <3>3, <3>4
         DEF IInv, Moves, LetsGo, ClaimsAreOwned
    <3>9. LocksExclude'
      BY <2>0, <3>1, <3>2, <3>3, <3>4
         DEF IInv, Moves, LetsGo, LocksExclude, OwnedIsWhole
    <3>10. CallsLock'
      BY <2>0, <3>1, <3>2, <3>3, <3>4
         DEF IInv, Moves, LetsGo, CallsLock, OwnedIsWhole, Removing, Between
    <3>11. HeaderWasRead'
      BY <2>0, <3>1, <3>2, <3>3, <3>4
         DEF IInv, Moves, LetsGo, HeaderWasRead, CallsLock, OwnedIsWhole, MadeByOne, Removing, Making, Between
    <3>12. MadeByOne'
      BY <2>0, <3>1, <3>2, <3>3, <3>4
         DEF IInv, Moves, LetsGo, MadeByOne, HeaderWasRead, Making, Removing, Between
    <3>13. SweepsLook'
      BY <2>0, <3>1, <3>2, <3>3, <3>4
         DEF IInv, Moves, LetsGo, SweepsLook, CallsLock, OwnedIsWhole, Removing, Between
    <3>14. ListsLock'
      BY <2>0, <3>1, <3>2, <3>3, <3>4
         DEF IInv, Moves, LetsGo, ListsLock, Typed, Between
    <3>15. QED
      BY <3>5, <3>6, <3>7, <3>8, <3>9, <3>10, <3>11, <3>12, <3>13, <3>14 DEF IInv
  <2>43. ASSUME NEW a \in Agents, NEW r \in Records, Keep(a, r) PROVE IInv'
    <3>1. owner[r] = a
      BY <2>43 DEF Keep, Owns
    <3>2. owner' = [owner EXCEPT ![r] = None] /\ claims' = claims \ {r}
      BY <2>43 DEF Keep, Disowned
    <3>3. holder' = [holder EXCEPT ![r] = None]
      BY <2>43 DEF Keep, Unlocked
    <3>4. UNCHANGED <<directories, leases, headers, manifests, contents, readers, call>>
      BY <2>43 DEF Keep, files
    <3>5. Typed'
      BY <2>0, <3>1, <3>2, <3>3, <3>4
         DEF IInv, Moves, LetsGo, Typed, Between
    <3>6. FilesAreOrdered'
      BY <2>0, <3>1, <3>2, <3>3, <3>4
         DEF IInv, Moves, LetsGo, FilesAreOrdered, HeaderWasRead, MadeByOne, OwnedIsWhole, Making, Removing
    <3>7. OwnedIsWhole'
      BY <2>0, <3>1, <3>2, <3>3, <3>4
         DEF IInv, Moves, LetsGo, OwnedIsWhole, ClaimsAreOwned, LocksExclude, CallsLock, HeaderWasRead, MadeByOne, FilesAreOrdered, Making, Removing
    <3>8. ClaimsAreOwned'
      BY <2>0, <3>1, <3>2, <3>3, <3>4
         DEF IInv, Moves, LetsGo, ClaimsAreOwned
    <3>9. LocksExclude'
      BY <2>0, <3>1, <3>2, <3>3, <3>4
         DEF IInv, Moves, LetsGo, LocksExclude, OwnedIsWhole
    <3>10. CallsLock'
      BY <2>0, <3>1, <3>2, <3>3, <3>4
         DEF IInv, Moves, LetsGo, CallsLock, OwnedIsWhole, Removing, Between
    <3>11. HeaderWasRead'
      BY <2>0, <3>1, <3>2, <3>3, <3>4
         DEF IInv, Moves, LetsGo, HeaderWasRead, CallsLock, OwnedIsWhole, MadeByOne, Removing, Making, Between
    <3>12. MadeByOne'
      BY <2>0, <3>1, <3>2, <3>3, <3>4
         DEF IInv, Moves, LetsGo, MadeByOne, HeaderWasRead, Making, Removing, Between
    <3>13. SweepsLook'
      BY <2>0, <3>1, <3>2, <3>3, <3>4
         DEF IInv, Moves, LetsGo, SweepsLook, CallsLock, OwnedIsWhole, Removing, Between
    <3>14. ListsLock'
      BY <2>0, <3>1, <3>2, <3>3, <3>4
         DEF IInv, Moves, LetsGo, ListsLock, Typed, Between
    <3>15. QED
      BY <3>5, <3>6, <3>7, <3>8, <3>9, <3>10, <3>11, <3>12, <3>13, <3>14 DEF IInv
  <2>44. ASSUME NEW a \in Agents, End(a) PROVE IInv'
    <3>1. Moves(a, {"idle"})
      BY <2>0, <2>44, AnswerMoves DEF End, Moves, Steps
    <3>2. /\ holder' = [r \in Records |-> IF holder[r] = a THEN None ELSE holder[r]]
          /\ readers' = [r \in Records |-> readers[r] \ {a}]
          /\ owner' = [r \in Records |-> IF owner[r] = a THEN None ELSE owner[r]]
          /\ claims' = {r \in claims : owner[r] # a}
      BY <2>44 DEF End
    <3>3. /\ holder' \in [Records -> Agents \cup {None}] /\ owner' \in [Records -> Agents \cup {None}]
          /\ readers' \in [Records -> SUBSET Agents]
      BY <2>0, <3>2
    <3>4. UNCHANGED <<directories, leases, headers, manifests, contents>>
      BY <2>44 DEF End, files
    <3>5. Typed'
      BY <2>0, <3>1, <3>2, <3>3, <3>4
         DEF IInv, Moves, LetsGo, Typed, Between
    <3>6. FilesAreOrdered'
      BY <2>0, <3>1, <3>2, <3>3, <3>4
         DEF IInv, Moves, LetsGo, FilesAreOrdered, HeaderWasRead, MadeByOne, OwnedIsWhole, Making, Removing
    <3>7. OwnedIsWhole'
      BY <2>0, <3>1, <3>2, <3>3, <3>4
         DEF IInv, Moves, LetsGo, OwnedIsWhole, ClaimsAreOwned, LocksExclude, CallsLock, HeaderWasRead, MadeByOne, FilesAreOrdered, Making, Removing
    <3>8. ClaimsAreOwned'
      BY <2>0, <3>1, <3>2, <3>3, <3>4
         DEF IInv, Moves, LetsGo, ClaimsAreOwned
    <3>9. LocksExclude'
      BY <2>0, <3>1, <3>2, <3>3, <3>4
         DEF IInv, Moves, LetsGo, LocksExclude, OwnedIsWhole
    <3>10. CallsLock'
      BY <2>0, <3>1, <3>2, <3>3, <3>4
         DEF IInv, Moves, LetsGo, CallsLock, OwnedIsWhole, Removing, Between
    <3>11. HeaderWasRead'
      BY <2>0, <3>1, <3>2, <3>3, <3>4
         DEF IInv, Moves, LetsGo, HeaderWasRead, CallsLock, OwnedIsWhole, MadeByOne, Removing, Making, Between
    <3>12. MadeByOne'
      BY <2>0, <3>1, <3>2, <3>3, <3>4
         DEF IInv, Moves, LetsGo, MadeByOne, HeaderWasRead, Making, Removing, Between
    <3>13. SweepsLook'
      BY <2>0, <3>1, <3>2, <3>3, <3>4
         DEF IInv, Moves, LetsGo, SweepsLook, CallsLock, OwnedIsWhole, Removing, Between
    <3>14. ListsLock'
      BY <2>0, <3>1, <3>2, <3>3, <3>4
         DEF IInv, Moves, LetsGo, ListsLock, Typed, Between
    <3>15. QED
      BY <3>5, <3>6, <3>7, <3>8, <3>9, <3>10, <3>11, <3>12, <3>13, <3>14 DEF IInv
  <2>45. CASE UNCHANGED vars
    BY <2>45 DEF vars, IInv, Typed, FilesAreOrdered, OwnedIsWhole, ClaimsAreOwned, LocksExclude, CallsLock,
       HeaderWasRead, MadeByOne, SweepsLook, ListsLock
  <2>46. QED
    BY <2>1, <2>2, <2>3, <2>4, <2>5, <2>6, <2>7, <2>8, <2>9, <2>10, <2>11, <2>12,
       <2>13, <2>14, <2>15, <2>16, <2>17, <2>18, <2>19, <2>20, <2>21, <2>22, <2>23, <2>24,
       <2>25, <2>26, <2>27, <2>28, <2>29, <2>30, <2>31, <2>32, <2>33, <2>34, <2>35, <2>36,
       <2>37, <2>38, <2>39, <2>40, <2>41, <2>42, <2>43, <2>44, <2>45
    DEF Next, Step
<1>3. QED
  BY <1>1, <1>2, PTL DEF Spec

(* The record of a live session, and a claim, is whole and under its       *)
(* owner's lock: OwnedIsWhole of RecoveryStore (recovery.rs).  What a call *)
(* removes it holds the lease of, and nobody owns it then (CallsLock); what *)
(* has no header yet belongs to the one call that makes it (MadeByOne).    *)
THEOREM OwnedRecordsAreWhole == Spec => []OwnedIsWhole
<1>1. IInv => OwnedIsWhole
  BY DEF IInv
<1>2. QED
  BY <1>1, StoreIsKept, PTL

---------------------------------------------------------------------------
(* What takes a file                                                       *)

FilesStay == /\ manifests \subseteq manifests' /\ leases \subseteq leases'
             /\ contents \subseteq contents'

(* Only removals, the undoing of a creation and a clear take a file that a *)
(* record needs.                                                           *)
LEMMA FilesGo ==
    ASSUME Next
    PROVE  \/ FilesStay
           \/ \E a \in Agents : RemoveManifest(a) \/ RemoveContents(a) \/ UnlinkLease(a) \/ UndoLease(a)
           \/ \E a \in Agents, r \in Records : Clear(a, r)
<1> USE DEF FilesStay, files
<1>1. ASSUME NEW a \in Agents, StartList(a) \/ StartCreate(a) \/ CancelClaim(a) \/ End(a) PROVE FilesStay
  BY <1>1 DEF StartList, StartCreate, CancelClaim, End
<1>2. ASSUME NEW a \in Agents, NEW r \in Records,
             \/ StartClaim(a, r) \/ StartDelete(a, r) \/ Copy(a, r) \/ Publish(a, r)
             \/ IntoRecord(a, r) \/ Retire(a, r) \/ Keep(a, r)
      PROVE  FilesStay
  BY <1>2 DEF StartClaim, StartDelete, Copy, Publish, IntoRecord, Retire, Keep
<1>3. ASSUME NEW a \in Agents,
             \/ NextRecord(a) \/ ListEnds(a)
             \/ OpenLease(a) \/ LeaseMissing(a) \/ LeaseUnreadable(a) \/ RemoveEmpty(a)
             \/ LockShared(a) \/ LockExclusive(a) \/ Probe(a) \/ Unprobe(a)
             \/ NotOurs(a) \/ Held(a) \/ ListReads(a) \/ Claim(a) \/ ClaimRefused(a)
      PROVE  FilesStay
  BY <1>3 DEF NextRecord, ListEnds, OpenLease, LeaseMissing, LeaseUnreadable, RemoveEmpty, LockShared,
     LockExclusive, Probe, Unprobe, NotOurs, Held, ListReads, Claim, ClaimRefused
<1>4. ASSUME NEW a \in Agents,
             \/ SweepDecides(a) \/ Tally(a) \/ ContentsFail(a) \/ Unlock(a) \/ RemoveDirectory(a)
             \/ AtLimit(a) \/ MakeDirectory(a) \/ CreateFails(a)
             \/ MakeLease(a) \/ LockNew(a) \/ WriteHeader(a) \/ LeaseFails(a) \/ UndoDirectory(a)
      PROVE  FilesStay
  BY <1>4 DEF SweepDecides, Tally, ContentsFail, Unlock, RemoveDirectory, AtLimit, MakeDirectory,
     CreateFails, MakeLease, LockNew, WriteHeader, LeaseFails, UndoDirectory
<1>5. QED
  BY <1>1, <1>2, <1>3, <1>4 DEF Next, Step

(* What can be recovered goes only under its lock, by its owner or by      *)
(* somebody who was told to take it: RecoverableStays of recovery.rs, for  *)
(* any number of callers.  A sweep that looked under the lease found no    *)
(* manifest, and none came since (SweepsLook).                             *)
THEOREM RecoverableCopiesStay == Spec => RecoverableStays
<1>1. ASSUME IInv, [Next]_vars, NEW r \in manifests \ manifests'
      PROVE  \E a \in Agents : holder[r] = a /\ (owner[r] = a \/ (On(a) = r /\ ~In(a, "create")))
  <2>1. manifests' # manifests
    BY <1>1
  <2>2. Next
    BY <1>1, <2>1 DEF vars
  <2>3. r \in Records
    BY <1>1 DEF IInv, Typed, FilesAreOrdered
  <2>4. ASSUME NEW a \in Agents, RemoveManifest(a)
        PROVE  holder[r] = a /\ On(a) = r /\ ~In(a, "create")
    <3>1. r = call[a].record /\ call[a].at = "manifest"
      BY <1>1, <2>4 DEF RemoveManifest, On, At
    <3>2. QED
      BY <1>1, <3>1 DEF IInv, CallsLock, SweepsLook, Removing, On, In
  <2>5. ASSUME NEW a \in Agents, NEW q \in Records, Clear(a, q)
        PROVE  holder[r] = a /\ owner[r] = a
    <3>1. r = q /\ owner[r] = a
      BY <1>1, <2>5 DEF Clear, Live, Owns
    <3>2. QED
      BY <1>1, <2>3, <3>1 DEF IInv, OwnedIsWhole
  <2>6. ASSUME NEW a \in Agents, RemoveContents(a) \/ UnlinkLease(a) \/ UndoLease(a)
        PROVE  FALSE
    BY <1>1, <2>6 DEF RemoveContents, UnlinkLease, UndoLease
  <2>7. QED
    BY <1>1, <2>2, <2>4, <2>5, <2>6, FilesGo DEF FilesStay
<1>2. IInv /\ [Next]_vars =>
        [\A r \in manifests \ manifests' :
          \E a \in Agents : /\ holder[r] = a
                            /\ owner[r] = a \/ (On(a) = r /\ ~In(a, "create"))]_vars
  BY <1>1
<1>3. QED
  BY <1>2, StoreIsKept, PTL DEF Spec, RecoverableStays

(* A record that is being read stays as it is: ReadIsStill of recovery.rs, *)
(* for any number of callers.  A reader has the shared lock (ListsLock) or *)
(* the lock itself (CallsLock), and who takes a file holds the lock or     *)
(* made the record a moment ago.                                           *)
THEOREM RecordsInReadingAreStill == Spec => ReadIsStill
<1>1. ASSUME IInv, [Next]_vars, NEW r \in Records, NEW a \in Agents,
             On(a) = r, At(a, "held"), r \in manifests, call'[a] = call[a]
      PROVE  r \in manifests' /\ r \in leases' /\ (r \in contents <=> r \in contents')
  <2>1. r \in leases /\ r \in contents /\ r \in headers
    BY <1>1 DEF IInv, FilesAreOrdered
  <2>2. owner[r] = None \/ owner[r] \in Agents
    BY <1>1 DEF IInv, Typed
  <2>3. /\ holder[r] = None \/ holder[r] = a
        /\ owner[r] = None
    <3>1. CASE call[a].of = "list"
      BY <1>1, <2>2, <3>1 DEF IInv, ListsLock, LocksExclude, OwnedIsWhole, On, At
    <3>2. CASE call[a].of # "list"
      BY <1>1, <3>2 DEF IInv, CallsLock, On, At
    <3>3. QED
      BY <3>1, <3>2
  <2>4. ASSUME NEW b \in Agents, RemoveManifest(b) \/ RemoveContents(b) \/ UnlinkLease(b)
        PROVE  call[b].record # r
    <3>1. call[b].at \in Removing
      BY <2>4 DEF RemoveManifest, RemoveContents, UnlinkLease, At, Removing
    <3>2. holder[call[b].record] = b
      BY <1>1, <3>1 DEF IInv, CallsLock
    <3>3. b # a
      BY <1>1, <3>1 DEF At, Removing
    <3>4. QED
      BY <2>3, <3>2, <3>3
  <2>5. ASSUME NEW b \in Agents, UndoLease(b)
        PROVE  call[b].record # r
    BY <1>1, <2>1, <2>5 DEF IInv, MadeByOne, Making, UndoLease, At
  <2>6. ASSUME NEW b \in Agents, NEW q \in Records, Clear(b, q)
        PROVE  q # r
    BY <2>3, <2>6 DEF Clear, Live, Owns
  <2>7. CASE Next
    <3>1. CASE FilesStay
      BY <1>1, <2>1, <3>1 DEF FilesStay
    <3>2. ASSUME NEW b \in Agents, RemoveManifest(b) \/ RemoveContents(b) \/ UnlinkLease(b)
          PROVE  r \in manifests' /\ r \in leases' /\ r \in contents'
      BY <1>1, <2>1, <2>4, <3>2 DEF RemoveManifest, RemoveContents, UnlinkLease, On
    <3>3. ASSUME NEW b \in Agents, UndoLease(b)
          PROVE  r \in manifests' /\ r \in leases' /\ r \in contents'
      BY <1>1, <2>1, <2>5, <3>3 DEF UndoLease, On
    <3>4. ASSUME NEW b \in Agents, NEW q \in Records, Clear(b, q)
          PROVE  r \in manifests' /\ r \in leases' /\ r \in contents'
      BY <1>1, <2>1, <2>6, <3>4 DEF Clear
    <3>5. QED
      BY <2>1, <2>7, <3>1, <3>2, <3>3, <3>4, FilesGo
  <2>8. CASE UNCHANGED vars
    BY <1>1, <2>1, <2>8 DEF vars
  <2>9. QED
    BY <1>1, <2>7, <2>8
<1>2. IInv /\ [Next]_vars =>
        [\A r \in Records, a \in Agents :
          On(a) = r /\ At(a, "held") /\ r \in manifests /\ call'[a] = call[a] =>
             /\ r \in manifests' /\ r \in leases' /\ (r \in contents <=> r \in contents')]_vars
  BY <1>1
<1>3. QED
  BY <1>2, StoreIsKept, PTL DEF Spec, ReadIsStill
---------------------------------------------------------------------------
(* How many records there are                                              *)

\* The steps of a creation that has made its directory.
MakerSteps == Making \cup {"undoDirectory"}

Makers == {a \in Agents : call[a].at \in MakerSteps}

\* A directory that is being made may go again, and its maker make another: it
\* does not count yet.
Lasting == directories \ {call[a].record : a \in Makers}

\* What a sweep has still to look at.
Waiting(a) == (call[a].todo \cup {call[a].record}) \cap Lasting

\* What a sweep will have counted at its end, if nothing of it goes.
Count(a) == call[a].kept + Cardinality(Waiting(a))

\* The creations that will count fewer than so many.
Low(v) == {a \in Agents : call[a].of = "create" /\ Count(a) < v}

\* Whatever number of records goes, down to the limit: the ones that are left, and
\* the ones that those make who then are below the limit, are less than one for
\* each agent above it.
Crowded ==
    \A v \in Nat :
        Limit <= v /\ v <= Cardinality(Lasting) =>
            Cardinality(Low(v)) + Cardinality(Lasting) < v + Cardinality(Agents)

\* A creation that is past its sweep was below the limit, and a directory that is
\* being made is one agent's, and has nothing in it but a lease.
MakersAlone ==
    \A a \in Agents :
        /\ call[a].at \in MakerSteps \cup {"again"} =>
              call[a].of = "create" /\ call[a].kept < Limit /\ call[a].todo = {}
        /\ call[a].at \in MakerSteps =>
              /\ call[a].record \notin headers \cup contents
              /\ \A b \in Agents \ {a} :
                    call[b].at \in MakerSteps => call[b].record # call[a].record
        /\ call[a].at = "undoDirectory" => call[a].record \notin leases
        /\ call[a].at \in Between => call[a].record = None

RoomInv ==
    /\ IsFiniteSet(directories) /\ contents \subseteq directories
    /\ MakersAlone /\ Crowded

(* What counts is finite.                                                  *)
LEMMA LastingIsFinite ==
    ASSUME IsFiniteSet(directories)
    PROVE  /\ IsFiniteSet(Lasting) /\ Cardinality(Lasting) \in Nat
           /\ \A a : IsFiniteSet(Waiting(a)) /\ Cardinality(Waiting(a)) \in Nat
           /\ \A v : IsFiniteSet(Low(v)) /\ Cardinality(Low(v)) \in Nat
<1>1. Lasting \in SUBSET directories
  BY DEF Lasting
<1>2. IsFiniteSet(Lasting) /\ Cardinality(Lasting) \in Nat
  BY <1>1, FS_Subset, FS_CardinalityType
<1>3. ASSUME NEW a
      PROVE  IsFiniteSet(Waiting(a)) /\ Cardinality(Waiting(a)) \in Nat
  <2>1. Waiting(a) \in SUBSET Lasting
    BY DEF Waiting
  <2>2. QED
    BY <1>2, <2>1, FS_Subset, FS_CardinalityType
<1>4. ASSUME NEW v
      PROVE  IsFiniteSet(Low(v)) /\ Cardinality(Low(v)) \in Nat
  <2>1. Low(v) \in SUBSET Agents
    BY DEF Low
  <2>2. QED
    BY <2>1, AgentsAssumption, FS_Subset, FS_CardinalityType
<1>5. QED
  BY <1>2, <1>3, <1>4

(* The same in the next state.                                             *)
LEMMA LastingIsFiniteNext ==
    ASSUME IsFiniteSet(directories')
    PROVE  /\ IsFiniteSet(Lasting') /\ Cardinality(Lasting)' \in Nat
           /\ \A a : IsFiniteSet(Waiting(a)') /\ Cardinality(Waiting(a))' \in Nat
           /\ \A v : IsFiniteSet(Low(v)') /\ Cardinality(Low(v))' \in Nat
<1>1. Lasting' \in SUBSET (directories')
  BY DEF Lasting
<1>2. IsFiniteSet(Lasting') /\ Cardinality(Lasting)' \in Nat
  BY <1>1, FS_Subset, FS_CardinalityType
<1>3. ASSUME NEW a
      PROVE  IsFiniteSet(Waiting(a)') /\ Cardinality(Waiting(a))' \in Nat
  <2>1. Waiting(a)' \in SUBSET (Lasting')
    BY DEF Waiting
  <2>2. QED
    BY <1>2, <2>1, FS_Subset, FS_CardinalityType
<1>4. ASSUME NEW v
      PROVE  IsFiniteSet(Low(v)') /\ Cardinality(Low(v))' \in Nat
  <2>1. Low(v)' \in SUBSET Agents
    BY DEF Low
  <2>2. QED
    BY <2>1, AgentsAssumption, FS_Subset, FS_CardinalityType
<1>5. QED
  BY <1>2, <1>3, <1>4

(* What a sweep will have counted, when one of what it waits for is judged *)
(* or gone.                                                                *)
LEMMA CountMoves ==
    ASSUME IsFiniteSet(directories), IsFiniteSet(directories'), NEW b \in Agents,
           call[b].kept \in Nat, call'[b].kept \in Nat, call'[b].kept >= call[b].kept,
           NEW r, Waiting(b) \ {r} \subseteq Waiting(b)'
    PROVE  /\ Count(b) \in Nat /\ Count(b)' \in Nat /\ Count(b)' + 1 >= Count(b)
           /\ r \notin Waiting(b) \/ call'[b].kept > call[b].kept => Count(b)' >= Count(b)
<1> DEFINE w == Cardinality(Waiting(b))
           x == Cardinality(Waiting(b) \ {r})
           y == Cardinality(Waiting(b)')
<1>1. w \in Nat /\ y \in Nat
  BY LastingIsFinite, LastingIsFiniteNext
<1>2. x = IF r \in Waiting(b) THEN w - 1 ELSE w
  BY LastingIsFinite, FS_RemoveElement
<1>3. x <= y
  BY LastingIsFiniteNext, FS_Subset
<1>4. Count(b) = call[b].kept + w /\ Count(b)' = call'[b].kept + y
  BY DEF Count
<1> HIDE DEF w, x, y
<1>5. QED
  BY <1>1, <1>2, <1>3, <1>4

(* Nothing or one is gone, and no creation will count less than that.      *)
LEMMA CrowdShrinks ==
    ASSUME IsFiniteSet(directories), IsFiniteSet(directories'), Crowded, NEW d \in {0, 1},
           Cardinality(Lasting)' + d = Cardinality(Lasting),
           \A b \in Agents : call'[b].of = "create" =>
              \/ Count(b)' >= Cardinality(Lasting)'
              \/ call[b].of = "create" /\ Count(b)' + d >= Count(b),
           \A b \in Agents : Count(b) \in Nat /\ Count(b)' \in Nat
    PROVE  Crowded'
<1>1. Cardinality(Lasting) \in Nat /\ Cardinality(Lasting)' \in Nat /\ Cardinality(Agents) \in Nat
  BY LastingIsFinite, LastingIsFiniteNext, AgentsAssumption, FS_CardinalityType
<1>2. ASSUME NEW v \in Nat, Limit <= v, v <= Cardinality(Lasting)'
      PROVE  Cardinality(Low(v))' + Cardinality(Lasting)' < v + Cardinality(Agents)
  <2>1. \A b \in Agents : call'[b].of = "create" /\ Count(b)' < v =>
                             call[b].of = "create" /\ Count(b) < v + d
    BY <1>1, <1>2
  <2>2. Low(v)' \in SUBSET Low(v + d)
    BY <2>1 DEF Low
  <2>3. Cardinality(Low(v))' <= Cardinality(Low(v + d))
    BY <2>2, LastingIsFinite, FS_Subset
  <2>4. Limit <= v + d /\ v + d <= Cardinality(Lasting) /\ v + d \in Nat
    BY <1>1, <1>2, BoundsAssumption
  <2>5. Cardinality(Low(v + d)) + Cardinality(Lasting) < v + d + Cardinality(Agents)
    BY <2>4 DEF Crowded
  <2>6. Cardinality(Low(v))' \in Nat /\ Cardinality(Low(v + d)) \in Nat
    BY LastingIsFinite, LastingIsFiniteNext
  <2>7. QED
    BY <1>1, <1>2, <2>3, <2>5, <2>6
<1>3. QED
  BY <1>2 DEF Crowded

(* Who was below the limit leaves a directory, and creates no more.        *)
LEMMA CrowdGrows ==
    ASSUME IsFiniteSet(directories), IsFiniteSet(directories'), Crowded, NEW a \in Agents,
           Cardinality(Lasting)' \in {Cardinality(Lasting), Cardinality(Lasting) + 1},
           call[a].of = "create", Count(a) < Limit, call'[a].of # "create",
           \A b \in Agents : call'[b].of = "create" =>
              call[b].of = "create" /\ Count(b)' >= Count(b),
           \A b \in Agents : Count(b) \in Nat /\ Count(b)' \in Nat
    PROVE  Crowded'
<1>1. Cardinality(Lasting) \in Nat /\ Cardinality(Lasting)' \in Nat /\ Cardinality(Agents) \in Nat
  BY LastingIsFinite, LastingIsFiniteNext, AgentsAssumption, FS_CardinalityType
<1>2. ASSUME NEW v \in Nat, Limit <= v, v <= Cardinality(Lasting)'
      PROVE  Cardinality(Low(v))' + Cardinality(Lasting)' < v + Cardinality(Agents)
  <2>1. Cardinality(Low(v))' \in Nat /\ Cardinality(Low(v)) \in Nat
    BY LastingIsFinite, LastingIsFiniteNext
  <2>2. CASE v <= Cardinality(Lasting)
    <3>1. \A b \in Agents : call'[b].of = "create" /\ Count(b)' < v =>
                               b # a /\ call[b].of = "create" /\ Count(b) < v
      BY <1>1, <1>2
    <3>2. Low(v)' \in SUBSET (Low(v) \ {a})
      BY <3>1 DEF Low
    <3>3. a \in Low(v)
      BY <1>2, BoundsAssumption DEF Low
    <3>4. IsFiniteSet(Low(v) \ {a}) /\ Cardinality(Low(v) \ {a}) = Cardinality(Low(v)) - 1
      BY <3>3, LastingIsFinite, FS_RemoveElement
    <3>5. Cardinality(Low(v))' <= Cardinality(Low(v) \ {a})
      BY <3>2, <3>4, FS_Subset
    <3>6. Cardinality(Low(v)) + Cardinality(Lasting) < v + Cardinality(Agents)
      BY <1>2, <2>2 DEF Crowded
    <3>7. QED
      BY <1>1, <1>2, <2>1, <3>4, <3>5, <3>6
  <2>3. CASE ~(v <= Cardinality(Lasting))
    <3>1. Low(v)' \in SUBSET (Agents \ {a})
      BY DEF Low
    <3>2. IsFiniteSet(Agents \ {a}) /\ Cardinality(Agents \ {a}) = Cardinality(Agents) - 1
      BY AgentsAssumption, FS_RemoveElement
    <3>3. Cardinality(Low(v))' <= Cardinality(Agents \ {a})
      BY <3>1, <3>2, FS_Subset
    <3>4. QED
      BY <1>1, <1>2, <2>1, <2>3, <3>2, <3>3
  <2>4. QED
    BY <2>2, <2>3
<1>3. QED
  BY <1>2 DEF Crowded

\* A call that makes nothing goes on: what its sweep waited for it still waits for,
\* but for the record before it, which is counted or gone.
Lets(a) ==
    /\ call' \in [Agents -> Call]
    /\ \A b \in Agents \ {a} : call'[b] = call[b]
    /\ call[a].at \notin MakerSteps /\ call'[a].at \notin MakerSteps \cup {"again"}
    /\ call'[a].at \in Between => call'[a].record = None
    /\ call'[a].of = "create" =>
          /\ call[a].of = "create" /\ call'[a].kept >= call[a].kept
          /\ call[a].todo \subseteq call'[a].todo \cup {call'[a].record}
          /\ \/ call[a].record \in {call'[a].record, None}
             \/ call[a].record \notin directories'
             \/ call'[a].kept > call[a].kept

(* A call goes to another step.                                            *)
LEMMA GotoLets ==
    ASSUME call \in [Agents -> Call], NEW a \in Agents, NEW step \in Steps, Goto(a, step),
           call[a].at \notin MakerSteps, step \notin MakerSteps \cup Between
    PROVE  Lets(a)
<1>1. /\ [call[a] EXCEPT !.at = step] \in Call
      /\ [call[a] EXCEPT !.at = step].at = step
      /\ [call[a] EXCEPT !.at = step].record = call[a].record
      /\ [call[a] EXCEPT !.at = step].of = call[a].of
      /\ [call[a] EXCEPT !.at = step].todo = call[a].todo
      /\ [call[a] EXCEPT !.at = step].kept = call[a].kept
      /\ call[a].kept \in Nat
  BY DEF Call
<1>2. call' = [call EXCEPT ![a] = [call[a] EXCEPT !.at = step]]
  BY DEF Goto
<1>3. /\ call'[a] = [call[a] EXCEPT !.at = step] /\ call' \in [Agents -> Call]
      /\ \A b \in Agents \ {a} : call'[b] = call[b]
  BY <1>1, <1>2
<1>4. QED
  BY <1>1, <1>3 DEF Lets, Between

(* A call is done with its record, which it counts, or which is gone.      *)
LEMMA DoneLets ==
    ASSUME call \in [Agents -> Call], NEW a \in Agents, NEW n \in Nat, Done(a, n),
           call[a].at \notin MakerSteps,
           call[a].of = "create" => n > 0 \/ call[a].record \notin directories'
    PROVE  Lets(a)
<1>1. call[a].kept \in Nat /\ call[a].kept + n \in Nat
  BY DEF Call
<1>2. ASSUME NEW k \in Nat
      PROVE  /\ [call[a] EXCEPT !.at = "next", !.record = None, !.kept = k] \in Call
             /\ [call[a] EXCEPT !.at = "next", !.record = None, !.kept = k].at = "next"
             /\ [call[a] EXCEPT !.at = "next", !.record = None, !.kept = k].record = None
             /\ [call[a] EXCEPT !.at = "next", !.record = None, !.kept = k].kept = k
             /\ [call[a] EXCEPT !.at = "next", !.record = None, !.kept = k].of = call[a].of
             /\ [call[a] EXCEPT !.at = "next", !.record = None, !.kept = k].todo = call[a].todo
  BY ZenonT(60) DEF Call, Steps
<1>3. PICK k \in Nat :
         /\ k = call[a].kept + n
         /\ call' = [call EXCEPT ![a] = [call[a] EXCEPT !.at = "next", !.record = None, !.kept = k]]
  BY <1>1 DEF Done
<1> DEFINE c == [call[a] EXCEPT !.at = "next", !.record = None, !.kept = k]
<1>c. /\ c \in Call /\ c.at = "next" /\ c.record = None /\ c.kept = k
      /\ c.of = call[a].of /\ c.todo = call[a].todo
  BY <1>2
<1>d. call' = [call EXCEPT ![a] = c]
  BY <1>3
<1> HIDE DEF c
<1>4. /\ call'[a] = c
      /\ call' \in [Agents -> Call] /\ \A b \in Agents \ {a} : call'[b] = call[b]
  BY <1>c, <1>d
<1>5. /\ call'[a].at = "next" /\ call'[a].record = None /\ call'[a].kept = k
      /\ call'[a].of = call[a].of /\ call'[a].todo = call[a].todo
  BY <1>c, <1>4
<1>6. QED
  BY <1>1, <1>3, <1>4, <1>5 DEF Lets, MakerSteps, Making

(* A call has its answer.                                                  *)
LEMMA AnswerLets ==
    ASSUME call \in [Agents -> Call], NEW a \in Agents, Answer(a), call[a].at \notin MakerSteps
    PROVE  Lets(a)
<1>1. Idle \in Call /\ Idle.at = "idle" /\ Idle.of = "none" /\ Idle.record = None
  BY DEF Idle, Call, Steps
<1>2. /\ call'[a] = Idle /\ call' \in [Agents -> Call]
      /\ \A b \in Agents \ {a} : call'[b] = call[b]
  BY <1>1 DEF Answer
<1>3. QED
  BY <1>1, <1>2 DEF Lets, MakerSteps, Making

(* A call leaves its record, whatever it is.                               *)
LEMMA LeaveLets ==
    ASSUME call \in [Agents -> Call], NEW a \in Agents, LeaveRecord(a),
           call[a].at \notin MakerSteps
    PROVE  Lets(a)
<1>1. CASE In(a, "create")
  <2>1. Goto(a, "tally") /\ "tally" \in Steps /\ "tally" \notin MakerSteps \cup Between
    BY <1>1 DEF LeaveRecord, Steps, In, MakerSteps, Making, Between
  <2>2. QED
    BY <2>1, GotoLets
<1>2. CASE In(a, "list")
  <2>1. Done(a, 0) /\ call[a].of # "create"
    BY <1>2 DEF LeaveRecord, In
  <2>2. QED
    BY <2>1, DoneLets
<1>3. CASE ~In(a, "create") /\ ~In(a, "list")
  BY <1>3, AnswerLets DEF LeaveRecord
<1>4. QED
  BY <1>1, <1>2, <1>3

(* A removal that fails is counted by a sweep.                             *)
LEMMA FailsLets ==
    ASSUME call \in [Agents -> Call], NEW a \in Agents, RemovalFails(a),
           call[a].at \notin MakerSteps
    PROVE  Lets(a)
<1>1. CASE In(a, "create")
  <2>1. Done(a, 1)
    BY <1>1 DEF RemovalFails
  <2>2. QED
    BY <2>1, DoneLets
<1>2. CASE ~In(a, "create")
  BY <1>2, AnswerLets DEF RemovalFails
<1>3. QED
  BY <1>1, <1>2

(* A call that is no creation starts.                                      *)
LEMMA StartLets ==
    ASSUME call \in [Agents -> Call], NEW a \in Agents,
           NEW of \in {"list", "claim", "delete", "retire"},
           NEW record \in Records \cup {None}, NEW todo \in SUBSET Records, NEW step \in Steps,
           Start(a, of, record, todo, step), step \notin MakerSteps \cup {"again"},
           step \in Between => record = None
    PROVE  Lets(a)
<1> DEFINE c == [Idle EXCEPT !.of = of, !.record = record, !.todo = todo, !.at = step]
<1>0. c \in Call /\ c.at = step /\ c.record = record /\ c.of = of
  BY DEF Idle, Call
<1>d. call' = [call EXCEPT ![a] = c]
  BY DEF Start
<1> HIDE DEF c
<1>1. /\ call' \in [Agents -> Call] /\ \A b \in Agents \ {a} : call'[b] = call[b]
      /\ call'[a].at = step /\ call'[a].record = record /\ call'[a].of = of
  BY <1>0, <1>d
<1>2. call[a].at = "idle"
  BY DEF Start, At
<1>3. QED
  BY <1>1, <1>2 DEF Lets, MakerSteps, Making

(* What no making call does keeps the count: no directory is made, one may *)
(* go, and no file comes into one that is being made.                      *)
LEMMA PassingStep ==
    ASSUME IInv, RoomInv, NEW a \in Agents, Lets(a),
           directories' \in {directories, directories \ {call[a].record}},
           headers' = headers, leases' \subseteq leases, contents' \subseteq contents,
           contents' \subseteq directories'
    PROVE  RoomInv'
<1>0. /\ call \in [Agents -> Call] /\ call' \in [Agents -> Call]
      /\ \A b \in Agents : call[b].kept \in Nat /\ call'[b].kept \in Nat
  BY DEF IInv, Typed, Lets, Call
<1> DEFINE r == call[a].record
<1>r. directories' \in {directories, directories \ {r}}
  OBVIOUS
<1> HIDE DEF r
<1>1. IsFiniteSet(directories) /\ IsFiniteSet(directories')
  <2>1. directories' \in SUBSET directories
    BY <1>r
  <2>2. QED
    BY <2>1, FS_Subset DEF RoomInv
<1>2. MakersAlone'
  <2>1. \A b \in Agents : call'[b].at \in MakerSteps => b # a /\ call'[b] = call[b]
    BY DEF Lets
  <2>2. ASSUME NEW b \in Agents
        PROVE  /\ call'[b].at \in MakerSteps \cup {"again"} =>
                     call'[b].of = "create" /\ call'[b].kept < Limit /\ call'[b].todo = {}
               /\ call'[b].at = "undoDirectory" => call'[b].record \notin leases'
               /\ call'[b].at \in Between => call'[b].record = None
    BY <2>1 DEF Lets, RoomInv, MakersAlone, MakerSteps
  <2>3. ASSUME NEW b \in Agents, call'[b].at \in MakerSteps
        PROVE  /\ call'[b].record \notin headers' \cup contents'
               /\ \A c \in Agents \ {b} :
                     call'[c].at \in MakerSteps => call'[c].record # call'[b].record
    BY <2>1, <2>3 DEF RoomInv, MakersAlone
  <2>4. QED
    BY <2>2, <2>3 DEF MakersAlone
<1>3. Makers' = Makers /\ \A b \in Makers : call'[b] = call[b]
  BY DEF Lets, Makers
<1>4. Lasting' = Lasting \cap directories'
  BY <1>3 DEF Lasting
<1>5. PICK d \in {0, 1} : /\ Cardinality(Lasting)' + d = Cardinality(Lasting)
                          /\ d = 0 => Lasting' = Lasting
  <2>1. Lasting' = Lasting \/ (r \in Lasting /\ Lasting' = Lasting \ {r})
    BY <1>r, <1>4 DEF Lasting
  <2>2. Cardinality(Lasting) \in Nat
    BY <1>1, LastingIsFinite
  <2>3. CASE Lasting' = Lasting
    BY <2>2, <2>3
  <2>4. CASE r \in Lasting /\ Lasting' = Lasting \ {r}
    <3>1. Cardinality(Lasting \ {r}) = Cardinality(Lasting) - 1
      BY <1>1, <2>4, LastingIsFinite, FS_RemoveElement
    <3>2. QED
      BY <2>2, <2>4, <3>1
  <2>5. QED
    BY <2>1, <2>3, <2>4
<1>6. ASSUME NEW b \in Agents \ {a}
      PROVE  Count(b) \in Nat /\ Count(b)' \in Nat /\ Count(b)' + d >= Count(b)
  <2>1. call'[b] = call[b]
    BY DEF Lets
  <2>2. Waiting(b) \ {r} \subseteq Waiting(b)' /\ (d = 0 => Waiting(b)' = Waiting(b))
    BY <1>r, <1>4, <1>5, <2>1 DEF Waiting, Lasting
  <2>3. call'[b].kept >= call[b].kept
    BY <1>0, <2>1
  <2>4. Count(b) \in Nat /\ Count(b)' \in Nat /\ Count(b)' + 1 >= Count(b)
    BY <1>0, <1>1, <2>2, <2>3, CountMoves
  <2>5. d = 0 => Count(b)' = Count(b)
    BY <2>1, <2>2 DEF Count
  <2>6. QED
    BY <1>5, <2>4, <2>5
<1>7. Count(a) \in Nat /\ Count(a)' \in Nat
  BY <1>0, <1>1, LastingIsFinite, LastingIsFiniteNext DEF Count
<1>8. ASSUME call'[a].of = "create"
      PROVE  call[a].of = "create" /\ Count(a)' + d >= Count(a)
  <2>1. /\ call[a].of = "create" /\ call'[a].kept >= call[a].kept
        /\ call[a].todo \subseteq call'[a].todo \cup {call'[a].record}
        /\ r \in {call'[a].record, None} \/ r \notin directories' \/ call'[a].kept > call[a].kept
    BY <1>8 DEF Lets, r
  <2>2. Waiting(a) \ {r} \subseteq Waiting(a)'
    BY <1>r, <1>4, <2>1 DEF Waiting, Lasting, r
  <2>3. /\ Count(a)' + 1 >= Count(a)
        /\ r \notin Waiting(a) \/ call'[a].kept > call[a].kept => Count(a)' >= Count(a)
    BY <1>0, <1>1, <2>1, <2>2, CountMoves
  <2>4. CASE d = 1
    BY <2>1, <2>3, <2>4
  <2>5. CASE d = 0
    <3>1. Lasting' = Lasting
      BY <1>5, <2>5
    <3>2. None \notin Waiting(a)
      BY NoneAssumption DEF Waiting, Lasting, IInv, Typed
    <3>3. CASE r = call'[a].record
      <4>1. Waiting(a) \ {None} \subseteq Waiting(a)'
        BY <2>2, <3>1, <3>3 DEF Waiting
      <4>2. Count(a)' >= Count(a)
        BY <1>0, <1>1, <2>1, <3>2, <4>1, CountMoves
      <4>3. QED
        BY <1>7, <2>1, <2>5, <4>2
    <3>4. CASE r = None \/ r \notin directories'
      <4>1. r \notin Waiting(a)
        BY <1>4, <3>1, <3>2, <3>4 DEF Waiting
      <4>2. QED
        BY <1>7, <2>1, <2>3, <2>5, <4>1
    <3>5. CASE call'[a].kept > call[a].kept
      BY <1>7, <2>1, <2>3, <2>5, <3>5
    <3>6. QED
      BY <2>1, <3>3, <3>4, <3>5
  <2>6. QED
    BY <2>4, <2>5
<1>9. Crowded'
  <2>1. \A b \in Agents : Count(b) \in Nat /\ Count(b)' \in Nat
    BY <1>6, <1>7
  <2>2. ASSUME NEW b \in Agents, call'[b].of = "create"
        PROVE  call[b].of = "create" /\ Count(b)' + d >= Count(b)
    BY <1>6, <1>8, <2>2 DEF Lets
  <2>3. Crowded
    BY DEF RoomInv
  <2>4. Cardinality(Lasting)' + d = Cardinality(Lasting)
    BY <1>5
  <2>5. QED
    BY <1>1, <2>1, <2>2, <2>3, <2>4, CrowdShrinks
<1>10. QED
  BY <1>1, <1>2, <1>9 DEF RoomInv

(* The counts of the creations that a step leaves alone are numbers.       *)
LEMMA CountsAreNumbers ==
    ASSUME IsFiniteSet(directories), IsFiniteSet(directories'),
           call \in [Agents -> Call], call' \in [Agents -> Call]
    PROVE  \A b \in Agents : Count(b) \in Nat /\ Count(b)' \in Nat
<1>1. \A b \in Agents : call[b].kept \in Nat /\ call'[b].kept \in Nat
  BY DEF Call
<1>2. QED
  BY <1>1, LastingIsFinite, LastingIsFiniteNext DEF Count

(* An owned record is copied, published, cleared, kept or taken over.      *)
LEMMA OwnedStep ==
    ASSUME IInv, RoomInv, UNCHANGED <<directories, call, headers, leases>>,
           contents' \subseteq contents \cup (directories \cap headers)
    PROVE  RoomInv'
<1>1. MakersAlone'
  BY DEF RoomInv, MakersAlone
<1>2. Crowded'
  BY DEF RoomInv, Crowded, Low, Count, Waiting, Lasting, Makers
<1>3. QED
  BY <1>1, <1>2 DEF RoomInv

(* What Goto leaves alone.                                                 *)
LEMMA GotoLeaves ==
    ASSUME call \in [Agents -> Call], NEW a \in Agents, NEW step \in Steps, Goto(a, step)
    PROVE  /\ call' \in [Agents -> Call] /\ \A b \in Agents \ {a} : call'[b] = call[b]
           /\ call'[a].at = step /\ call'[a].record = call[a].record
           /\ call'[a].of = call[a].of /\ call'[a].todo = call[a].todo
           /\ call'[a].kept = call[a].kept
<1>1. /\ [call[a] EXCEPT !.at = step] \in Call
      /\ [call[a] EXCEPT !.at = step].at = step
      /\ [call[a] EXCEPT !.at = step].record = call[a].record
      /\ [call[a] EXCEPT !.at = step].of = call[a].of
      /\ [call[a] EXCEPT !.at = step].todo = call[a].todo
      /\ [call[a] EXCEPT !.at = step].kept = call[a].kept
  BY DEF Call
<1>2. call' = [call EXCEPT ![a] = [call[a] EXCEPT !.at = step]]
  BY DEF Goto
<1>3. /\ call'[a] = [call[a] EXCEPT !.at = step] /\ call' \in [Agents -> Call]
      /\ \A b \in Agents \ {a} : call'[b] = call[b]
  BY <1>1, <1>2
<1>4. QED
  BY <1>1, <1>3

(* A directory that is being made goes through its lease.                  *)
LEMMA MakerStep ==
    ASSUME IInv, RoomInv, NEW a \in Agents, NEW step \in MakerSteps, Goto(a, step),
           call[a].at \in MakerSteps, UNCHANGED <<directories, headers, contents>>,
           leases' \subseteq leases \cup {call[a].record},
           step = "undoDirectory" => call[a].record \notin leases'
    PROVE  RoomInv'
<1>0. call \in [Agents -> Call] /\ step \in Steps
  BY DEF IInv, Typed, MakerSteps, Making, Steps
<1>1. /\ call' \in [Agents -> Call] /\ \A b \in Agents \ {a} : call'[b] = call[b]
      /\ call'[a].at = step /\ call'[a].record = call[a].record
      /\ call'[a].of = call[a].of /\ call'[a].todo = call[a].todo
      /\ call'[a].kept = call[a].kept
  BY <1>0, GotoLeaves
<1>2. Makers' = Makers /\ \A b \in Agents : call'[b].record = call[b].record
  BY <1>1 DEF Makers
<1>3. Lasting' = Lasting
  <2>1. \A b \in Makers : call'[b].record = call[b].record
    BY <1>2 DEF Makers
  <2>2. {call'[b].record : b \in Makers'} = {call[b].record : b \in Makers}
    BY <1>2, <2>1
  <2>3. QED
    BY <2>2 DEF Lasting
<1>4. \A b \in Agents : /\ call'[b].of = call[b].of /\ call'[b].todo = call[b].todo
                        /\ call'[b].kept = call[b].kept
  BY <1>1
<1>5. \A b \in Agents : Waiting(b)' = Waiting(b)
  BY <1>2, <1>3, <1>4 DEF Waiting
<1>6. \A b \in Agents : Count(b)' = Count(b)
  BY <1>4, <1>5 DEF Count
<1>7. \A v \in Nat : Low(v)' = Low(v)
  BY <1>4, <1>6 DEF Low
<1>8. Crowded'
  BY <1>3, <1>7 DEF RoomInv, Crowded
<1>9. MakersAlone'
  <2>1. ASSUME NEW b \in Agents
        PROVE  /\ call'[b].at \in MakerSteps \cup {"again"} =>
                     call'[b].of = "create" /\ call'[b].kept < Limit /\ call'[b].todo = {}
               /\ call'[b].at \in Between => call'[b].record = None
    BY <1>1 DEF RoomInv, MakersAlone, MakerSteps, Making, Between
  <2>2. ASSUME NEW b \in Agents, call'[b].at \in MakerSteps
        PROVE  /\ call'[b].record \notin headers' \cup contents'
               /\ \A c \in Agents \ {b} :
                     call'[c].at \in MakerSteps => call'[c].record # call'[b].record
    BY <1>1, <2>2 DEF RoomInv, MakersAlone
  <2>3. ASSUME NEW b \in Agents, call'[b].at = "undoDirectory"
        PROVE  call'[b].record \notin leases'
    BY <1>1, <2>3 DEF RoomInv, MakersAlone, MakerSteps
  <2>4. QED
    BY <2>1, <2>2, <2>3 DEF MakersAlone
<1>10. QED
  BY <1>8, <1>9 DEF RoomInv

(* A sweep starts: it will look at all there is.                           *)
LEMMA StartCreateStep ==
    ASSUME IInv, RoomInv, NEW a \in Agents, StartCreate(a)
    PROVE  RoomInv'
<1> DEFINE c == [Idle EXCEPT !.of = "create", !.record = None, !.todo = directories, !.at = "next"]
<1>0. /\ call \in [Agents -> Call] /\ directories \subseteq Records
      /\ call[a].at = "idle" /\ UNCHANGED <<directories, headers, contents, leases>>
  BY DEF IInv, Typed, StartCreate, Start, At, files
<1>1. c \in Call /\ c.at = "next" /\ c.record = None /\ c.todo = directories /\ c.kept = 0
  BY <1>0 DEF Idle, Call, Steps
<1>2. call' = [call EXCEPT ![a] = c]
  BY DEF StartCreate, Start
<1> HIDE DEF c
<1>3. /\ call' \in [Agents -> Call] /\ call'[a] = c
      /\ \A b \in Agents \ {a} : call'[b] = call[b]
  BY <1>0, <1>1, <1>2
<1>4. Makers' = Makers /\ a \notin Makers
  BY <1>0, <1>1, <1>3 DEF Makers, MakerSteps, Making
<1>5. Lasting' = Lasting
  <2>1. \A b \in Makers : call'[b].record = call[b].record
    BY <1>3, <1>4 DEF Makers
  <2>2. {call'[b].record : b \in Makers'} = {call[b].record : b \in Makers}
    BY <1>4, <2>1
  <2>3. QED
    BY <1>0, <2>2 DEF Lasting
<1>6. Waiting(a)' = Lasting'
  BY <1>0, <1>1, <1>3, <1>5 DEF Waiting, Lasting
<1>7. IsFiniteSet(directories) /\ IsFiniteSet(directories') /\ Crowded
  BY <1>0 DEF RoomInv
<1>8. Cardinality(Lasting)' \in Nat /\ Cardinality(Lasting)' = Cardinality(Lasting)
  BY <1>5, <1>7, LastingIsFiniteNext
<1>9. Count(a)' = Cardinality(Lasting)'
  BY <1>1, <1>3, <1>6, <1>8 DEF Count
<1>10. \A b \in Agents : Count(b) \in Nat /\ Count(b)' \in Nat
  BY <1>0, <1>3, <1>7, CountsAreNumbers
<1>11. ASSUME NEW b \in Agents, call'[b].of = "create"
       PROVE  \/ Count(b)' >= Cardinality(Lasting)'
              \/ call[b].of = "create" /\ Count(b)' + 0 >= Count(b)
  <2>1. CASE b = a
    BY <1>8, <1>9, <2>1
  <2>2. CASE b # a
    <3>1. call'[b] = call[b] /\ Waiting(b)' = Waiting(b)
      BY <1>3, <1>5, <2>2 DEF Waiting
    <3>2. Count(b)' = Count(b)
      BY <3>1 DEF Count
    <3>3. QED
      BY <1>10, <1>11, <3>1, <3>2
  <2>3. QED
    BY <2>1, <2>2
<1>12. Crowded'
  <2>1. 0 \in {0, 1} /\ Cardinality(Lasting)' + 0 = Cardinality(Lasting)
    BY <1>8
  <2>2. QED
    BY <1>7, <1>10, <1>11, <2>1, CrowdShrinks
<1>13. MakersAlone'
  <2>1. \A b \in Agents : call'[b].at \in MakerSteps \cup {"again"} => b # a
    BY <1>1, <1>3 DEF MakerSteps, Making
  <2>2. ASSUME NEW b \in Agents
        PROVE  /\ call'[b].at \in MakerSteps \cup {"again"} =>
                     call'[b].of = "create" /\ call'[b].kept < Limit /\ call'[b].todo = {}
               /\ call'[b].at = "undoDirectory" => call'[b].record \notin leases'
               /\ call'[b].at \in Between => call'[b].record = None
    BY <1>0, <1>1, <1>3, <2>1 DEF RoomInv, MakersAlone, MakerSteps
  <2>3. ASSUME NEW b \in Agents, call'[b].at \in MakerSteps
        PROVE  /\ call'[b].record \notin headers' \cup contents'
               /\ \A d \in Agents \ {b} :
                     call'[d].at \in MakerSteps => call'[d].record # call'[b].record
    BY <1>0, <1>3, <2>1, <2>3 DEF RoomInv, MakersAlone
  <2>4. QED
    BY <2>2, <2>3 DEF MakersAlone
<1>14. QED
  BY <1>0, <1>7, <1>12, <1>13 DEF RoomInv

(* A directory is made, under a name nobody refers to: it does not last    *)
(* yet, and its maker stays below the limit.                               *)
LEMMA MakeDirectoryStep ==
    ASSUME IInv, RoomInv, NEW a \in Agents, MakeDirectory(a)
    PROVE  RoomInv'
<1>0. /\ call \in [Agents -> Call] /\ directories \subseteq Records
      /\ UNCHANGED <<leases, contents>>
  BY DEF IInv, Typed, MakeDirectory
<1>1. PICK r \in Records :
         /\ r \notin directories /\ \A b \in Agents : call[b].record # r
         /\ directories' = directories \cup {r} /\ headers' = headers \ {r}
         /\ call' = [call EXCEPT ![a] = [call[a] EXCEPT !.record = r, !.at = "makeLease"]]
  <2>1. PICK r \in Records :
           /\ New(r) /\ directories' = directories \cup {r} /\ headers' = headers \ {r}
           /\ call' = [call EXCEPT ![a].record = r, ![a].at = "makeLease"]
    BY DEF MakeDirectory
  <2>2. r \notin directories /\ \A b \in Agents : call[b].record # r
    BY <2>1 DEF New, On
  <2>3. QED
    BY <2>1, <2>2
<1>2. /\ call[a].of = "create" /\ call[a].kept < Limit /\ call[a].todo = {}
      /\ call[a].at \in {"next", "again"} /\ call[a].record = None
  BY DEF MakeDirectory, SweepEnds, At, In, RoomInv, MakersAlone, Between
<1> DEFINE c == [call[a] EXCEPT !.record = r, !.at = "makeLease"]
<1>3. /\ c \in Call /\ c.at = "makeLease" /\ c.record = r /\ c.of = call[a].of
      /\ c.todo = call[a].todo /\ c.kept = call[a].kept
  BY ZenonT(60), <1>0 DEF Call, Steps
<1> HIDE DEF c
<1>4. /\ call' \in [Agents -> Call] /\ call'[a] = c
      /\ \A b \in Agents \ {a} : call'[b] = call[b]
  BY <1>0, <1>1, <1>3 DEF c
<1>5. a \notin Makers /\ Makers' = Makers \cup {a}
  BY <1>2, <1>3, <1>4 DEF Makers, MakerSteps, Making
<1>6. Lasting' = Lasting
  <2>1. \A b \in Makers : call'[b].record = call[b].record
    BY <1>4, <1>5 DEF Makers
  <2>2. {call'[b].record : b \in Makers'} = {call[b].record : b \in Makers} \cup {r}
    BY <1>3, <1>4, <1>5, <2>1
  <2>3. QED
    BY <1>1, <2>2 DEF Lasting
<1>7. IsFiniteSet(directories) /\ IsFiniteSet(directories') /\ Crowded
  BY <1>1, FS_AddElement DEF RoomInv
<1>8. \A b \in Agents : Waiting(b)' = Waiting(b)
  <2>1. ASSUME NEW b \in Agents \ {a}
        PROVE  Waiting(b)' = Waiting(b)
    BY <1>4, <1>6 DEF Waiting
  <2>2. Waiting(a) = {} /\ Waiting(a)' = {}
    BY <1>0, <1>1, <1>2, <1>3, <1>4, <1>6, NoneAssumption DEF Waiting, Lasting
  <2>3. QED
    BY <2>1, <2>2
<1>9. \A b \in Agents : call'[b].of = call[b].of /\ call'[b].kept = call[b].kept
  BY <1>3, <1>4
<1>10. \A b \in Agents : Count(b)' = Count(b)
  BY <1>8, <1>9 DEF Count
<1>11. \A v \in Nat : Low(v)' = Low(v)
  BY <1>9, <1>10 DEF Low
<1>12. Crowded'
  BY <1>6, <1>7, <1>11 DEF Crowded
<1>13. MakersAlone'
  <2>1. ASSUME NEW b \in Agents
        PROVE  /\ call'[b].at \in MakerSteps \cup {"again"} =>
                     call'[b].of = "create" /\ call'[b].kept < Limit /\ call'[b].todo = {}
               /\ call'[b].at \in Between => call'[b].record = None
    BY <1>2, <1>3, <1>4 DEF RoomInv, MakersAlone, Between
  <2>2. ASSUME NEW b \in Agents, call'[b].at \in MakerSteps
        PROVE  /\ call'[b].record \notin headers' \cup contents'
               /\ \A d \in Agents \ {b} :
                     call'[d].at \in MakerSteps => call'[d].record # call'[b].record
    BY <1>0, <1>1, <1>3, <1>4, <2>2 DEF RoomInv, MakersAlone
  <2>3. ASSUME NEW b \in Agents, call'[b].at = "undoDirectory"
        PROVE  call'[b].record \notin leases'
    BY <1>0, <1>3, <1>4, <2>3 DEF RoomInv, MakersAlone
  <2>4. QED
    BY <2>1, <2>2, <2>3 DEF MakersAlone
<1>14. contents' \subseteq directories'
  BY <1>0, <1>1 DEF RoomInv
<1>15. QED
  BY <1>7, <1>12, <1>13, <1>14 DEF RoomInv

(* Who makes a directory leaves it, made or not, and creates no more.      *)
LEMMA MakerLeaves ==
    ASSUME IInv, RoomInv, NEW a \in Agents, call[a].at \in MakerSteps,
           call' \in [Agents -> Call], \A b \in Agents \ {a} : call'[b] = call[b],
           call'[a] = Idle, UNCHANGED <<directories, leases, contents>>,
           headers' \subseteq headers \cup {call[a].record}
    PROVE  RoomInv'
<1>0. call \in [Agents -> Call]
  BY DEF IInv, Typed
<1>1. /\ call[a].of = "create" /\ call[a].kept < Limit /\ call[a].todo = {}
      /\ call[a].kept \in Nat
  BY <1>0 DEF RoomInv, MakersAlone, Call
<1>2. call'[a].at = "idle" /\ call'[a].of = "none" /\ call'[a].record = None
  BY DEF Idle
<1>3. a \in Makers /\ Makers' = Makers \ {a}
  BY <1>2 DEF Makers, MakerSteps, Making
<1>4. PICK r : r = call[a].record
  OBVIOUS
<1>5. r \notin Lasting
  BY <1>3, <1>4 DEF Lasting
<1>6. Lasting' \in {Lasting, Lasting \cup {r}}
  <2>1. \A b \in Makers' : call'[b].record = call[b].record
    BY <1>3 DEF Makers
  <2>2. {call'[b].record : b \in Makers'} = {call[b].record : b \in Makers \ {a}}
    BY <1>3, <2>1
  <2>3. {call[b].record : b \in Makers} = {call[b].record : b \in Makers \ {a}} \cup {r}
    BY <1>3, <1>4
  <2> DEFINE x == {call[b].record : b \in Makers \ {a}}
  <2>4. Lasting' = directories \ x /\ Lasting = directories \ (x \cup {r})
    BY <2>2, <2>3 DEF Lasting
  <2> HIDE DEF x
  <2>5. CASE r \in directories \ x
    BY <2>4, <2>5
  <2>6. CASE r \notin directories \ x
    BY <2>4, <2>6
  <2>7. QED
    BY <2>5, <2>6
<1>7. IsFiniteSet(directories) /\ IsFiniteSet(directories') /\ Crowded
  BY DEF RoomInv
<1>8. Cardinality(Lasting)' \in {Cardinality(Lasting), Cardinality(Lasting) + 1}
  BY <1>5, <1>6, <1>7, LastingIsFinite, FS_AddElement
<1>9. \A b \in Agents : Count(b) \in Nat /\ Count(b)' \in Nat
  BY <1>0, <1>7, CountsAreNumbers
<1>10. Count(a) < Limit
  <2>1. Waiting(a) = {}
    BY <1>1, <1>4, <1>5 DEF Waiting
  <2>2. Cardinality(Waiting(a)) = 0
    BY <2>1, FS_EmptySet
  <2>3. QED
    BY <1>1, <2>2 DEF Count
<1>11. ASSUME NEW b \in Agents, call'[b].of = "create"
       PROVE  call[b].of = "create" /\ Count(b)' >= Count(b)
  <2>1. b # a
    BY <1>2, <1>11
  <2>2. call'[b] = call[b] /\ call[b].kept \in Nat
    BY <1>0, <2>1 DEF Call
  <2>3. Waiting(b) \in SUBSET (Waiting(b)')
    BY <1>6, <2>2 DEF Waiting
  <2>4. Cardinality(Waiting(b)) <= Cardinality(Waiting(b)')
    BY <1>7, <2>3, LastingIsFiniteNext, FS_Subset
  <2>5. Cardinality(Waiting(b)) \in Nat /\ Cardinality(Waiting(b)') \in Nat
    BY <1>7, LastingIsFinite, LastingIsFiniteNext
  <2>6. Count(b) = call[b].kept + Cardinality(Waiting(b))
    BY DEF Count
  <2>7. Count(b)' = call'[b].kept + Cardinality(Waiting(b)')
    BY DEF Count
  <2>8. QED
    BY <1>11, <2>2, <2>4, <2>5, <2>6, <2>7
<1>12. Crowded'
  <2>1. call'[a].of # "create"
    BY <1>2
  <2>2. QED
    BY <1>1, <1>7, <1>8, <1>9, <1>10, <1>11, <2>1, CrowdGrows
<1>13. MakersAlone'
  <2>1. ASSUME NEW b \in Agents
        PROVE  /\ call'[b].at \in MakerSteps \cup {"again"} =>
                     call'[b].of = "create" /\ call'[b].kept < Limit /\ call'[b].todo = {}
               /\ call'[b].at \in Between => call'[b].record = None
    BY <1>2 DEF RoomInv, MakersAlone, MakerSteps, Making
  <2>2. ASSUME NEW b \in Agents, call'[b].at \in MakerSteps
        PROVE  /\ call'[b].record \notin headers' \cup contents'
               /\ \A d \in Agents \ {b} :
                     call'[d].at \in MakerSteps => call'[d].record # call'[b].record
    <3>1. b # a /\ call'[b] = call[b]
      BY <1>2, <2>2 DEF MakerSteps, Making
    <3>2. call[b].record # call[a].record /\ call[b].record \notin headers \cup contents
      BY <2>2, <3>1 DEF RoomInv, MakersAlone
    <3>3. \A d \in Agents \ {b} : call'[d].at \in MakerSteps => d # a /\ call'[d] = call[d]
      BY <1>2 DEF MakerSteps, Making
    <3>4. QED
      BY <2>2, <3>1, <3>2, <3>3 DEF RoomInv, MakersAlone
  <2>3. ASSUME NEW b \in Agents, call'[b].at = "undoDirectory"
        PROVE  call'[b].record \notin leases'
    BY <1>2, <2>3 DEF RoomInv, MakersAlone
  <2>4. QED
    BY <2>1, <2>2, <2>3 DEF MakersAlone
<1>14. QED
  BY <1>7, <1>12, <1>13 DEF RoomInv

(* A directory that could not be made a record goes again, unless a sweep  *)
(* took it before.                                                         *)
LEMMA UndoDirectoryStep ==
    ASSUME IInv, RoomInv, NEW a \in Agents, UndoDirectory(a)
    PROVE  RoomInv'
<1>0. /\ call \in [Agents -> Call] /\ UNCHANGED <<leases, headers, contents>>
      /\ call[a].at = "undoDirectory" /\ manifests \subseteq contents
  BY DEF IInv, Typed, UndoDirectory, At, FilesAreOrdered
<1>1. /\ call[a].of = "create" /\ call[a].kept < Limit /\ call[a].todo = {}
      /\ call[a].record \notin leases \cup manifests \cup contents
  BY <1>0 DEF RoomInv, MakersAlone, MakerSteps
<1>2. PICK r : r = call[a].record
  OBVIOUS
<1>3. directories' = directories \ {r}
  BY <1>1, <1>2 DEF UndoDirectory, On
<1>4. PICK n \in Nat : call' = [call EXCEPT ![a] = [call[a] EXCEPT !.tries = n, !.record = None,
                                                                   !.at = "again"]]
  <2>1. call[a].tries + 1 \in Nat
    BY <1>0 DEF Call
  <2>2. QED
    BY <2>1 DEF UndoDirectory
<1> DEFINE c == [call[a] EXCEPT !.tries = n, !.record = None, !.at = "again"]
<1>5. /\ c \in Call /\ c.at = "again" /\ c.record = None /\ c.of = call[a].of
      /\ c.todo = call[a].todo /\ c.kept = call[a].kept
  BY ZenonT(60), <1>0 DEF Call, Steps
<1> HIDE DEF c
<1>6. /\ call' \in [Agents -> Call] /\ call'[a] = c
      /\ \A b \in Agents \ {a} : call'[b] = call[b]
  BY <1>0, <1>4, <1>5 DEF c
<1>7. a \in Makers /\ Makers' = Makers \ {a}
  BY <1>0, <1>5, <1>6 DEF Makers, MakerSteps, Making
<1>8. Lasting' = Lasting
  <2>1. \A b \in Makers' : call'[b].record = call[b].record
    BY <1>6, <1>7 DEF Makers
  <2>2. {call'[b].record : b \in Makers'} = {call[b].record : b \in Makers \ {a}}
    BY <1>7, <2>1
  <2>3. {call[b].record : b \in Makers} = {call[b].record : b \in Makers \ {a}} \cup {r}
    BY <1>2, <1>7
  <2>4. QED
    BY <1>3, <2>2, <2>3 DEF Lasting
<1>9. IsFiniteSet(directories) /\ IsFiniteSet(directories') /\ Crowded
  BY <1>3, FS_RemoveElement DEF RoomInv
<1>10. \A b \in Agents : Waiting(b)' = Waiting(b)
  <2>1. ASSUME NEW b \in Agents \ {a}
        PROVE  Waiting(b)' = Waiting(b)
    BY <1>6, <1>8 DEF Waiting
  <2>2. None \notin Lasting /\ r \notin Lasting
    BY <1>2, <1>7, NoneAssumption DEF Lasting, IInv, Typed
  <2>3. Waiting(a) = {} /\ Waiting(a)' = {}
    BY <1>1, <1>2, <1>5, <1>6, <1>8, <2>2 DEF Waiting
  <2>4. QED
    BY <2>1, <2>3
<1>11. \A b \in Agents : call'[b].of = call[b].of /\ call'[b].kept = call[b].kept
  BY <1>5, <1>6
<1>12. \A b \in Agents : Count(b)' = Count(b)
  BY <1>10, <1>11 DEF Count
<1>13. \A v \in Nat : Low(v)' = Low(v)
  BY <1>11, <1>12 DEF Low
<1>14. Crowded'
  BY <1>8, <1>9, <1>13 DEF Crowded
<1>15. MakersAlone'
  <2>1. ASSUME NEW b \in Agents
        PROVE  /\ call'[b].at \in MakerSteps \cup {"again"} =>
                     call'[b].of = "create" /\ call'[b].kept < Limit /\ call'[b].todo = {}
               /\ call'[b].at \in Between => call'[b].record = None
    BY <1>1, <1>5, <1>6 DEF RoomInv, MakersAlone, Between
  <2>2. ASSUME NEW b \in Agents, call'[b].at \in MakerSteps
        PROVE  /\ call'[b].record \notin headers' \cup contents'
               /\ \A d \in Agents \ {b} :
                     call'[d].at \in MakerSteps => call'[d].record # call'[b].record
    <3>1. \A d \in Agents : call'[d].at \in MakerSteps => d # a /\ call'[d] = call[d]
      BY <1>5, <1>6 DEF MakerSteps, Making
    <3>2. QED
      BY <1>0, <2>2, <3>1 DEF RoomInv, MakersAlone
  <2>3. ASSUME NEW b \in Agents, call'[b].at = "undoDirectory"
        PROVE  call'[b].record \notin leases'
    BY <1>0, <1>5, <1>6, <2>3 DEF RoomInv, MakersAlone
  <2>4. QED
    BY <2>1, <2>2, <2>3 DEF MakersAlone
<1>16. contents' \subseteq directories'
  BY <1>0, <1>1, <1>2, <1>3 DEF RoomInv
<1>17. QED
  BY <1>9, <1>14, <1>15, <1>16 DEF RoomInv

(* The next record of a sweep comes from what the sweep waits for.         *)
LEMMA NextLets ==
    ASSUME IInv, RoomInv, NEW a \in Agents, NextRecord(a)
    PROVE  Lets(a)
<1>0. call \in [Agents -> Call] /\ call[a].at = "next" /\ call[a].record = None
  BY DEF IInv, Typed, NextRecord, At, RoomInv, MakersAlone, Between
<1>1. PICK r \in call[a].todo, step \in {"tally", "open"}, left \in SUBSET Records :
         /\ left = call[a].todo \ {r}
         /\ call' = [call EXCEPT ![a] = [call[a] EXCEPT !.record = r, !.todo = left, !.at = step]]
  <2>1. PICK r \in call[a].todo :
           call' = [call EXCEPT ![a].record = r, ![a].todo = @ \ {r},
                                ![a].at = IF In(a, "create") /\ r \in manifests THEN "tally"
                                          ELSE "open"]
    BY DEF NextRecord
  <2>2. PICK step \in {"tally", "open"} :
           step = IF In(a, "create") /\ r \in manifests THEN "tally" ELSE "open"
    OBVIOUS
  <2>3. PICK left \in SUBSET Records : left = call[a].todo \ {r}
    BY <1>0 DEF Call
  <2>4. call' = [call EXCEPT ![a] = [call[a] EXCEPT !.record = r, !.todo = left, !.at = step]]
    BY <2>1, <2>2, <2>3
  <2>5. QED
    BY <2>3, <2>4
<1> DEFINE c == [call[a] EXCEPT !.record = r, !.todo = left, !.at = step]
<1>2. /\ c \in Call /\ c.at = step /\ c.record = r /\ c.of = call[a].of
      /\ c.todo = left /\ c.kept = call[a].kept /\ call[a].kept \in Nat
  BY ZenonT(60), <1>0 DEF Call, Steps
<1>3. call' = [call EXCEPT ![a] = c]
  BY <1>1
<1> HIDE DEF c
<1>4. /\ call' \in [Agents -> Call] /\ call'[a] = c
      /\ \A b \in Agents \ {a} : call'[b] = call[b]
  BY <1>0, <1>2, <1>3
<1>5. QED
  BY <1>0, <1>1, <1>2, <1>4 DEF Lets, MakerSteps, Making, Between

(* A call that makes nothing goes on.                                      *)
LEMMA StepLets ==
    ASSUME IInv, RoomInv, NEW a \in Agents,
           \/ NextRecord(a) \/ ListEnds(a)
           \/ OpenLease(a) \/ LeaseMissing(a) \/ LeaseUnreadable(a) \/ RemoveEmpty(a)
           \/ LockShared(a) \/ LockExclusive(a) \/ Probe(a) \/ Unprobe(a)
           \/ NotOurs(a) \/ Held(a) \/ ListReads(a) \/ Claim(a) \/ ClaimRefused(a)
           \/ SweepDecides(a) \/ Tally(a)
           \/ RemoveManifest(a) \/ RemoveContents(a) \/ ContentsFail(a)
           \/ UnlinkLease(a) \/ Unlock(a) \/ RemoveDirectory(a)
           \/ AtLimit(a) \/ CreateFails(a) \/ CancelClaim(a)
    PROVE  Lets(a)
<1>0. call \in [Agents -> Call]
  BY DEF IInv, Typed
<1>s. \A step \in {"lock", "removeEmpty", "header", "probe", "unprobe", "open", "manifest",
                   "held", "tally", "contents", "unlink", "unlock", "removeDirectory"} :
         step \in Steps /\ step \notin MakerSteps \cup Between
  BY DEF Steps, MakerSteps, Making, Between
<1>a. \A step \in {"next", "again", "open", "removeEmpty", "lock", "probe", "unprobe", "header",
                   "held", "tally", "manifest", "contents", "unlink", "unlock",
                   "removeDirectory"} : step \notin MakerSteps
  BY DEF MakerSteps, Making
<1>1. ASSUME NEW step \in {"lock", "removeEmpty", "header", "probe", "unprobe", "open",
                          "manifest", "held", "tally", "contents", "unlink", "unlock",
                          "removeDirectory"},
             Goto(a, step), call[a].at \notin MakerSteps
      PROVE  Lets(a)
  <2>1. step \in Steps /\ step \notin MakerSteps \cup Between
    BY <1>s
  <2>2. QED
    BY <1>0, <1>1, <2>1, GotoLets
<1>2. ASSUME NextRecord(a) PROVE Lets(a)
  BY <1>2, NextLets
<1>3. ASSUME ListEnds(a) \/ AtLimit(a) \/ CreateFails(a) \/ CancelClaim(a) PROVE Lets(a)
  <2>1. Answer(a) /\ call[a].at \in {"next", "again", "open"}
    BY <1>3 DEF ListEnds, AtLimit, CreateFails, CancelClaim, SweepEnds, At
  <2>2. QED
    BY <1>0, <1>a, <2>1, AnswerLets
<1>4. ASSUME OpenLease(a) PROVE Lets(a)
  <2>1. Goto(a, "lock") /\ call[a].at = "open"
    BY <1>4 DEF OpenLease, At
  <2>2. QED
    BY <1>a, <1>1, <2>1
<1>5. ASSUME LeaseMissing(a) PROVE Lets(a)
  <2>1. (Goto(a, "removeEmpty") \/ LeaveRecord(a)) /\ call[a].at = "open"
    BY <1>5 DEF LeaseMissing, At
  <2>2. QED
    BY <1>0, <1>a, <1>1, <2>1, LeaveLets
<1>6. ASSUME LeaseUnreadable(a) PROVE Lets(a)
  <2>1. LeaveRecord(a) /\ call[a].at \in {"open", "lock"}
    BY <1>6 DEF LeaseUnreadable, At
  <2>2. QED
    BY <1>0, <1>a, <2>1, LeaveLets
<1>7. ASSUME RemoveEmpty(a) PROVE Lets(a)
  <2>1. /\ call[a].at = "removeEmpty"
        /\ LeaveRecord(a) \/ (Done(a, 0) /\ call[a].record \notin directories')
    BY <1>7 DEF RemoveEmpty, At, On
  <2>2. QED
    BY <1>0, <1>a, <2>1, LeaveLets, DoneLets
<1>8. ASSUME LockShared(a) \/ Probe(a) PROVE Lets(a)
  <2>1. /\ Goto(a, "header") \/ Goto(a, "unprobe") \/ LeaveRecord(a)
        /\ call[a].at \in {"lock", "probe"}
    BY <1>8 DEF LockShared, Probe, At
  <2>2. QED
    BY <1>0, <1>a, <1>1, <2>1, LeaveLets
<1>9. ASSUME LockExclusive(a) PROVE Lets(a)
  <2>1. (Goto(a, "header") \/ Goto(a, "probe")) /\ call[a].at = "lock"
    BY <1>9 DEF LockExclusive, At
  <2>2. QED
    BY <1>a, <1>1, <2>1
<1>10. ASSUME Unprobe(a) PROVE Lets(a)
  <2>1. (Goto(a, "open") \/ LeaveRecord(a)) /\ call[a].at = "unprobe"
    BY <1>10 DEF Unprobe, At
  <2>2. QED
    BY <1>0, <1>a, <1>1, <2>1, LeaveLets
<1>11. ASSUME NotOurs(a) \/ ListReads(a) PROVE Lets(a)
  <2>1. LeaveRecord(a) /\ call[a].at \in {"header", "held"}
    BY <1>11 DEF NotOurs, ListReads, At
  <2>2. QED
    BY <1>0, <1>a, <2>1, LeaveLets
<1>12. ASSUME Held(a) PROVE Lets(a)
  <2>1. (Goto(a, "manifest") \/ Goto(a, "held")) /\ call[a].at = "header"
    BY <1>12 DEF Held, At
  <2>2. QED
    BY <1>a, <1>1, <2>1
<1>13. ASSUME Claim(a) \/ ClaimRefused(a) PROVE Lets(a)
  <2>1. Answer(a) /\ call[a].at = "held"
    BY <1>13 DEF Claim, ClaimRefused, At
  <2>2. QED
    BY <1>0, <1>a, <2>1, AnswerLets
<1>14. ASSUME SweepDecides(a) PROVE Lets(a)
  <2>1. (Goto(a, "tally") \/ Goto(a, "manifest")) /\ call[a].at = "held"
    BY <1>14 DEF SweepDecides, At
  <2>2. QED
    BY <1>a, <1>1, <2>1
<1>15. ASSUME Tally(a) PROVE Lets(a)
  <2>1. /\ call[a].at = "tally"
        /\ Done(a, 1) \/ (Done(a, 0) /\ call[a].record \notin directories')
    BY <1>15 DEF Tally, At, On, files
  <2>2. QED
    BY <1>0, <1>a, <2>1, DoneLets
<1>16. ASSUME RemoveManifest(a) \/ ContentsFail(a) PROVE Lets(a)
  <2>1. /\ Goto(a, "contents") \/ RemovalFails(a)
        /\ call[a].at \in {"manifest", "contents"}
    BY <1>16 DEF RemoveManifest, ContentsFail, At
  <2>2. QED
    BY <1>0, <1>a, <1>1, <2>1, FailsLets
<1>17. ASSUME RemoveContents(a) \/ UnlinkLease(a) \/ Unlock(a) PROVE Lets(a)
  <2>1. /\ Goto(a, "unlink") \/ Goto(a, "unlock") \/ Goto(a, "removeDirectory")
        /\ call[a].at \in {"contents", "unlink", "unlock"}
    BY <1>17 DEF RemoveContents, UnlinkLease, Unlock, At
  <2>2. QED
    BY <1>a, <1>1, <2>1
<1>18. ASSUME RemoveDirectory(a) PROVE Lets(a)
  <2>1. /\ call[a].at = "removeDirectory"
        /\ \/ RemovalFails(a) \/ Answer(a)
           \/ Done(a, 0) /\ call[a].record \notin directories'
    BY <1>18 DEF RemoveDirectory, At, On
  <2>2. QED
    BY <1>0, <1>a, <2>1, FailsLets, AnswerLets, DoneLets
<1>19. QED
  BY <1>2, <1>3, <1>4, <1>5, <1>6, <1>7, <1>8, <1>9, <1>10, <1>11, <1>12, <1>13, <1>14, <1>15,
     <1>16, <1>17, <1>18

(* What such a call does to the files.                                     *)
LEMMA StepFiles ==
    ASSUME RoomInv, NEW a \in Agents,
           \/ NextRecord(a) \/ ListEnds(a)
           \/ OpenLease(a) \/ LeaseMissing(a) \/ LeaseUnreadable(a) \/ RemoveEmpty(a)
           \/ LockShared(a) \/ LockExclusive(a) \/ Probe(a) \/ Unprobe(a)
           \/ NotOurs(a) \/ Held(a) \/ ListReads(a) \/ Claim(a) \/ ClaimRefused(a)
           \/ SweepDecides(a) \/ Tally(a)
           \/ RemoveManifest(a) \/ RemoveContents(a) \/ ContentsFail(a)
           \/ UnlinkLease(a) \/ Unlock(a) \/ RemoveDirectory(a)
           \/ AtLimit(a) \/ CreateFails(a) \/ CancelClaim(a)
    PROVE  /\ directories' \in {directories, directories \ {call[a].record}}
           /\ headers' = headers /\ leases' \subseteq leases /\ contents' \subseteq contents
           /\ contents' \subseteq directories'
<1>0. contents \subseteq directories
  BY DEF RoomInv
<1>1. ASSUME UNCHANGED files \/ RemoveManifest(a) \/ RemoveContents(a) \/ UnlinkLease(a)
      PROVE  /\ directories' = directories /\ headers' = headers
             /\ leases' \subseteq leases /\ contents' \subseteq contents
  BY <1>1 DEF files, RemoveManifest, RemoveContents, UnlinkLease
<1>2. ASSUME RemoveEmpty(a) \/ RemoveDirectory(a)
      PROVE  /\ \/ directories' = directories
                \/ /\ directories' = directories \ {call[a].record}
                   /\ call[a].record \notin contents
             /\ UNCHANGED <<headers, leases, contents>>
  BY <1>2 DEF RemoveEmpty, RemoveDirectory, On
<1>3. ASSUME \/ NextRecord(a) \/ ListEnds(a)
             \/ OpenLease(a) \/ LeaseMissing(a) \/ LeaseUnreadable(a)
             \/ LockShared(a) \/ LockExclusive(a) \/ Probe(a) \/ Unprobe(a)
             \/ NotOurs(a) \/ Held(a) \/ ListReads(a) \/ Claim(a) \/ ClaimRefused(a)
             \/ SweepDecides(a) \/ Tally(a) \/ ContentsFail(a) \/ Unlock(a)
             \/ AtLimit(a) \/ CreateFails(a) \/ CancelClaim(a)
      PROVE  UNCHANGED files
  BY <1>3 DEF NextRecord, ListEnds, OpenLease, LeaseMissing, LeaseUnreadable, LockShared,
              LockExclusive, Probe, Unprobe, NotOurs, Held, ListReads, Claim, ClaimRefused,
              SweepDecides, Tally, ContentsFail, Unlock, AtLimit, CreateFails, CancelClaim
<1>4. CASE RemoveEmpty(a) \/ RemoveDirectory(a)
  BY <1>0, <1>2, <1>4
<1>5. CASE UNCHANGED files \/ RemoveManifest(a) \/ RemoveContents(a) \/ UnlinkLease(a)
  BY <1>0, <1>1, <1>5
<1>6. QED
  BY <1>3, <1>4, <1>5

(* Each step of a call keeps the count.                                    *)
LEMMA StepKeepsRoom ==
    ASSUME IInv, RoomInv, NEW a \in Agents, Step(a)
    PROVE  RoomInv'
<1>0. call \in [Agents -> Call]
  BY DEF IInv, Typed
<1>1. CASE \/ NextRecord(a) \/ ListEnds(a)
           \/ OpenLease(a) \/ LeaseMissing(a) \/ LeaseUnreadable(a) \/ RemoveEmpty(a)
           \/ LockShared(a) \/ LockExclusive(a) \/ Probe(a) \/ Unprobe(a)
           \/ NotOurs(a) \/ Held(a) \/ ListReads(a) \/ Claim(a) \/ ClaimRefused(a)
           \/ SweepDecides(a) \/ Tally(a)
           \/ RemoveManifest(a) \/ RemoveContents(a) \/ ContentsFail(a)
           \/ UnlinkLease(a) \/ Unlock(a) \/ RemoveDirectory(a)
           \/ AtLimit(a) \/ CreateFails(a)
  <2>1. Lets(a)
    BY <1>1, StepLets
  <2>2. /\ directories' \in {directories, directories \ {call[a].record}}
        /\ headers' = headers /\ leases' \subseteq leases /\ contents' \subseteq contents
        /\ contents' \subseteq directories'
    BY <1>1, StepFiles
  <2>3. QED
    BY <2>1, <2>2, PassingStep
<1>2. CASE MakeDirectory(a)
  BY <1>2, MakeDirectoryStep
<1>3. CASE UndoDirectory(a)
  BY <1>3, UndoDirectoryStep
<1>4. CASE WriteHeader(a)
  <2>1. /\ call[a].at \in MakerSteps /\ UNCHANGED <<directories, leases, contents>>
        /\ headers' \subseteq headers \cup {call[a].record}
    BY <1>4 DEF WriteHeader, At, On, MakerSteps, Making
  <2>2. Idle \in Call
    BY DEF Idle, Call, Steps
  <2>3. /\ call'[a] = Idle /\ call' \in [Agents -> Call]
        /\ \A b \in Agents \ {a} : call'[b] = call[b]
    BY <1>0, <1>4, <2>2 DEF WriteHeader, Answer
  <2>4. QED
    BY <2>1, <2>3, MakerLeaves
<1>5. CASE MakeLease(a) \/ LockNew(a) \/ LeaseFails(a) \/ UndoLease(a)
  <2>1. PICK step \in MakerSteps :
           /\ Goto(a, step)
           /\ step = "undoDirectory" => call[a].record \notin leases'
    <3>1. CASE MakeLease(a)
      BY <3>1 DEF MakeLease, MakerSteps, Making
    <3>2. CASE LockNew(a)
      BY <3>2 DEF LockNew, MakerSteps, Making
    <3>3. CASE LeaseFails(a)
      BY <3>3 DEF LeaseFails, MakerSteps, Making
    <3>4. CASE UndoLease(a)
      BY <3>4 DEF UndoLease, MakerSteps, On
    <3>5. QED
      BY <1>5, <3>1, <3>2, <3>3, <3>4
  <2>2. call[a].at \in MakerSteps
    BY <1>5 DEF MakeLease, LockNew, LeaseFails, UndoLease, At, MakerSteps, Making
  <2>3. /\ UNCHANGED <<directories, headers, contents>>
        /\ leases' \subseteq leases \cup {call[a].record}
    BY <1>5 DEF MakeLease, LockNew, LeaseFails, UndoLease, On, files
  <2>4. QED
    BY <2>1, <2>2, <2>3, MakerStep
<1>6. QED
  BY <1>1, <1>2, <1>3, <1>4, <1>5 DEF Step

(* And so does every other step.                                           *)
LEMMA RoomIsKept ==
    ASSUME IInv, RoomInv, [Next]_vars
    PROVE  RoomInv'
<1>0. /\ call \in [Agents -> Call] /\ directories \subseteq Records
      /\ contents \subseteq directories
  BY DEF IInv, Typed, RoomInv
<1>q. ASSUME NEW a \in Agents, Lets(a), UNCHANGED files
      PROVE  RoomInv'
  <2>1. /\ directories' = directories /\ headers' = headers /\ leases' = leases
        /\ contents' = contents
    BY <1>q DEF files
  <2>2. QED
    BY <1>0, <1>q, <2>1, PassingStep
<1>1. CASE UNCHANGED vars
  BY <1>0, <1>1, OwnedStep DEF vars
<1>2. ASSUME NEW a \in Agents, StartList(a)
      PROVE  RoomInv'
  <2>1. Start(a, "list", None, directories, "next") /\ UNCHANGED files
    BY <1>2 DEF StartList
  <2>2. "next" \in Steps /\ "next" \notin MakerSteps \cup {"again"}
    BY DEF Steps, MakerSteps, Making
  <2>3. Lets(a)
    BY <1>0, <2>1, <2>2, StartLets
  <2>4. QED
    BY <1>q, <2>1, <2>3
<1>3. ASSUME NEW a \in Agents, StartCreate(a)
      PROVE  RoomInv'
  BY <1>3, StartCreateStep
<1>4. ASSUME NEW a \in Agents, Step(a)
      PROVE  RoomInv'
  BY <1>4, StepKeepsRoom
<1>5. ASSUME NEW a \in Agents, CancelClaim(a)
      PROVE  RoomInv'
  BY <1>5, <1>q, StepLets DEF CancelClaim
<1>6. ASSUME NEW a \in Agents, End(a)
      PROVE  RoomInv'
  <2>1. Answer(a) /\ UNCHANGED files
    BY <1>6 DEF End
  <2>2. CASE call[a].at \notin MakerSteps
    <3>1. Lets(a)
      BY <1>0, <2>1, <2>2, AnswerLets
    <3>2. QED
      BY <1>q, <2>1, <3>1
  <2>3. CASE call[a].at \in MakerSteps
    <3>1. Idle \in Call
      BY DEF Idle, Call, Steps
    <3>2. /\ call'[a] = Idle /\ call' \in [Agents -> Call]
          /\ \A b \in Agents \ {a} : call'[b] = call[b]
      BY <1>0, <2>1, <3>1 DEF Answer
    <3>3. UNCHANGED <<directories, leases, contents>> /\ headers' \subseteq headers
      BY <2>1 DEF files
    <3>4. QED
      BY <2>3, <3>2, <3>3, MakerLeaves
  <2>4. QED
    BY <2>2, <2>3
<1>7. ASSUME NEW a \in Agents, NEW r \in Records, StartClaim(a, r) \/ StartDelete(a, r)
      PROVE  RoomInv'
  <2>1. /\ Start(a, "claim", r, {}, "open") \/ Start(a, "delete", r, {}, "open")
        /\ UNCHANGED files
    BY <1>7 DEF StartClaim, StartDelete
  <2>2. "open" \in Steps /\ "open" \notin MakerSteps \cup {"again"} /\ "open" \notin Between
    BY DEF Steps, MakerSteps, Making, Between
  <2>3. Lets(a)
    BY <1>0, <2>1, <2>2, StartLets
  <2>4. QED
    BY <1>q, <2>1, <2>3
<1>8. ASSUME NEW a \in Agents, NEW r \in Records, Retire(a, r)
      PROVE  RoomInv'
  <2>1. Start(a, "retire", r, {}, "manifest") /\ UNCHANGED files
    BY <1>8 DEF Retire
  <2>2. /\ "manifest" \in Steps /\ "manifest" \notin MakerSteps \cup {"again"}
        /\ "manifest" \notin Between
    BY DEF Steps, MakerSteps, Making, Between
  <2>3. Lets(a)
    BY <1>0, <2>1, <2>2, StartLets
  <2>4. QED
    BY <1>q, <2>1, <2>3
<1>9. ASSUME NEW a \in Agents, NEW r \in Records,
             Copy(a, r) \/ Publish(a, r) \/ Clear(a, r) \/ IntoRecord(a, r) \/ Keep(a, r)
      PROVE  RoomInv'
  <2>1. UNCHANGED <<directories, call, headers, leases>>
    BY <1>9 DEF Copy, Publish, Clear, IntoRecord, Keep, files
  <2>2. contents' \subseteq contents \/ (Copy(a, r) /\ contents' = contents \cup {r})
    BY <1>9 DEF Copy, Publish, Clear, IntoRecord, Keep, files
  <2>3. Copy(a, r) => r \in directories \cap headers
    BY NoneAssumption DEF Copy, Live, Owns, IInv, OwnedIsWhole
  <2>4. QED
    BY <2>1, <2>2, <2>3, OwnedStep
<1>10. QED
  BY <1>1, <1>2, <1>3, <1>4, <1>5, <1>6, <1>7, <1>8, <1>9 DEF Next

(* The directories that are being made are no more than their makers, who  *)
(* were below the limit.                                                   *)
LEMMA RoomSuffices ==
    ASSUME IInv, RoomInv
    PROVE  WithinRoom
<1> DEFINE making == {call[a].record : a \in Makers}
<1>0. /\ IsFiniteSet(directories) /\ IsFiniteSet(Lasting) /\ Cardinality(Lasting) \in Nat
      /\ Cardinality(Agents) \in Nat /\ Limit \in Nat /\ Cardinality(directories) \in Nat
  BY LastingIsFinite, AgentsAssumption, BoundsAssumption, FS_CardinalityType DEF RoomInv
<1>1. Makers \in SUBSET Agents
  BY DEF Makers
<1>2. /\ IsFiniteSet(Makers) /\ Cardinality(Makers) \in Nat
      /\ Cardinality(Makers) <= Cardinality(Agents)
  BY <1>1, AgentsAssumption, FS_Subset, FS_CardinalityType
<1>3. /\ IsFiniteSet(making) /\ Cardinality(making) \in Nat
      /\ Cardinality(making) <= Cardinality(Makers)
  <2> DEFINE f == [a \in Makers |-> call[a].record]
  <2>1. f \in Surjection(Makers, making)
    <3>1. f \in [Makers -> making]
      OBVIOUS
    <3>2. \A t \in making : \E a \in Makers : f[a] = t
      OBVIOUS
    <3> HIDE DEF f, making
    <3>3. QED
      BY <3>1, <3>2, Fun_IsSurj
  <2> HIDE DEF f, making
  <2>2. QED
    BY <1>2, <2>1, FS_Surjection, FS_CardinalityType
<1>4. directories \subseteq Lasting \cup making
  BY DEF Lasting
<1> HIDE DEF making
<1>5. Cardinality(directories) <= Cardinality(Lasting) + Cardinality(making)
  <2>1. /\ IsFiniteSet(Lasting \cup making)
        /\ Cardinality(Lasting \cup making)
              = Cardinality(Lasting) + Cardinality(making) - Cardinality(Lasting \cap making)
    BY <1>0, <1>3, FS_Union
  <2>2. Cardinality(directories) <= Cardinality(Lasting \cup making)
    BY <1>4, <2>1, FS_Subset
  <2>3. IsFiniteSet(Lasting \cap making) /\ Cardinality(Lasting \cap making) \in Nat
    BY <1>0, FS_Intersection, FS_CardinalityType
  <2>4. QED
    BY <1>0, <1>3, <2>1, <2>2, <2>3
<1>6. CASE Cardinality(Lasting) < Limit
  BY <1>0, <1>2, <1>3, <1>5, <1>6 DEF WithinRoom
<1>7. CASE Limit <= Cardinality(Lasting)
  <2>1. \A a \in Makers : call[a].of = "create" /\ Count(a) < Limit
    <3>1. ASSUME NEW a \in Makers
          PROVE  call[a].of = "create" /\ Count(a) < Limit
      <4>1. /\ call[a].of = "create" /\ call[a].kept < Limit /\ call[a].todo = {}
            /\ a \in Agents
        BY DEF RoomInv, MakersAlone, Makers
      <4>2. Waiting(a) = {}
        BY <4>1 DEF Waiting, Lasting
      <4>3. Cardinality(Waiting(a)) = 0
        BY <4>2, FS_EmptySet
      <4>4. call[a].kept \in Nat
        BY <4>1 DEF IInv, Typed, Call
      <4>5. QED
        BY <4>1, <4>3, <4>4 DEF Count
    <3>2. QED
      BY <3>1
  <2>2. Makers \in SUBSET Low(Limit)
    BY <1>1, <2>1 DEF Low
  <2>3. IsFiniteSet(Low(Limit)) /\ Cardinality(Low(Limit)) \in Nat
    BY LastingIsFinite DEF RoomInv
  <2>4. Cardinality(Makers) <= Cardinality(Low(Limit))
    BY <2>2, <2>3, FS_Subset
  <2>5. Cardinality(Low(Limit)) + Cardinality(Lasting) < Limit + Cardinality(Agents)
    BY <1>0, <1>7 DEF RoomInv, Crowded
  <2>6. QED
    BY <1>0, <1>2, <1>3, <1>5, <2>3, <2>4, <2>5 DEF WithinRoom
<1>8. QED
  BY <1>0, <1>6, <1>7

(* create_record sweeps before it makes a directory, and makes none once   *)
(* as many records stay as the limit.  Between the sweep and the directory *)
(* other windows may sweep and make their own; but however many start      *)
(* together, and whatever fails or ends on the way, the folder never holds *)
(* more than the limit and one record for each agent but one.              *)
THEOREM RecordsStayWithinRoom == Spec => []WithinRoom
<1>1. Init => RoomInv
  <2> SUFFICES ASSUME Init
               PROVE  RoomInv
    OBVIOUS
  <2>1. directories = {} /\ contents = {} /\ \A a \in Agents : call[a] = Idle
    BY DEF Init
  <2>2. IsFiniteSet(directories)
    BY <2>1, FS_EmptySet
  <2>3. MakersAlone
    BY <2>1 DEF MakersAlone, Idle, MakerSteps, Making
  <2>4. Crowded
    <3>1. \A v : Low(v) = {}
      BY <2>1 DEF Low, Idle
    <3>2. Lasting = {}
      BY <2>1 DEF Lasting
    <3>3. Cardinality(Lasting) = 0 /\ \A v : Cardinality(Low(v)) = 0
      BY <3>1, <3>2, FS_EmptySet
    <3>4. Cardinality(Agents) \in Nat /\ Cardinality(Agents) # 0
      BY AgentsAssumption, FS_CardinalityType, FS_EmptySet
    <3>5. QED
      BY <3>3, <3>4 DEF Crowded
  <2>5. QED
    BY <2>1, <2>2, <2>3, <2>4 DEF RoomInv
<1>2. IInv /\ RoomInv /\ [Next]_vars => RoomInv'
  BY RoomIsKept
<1>3. IInv /\ RoomInv => WithinRoom
  BY RoomSuffices
<1>4. QED
  BY <1>1, <1>2, <1>3, StoreIsKept, PTL DEF Spec

=============================================================================
