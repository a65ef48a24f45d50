--------------------------- MODULE DocumentProofs ---------------------------
(***************************************************************************)
(* Proofs about a document's session and its edits.                        *)
(*                                                                         *)
(* About DocumentSession: its type invariant, that the history is one line *)
(* within its limits, that a document shown as saved is, and that the      *)
(* session implements LinearHistory, for any limits and any number of      *)
(* edits, Undos, Redos and saves under way.                                *)
(*                                                                         *)
(* About DocumentEdit: whatever the changes of a request and their order,  *)
(* the transaction leaves a sound graph, one line of features and no value *)
(* but those the formulas say, and a rename changes no meaning.            *)
(***************************************************************************)
EXTENDS DocumentSession, DocumentEdit, FiniteSetTheorems, TLAPS

-----------------------------------------------------------------------------
(* The session.                                                            *)

(* What is left of line h when version v is accepted at place c and the k  *)
(* oldest versions go.                                                     *)
Accepted(h, c, v, k) ==
    LET whole == Append(SubSeq(h, 1, c + 1), v)
    IN  SubSeq(whole, k + 1, Len(whole))

(* Accepting a version keeps the line up to the place, and puts it last.   *)
LEMMA AcceptedLine ==
    ASSUME NEW h \in Seq(File), NEW c \in 0 .. Len(h) - 1, NEW v \in File,
           NEW k \in 0 .. c + 1
    PROVE  /\ Accepted(h, c, v, k) \in Seq(File)
           /\ Len(Accepted(h, c, v, k)) = c + 2 - k
           /\ Accepted(h, c, v, k)[c + 2 - k] = v
           /\ \A i \in 1 .. c + 1 - k :
                Accepted(h, c, v, k)[i] = h[i + k] /\ i + k \in DOMAIN h
<1> DEFINE whole == Append(SubSeq(h, 1, c + 1), v)
           g == Accepted(h, c, v, k)
<1>1. /\ SubSeq(h, 1, c + 1) \in Seq(File)
      /\ Len(SubSeq(h, 1, c + 1)) = c + 1
      /\ \A i \in 1 .. c + 1 : SubSeq(h, 1, c + 1)[i] = h[i]
  OBVIOUS
<1>2. /\ whole \in Seq(File)
      /\ Len(whole) = c + 2
      /\ whole[c + 2] = v
      /\ \A i \in 1 .. c + 1 : whole[i] = h[i]
  BY <1>1
<1>3. /\ g \in Seq(File)
      /\ Len(g) = c + 2 - k
      /\ \A i \in 1 .. c + 2 - k : g[i] = whole[i + k]
  <2>1. g = SubSeq(whole, k + 1, c + 2)
    BY <1>2 DEF Accepted
  <2> HIDE DEF whole, g
  <2>2. QED
    BY SMTT(40), <1>2, <2>1
<1>4. QED
  BY <1>2, <1>3

(* The line after an accepted step.                                        *)
LEMMA CommitStepLine ==
    ASSUME TypeOK, NEW p \in steps, CommitStep(p)
    PROVE  \E k \in 0 .. current + 1 :
             /\ current' = current + 1 - k
             /\ history' \in Seq(File)
             /\ Len(history') = current + 2 - k
             /\ history'[current + 2 - k] = p.file
             /\ \A i \in 1 .. current + 1 - k :
                  history'[i] = history[i + k] /\ i + k \in DOMAIN history
<1>1. PICK k \in 0 .. current + 1 :
        /\ history' = Accepted(history, current, p.file, k)
        /\ current' = current + 1 - k
  BY DEF CommitStep, Accepted
<1>2. /\ history \in Seq(File) /\ current \in 0 .. Len(history) - 1
      /\ p.file \in File
  BY DEF TypeOK, Steps
<1> DEFINE g == Accepted(history, current, p.file, k)
<1>3. /\ g \in Seq(File)
      /\ Len(g) = current + 2 - k
      /\ g[current + 2 - k] = p.file
      /\ \A i \in 1 .. current + 1 - k : g[i] = history[i + k] /\ i + k \in DOMAIN history
  BY <1>2, AcceptedLine, Zenon
<1> HIDE DEF g
<1>4. QED
  BY <1>1, <1>3 DEF g

(* Every step of a session keeps the types.                                *)
LEMMA TypedStep == TypeOK /\ [Next]_vars => TypeOK'
<1> SUFFICES ASSUME TypeOK, [Next]_vars PROVE TypeOK'
  OBVIOUS
<1> USE SetAssumption, LimitAssumption DEF TypeOK, lineVars, factVars, jobVars
<1>0. Current \in File /\ DOMAIN history = 1 .. Len(history)
  BY DEF Current
<1>1. CASE BeginStep
  <2>1. PICK i \in DOMAIN history :
          tickets' = tickets \cup {[source |-> Current, file |-> nextFile,
                                    form |-> history[i], gen |-> generation]}
    BY <1>1 DEF BeginStep
  <2>2. nextFile \in File /\ history[i] \in File
    <3>1. nextFile <= MaxFile
      BY <1>1 DEF BeginStep
    <3>2. nextFile \in File
      BY <3>1 DEF File
    <3>3. QED
      BY <1>0, <3>2
  <2>3. tickets' \subseteq Tickets
    <3>1. [source |-> Current, file |-> nextFile,
           form |-> history[i], gen |-> generation] \in Tickets
      BY <1>0, <2>2 DEF Tickets
    <3>2. QED
      BY <2>1, <3>1
  <2>4. nextFile' \in 1 .. MaxFile + 1
    BY <1>1 DEF BeginStep
  <2>5. QED
    BY <1>1, <2>3, <2>4 DEF BeginStep
<1>2. CASE BeginMove
  <2>1. PICK index \in {current - 1, current + 1} \cap 0 .. Len(history) - 1 :
          moves' = moves \cup {[gen |-> generation, index |-> index,
                                target |-> history[index + 1]]}
    BY <1>2 DEF BeginMove
  <2>2. index \in Nat /\ history[index + 1] \in File
    OBVIOUS
  <2>3. moves' \subseteq Moves
    BY <2>1, <2>2 DEF Moves
  <2>4. QED
    BY <1>2, <2>3 DEF BeginMove
<1>3. CASE BeginSave
  BY <1>0, <1>3 DEF BeginSave, Saves
<1>4. CASE Outsider
  BY <1>4 DEF Outsider
<1>5. ASSUME NEW t \in tickets, RunStep(t) PROVE TypeOK'
  BY <1>5 DEF RunStep, Tickets, Steps
<1>6. ASSUME NEW t \in tickets, StepFails(t) PROVE TypeOK'
  BY <1>6 DEF StepFails
<1>7. ASSUME NEW p \in steps, CommitStep(p) PROVE TypeOK'
  <2>3. PICK k \in 0 .. current + 1 :
          /\ current' = current + 1 - k
          /\ history' \in Seq(File) /\ Len(history') = current + 2 - k
    BY <1>7, CommitStepLine
  <2>4. current' \in 0 .. Len(history') - 1
    BY <2>3
  <2>5. generation' \in 0 .. MaxGeneration /\ steps' \subseteq Steps
    BY <1>7 DEF CommitStep
  <2>6. /\ UNCHANGED <<nextFile, saved, logical, model, size, base, form, tickets, moves>>
        /\ UNCHANGED <<saves, files, edits>>
    BY <1>7 DEF CommitStep
  <2>7. QED
    BY <2>3, <2>4, <2>5, <2>6
<1>8. ASSUME NEW p \in steps, DropStep(p) PROVE TypeOK'
  BY <1>8 DEF DropStep
<1>9. ASSUME NEW r \in moves, CommitMove(r) PROVE TypeOK'
  BY SMTT(40), <1>9 DEF CommitMove, Moves
<1>10. ASSUME NEW r \in moves, DropMove(r) PROVE TypeOK'
  BY <1>10 DEF DropMove
<1>11. ASSUME NEW v \in saves, PublishSave(v) PROVE TypeOK'
  BY <1>11 DEF PublishSave, Saves
<1>12. ASSUME NEW v \in saves, FailSave(v) PROVE TypeOK'
  BY <1>12 DEF FailSave
<1>13. ASSUME NEW v \in saves, RecordSaved(v) PROVE TypeOK'
  <2>1. v.source \in File /\ v.path \in Paths
    BY DEF Saves
  <2>2. QED
    BY <1>13, <2>1 DEF RecordSaved
<1>14. CASE UNCHANGED vars
  BY <1>14 DEF vars
<1>15. QED
  BY <1>1, <1>2, <1>3, <1>4, <1>5, <1>6, <1>7, <1>8, <1>9, <1>10, <1>11, <1>12,
     <1>13, <1>14 DEF Next

(* Every variable of a session keeps its type (session.rs:225-300).        *)
THEOREM SessionTyped == Spec => []TypeOK
<1>1. Init => TypeOK
  BY SetAssumption, LimitAssumption DEF Init, TypeOK, File
<1>2. QED
  BY <1>1, TypedStep, PTL DEF Spec

-----------------------------------------------------------------------------
(* The invariant of the line                                               *)

(* A session that was opened, created or recovered has one version.        *)
LEMMA LineInvInit == Init => LineInv
<1> SUFFICES ASSUME Init PROVE LineInv
  OBVIOUS
<1>1. TypeOK
  BY SetAssumption, LimitAssumption DEF Init, TypeOK, File
<1>2. /\ DOMAIN history = {1} /\ history[1] = 0 /\ Len(history) = 1
      /\ tickets = {} /\ steps = {} /\ moves = {} /\ saves = {} /\ nextFile = 1
  BY DEF Init
<1>3. Numbered /\ FilesAreOwned /\ StepsAreBased /\ MovesAreNear /\ LinearLineage
  BY <1>2 DEF Numbered, FilesAreOwned, StepsAreBased, MovesAreNear, LinearLineage
<1>4. QED
  BY <1>1, <1>3 DEF LineInv

(* To answer, drop or record something under way keeps the invariant.      *)
LEMMA LessUnderWay ==
    ASSUME LineInv, TypeOK',
           UNCHANGED <<history, current, generation, nextFile, base, form>>,
           tickets' \subseteq tickets, steps' \subseteq steps, moves' \subseteq moves,
           \A v \in saves' : \E w \in saves : v.source = w.source
    PROVE  LineInv'
<1> USE DEF LineInv
<1>1. Numbered'
  BY DEF Numbered
<1>2. FilesAreOwned'
  BY DEF FilesAreOwned
<1>3. StepsAreBased' /\ MovesAreNear' /\ LinearLineage'
  BY DEF StepsAreBased, MovesAreNear, LinearLineage
<1>4. QED
  BY <1>1, <1>2, <1>3

(* A new ticket writes a file nothing else has.                            *)
LEMMA BeginStepKeeps == LineInv /\ BeginStep => LineInv'
<1> SUFFICES ASSUME LineInv, BeginStep PROVE LineInv'
  OBVIOUS
<1> USE DEF LineInv, lineVars, factVars
<1>1. TypeOK'
  BY TypedStep DEF Next
<1>2. PICK i \in DOMAIN history :
        tickets' = tickets \cup {[source |-> Current, file |-> nextFile,
                                  form |-> history[i], gen |-> generation]}
  BY DEF BeginStep
<1>3. /\ nextFile' = nextFile + 1
      /\ UNCHANGED <<history, current, generation, base, form, steps, moves, saves>>
  BY DEF BeginStep
<1>4. \A t \in tickets' : t \in tickets \/ t.file = nextFile
  BY <1>2
<1>5. nextFile \in Nat
  BY DEF TypeOK
<1>6. Numbered'
  <2>1. \A n \in File : n < nextFile => n < nextFile'
    BY <1>3, <1>5 DEF File
  <2>2. \A i_1 \in DOMAIN history : history[i_1] \in File
    BY DEF TypeOK
  <2>3. \A p \in steps : p.file \in File
    BY DEF TypeOK, Steps
  <2>4. \A t \in tickets : t.file \in File
    BY DEF TypeOK, Tickets
  <2>5. \A r \in moves : r.target \in File
    BY DEF TypeOK, Moves
  <2>6. \A v \in saves : v.source \in File
    BY DEF TypeOK, Saves
  <2>7. nextFile < nextFile'
    BY <1>3, <1>5
  <2>8. QED
    BY <1>3, <1>4, <2>1, <2>2, <2>3, <2>4, <2>5, <2>6, <2>7 DEF Numbered
<1>7. FilesAreOwned'
  <2>1. /\ \A n \in DOMAIN history : history[n] # nextFile
        /\ \A t \in tickets : t.file # nextFile
        /\ \A p \in steps : p.file # nextFile
        /\ \A r \in moves : r.target # nextFile
        /\ \A v \in saves : v.source # nextFile
    BY <1>5 DEF Numbered
  <2>2. \A t, u \in tickets' : t.file = u.file => t = u
    BY <1>2, <2>1 DEF FilesAreOwned
  <2>3. QED
    BY <1>3, <1>4, <2>1, <2>2 DEF FilesAreOwned
<1>8. StepsAreBased' /\ MovesAreNear' /\ LinearLineage'
  BY <1>3 DEF StepsAreBased, MovesAreNear, LinearLineage
<1>9. QED
  BY <1>1, <1>6, <1>7, <1>8

(* A move is asked for from the place the line has.                        *)
LEMMA BeginMoveKeeps == LineInv /\ BeginMove => LineInv'
<1> SUFFICES ASSUME LineInv, BeginMove PROVE LineInv'
  OBVIOUS
<1> USE DEF LineInv, lineVars, factVars
<1>1. TypeOK'
  BY TypedStep DEF Next
<1>2. PICK index \in {current - 1, current + 1} \cap 0 .. Len(history) - 1 :
        moves' = moves \cup {[gen |-> generation, index |-> index,
                              target |-> history[index + 1]]}
  BY DEF BeginMove
<1>3. /\ UNCHANGED <<history, current, generation, nextFile, base, form>>
      /\ UNCHANGED <<tickets, steps, saves>>
  BY DEF BeginMove
<1>4. index + 1 \in DOMAIN history
  BY DEF TypeOK
<1>5. Numbered'
  <2>1. \A r \in moves' : r \in moves \/ r.target = history[index + 1]
    BY <1>2
  <2>2. QED
    BY <1>3, <1>4, <2>1 DEF Numbered
<1>6. FilesAreOwned'
  <2>1. \A r \in moves' : r \in moves \/ r.target = history[index + 1]
    BY <1>2
  <2>2. \A t \in tickets : t.file # history[index + 1]
    BY <1>4 DEF FilesAreOwned
  <2>3. \A t \in tickets, r \in moves' : t.file # r.target
    BY <2>1, <2>2 DEF FilesAreOwned
  <2>4. QED
    BY <1>3, <2>3 DEF FilesAreOwned
<1>7. MovesAreNear'
  BY <1>2, <1>3 DEF MovesAreNear, TypeOK
<1>8. StepsAreBased' /\ LinearLineage'
  BY <1>3 DEF StepsAreBased, LinearLineage
<1>9. QED
  BY <1>1, <1>5, <1>6, <1>7, <1>8

(* A save reads the version shown.                                         *)
LEMMA BeginSaveKeeps == LineInv /\ BeginSave => LineInv'
<1> SUFFICES ASSUME LineInv, BeginSave PROVE LineInv'
  OBVIOUS
<1> USE DEF LineInv, lineVars, factVars
<1>1. TypeOK'
  BY TypedStep DEF Next
<1>2. \A v \in saves' : v \in saves \/ v.source = Current
  BY DEF BeginSave
<1>3. /\ UNCHANGED <<history, current, generation, nextFile, base, form>>
      /\ UNCHANGED <<tickets, steps, moves>>
  BY DEF BeginSave
<1>4. current + 1 \in DOMAIN history /\ Current = history[current + 1]
  BY DEF TypeOK, Current
<1>5. Numbered'
  BY <1>2, <1>3, <1>4 DEF Numbered
<1>6. FilesAreOwned'
  BY <1>2, <1>3, <1>4 DEF FilesAreOwned
<1>7. StepsAreBased' /\ MovesAreNear' /\ LinearLineage'
  BY <1>3 DEF StepsAreBased, MovesAreNear, LinearLineage
<1>8. QED
  BY <1>1, <1>5, <1>6, <1>7

(* The candidate of a ticket becomes a step made from the ticket's version.*)
LEMMA RunStepKeeps == ASSUME NEW t \in tickets, LineInv, RunStep(t) PROVE LineInv'
<1> USE DEF LineInv, lineVars
<1>1. TypeOK'
  BY TypedStep DEF Next
<1>2. /\ tickets' = tickets \ {t}
      /\ steps' = steps \cup {[base |-> t.source, file |-> t.file, gen |-> t.gen]}
      /\ UNCHANGED <<history, current, generation, nextFile, moves, saves>>
      /\ t.form = t.source
  BY DEF RunStep
<1>3. t.file \in File /\ t.source \in File
  BY DEF TypeOK, Tickets
<1>4. /\ base' = [base EXCEPT ![t.file] = t.source]
      /\ form' = [form EXCEPT ![t.file] = t.form]
  BY DEF RunStep
<1>5. \A f \in File \ {t.file} : base'[f] = base[f] /\ form'[f] = form[f]
  BY <1>4 DEF TypeOK
<1>6. base'[t.file] = t.source /\ form'[t.file] = t.source
  BY <1>2, <1>3, <1>4 DEF TypeOK
<1>7. /\ \A i \in DOMAIN history : history[i] \in File \ {t.file}
      /\ \A p \in steps : p.file \in File \ {t.file}
  BY DEF FilesAreOwned, TypeOK, Steps
<1>8. Numbered'
  BY <1>2 DEF Numbered
<1>9. FilesAreOwned'
  BY <1>2 DEF FilesAreOwned
<1>10. StepsAreBased'
  BY <1>2, <1>5, <1>6, <1>7 DEF StepsAreBased
<1>11. LinearLineage'
  <2> SUFFICES ASSUME NEW i \in 1 .. Len(history) - 1
               PROVE  base'[history[i + 1]] = history[i] /\ form'[history[i + 1]] = history[i]
    BY <1>2 DEF LinearLineage
  <2>1. history[i + 1] \in File \ {t.file}
    BY <1>7 DEF TypeOK
  <2>2. QED
    BY <1>5, <2>1 DEF LinearLineage
<1>12. MovesAreNear'
  BY <1>2 DEF MovesAreNear
<1>13. QED
  BY <1>1, <1>8, <1>9, <1>10, <1>11, <1>12

(* An accepted step was made from the last version that stays.             *)
LEMMA CommitStepKeeps == ASSUME NEW p \in steps, LineInv, CommitStep(p) PROVE LineInv'
<1> USE DEF LineInv, factVars
<1>1. TypeOK'
  BY TypedStep DEF Next
<1>2. PICK k \in 0 .. current + 1 :
        /\ Len(history') = current + 2 - k
        /\ history'[current + 2 - k] = p.file
        /\ \A i \in 1 .. current + 1 - k :
             history'[i] = history[i + k] /\ i + k \in DOMAIN history
  BY CommitStepLine
<1>3. /\ p.file \in File /\ p.base = Current /\ Current = history[current + 1]
      /\ steps' = steps \ {p} /\ generation' = generation + 1
      /\ UNCHANGED <<nextFile, base, form, tickets, moves, saves>>
  BY DEF CommitStep, Stale, TypeOK, Steps, Current
<1>4. /\ Len(history') = current + 2 - k
      /\ history'[current + 2 - k] = p.file
      /\ \A i \in 1 .. current + 1 - k :
           history'[i] = history[i + k] /\ i + k \in DOMAIN history
  BY <1>2
<1>5. /\ DOMAIN history' = 1 .. current + 2 - k
      /\ DOMAIN history = 1 .. Len(history)
      /\ current \in Nat /\ k \in Nat /\ Len(history) \in Nat
  BY SMTT(40), <1>1, <1>4 DEF TypeOK
<1>6. \A i \in DOMAIN history' :
        \/ i = current + 2 - k /\ history'[i] = p.file
        \/ i \in 1 .. current + 1 - k /\ i + k \in DOMAIN history
             /\ history'[i] = history[i + k]
  BY <1>4, <1>5
<1>7. Numbered'
  BY <1>3, <1>6 DEF Numbered
<1>8. FilesAreOwned'
  <2>1. \A i \in DOMAIN history : history[i] # p.file
    BY DEF FilesAreOwned
  <2>2. \A i, j \in DOMAIN history' : history'[i] = history'[j] => i = j
    <3> SUFFICES ASSUME NEW i \in DOMAIN history', NEW j \in DOMAIN history',
                        history'[i] = history'[j]
                 PROVE  i = j
      OBVIOUS
    <3>1. \A m \in DOMAIN history' :
             \/ m = current + 2 - k /\ history'[m] = p.file
             \/ /\ m \in Nat /\ m + k \in DOMAIN history
                /\ history'[m] = history[m + k] /\ history'[m] # p.file
      BY <1>5, <1>6, <2>1
    <3>2. CASE history'[i] = p.file
      BY <3>1, <3>2
    <3>3. CASE history'[i] # p.file
      <4>1. /\ i \in Nat /\ j \in Nat
            /\ i + k \in DOMAIN history /\ j + k \in DOMAIN history
            /\ history[i + k] = history[j + k]
        BY <3>1, <3>3
      <4>2. i + k = j + k
        BY <4>1 DEF FilesAreOwned
      <4> QED BY <1>5, <4>1, <4>2
    <3> QED BY <3>2, <3>3
  <2>3. \A q \in steps' : q.file # p.file
    BY <1>3 DEF FilesAreOwned
  <2>4. \A t \in tickets : t.file # p.file
    BY DEF FilesAreOwned
  <2>5. \A t \in tickets, i \in DOMAIN history' : t.file # history'[i]
    BY <1>6, <2>4 DEF FilesAreOwned
  <2>6. \A q \in steps', i \in DOMAIN history' : q.file # history'[i]
    BY <1>3, <1>6, <2>3 DEF FilesAreOwned
  <2>7. /\ \A t \in tickets, q \in steps' : t.file # q.file
        /\ \A q, r \in steps' : q.file = r.file => q = r
        /\ \A t, u \in tickets : t.file = u.file => t = u
        /\ \A t \in tickets : /\ \A r \in moves : t.file # r.target
                              /\ \A v \in saves : t.file # v.source
    BY <1>3 DEF FilesAreOwned
  <2>8. QED
    BY <1>3, <2>2, <2>5, <2>6, <2>7 DEF FilesAreOwned
<1>9. StepsAreBased'
  BY <1>3 DEF StepsAreBased
<1>10. MovesAreNear'
  BY <1>3 DEF MovesAreNear, TypeOK, Moves
<1>11. LinearLineage'
  <2> SUFFICES ASSUME NEW i \in 1 .. current + 1 - k
               PROVE  base[history'[i + 1]] = history'[i] /\ form[history'[i + 1]] = history'[i]
    <3>1. Len(history') - 1 = current + 1 - k
      BY <1>4, <1>5
    <3>2. QED
      BY <1>3, <3>1 DEF LinearLineage
  <2>1. CASE i = current + 1 - k
    <3>1. history'[i + 1] = p.file /\ history'[i] = history[current + 1]
      BY <1>4, <1>5, <2>1
    <3>2. QED
      BY <1>3, <3>1 DEF StepsAreBased
  <2>2. CASE i < current + 1 - k
    <3>1. history'[i + 1] = history[i + k + 1] /\ history'[i] = history[i + k]
      <4>1. i + 1 \in 1 .. current + 1 - k
        BY <1>5, <2>2
      <4>2. i + 1 + k = i + k + 1
        BY <1>5
      <4>3. QED
        BY <1>4, <4>1, <4>2
    <3>2. i + k \in 1 .. Len(history) - 1
      BY <1>5, <2>2 DEF TypeOK
    <3>3. QED
      BY <3>1, <3>2 DEF LinearLineage
  <2>3. QED
    BY <1>5, <2>1, <2>2
<1>12. QED
  BY <1>1, <1>7, <1>8, <1>9, <1>10, <1>11

(* A committed move leaves every other one behind.                         *)
LEMMA CommitMoveKeeps == ASSUME NEW r \in moves, LineInv, CommitMove(r) PROVE LineInv'
<1> USE DEF LineInv, factVars
<1>1. TypeOK'
  BY TypedStep DEF Next
<1>2. /\ moves' = moves \ {r} /\ generation' = generation + 1
      /\ UNCHANGED <<history, nextFile, base, form, tickets, steps, saves>>
  BY DEF CommitMove
<1>3. Numbered' /\ FilesAreOwned'
  BY <1>2 DEF Numbered, FilesAreOwned
<1>4. StepsAreBased' /\ LinearLineage'
  BY <1>2 DEF StepsAreBased, LinearLineage
<1>5. MovesAreNear'
  BY <1>2 DEF MovesAreNear, TypeOK, Moves
<1>6. QED
  BY <1>1, <1>3, <1>4, <1>5

(* The invariant is inductive.                                             *)
LEMMA LineInvStep == LineInv /\ [Next]_vars => LineInv'
<1> SUFFICES ASSUME LineInv, [Next]_vars PROVE LineInv'
  OBVIOUS
<1>1. TypeOK'
  BY TypedStep DEF LineInv
<1> USE DEF lineVars, factVars, jobVars
<1>2. CASE BeginStep
  BY <1>2, BeginStepKeeps
<1>3. CASE BeginMove
  BY <1>3, BeginMoveKeeps
<1>4. CASE BeginSave
  BY <1>4, BeginSaveKeeps
<1>5. CASE Outsider
  BY <1>1, <1>5, LessUnderWay DEF Outsider
<1>6. ASSUME NEW t \in tickets, RunStep(t) PROVE LineInv'
  BY <1>6, RunStepKeeps
<1>7. ASSUME NEW t \in tickets, StepFails(t) PROVE LineInv'
  BY <1>1, <1>7, LessUnderWay DEF StepFails
<1>8. ASSUME NEW p \in steps, CommitStep(p) PROVE LineInv'
  BY <1>8, CommitStepKeeps
<1>9. ASSUME NEW p \in steps, DropStep(p) PROVE LineInv'
  BY <1>1, <1>9, LessUnderWay DEF DropStep
<1>10. ASSUME NEW r \in moves, CommitMove(r) PROVE LineInv'
  BY <1>10, CommitMoveKeeps
<1>11. ASSUME NEW r \in moves, DropMove(r) PROVE LineInv'
  BY <1>1, <1>11, LessUnderWay DEF DropMove
<1>12. ASSUME NEW v \in saves, PublishSave(v) PROVE LineInv'
  <2>1. \A w \in saves' : \E u \in saves : w.source = u.source
    <3>1. saves' = (saves \ {v}) \cup {[v EXCEPT !.state = "published"]}
      BY <1>12 DEF PublishSave
    <3>2. [v EXCEPT !.state = "published"].source = v.source
      BY DEF LineInv, TypeOK, Saves
    <3>3. QED
      BY <3>1, <3>2
  <2>2. /\ UNCHANGED <<history, current, generation, nextFile, base, form>>
        /\ UNCHANGED <<tickets, steps, moves>>
    BY <1>12 DEF PublishSave
  <2>3. QED
    BY <1>1, <2>1, <2>2, LessUnderWay
<1>13. ASSUME NEW v \in saves, FailSave(v) PROVE LineInv'
  BY <1>1, <1>13, LessUnderWay DEF FailSave
<1>14. ASSUME NEW v \in saves, RecordSaved(v) PROVE LineInv'
  BY <1>1, <1>14, LessUnderWay DEF RecordSaved
<1>15. CASE UNCHANGED vars
  BY <1>1, <1>15, LessUnderWay DEF vars
<1>16. QED
  BY <1>2, <1>3, <1>4, <1>5, <1>6, <1>7, <1>8, <1>9, <1>10, <1>11, <1>12, <1>13,
     <1>14, <1>15 DEF Next

(* The inductive invariant holds of every session.                         *)
THEOREM LineIsKept == Spec => []LineInv
  BY LineInvInit, LineInvStep, PTL DEF Spec

(* Whatever edits, Undos and Redos are under way, every version of the     *)
(* history was made from the one before it (session.rs:557-581).           *)
THEOREM HistoryIsOneLine == Spec => []LinearLineage
<1>1. LineInv => LinearLineage
  BY DEF LineInv
<1>2. QED
  BY <1>1, LineIsKept, PTL

(* An Undo or Redo goes one version back or forth, however late it is      *)
(* committed (session.rs:593-626).                                         *)
THEOREM UndoGoesOneStep == Spec => MovesOneStep
<1> DEFINE Move == current' # current /\ history' = history =>
                     current' \in {current - 1, current + 1}
<1>1. LineInv /\ [Next]_vars => [Move]_vars
  <2> SUFFICES ASSUME LineInv, Next, current' # current, history' = history
               PROVE  current' \in {current - 1, current + 1}
    OBVIOUS
  <2> USE DEF lineVars, factVars, jobVars
  <2>1. ASSUME NEW p \in steps, CommitStep(p) PROVE current' \in {current - 1, current + 1}
    <3>1. PICK k \in 0 .. current + 1 :
            /\ current' = current + 1 - k
            /\ Len(history') = current + 2 - k
            /\ history'[current + 2 - k] = p.file
      BY <2>1, CommitStepLine DEF LineInv
    <3>2. history \in Seq(File) /\ current \in 0 .. Len(history) - 1
      BY DEF LineInv, TypeOK
    <3>3. Len(history) = current + 2 - k /\ history[current + 2 - k] = p.file
      BY <3>1
    <3>4. current + 2 - k \in DOMAIN history
      BY <3>2, <3>3
    <3>5. QED
      BY <3>3, <3>4 DEF LineInv, FilesAreOwned
  <2>2. ASSUME NEW r \in moves, CommitMove(r) PROVE current' \in {current - 1, current + 1}
    BY <2>2 DEF CommitMove, LineInv, MovesAreNear
  <2>3. QED
    BY <2>1, <2>2 DEF Next, BeginStep, BeginMove, BeginSave, Outsider, RunStep, StepFails,
       DropStep, DropMove, PublishSave, FailSave, RecordSaved
<1>2. QED
  BY <1>1, LineIsKept, PTL DEF Spec, MovesOneStep

(* No two workers share a private file, and none writes one that somebody  *)
(* may still read (session.rs:538-547).                                    *)
THEOREM PrivateFilesAreOwned == Spec => []FilesAreOwned
<1>1. LineInv => FilesAreOwned
  BY DEF LineInv
<1>2. QED
  BY <1>1, LineIsKept, PTL

(* The saved version is known exactly when the path is (session.rs:264-267)*)
THEOREM CheckpointGoesWithPath == Spec => []CheckpointHasPath
<1>1. Init => CheckpointHasPath
  BY SetAssumption DEF Init, CheckpointHasPath
<1>2. TypeOK /\ CheckpointHasPath /\ [Next]_vars => CheckpointHasPath'
  <2> SUFFICES ASSUME TypeOK, CheckpointHasPath, [Next]_vars PROVE CheckpointHasPath'
    OBVIOUS
  <2>1. ASSUME NEW v \in saves, RecordSaved(v) PROVE CheckpointHasPath'
    <3>1. v.source # None /\ v.path # None
      BY SetAssumption DEF TypeOK, Saves, File
    <3>2. QED
      BY <2>1, <3>1 DEF RecordSaved, CheckpointHasPath
  <2>2. CASE UNCHANGED <<saved, logical>>
    BY <2>2 DEF CheckpointHasPath
  <2>3. QED
    BY <2>1, <2>2 DEF Next, vars, BeginStep, BeginMove, BeginSave, Outsider, RunStep,
       StepFails, CommitStep, DropStep, CommitMove, DropMove, PublishSave, FailSave
<1>3. QED
  BY <1>1, <1>2, SessionTyped, PTL DEF Spec

-----------------------------------------------------------------------------
(* The limits                                                              *)

(* What a worker writes is no version of the history, so the size of the   *)
(* history does not change by it.                                          *)
LEMMA SizeStays ==
    ASSUME NEW t \in tickets, LineInv, RunStep(t)
    PROVE  Bytes(history)' = Bytes(history)
<1>1. t.file \in File /\ size \in [File -> Sizes] /\ history \in Seq(File)
  BY DEF LineInv, TypeOK, Tickets
<1>2. PICK z \in Sizes : size' = [size EXCEPT ![t.file] = z]
  BY DEF RunStep
<1>3. \A i \in DOMAIN history : history[i] \in File /\ history[i] # t.file
  BY <1>1 DEF LineInv, FilesAreOwned
<1>4. \A i \in DOMAIN history : size'[history[i]] = size[history[i]]
  BY <1>1, <1>2, <1>3
<1>5. [i \in DOMAIN history |-> size'[history[i]]] = [i \in DOMAIN history |-> size[history[i]]]
  BY <1>4
<1>6. history' = history
  BY DEF RunStep, lineVars
<1>7. QED
  BY <1>5, <1>6 DEF Bytes

(* What an accepted edit leaves is a single version or fits.               *)
LEMMA CommitFits ==
    ASSUME NEW p \in steps, LineInv, CommitStep(p)
    PROVE  WithinLimits'
<1> DEFINE line == Append(SubSeq(history, 1, current + 1), p.file)
<1>1. PICK k \in 0 .. current + 1 :
        /\ Dropped(line, k)
        /\ history' = SubSeq(line, k + 1, Len(line))
  BY DEF CommitStep
<1>2. /\ p.file \in File
      /\ history \in Seq(File) /\ current \in 0 .. Len(history) - 1
  BY DEF LineInv, TypeOK, Steps
<1>3. /\ SubSeq(history, 1, current + 1) \in Seq(File)
      /\ Len(SubSeq(history, 1, current + 1)) = current + 1
  BY <1>2
<1>4. line \in Seq(File) /\ Len(line) = current + 2
  BY <1>2, <1>3
<1> HIDE DEF line
<1>5. history' \in Seq(File) /\ Len(history') = current + 2 - k
  BY <1>1, <1>2, <1>4
<1>6. CASE k = Len(line) - 1
  BY <1>2, <1>4, <1>5, <1>6 DEF WithinLimits
<1>7. CASE Fits(line, k)
  <2>1. Len(history') <= (IF MaxVersions > 1 THEN MaxVersions ELSE 1) /\ Bytes(history') <= MaxBytes
    BY <1>1, <1>7 DEF Fits
  <2>2. size' = size
    BY DEF CommitStep, factVars
  <2>3. Bytes(history)' <= MaxBytes
    BY <2>1, <2>2 DEF Bytes
  <2>4. Len(history') = 1 \/ Len(history') <= MaxVersions
    BY <1>2, <1>5, <2>1, LimitAssumption
  <2>5. QED
    BY <2>3, <2>4 DEF WithinLimits
<1>8. QED
  BY <1>1, <1>6, <1>7 DEF Dropped

(* The history keeps to its limits, or is a single version larger than     *)
(* they allow, whatever is under way (session.rs:66-76, 583-591).          *)
THEOREM HistoryKeepsToItsLimits == Spec => []WithinLimits
<1>1. Init => WithinLimits
  BY DEF Init, WithinLimits
<1>2. LineInv /\ WithinLimits /\ [Next]_vars => WithinLimits'
  <2> SUFFICES ASSUME LineInv, WithinLimits, [Next]_vars PROVE WithinLimits'
    OBVIOUS
  <2>1. ASSUME NEW p \in steps, CommitStep(p) PROVE WithinLimits'
    BY <2>1, CommitFits
  <2>2. ASSUME NEW t \in tickets, RunStep(t) PROVE WithinLimits'
    BY <2>2, SizeStays DEF RunStep, lineVars, WithinLimits
  <2>3. CASE UNCHANGED <<history, size>>
    BY <2>3 DEF WithinLimits, Bytes
  <2>4. QED
    BY <2>1, <2>2, <2>3 DEF Next, vars, lineVars, factVars, jobVars, BeginStep, BeginMove,
       BeginSave, Outsider, StepFails, DropStep, CommitMove, DropMove, PublishSave, FailSave,
       RecordSaved
<1>3. QED
  BY <1>1, <1>2, LineIsKept, PTL DEF Spec

-----------------------------------------------------------------------------
(* What is shown as saved is saved                                         *)

(* A session that was opened has the file it was opened from.              *)
LEMMA SaveInvInit == Init => SaveInv
<1> SUFFICES ASSUME Init PROVE SaveInv
  OBVIOUS
<1>1. saves = {} /\ (logical # None => files[logical] = saved)
  BY DEF Init
<1>2. IsFiniteSet(saves)
  BY <1>1, FS_EmptySet
<1>3. QED
  BY <1>1, <1>2 DEF SaveInv, OneSave

(* Each step of the one save keeps what was recorded on the disk.          *)
LEMMA SaveInvStep ==
    ASSUME MaxSaves = 1, TypeOK, SaveInv, [Next]_vars
    PROVE  SaveInv'
<1> USE DEF OneSave
<1>0. /\ \A v \in saves : /\ v.source \in File /\ v.path \in Paths
                          /\ v.state \in {"planned", "published"}
                          /\ v.kind \in {"InPlace", "As"}
      /\ files \in [Paths -> File \cup {None, Foreign}]
      /\ logical \in Paths \cup {None} /\ edits \in Nat
  BY LimitAssumption DEF TypeOK, Saves
<1>1. CASE BeginSave
  <2>1. saves = {}
    <3>1. Cardinality(saves) \in Nat /\ Cardinality(saves) < 1
      BY <1>1, FS_CardinalityType DEF BeginSave, SaveInv
    <3>2. QED
      BY <3>1, FS_EmptySet DEF SaveInv
  <2>2. PICK v : /\ saves' = {v} /\ v.state = "planned"
                 /\ v.kind = "InPlace" => v.path = logical
    <3> DEFINE plan(k, p) == [source |-> Current, path |-> p, expected |-> saved,
                              kind |-> k, state |-> "planned"]
    <3>1. \/ saves' = {plan("InPlace", logical)}
          \/ \E p \in Paths : saves' = {plan("As", p)}
      BY <1>1, <2>1 DEF BeginSave
    <3>2. CASE saves' = {plan("InPlace", logical)}
      <4>1. plan("InPlace", logical).path = logical /\ plan("InPlace", logical).state = "planned"
        OBVIOUS
      <4>2. QED
        BY <3>2, <4>1
    <3>3. ASSUME NEW p \in Paths, saves' = {plan("As", p)}
          PROVE  \E v : /\ saves' = {v} /\ v.state = "planned"
                        /\ v.kind = "InPlace" => v.path = logical
      <4>1. plan("As", p).kind # "InPlace" /\ plan("As", p).state = "planned"
        OBVIOUS
      <4>2. QED
        BY <3>3, <4>1
    <3>4. QED
      BY <3>1, <3>2, <3>3
  <2>3. IsFiniteSet(saves')
    BY <2>2, FS_Singleton
  <2>4. UNCHANGED <<saved, logical, files, edits>>
    BY <1>1 DEF BeginSave
  <2>5. QED
    BY <2>1, <2>2, <2>3, <2>4 DEF SaveInv
<1>2. ASSUME NEW v \in saves, PublishSave(v) PROVE SaveInv'
  <2>1. saves = {v}
    BY DEF SaveInv
  <2> DEFINE w == [v EXCEPT !.state = "published"]
  <2>2. /\ saves' = {w}
        /\ files' = [files EXCEPT ![v.path] = v.source]
        /\ UNCHANGED <<saved, logical, edits>>
    BY <1>2, <2>1 DEF PublishSave
  <2>3. /\ w.path = v.path /\ w.source = v.source /\ w.kind = v.kind
        /\ w.state = "published"
    BY DEF TypeOK, Saves
  <2>4. IsFiniteSet(saves')
    BY <2>2, FS_Singleton
  <2>5. files'[v.path] = v.source
    BY <1>0, <2>2
  <2> HIDE DEF w
  <2>6. QED
    BY <2>2, <2>3, <2>4, <2>5 DEF SaveInv
<1>3. ASSUME NEW v \in saves, RecordSaved(v) PROVE SaveInv'
  <2>1. saves = {v} /\ v.state = "published"
    BY <1>3 DEF SaveInv, RecordSaved
  <2>2. saves' = {} /\ UNCHANGED <<files, edits>>
    BY <1>3, <2>1 DEF RecordSaved
  <2>3. IsFiniteSet(saves')
    BY <2>2, FS_EmptySet
  <2>4. edits = 0 /\ logical' # None => files[logical'] = saved'
    BY <1>0, <1>3, <2>1 DEF RecordSaved, SaveInv
  <2>5. QED
    BY <2>2, <2>3, <2>4 DEF SaveInv
<1>4. ASSUME NEW v \in saves, FailSave(v) PROVE SaveInv'
  <2>1. saves = {v} /\ v.state = "planned"
    BY <1>4 DEF SaveInv, FailSave
  <2>2. saves' = {} /\ UNCHANGED <<saved, logical, files, edits>>
    BY <1>4, <2>1 DEF FailSave
  <2>3. IsFiniteSet(saves')
    BY <2>2, FS_EmptySet
  <2>4. QED
    BY <2>1, <2>2, <2>3 DEF SaveInv
<1>5. CASE Outsider
  <2>1. edits' # 0 /\ UNCHANGED <<saves, logical>>
    BY <1>0, <1>5 DEF Outsider, jobVars
  <2>2. QED
    BY <2>1 DEF SaveInv
<1>6. CASE UNCHANGED <<saves, saved, logical, files, edits>>
  BY <1>6 DEF SaveInv
<1>7. QED
  BY <1>1, <1>2, <1>3, <1>4, <1>5, <1>6 DEF Next, vars, lineVars, factVars, jobVars,
     BeginStep, BeginMove, RunStep, StepFails, CommitStep, DropStep, CommitMove, DropMove

(* A document that is shown as saved is, with one save at a time, unless   *)
(* an outsider changed its file (session.rs:484-489, 643-662).             *)
THEOREM SavedMeansSaved == ASSUME MaxSaves = 1 PROVE Spec => []CleanMeansSaved
<1>1. TypeOK /\ CheckpointHasPath /\ SaveInv => CleanMeansSaved
  BY SetAssumption DEF TypeOK, CheckpointHasPath, SaveInv, CleanMeansSaved, Dirty
<1>2. TypeOK /\ SaveInv /\ [Next]_vars => SaveInv'
  BY SaveInvStep
<1>3. QED
  BY <1>1, <1>2, SaveInvInit, SessionTyped, CheckpointGoesWithPath, PTL DEF Spec

-----------------------------------------------------------------------------
(* The session implements the abstract line                                *)

(* A session starts as a line of one version.                              *)
LEMMA LineStarts == Init => Line!Init
<1>1. Init => history = <<0>> /\ 0 \in File /\ current + 1 = 1 /\ base \in [File -> File]
  BY LimitAssumption DEF Init, File
<1>2. QED
  BY <1>1 DEF Line!Init

(* An accepted step is an edit of the version shown.                       *)
LEMMA AcceptIsEdit ==
    ASSUME NEW p \in steps, LineInv, CommitStep(p) PROVE Line!Next
<1>1. PICK k \in 0 .. current + 1 :
        /\ history' = Accepted(history, current, p.file, k)
        /\ current' = current + 1 - k
  BY DEF CommitStep, Accepted
<1>2. /\ p.file \in File /\ base[p.file] = history[current + 1] /\ base' = base
  BY DEF CommitStep, Stale, Current, LineInv, StepsAreBased, TypeOK, Steps, factVars
<1>3. /\ history \in Seq(File) /\ current \in 0 .. Len(history) - 1
  BY DEF LineInv, TypeOK
<1>4. /\ SubSeq(history, 1, current + 1) \in Seq(File)
      /\ Len(SubSeq(history, 1, current + 1)) = current + 1
  BY <1>3
<1>5. Len(Append(SubSeq(history, 1, current + 1), p.file)) = current + 2
  BY <1>2, <1>3, <1>4
<1>6. /\ k + 1 \in 1 .. (current + 1) + 1
      /\ history' = SubSeq(Append(SubSeq(history, 1, current + 1), p.file), k + 1, (current + 1) + 1)
      /\ current' + 1 = (current + 1) + 2 - (k + 1)
  BY <1>1, <1>3, <1>5 DEF Accepted
<1>7. Line!Edit(p.file)
  BY <1>2, <1>6 DEF Line!Edit
<1>8. QED
  BY <1>2, <1>7 DEF Line!Next

(* A candidate that was made is no part of the line yet.                   *)
LEMMA RunIsMake == ASSUME NEW t \in tickets, LineInv, RunStep(t) PROVE Line!Next
<1>1. /\ t.file \in File /\ t.source \in File /\ base \in [File -> File]
      /\ history \in Seq(File)
  BY DEF LineInv, TypeOK, Tickets
<1>2. /\ base' = [base EXCEPT ![t.file] = t.source]
      /\ UNCHANGED <<history, current>>
  BY DEF RunStep, lineVars
<1>3. \A i \in 1 .. Len(history) : history[i] # t.file /\ history[i] \in File
  BY <1>1 DEF LineInv, FilesAreOwned
<1>4. Line!Make
  BY <1>1, <1>2, <1>3 DEF Line!Make
<1>5. QED
  BY <1>4 DEF Line!Next

(* A committed move is an Undo or a Redo of the line shown.                *)
LEMMA MoveIsUndoOrRedo == ASSUME NEW r \in moves, LineInv, CommitMove(r) PROVE Line!Next
<1>1. /\ r.index \in {current - 1, current + 1} /\ r.index \in Nat
      /\ r.index < Len(history) /\ current' = r.index
      /\ UNCHANGED <<history, base>>
  BY DEF CommitMove, LineInv, MovesAreNear, TypeOK, Moves, factVars
<1>2. current \in Nat /\ Len(history) \in Nat
  BY DEF LineInv, TypeOK
<1>3. Line!Undo \/ Line!Redo
  BY <1>1, <1>2 DEF Line!Undo, Line!Redo
<1>4. QED
  BY <1>3 DEF Line!Next

(* Whatever is under way, a session does only what the line of versions    *)
(* with Undo and Redo does (session.rs:557-626).                           *)
THEOREM SessionIsALine == Spec => ImplementsLine
<1>1. Init => Line!Init
  BY LineStarts
<1>2. LineInv /\ [Next]_vars => [Line!Next]_(Line!vars)
  <2> SUFFICES ASSUME LineInv, [Next]_vars PROVE Line!Next \/ UNCHANGED Line!vars
    OBVIOUS
  <2>1. ASSUME NEW p \in steps, CommitStep(p) PROVE Line!Next
    BY <2>1, AcceptIsEdit
  <2>2. ASSUME NEW t \in tickets, RunStep(t) PROVE Line!Next
    BY <2>2, RunIsMake
  <2>3. ASSUME NEW r \in moves, CommitMove(r) PROVE Line!Next
    BY <2>3, MoveIsUndoOrRedo
  <2>4. CASE UNCHANGED <<history, current, base>>
    BY <2>4 DEF Line!vars
  <2>5. QED
    BY <2>1, <2>2, <2>3, <2>4 DEF Next, vars, lineVars, factVars, jobVars, BeginStep,
       BeginMove, BeginSave, Outsider, StepFails, DropStep, DropMove, PublishSave, FailSave,
       RecordSaved
<1>3. QED
  BY <1>1, <1>2, LineIsKept, PTL DEF Spec, ImplementsLine, Line!Spec

-----------------------------------------------------------------------------
(* The edits.                                                              *)

History == {"predecessor", "body_tip"}

\* What a candidate c knows of the stored document.
Rows(c) ==
    /\ c = [objects |-> c.objects, old |-> c.old, added |-> c.added, removed |-> c.removed]
    /\ \A id \in DOMAIN c.objects : Typed(c.objects[id])
    /\ \A id \in DOMAIN c.objects \cap DOMAIN copy.objects :
           c.objects[id].kind = copy.objects[id].kind

\* Which rows there are, and which of them changed.
Domains(c) ==
    /\ DOMAIN c.objects = (DOMAIN copy.objects \ c.removed) \cup c.added
    /\ c.removed \subseteq Parameters(copy.objects)
    /\ c.added \cap DOMAIN copy.objects = {} /\ IsFiniteSet(c.added)
    /\ c.added \subseteq DOMAIN c.old
    /\ DOMAIN c.old \subseteq DOMAIN c.objects
    /\ \A id \in DOMAIN c.objects \ DOMAIN c.old : c.objects[id] = copy.objects[id]

\* The old links of a changed row are those it is stored with.
OldLinks(c) ==
    \A id \in DOMAIN c.old :
        c.old[id] = (IF id \in c.added THEN {} ELSE PayloadEdges(id, copy.objects[id]))

Accounted(c) == Rows(c) /\ Domains(c) /\ OldLinks(c)

\* The features form lines, and every one that is followed is there.
OneLine(objects) ==
    /\ OneHistory(Links(objects))
    /\ \A e \in Links(objects) : e[3] \in History => Feature(objects, e[2])

Stored ==
    /\ Sound(copy)
    /\ OneHistory(copy.deps)
    /\ IsFiniteSet(DOMAIN copy.objects)
    /\ \A id \in DOMAIN copy.objects : Typed(copy.objects[id])

\* The inductive invariant of an edit.
EditInv ==
    /\ Sound(document)
    /\ phase \in {"open", "editing"} => copy = document /\ Stored
    /\ phase = "editing" =>
          Accounted(candidate) /\ OneLine(candidate.objects) /\ UniqueNames(candidate.objects)
    /\ phase = "written" => Sound(copy) /\ OneHistory(copy.deps)

---------------------------------------------------------------------------
(* Rows and links                                                          *)

\* Rows that agree in all but their values have the same links, references and
\* targets.
LEMMA SameRows ==
    ASSUME NEW A, NEW B, DOMAIN A = DOMAIN B,
           \A id \in DOMAIN A : /\ A[id].kind = B[id].kind
                                /\ A[id].name = B[id].name
                                /\ A[id].source = B[id].source
                                /\ A[id].links = B[id].links
    PROVE  /\ Links(A) = Links(B)
           /\ References(A) = References(B)
           /\ Resolved(A) => Resolved(B)
           /\ \A e : ValidTarget(A, e) => ValidTarget(B, e)
<1>1. Links(A) = Links(B)
  BY DEF Links, PayloadEdges
<1>2. Parameters(A) = Parameters(B)
  BY DEF Parameters
<1>3. \A id \in DOMAIN A : Reads(A, id) = Reads(B, id)
  BY <1>2 DEF Reads, Parameters
<1>4. References(A) = References(B)
  BY <1>3 DEF References
<1>5. Resolved(A) => Resolved(B)
  BY <1>2 DEF Resolved, UniqueNames, Parameters
<1>6. \A e : ValidTarget(A, e) => ValidTarget(B, e)
  BY DEF ValidTarget
<1> QED BY <1>1, <1>4, <1>5, <1>6

\* What a row is after a change of two of its fields.
LEMMA RowRenamed ==
    ASSUME NEW row, Typed(row), NEW name, NEW source
    PROVE  [row EXCEPT !.name = name, !.source = source]
             = [kind |-> row.kind, name |-> name, source |-> source,
                value |-> row.value, links |-> row.links]
<1> DEFINE named == [row EXCEPT !.name = name]
<1>1. row = [kind |-> row.kind, name |-> row.name, source |-> row.source,
             value |-> row.value, links |-> row.links]
  BY DEF Typed
<1>2. [row EXCEPT !.name = name, !.source = source] = [named EXCEPT !.source = source]
  BY <1>1
<1>3. named = [kind |-> row.kind, name |-> name, source |-> row.source,
               value |-> row.value, links |-> row.links]
  BY <1>1
<1> HIDE DEF named
<1>4. [named EXCEPT !.source = source]
        = [kind |-> row.kind, name |-> name, source |-> source,
           value |-> row.value, links |-> row.links]
  BY <1>3
<1> QED BY <1>2, <1>4

LEMMA RowRelinked ==
    ASSUME NEW row, Typed(row), NEW source, NEW links
    PROVE  [row EXCEPT !.source = source, !.links = links]
             = [kind |-> row.kind, name |-> row.name, source |-> source,
                value |-> row.value, links |-> links]
<1> DEFINE sourced == [row EXCEPT !.source = source]
<1>1. row = [kind |-> row.kind, name |-> row.name, source |-> row.source,
             value |-> row.value, links |-> row.links]
  BY DEF Typed
<1>2. [row EXCEPT !.source = source, !.links = links] = [sourced EXCEPT !.links = links]
  BY <1>1
<1>3. sourced = [kind |-> row.kind, name |-> row.name, source |-> source,
                 value |-> row.value, links |-> row.links]
  BY <1>1
<1> HIDE DEF sourced
<1>4. [sourced EXCEPT !.links = links]
        = [kind |-> row.kind, name |-> row.name, source |-> source,
           value |-> row.value, links |-> links]
  BY <1>3
<1> QED BY <1>2, <1>4

\* Where an edge of a row comes from, and that it is not one of a formula.
LEMMA LinkOf ==
    ASSUME NEW objects, \A id \in DOMAIN objects : Typed(objects[id])
    PROVE  /\ \A e \in Links(objects) : /\ e[1] \in DOMAIN objects
                                        /\ e \in PayloadEdges(e[1], objects[e[1]])
                                        /\ e[3] # "parameter"
           /\ \A id \in DOMAIN objects : PayloadEdges(id, objects[id]) \subseteq Links(objects)
<1>1. ASSUME NEW e \in Links(objects)
      PROVE  e[1] \in DOMAIN objects /\ e \in PayloadEdges(e[1], objects[e[1]])
               /\ e[3] # "parameter"
  <2>1. PICK id \in DOMAIN objects : e \in PayloadEdges(id, objects[id])
    BY <1>1 DEF Links
  <2>2. PICK link \in objects[id].links : e = <<id, link[1], link[2]>>
    BY <2>1 DEF PayloadEdges
  <2>3. link[2] \in {"predecessor", "body_tip", "support"}
    BY <2>2 DEF Typed
  <2> QED BY <2>1, <2>2, <2>3
<1> QED BY <1>1 DEF Links

\* Dependency rows are replaced by taking away the old and putting the new.
LEMMA Replaced ==
    ASSUME NEW deps, NEW before, NEW after, before \subseteq deps
    PROVE  (deps \ (before \ after)) \cup (after \ before) = (deps \ before) \cup after
OBVIOUS

---------------------------------------------------------------------------
(* The account a candidate keeps                                           *)

\* Changing rows keeps the account.
LEMMA EditKeeps ==
    ASSUME NEW c, Accounted(c), NEW new, NEW ids, ids \subseteq DOMAIN c.objects,
           DOMAIN new = DOMAIN c.objects,
           \A id \in DOMAIN new : new[id].kind = c.objects[id].kind /\ Typed(new[id]),
           \A id \in DOMAIN new \ ids : new[id] = c.objects[id],
           NEW old, DOMAIN old = DOMAIN c.old \cup ids,
           \A id \in DOMAIN old :
               old[id] = (IF id \in DOMAIN c.old THEN c.old[id]
                          ELSE PayloadEdges(id, c.objects[id]))
    PROVE  Accounted([objects |-> new, old |-> old, added |-> c.added, removed |-> c.removed])
<1> DEFINE d == [objects |-> new, old |-> old, added |-> c.added, removed |-> c.removed]
<1>1. Rows(d)
  BY DEF Accounted, Rows
<1>2. Domains(d)
  BY DEF Accounted, Domains
<1>3. OldLinks(d)
  <2> SUFFICES ASSUME NEW id \in DOMAIN old
      PROVE old[id] = (IF id \in c.added THEN {} ELSE PayloadEdges(id, copy.objects[id]))
    BY DEF OldLinks
  <2>1. CASE id \in DOMAIN c.old
    BY <2>1 DEF Accounted, OldLinks
  <2>2. CASE id \notin DOMAIN c.old
    BY <2>2 DEF Accounted, Domains
  <2> QED BY <2>1, <2>2
<1> QED BY <1>1, <1>2, <1>3 DEF Accounted

\* Adding rows keeps the account.
LEMMA AddKeeps ==
    ASSUME NEW c, Accounted(c), NEW ids, IsFiniteSet(ids), NEW new, NEW old,
           ids \cap (DOMAIN c.objects \cup c.removed) = {},
           DOMAIN new = DOMAIN c.objects \cup ids,
           \A id \in DOMAIN c.objects : new[id] = c.objects[id],
           \A id \in ids : Typed(new[id]),
           DOMAIN old = DOMAIN c.old \cup ids,
           \A id \in DOMAIN old : old[id] = (IF id \in ids THEN {} ELSE c.old[id])
    PROVE  Accounted([objects |-> new, old |-> old, added |-> c.added \cup ids,
                      removed |-> c.removed])
<1> DEFINE d == [objects |-> new, old |-> old, added |-> c.added \cup ids,
                 removed |-> c.removed]
<1>1. ids \cap DOMAIN copy.objects = {}
  BY DEF Accounted, Domains
<1>2. Rows(d)
  BY <1>1 DEF Accounted, Rows
<1>3. Domains(d)
  <2>1. IsFiniteSet(c.added \cup ids)
    BY FS_Union DEF Accounted, Domains
  <2> QED BY <1>1, <2>1 DEF Accounted, Domains
<1>4. OldLinks(d)
  BY DEF Accounted, OldLinks, Domains
<1> QED BY <1>2, <1>3, <1>4 DEF Accounted

\* Removing a parameter keeps the account.
LEMMA RemoveKeeps ==
    ASSUME NEW c, Accounted(c), NEW id \in Parameters(c.objects)
    PROVE  Accounted([objects |-> [i \in DOMAIN c.objects \ {id} |-> c.objects[i]],
                      old |-> [i \in DOMAIN c.old \ {id} |-> c.old[i]],
                      added |-> c.added \ {id},
                      removed |-> IF id \in c.added THEN c.removed ELSE c.removed \cup {id}])
<1> DEFINE d == [objects |-> [i \in DOMAIN c.objects \ {id} |-> c.objects[i]],
                 old |-> [i \in DOMAIN c.old \ {id} |-> c.old[i]],
                 added |-> c.added \ {id},
                 removed |-> IF id \in c.added THEN c.removed ELSE c.removed \cup {id}]
<1>1. id \in DOMAIN c.objects /\ c.objects[id].kind = "parameter"
  BY DEF Parameters
<1>2. Rows(d)
  BY DEF Accounted, Rows
<1>3. id \notin c.added => id \in Parameters(copy.objects)
  BY <1>1 DEF Accounted, Domains, Rows, Parameters
<1>4. Domains(d)
  <2>1. IsFiniteSet(c.added \ {id})
    BY FS_Subset DEF Accounted, Domains
  <2> QED BY <1>1, <1>3, <2>1 DEF Accounted, Domains, Parameters
<1>5. OldLinks(d)
  BY DEF Accounted, OldLinks
<1> QED BY <1>2, <1>4, <1>5 DEF Accounted

---------------------------------------------------------------------------
(* The line of features                                                    *)

\* A change that takes no feature away and gives no new place in a history keeps
\* the line.
LEMMA LineKept ==
    ASSUME NEW A, NEW B, OneLine(A),
           \A id : Feature(A, id) => Feature(B, id),
           \A e \in Links(B) : e[3] \in History => e \in Links(A)
    PROVE  OneLine(B)
BY DEF OneLine, OneHistory, History

\* A body with a new feature keeps it: nothing leads to what was not there.
LEMMA BodyAdded ==
    ASSUME NEW A, NEW B, OneLine(A), NEW body, NEW feature,
           feature \notin DOMAIN A,
           \A id : Feature(A, id) => Feature(B, id),
           Feature(B, feature),
           \A e \in Links(B) : e[3] \in History =>
               e \in Links(A) \/ e = <<body, feature, "body_tip">>
    PROVE  OneLine(B)
<1>1. \A e \in Links(A) : e[3] \in History => e[2] # feature
  BY DEF OneLine, Feature
<1>2. OneHistory(Links(B))
  <2> SUFFICES ASSUME NEW e \in Links(B), NEW f \in Links(B), e[2] = f[2],
                      e[3] \in History, f[3] \in History
               PROVE  e = f
    BY DEF OneHistory, History
  <2>1. CASE e \in Links(A) /\ f \in Links(A)
    BY <2>1 DEF OneLine, OneHistory, History
  <2>2. CASE ~(e \in Links(A) /\ f \in Links(A))
    BY <2>2, <1>1
  <2> QED BY <2>1, <2>2
<1>3. \A e \in Links(B) : e[3] \in History => Feature(B, e[2])
  BY DEF OneLine
<1> QED BY <1>2, <1>3 DEF OneLine

\* A feature that follows the tip of a body and becomes its tip keeps it: the
\* only edge to the old tip was the body's, which is gone.
LEMMA TipMoved ==
    ASSUME NEW A, NEW B, OneLine(A), NEW body, NEW tip, NEW feature,
           <<body, tip, "body_tip">> \in Links(A),
           feature \notin DOMAIN A, feature # body,
           \A id : Feature(A, id) => Feature(B, id),
           Feature(B, feature),
           \A e \in Links(B) : e[3] \in History =>
               \/ e \in Links(A) /\ e[1] # body
               \/ e = <<body, feature, "body_tip">>
               \/ e = <<feature, tip, "predecessor">>
    PROVE  OneLine(B)
<1>1. \A e \in Links(A) : e[3] \in History => e[2] # feature
  BY DEF OneLine, Feature
<1>2. \A e \in Links(A) : e[3] \in History /\ e[2] = tip => e[1] = body
  BY DEF OneLine, OneHistory, History
<1>3. tip # feature /\ Feature(A, tip)
  BY <1>1 DEF OneLine, History
<1>4. OneHistory(Links(B))
  <2> SUFFICES ASSUME NEW e \in Links(B), NEW f \in Links(B), e[2] = f[2],
                      e[3] \in History, f[3] \in History
               PROVE  e = f
    BY DEF OneHistory, History
  <2>1. CASE e \in Links(A) /\ f \in Links(A)
    BY <2>1 DEF OneLine, OneHistory, History
  <2>2. CASE ~(e \in Links(A) /\ f \in Links(A))
    BY <2>2, <1>1, <1>2, <1>3
  <2> QED BY <2>1, <2>2
<1>5. \A e \in Links(B) : e[3] \in History => Feature(B, e[2])
  BY <1>3 DEF OneLine
<1> QED BY <1>4, <1>5 DEF OneLine

---------------------------------------------------------------------------
(* Each action keeps the invariant                                         *)

\* A change that names no parameter keeps the names apart.
LEMMA NamesKept ==
    ASSUME NEW A, NEW B, UniqueNames(A),
           \A id \in Parameters(B) : id \in Parameters(A) /\ B[id].name = A[id].name
    PROVE  UniqueNames(B)
BY DEF UniqueNames

LEMMA InitInv == EditInit => EditInv
BY DocumentsAssumption DEF EditInit, EditInv, Stored

\* The candidate of an edit that begins is the stored document.
LEMMA BeginInv == EditInv /\ Begin => EditInv'
<1> SUFFICES ASSUME EditInv, Begin PROVE EditInv'
  OBVIOUS
<1>1. copy = document /\ Stored /\ Stored'
  BY DEF EditInv, Begin, Stored
<1>2. /\ candidate'.objects = copy'.objects
      /\ candidate' = [objects |-> candidate'.objects, old |-> candidate'.old,
                       added |-> candidate'.added, removed |-> candidate'.removed]
      /\ DOMAIN candidate'.old = {} /\ candidate'.added = {} /\ candidate'.removed = {}
      /\ IsFiniteSet(candidate'.added)
  BY <1>1, FS_EmptySet DEF Begin, NoCandidate, NoRows
<1>3. Accounted(candidate)'
  BY <1>1, <1>2 DEF Accounted, Rows, Domains, OldLinks, Stored
<1>4. Links(copy.objects) \subseteq copy.deps
  BY <1>1 DEF Stored, Sound
<1>5. OneHistory(Links(copy.objects))
  BY <1>1, <1>4 DEF Stored, OneHistory
<1>6. \A e \in Links(copy.objects) : e[3] \in History => Feature(copy.objects, e[2])
  BY <1>1, <1>4 DEF Stored, Sound, ValidTarget, Feature, History
<1>7. OneLine(candidate.objects)'
  BY <1>1, <1>2, <1>5, <1>6 DEF OneLine, Begin
<1>8. UniqueNames(candidate.objects)'
  BY <1>1, <1>2 DEF Stored, Sound, Resolved, Begin
<1> QED BY <1>1, <1>3, <1>7, <1>8 DEF EditInv, Begin

\* What is left to show of a change.
LEMMA ChangeInv ==
    ASSUME EditInv, Change, Accounted(candidate)', OneLine(candidate'.objects),
           UniqueNames(candidate'.objects)
    PROVE  EditInv'
BY DEF EditInv, Change, Stored

\* A change of one row that gives it no new place in a history.
LEMMA UpdateInv ==
    ASSUME EditInv, Change, NEW id \in DOMAIN candidate.objects, NEW row, Update(id, row),
           Typed(row), row.kind = candidate.objects[id].kind,
           row.name = candidate.objects[id].name,
           \A link \in row.links : link[2] \in History => link \in candidate.objects[id].links
    PROVE  EditInv'
<1>1. Accounted(candidate) /\ OneLine(candidate.objects)
  BY DEF EditInv, Change
<1>2. candidate' = [objects |-> [candidate.objects EXCEPT ![id] = row], old |-> Edited({id}),
                    added |-> candidate.added, removed |-> candidate.removed]
  BY <1>1 DEF Update, Accounted, Rows
<1> DEFINE new == [candidate.objects EXCEPT ![id] = row]
           old == Edited({id})
<1>3. DOMAIN new = DOMAIN candidate.objects /\ new[id] = row
        /\ \A i \in DOMAIN new \ {id} : new[i] = candidate.objects[i]
  OBVIOUS
<1>4. \A i \in DOMAIN candidate.objects : Typed(candidate.objects[i])
  BY <1>1 DEF Accounted, Rows
<1>5. /\ DOMAIN old = DOMAIN candidate.old \cup {id}
      /\ \A i \in DOMAIN old :
           old[i] = (IF i \in DOMAIN candidate.old THEN candidate.old[i]
                     ELSE PayloadEdges(i, candidate.objects[i]))
  BY DEF Edited
<1> HIDE DEF new, old
<1>6. Accounted([objects |-> new, old |-> old, added |-> candidate.added,
                 removed |-> candidate.removed])
  BY <1>1, <1>3, <1>4, <1>5, EditKeeps
<1>7. Accounted(candidate)'
  BY <1>2, <1>6 DEF new, old, Accounted, Rows, Domains, OldLinks, Change
<1>8. \A e \in Links(new) : e[3] \in History => e \in Links(candidate.objects)
  BY <1>3 DEF Links, PayloadEdges
<1>9. \A i : Feature(candidate.objects, i) => Feature(new, i)
  BY <1>3 DEF Feature
<1>10. OneLine(new)
  BY <1>1, <1>8, <1>9, LineKept
<1>11. UniqueNames(new)
  <2>1. \A i \in Parameters(new) :
           i \in Parameters(candidate.objects) /\ new[i].name = candidate.objects[i].name
    BY <1>3 DEF Parameters
  <2> QED BY <2>1, NamesKept DEF EditInv, Change
<1>12. OneLine(candidate'.objects) /\ UniqueNames(candidate'.objects)
  BY <1>2, <1>10, <1>11 DEF new
<1> QED BY <1>7, <1>12, ChangeInv

\* A new row that leads nowhere.
LEMMA RowAdded ==
    ASSUME EditInv, Change, NEW id, MayAdd({id}), NEW row, Typed(row), row.links = {},
           row.kind = "parameter" => CheckName(id, row.name),
           candidate' = Added([i \in {id} |-> row])
    PROVE  EditInv'
<1>1. Accounted(candidate) /\ OneLine(candidate.objects)
  BY DEF EditInv, Change
<1> DEFINE new == [i \in DOMAIN candidate.objects \cup {id} |->
                      IF i \in {id} THEN row ELSE candidate.objects[i]]
           old == [i \in DOMAIN candidate.old \cup {id} |->
                      IF i \in {id} THEN {} ELSE candidate.old[i]]
<1>2. candidate' = [objects |-> new, old |-> old, added |-> candidate.added \cup {id},
                    removed |-> candidate.removed]
  BY <1>1 DEF Added, Accounted, Rows
<1>3. id \notin DOMAIN candidate.objects /\ id \notin candidate.removed
  BY DEF MayAdd
<1>4. /\ DOMAIN new = DOMAIN candidate.objects \cup {id}
      /\ new[id] = row
      /\ \A i \in DOMAIN candidate.objects : new[i] = candidate.objects[i]
  BY <1>3
<1>5. /\ DOMAIN old = DOMAIN candidate.old \cup {id}
      /\ \A i \in DOMAIN old : old[i] = (IF i \in {id} THEN {} ELSE candidate.old[i])
  OBVIOUS
<1> HIDE DEF new, old
<1>6. Accounted([objects |-> new, old |-> old, added |-> candidate.added \cup {id},
                 removed |-> candidate.removed])
  <2>1. IsFiniteSet({id})
    BY FS_Singleton
  <2> QED BY <1>1, <1>3, <1>4, <1>5, <2>1, AddKeeps
<1>7. Accounted(candidate)'
  BY ZenonT(60), <1>2, <1>6 DEF Accounted, Rows, Domains, OldLinks, Change
<1>8. \A e \in Links(new) : e[3] \in History => e \in Links(candidate.objects)
  BY <1>4 DEF Links, PayloadEdges
<1>9. \A i : Feature(candidate.objects, i) => Feature(new, i)
  BY <1>4 DEF Feature
<1>10. OneLine(new)
  BY <1>1, <1>8, <1>9, LineKept
<1>11. UniqueNames(new)
  BY <1>4 DEF EditInv, Change, UniqueNames, CheckName, Parameters
<1>12. OneLine(candidate'.objects) /\ UniqueNames(candidate'.objects)
  BY <1>2, <1>10, <1>11
<1> QED BY <1>7, <1>12, ChangeInv

LEMMA AddParameterInv ==
    ASSUME EditInv, NEW id, NEW name \in Names, NEW source \in Formula,
           AddParameter(id, name, source)
    PROVE  EditInv'
<1>1. /\ Typed(Parameter(name, source)) /\ Parameter(name, source).links = {}
      /\ Parameter(name, source).name = name
  BY DEF Parameter, Typed
<1> QED BY <1>1, RowAdded DEF AddParameter

LEMMA AddSketchInv ==
    ASSUME EditInv, NEW id, NEW source \in Formula, AddSketch(id, source)
    PROVE  EditInv'
<1>1. /\ Typed(Row("sketch", source, {})) /\ Row("sketch", source, {}).links = {}
      /\ Row("sketch", source, {}).kind # "parameter"
  BY DEF Row, Typed
<1> QED BY <1>1, RowAdded DEF AddSketch

\* Every row of the candidate is typed.
LEMMA CandidateTyped ==
    ASSUME EditInv, Change, NEW id \in DOMAIN candidate.objects
    PROVE  Typed(candidate.objects[id])
BY DEF EditInv, Change, Accounted, Rows

LEMMA SetParameterInv ==
    ASSUME EditInv, NEW id, NEW source \in Formula, SetParameter(id, source)
    PROVE  EditInv'
<1> DEFINE row == [candidate.objects[id] EXCEPT !.source = source]
<1>1. Change /\ id \in DOMAIN candidate.objects /\ Update(id, row)
  BY DEF SetParameter, Parameters
<1>2. Typed(candidate.objects[id])
  BY <1>1, CandidateTyped
<1>3. /\ row.kind = candidate.objects[id].kind
      /\ row.name = candidate.objects[id].name
      /\ row.links = candidate.objects[id].links
      /\ Typed(row)
  BY <1>2 DEF Typed
<1> HIDE DEF row
<1> QED BY <1>1, <1>3, UpdateInv

LEMMA SetExpressionTextInv ==
    ASSUME EditInv, NEW id, NEW source \in Formula, SetExpressionText(id, source)
    PROVE  EditInv'
<1> DEFINE row == [candidate.objects[id] EXCEPT !.source = source]
<1>1. Change /\ id \in DOMAIN candidate.objects /\ Update(id, row)
  BY DEF SetExpressionText
<1>2. Typed(candidate.objects[id])
  BY <1>1, CandidateTyped
<1>3. /\ row.kind = candidate.objects[id].kind
      /\ row.name = candidate.objects[id].name
      /\ row.links = candidate.objects[id].links
      /\ Typed(row)
  BY <1>2 DEF Typed
<1> HIDE DEF row
<1> QED BY <1>1, <1>3, UpdateInv

LEMMA SetFieldInv ==
    ASSUME EditInv, NEW id, SetField(id)
    PROVE  EditInv'
<1>1. Change /\ id \in DOMAIN candidate.objects /\ Update(id, candidate.objects[id])
  BY DEF SetField
<1>2. Typed(candidate.objects[id])
  BY <1>1, CandidateTyped
<1> QED BY <1>1, <1>2, UpdateInv

\* Only support links come and go.
LEMMA SetEndConditionInv ==
    ASSUME EditInv, NEW id, NEW source \in Formula, NEW support,
           SetEndCondition(id, source, support)
    PROVE  EditInv'
<1> DEFINE links == {link \in candidate.objects[id].links : link[2] # "support"}
                        \cup {<<to, "support">> : to \in support}
           row == [candidate.objects[id] EXCEPT !.source = source, !.links = links]
<1>1. Change /\ Feature(candidate.objects, id) /\ Update(id, row)
  BY DEF SetEndCondition
<1>2. id \in DOMAIN candidate.objects /\ candidate.objects[id].kind = "feature"
  BY <1>1 DEF Feature
<1>3. Typed(candidate.objects[id])
  BY <1>1, <1>2, CandidateTyped
<1>4. \A link \in links : /\ link = <<link[1], link[2]>>
                          /\ link[2] \in {"predecessor", "body_tip", "support"}
                          /\ link[2] \in History => link \in candidate.objects[id].links
  BY <1>3 DEF Typed, History
<1> HIDE DEF links
<1>5. row.kind = "feature" /\ row.name = candidate.objects[id].name /\ row.links = links
  BY <1>2, <1>3 DEF Typed
<1>6. Typed(row)
  <2> DEFINE held == candidate.objects[id]
  <2>2. row = [kind |-> held.kind, name |-> held.name, source |-> source,
               value |-> held.value, links |-> links]
    BY <1>3, RowRelinked
  <2>3. /\ row = [kind |-> row.kind, name |-> row.name, source |-> row.source,
                  value |-> row.value, links |-> row.links]
        /\ row.source = source
    BY <2>2
  <2> HIDE DEF row
  <2> QED BY <1>4, <1>5, <2>3 DEF Typed
<1> HIDE DEF row
<1> QED BY <1>1, <1>2, <1>4, <1>5, <1>6, UpdateInv

\* A renamed formula names under the new name what it named under the old one.
LEMMA RenamedIs ==
    ASSUME NEW f \in Formula, NEW old \in Names, NEW name \in Names
    PROVE  /\ Renamed(f, old, name) \in Formula
           /\ Renamed(f, old, name).literal = f.literal
           /\ \A n \in Names : Renamed(f, old, name).uses[n] =
                 (IF old = name THEN f.uses[n]
                  ELSE IF n = old THEN 0
                  ELSE IF n = name THEN f.uses[name] + f.uses[old]
                  ELSE f.uses[n])
<1> DEFINE renamed == [n \in Names |-> IF old = name THEN f.uses[n]
                                       ELSE IF n = old THEN 0
                                       ELSE IF n = name THEN f.uses[name] + f.uses[old]
                                       ELSE f.uses[n]]
<1>1. f = [literal |-> f.literal, uses |-> f.uses] /\ f.literal \in Nat
        /\ f.uses \in [Names -> Nat]
  BY DEF Formula
<1>2. renamed \in [Names -> Nat]
  BY <1>1
<1>3. Renamed(f, old, name) = [f EXCEPT !.uses = renamed]
  BY <1>1 DEF Renamed
<1> HIDE DEF renamed
<1>4. Renamed(f, old, name) = [literal |-> f.literal, uses |-> renamed]
  BY <1>1, <1>3
<1> QED BY <1>1, <1>2, <1>4 DEF Formula, renamed

\* What a rename makes of every row.
LEMMA RowsRenamed ==
    ASSUME EditInv, NEW id, NEW name \in Names, RenameParameter(id, name)
    PROVE  /\ DOMAIN candidate'.objects = DOMAIN candidate.objects
           /\ \A i \in DOMAIN candidate.objects :
                LET old == candidate.objects[i]
                    new == candidate'.objects[i]
                IN  /\ Typed(new)
                    /\ new.kind = old.kind /\ new.links = old.links
                    /\ new.name = (IF i = id THEN name ELSE old.name)
                    /\ new.source = (IF i \in Users(candidate.objects[id].name)
                                     THEN Renamed(old.source, candidate.objects[id].name, name)
                                     ELSE old.source)
                    /\ i \notin Users(candidate.objects[id].name) \cup {id} => new = old
<1> DEFINE users == Users(candidate.objects[id].name)
           new == candidate'.objects
<1>1. Accounted(candidate)
  BY DEF EditInv, RenameParameter, Change
<1>2. \A i \in DOMAIN candidate.objects : Typed(candidate.objects[i])
  BY <1>1 DEF Accounted, Rows
<1>3. DOMAIN new = DOMAIN candidate.objects
  BY <1>1 DEF RenameParameter, Accounted, Rows
<1>4. candidate.objects[id].name \in Names
  BY <1>2 DEF RenameParameter, Parameters, Typed
<1>5. ASSUME NEW i \in DOMAIN new
      PROVE  LET old == candidate.objects[i]
             IN  /\ Typed(new[i])
                 /\ new[i].kind = old.kind /\ new[i].links = old.links
                 /\ new[i].name = (IF i = id THEN name ELSE old.name)
                 /\ new[i].source = (IF i \in users
                                     THEN Renamed(old.source, candidate.objects[id].name, name)
                                     ELSE old.source)
                 /\ i \notin users \cup {id} => new[i] = old
  <2> DEFINE held == candidate.objects[i]
             n == IF i = id THEN name ELSE held.name
             f == IF i \in users THEN Renamed(held.source, candidate.objects[id].name, name)
                  ELSE held.source
  <2>1. new[i] = [held EXCEPT !.name = n, !.source = f]
    BY <1>1, <1>3 DEF RenameParameter, Accounted, Rows
  <2>2. i \notin users \cup {id} => n = held.name /\ f = held.source
    OBVIOUS
  <2>3. Typed(held)
    BY <1>2, <1>3
  <2>4. held.kind = "parameter" => n \in Names
    BY <2>3 DEF Typed
  <2>5. f \in Formula
    BY <1>4, <2>3, RenamedIs DEF Typed
  <2> HIDE DEF n, f, held, new
  <2>6. [held EXCEPT !.name = n, !.source = f]
          = [kind |-> held.kind, name |-> n, source |-> f,
             value |-> held.value, links |-> held.links]
    BY <2>3, RowRenamed
  <2>7. new[i] = [kind |-> held.kind, name |-> n, source |-> f,
                  value |-> held.value, links |-> held.links]
    BY <2>1, <2>6
  <2>8. /\ new[i].kind = held.kind /\ new[i].links = held.links
        /\ new[i].name = n /\ new[i].source = f
    BY <2>7
  <2>9. Typed(new[i])
    BY <2>3, <2>4, <2>5, <2>7 DEF Typed
  <2>10. i \notin users \cup {id} => new[i] = held
    BY <2>2, <2>3, <2>7 DEF Typed
  <2> QED BY <2>8, <2>9, <2>10 DEF held, n, f
<1> QED BY <1>3, <1>5

\* A rename changes names and formulas of the rows it counts as changed.
LEMMA RenameParameterInv ==
    ASSUME EditInv, NEW id, NEW name \in Names, RenameParameter(id, name)
    PROVE  EditInv'
<1> DEFINE users == Users(candidate.objects[id].name)
           ids == users \cup {id}
           new == candidate'.objects
           old == Edited(ids)
<1>1. Change /\ id \in Parameters(candidate.objects) /\ ids \subseteq DOMAIN candidate.objects
  BY DEF RenameParameter, Parameters, Users
<1>2. /\ Accounted(candidate) /\ OneLine(candidate.objects)
      /\ UniqueNames(candidate.objects) /\ CheckName(id, name)
  BY <1>1 DEF EditInv, Change, RenameParameter
<1>3. candidate' = [objects |-> new, old |-> old, added |-> candidate.added,
                    removed |-> candidate.removed]
  BY <1>2 DEF RenameParameter, Accounted, Rows
<1>4. DOMAIN new = DOMAIN candidate.objects
  BY RowsRenamed
<1>5. \A i \in DOMAIN new :
         /\ Typed(new[i])
         /\ new[i].kind = candidate.objects[i].kind
         /\ new[i].links = candidate.objects[i].links
         /\ new[i].name = (IF i = id THEN name ELSE candidate.objects[i].name)
         /\ i \notin ids => new[i] = candidate.objects[i]
  BY <1>4, RowsRenamed
<1>6. /\ DOMAIN old = DOMAIN candidate.old \cup ids
      /\ \A i \in DOMAIN old :
           old[i] = (IF i \in DOMAIN candidate.old THEN candidate.old[i]
                     ELSE PayloadEdges(i, candidate.objects[i]))
  BY DEF Edited
<1> HIDE DEF new, old, ids
<1>7. Accounted([objects |-> new, old |-> old, added |-> candidate.added,
                 removed |-> candidate.removed])
  BY <1>1, <1>2, <1>4, <1>5, <1>6, EditKeeps
<1>8. Accounted(candidate)'
  BY <1>1, <1>3, <1>7 DEF Accounted, Rows, Domains, OldLinks, Change
<1>9. \A e \in Links(new) : e[3] \in History => e \in Links(candidate.objects)
  BY <1>4, <1>5 DEF Links, PayloadEdges
<1>10. \A i : Feature(candidate.objects, i) => Feature(new, i)
  BY <1>4, <1>5 DEF Feature
<1>11. OneLine(new)
  BY <1>2, <1>9, <1>10, LineKept
<1>12. UniqueNames(new)
  BY <1>1, <1>2, <1>4, <1>5 DEF UniqueNames, CheckName, Parameters
<1> QED BY <1>1, <1>8, <1>11, <1>12, ChangeInv DEF new

LEMMA RemoveParameterInv ==
    ASSUME EditInv, NEW id, RemoveParameter(id)
    PROVE  EditInv'
<1>1. Change /\ id \in Parameters(candidate.objects)
  BY DEF RemoveParameter
<1>2. Accounted(candidate) /\ OneLine(candidate.objects)
  BY <1>1 DEF EditInv, Change
<1> DEFINE new == [i \in DOMAIN candidate.objects \ {id} |-> candidate.objects[i]]
           old == [i \in DOMAIN candidate.old \ {id} |-> candidate.old[i]]
           added == candidate.added \ {id}
           removed == IF id \in candidate.added THEN candidate.removed
                      ELSE candidate.removed \cup {id}
<1>3. candidate' = [objects |-> new, old |-> old, added |-> added, removed |-> removed]
  BY <1>2 DEF RemoveParameter, Accounted, Rows
<1>4. Accounted([objects |-> new, old |-> old, added |-> added, removed |-> removed])
  BY <1>1, <1>2, RemoveKeeps
<1>a. /\ DOMAIN new = DOMAIN candidate.objects \ {id}
      /\ \A i \in DOMAIN new : new[i] = candidate.objects[i]
  OBVIOUS
<1> HIDE DEF new
<1>5. \A e \in Links(new) : e[3] \in History => e \in Links(candidate.objects)
  BY <1>a DEF Links, PayloadEdges
<1>6. \A i : Feature(candidate.objects, i) => Feature(new, i)
  BY <1>1, <1>a DEF Feature, Parameters
<1>7. OneLine(new)
  BY <1>2, <1>5, <1>6, LineKept
<1> HIDE DEF new, old, added, removed
<1>8. Accounted(candidate)'
  BY <1>1, <1>3, <1>4 DEF Accounted, Rows, Domains, OldLinks, Change
<1>9. UniqueNames(new)
  <2>1. \A i \in Parameters(new) :
           i \in Parameters(candidate.objects) /\ new[i].name = candidate.objects[i].name
    BY <1>a DEF Parameters
  <2> QED BY <1>1, <2>1, NamesKept DEF EditInv, Change
<1>10. OneLine(candidate'.objects) /\ UniqueNames(candidate'.objects)
  BY <1>3, <1>7, <1>9
<1> QED BY <1>1, <1>8, <1>10, ChangeInv

\* A body comes with its first feature.
LEMMA AddBodyInv ==
    ASSUME EditInv, NEW id, NEW feature, NEW source \in Formula,
           AddBody(id, feature, source)
    PROVE  EditInv'
<1>1. Change /\ MayAdd({id, feature})
  BY DEF AddBody
<1>2. Accounted(candidate) /\ OneLine(candidate.objects)
  BY <1>1 DEF EditInv, Change
<1> DEFINE ids == {id, feature}
           rows == [i \in ids |-> IF i = feature THEN Row("feature", source, {})
                                  ELSE Row("body", Nothing, {<<feature, "body_tip">>})]
           new == [i \in DOMAIN candidate.objects \cup DOMAIN rows |->
                      IF i \in DOMAIN rows THEN rows[i] ELSE candidate.objects[i]]
           old == [i \in DOMAIN candidate.old \cup DOMAIN rows |->
                      IF i \in DOMAIN rows THEN {} ELSE candidate.old[i]]
<1>3. candidate' = Added(rows)
  BY DEF AddBody
<1>4. candidate' = [objects |-> new, old |-> old, added |-> candidate.added \cup ids,
                    removed |-> candidate.removed]
  BY <1>2, <1>3 DEF Added, Accounted, Rows
<1>5. ids \cap (DOMAIN candidate.objects \cup candidate.removed) = {}
  BY <1>1 DEF MayAdd
<1>6. /\ Row("feature", source, {}).links = {}
      /\ Row("feature", source, {}).kind = "feature"
      /\ Typed(Row("feature", source, {}))
  BY DEF Row, Typed
<1>7. /\ Row("body", Nothing, {<<feature, "body_tip">>}).links = {<<feature, "body_tip">>}
      /\ Row("body", Nothing, {<<feature, "body_tip">>}).kind = "body"
      /\ Typed(Row("body", Nothing, {<<feature, "body_tip">>}))
  <2> DEFINE body == Row("body", Nothing, {<<feature, "body_tip">>})
  <2>1. /\ body.links = {<<feature, "body_tip">>} /\ body.kind = "body"
        /\ body = [kind |-> body.kind, name |-> body.name, source |-> body.source,
                   value |-> body.value, links |-> body.links]
        /\ body.source \in Formula
    BY DEF Row, Nothing, Formula
  <2> HIDE DEF body
  <2>2. Typed(body)
    BY <2>1 DEF Typed
  <2> QED BY <2>1, <2>2 DEF body
<1>8. /\ DOMAIN new = DOMAIN candidate.objects \cup ids
      /\ \A i \in DOMAIN candidate.objects : new[i] = candidate.objects[i]
      /\ \A i \in ids : Typed(new[i]) /\ new[i].kind # "parameter"
      /\ new[feature].kind = "feature" /\ new[feature].links = {}
      /\ id # feature => new[id].links = {<<feature, "body_tip">>}
  BY <1>5, <1>6, <1>7
<1>9. /\ DOMAIN old = DOMAIN candidate.old \cup ids
      /\ \A i \in DOMAIN old : old[i] = (IF i \in ids THEN {} ELSE candidate.old[i])
  OBVIOUS
<1>10. id \in ids /\ feature \in ids /\ \A i \in ids : i = id \/ i = feature
  OBVIOUS
<1> HIDE DEF new, old, ids
<1>11. Accounted([objects |-> new, old |-> old, added |-> candidate.added \cup ids,
                  removed |-> candidate.removed])
  <2>1. IsFiniteSet(ids)
    <3>1. ids = {id} \cup {feature}
      BY DEF ids
    <3>2. IsFiniteSet({id}) /\ IsFiniteSet({feature})
      BY FS_Singleton
    <3> QED BY <3>1, <3>2, FS_Union
  <2> QED BY <1>2, <1>5, <1>8, <1>9, <2>1, AddKeeps
<1>12. Accounted(candidate)'
  BY <1>1, <1>4, <1>11 DEF Accounted, Rows, Domains, OldLinks, Change
<1>13. \A e \in Links(new) : e[3] \in History =>
          e \in Links(candidate.objects) \/ e = <<id, feature, "body_tip">>
  <2> SUFFICES ASSUME NEW e \in Links(new)
               PROVE  e \in Links(candidate.objects) \/ e = <<id, feature, "body_tip">>
    OBVIOUS
  <2>1. PICK i \in DOMAIN new : \E link \in new[i].links : e = <<i, link[1], link[2]>>
    BY DEF Links, PayloadEdges
  <2>2. CASE i \in DOMAIN candidate.objects
    BY <1>8, <2>1, <2>2 DEF Links, PayloadEdges
  <2>3. CASE i \in ids
    <3>1. i # feature /\ i = id
      BY <1>8, <1>10, <2>1, <2>3
    <3> QED BY <1>8, <2>1, <3>1
  <2> QED BY <1>8, <2>2, <2>3
<1>14. \A i : Feature(candidate.objects, i) => Feature(new, i)
  BY <1>8 DEF Feature
<1>15. Feature(new, feature) /\ feature \notin DOMAIN candidate.objects
  BY <1>5, <1>8, <1>10 DEF Feature
<1>16. OneLine(new)
  BY <1>2, <1>13, <1>14, <1>15, BodyAdded
<1>17. UniqueNames(new)
  <2>1. \A i \in Parameters(new) :
           i \in Parameters(candidate.objects) /\ new[i].name = candidate.objects[i].name
    BY <1>8 DEF Parameters
  <2> QED BY <1>1, <2>1, NamesKept DEF EditInv, Change
<1>18. OneLine(candidate'.objects) /\ UniqueNames(candidate'.objects)
  BY <1>4, <1>16, <1>17
<1> QED BY <1>1, <1>12, <1>18, ChangeInv

\* A feature follows the tip the body has by now and becomes its tip.
LEMMA AddFeatureInv ==
    ASSUME EditInv, NEW id, NEW body, NEW source \in Formula,
           AddFeature(id, body, source)
    PROVE  EditInv'
<1>1. /\ Change /\ MayAdd({id})
      /\ body \in DOMAIN candidate.objects /\ candidate.objects[body].kind = "body"
  BY DEF AddFeature
<1>2. Accounted(candidate) /\ OneLine(candidate.objects)
  BY <1>1 DEF EditInv, Change
<1> DEFINE moved == [candidate.objects EXCEPT ![body].links = {<<id, "body_tip">>}]
           changed == Edited({body})
           edited == [objects |-> moved, old |-> changed, added |-> candidate.added,
                      removed |-> candidate.removed]
<1>3. PICK tip \in Tip(body) :
        LET c == [candidate EXCEPT !.objects = moved, !.old = changed]
        IN  candidate' = [c EXCEPT
               !.objects = [i \in DOMAIN @ \cup {id} |->
                   IF i = id THEN Row("feature", source, {<<tip[1], "predecessor">>})
                   ELSE @[i]],
               !.old = [i \in DOMAIN @ \cup {id} |-> IF i = id THEN {} ELSE @[i]],
               !.added = @ \cup {id}]
  BY DEF AddFeature
<1> DEFINE feature == Row("feature", source, {<<tip[1], "predecessor">>})
           new == [i \in DOMAIN moved \cup {id} |-> IF i = id THEN feature ELSE moved[i]]
           old == [i \in DOMAIN changed \cup {id} |-> IF i = id THEN {} ELSE changed[i]]
<1>4. [candidate EXCEPT !.objects = moved, !.old = changed] = edited
  <2> HIDE DEF moved, changed
  <2> DEFINE first == [candidate EXCEPT !.objects = moved]
  <2>1. candidate = [objects |-> candidate.objects, old |-> candidate.old,
                     added |-> candidate.added, removed |-> candidate.removed]
    BY <1>2 DEF Accounted, Rows
  <2>2. [candidate EXCEPT !.objects = moved, !.old = changed] = [first EXCEPT !.old = changed]
    BY <2>1
  <2>3. first = [objects |-> moved, old |-> candidate.old,
                 added |-> candidate.added, removed |-> candidate.removed]
    BY <2>1
  <2> HIDE DEF first
  <2>4. [first EXCEPT !.old = changed] = edited
    BY <2>3
  <2> QED BY <2>2, <2>4
<1>5. candidate' = [objects |-> new, old |-> old, added |-> candidate.added \cup {id},
                    removed |-> candidate.removed]
  BY <1>3, <1>4
<1>6. id \notin DOMAIN candidate.objects /\ id \notin candidate.removed /\ id # body
  BY <1>1 DEF MayAdd
<1>7. \A i \in DOMAIN candidate.objects : Typed(candidate.objects[i])
  BY <1>2 DEF Accounted, Rows
<1>8. /\ DOMAIN moved = DOMAIN candidate.objects
      /\ \A i \in DOMAIN moved \ {body} : moved[i] = candidate.objects[i]
      /\ moved[body] = [candidate.objects[body] EXCEPT !.links = {<<id, "body_tip">>}]
  BY <1>1
<1>9. /\ moved[body].links = {<<id, "body_tip">>}
      /\ moved[body].kind = "body"
      /\ Typed(moved[body])
  <2> DEFINE held == candidate.objects[body]
             row == [held EXCEPT !.links = {<<id, "body_tip">>}]
  <2>1. held = [kind |-> held.kind, name |-> held.name, source |-> held.source,
                 value |-> held.value, links |-> held.links]
    BY <1>1, <1>7 DEF Typed
  <2>2. held.kind = "body"
    BY <1>1
  <2> HIDE DEF held
  <2>3. row = [kind |-> held.kind, name |-> held.name, source |-> held.source,
               value |-> held.value, links |-> {<<id, "body_tip">>}]
    BY <2>1
  <2> HIDE DEF row
  <2>a. /\ row = [kind |-> row.kind, name |-> row.name, source |-> row.source,
                  value |-> row.value, links |-> row.links]
        /\ row.kind = "body" /\ row.links = {<<id, "body_tip">>} /\ row.source = held.source
    BY <2>2, <2>3
  <2>b. held.source \in Formula
    BY <1>1, <1>7 DEF Typed, held
  <2>4. Typed(row) /\ row.kind = "body" /\ row.links = {<<id, "body_tip">>}
    BY <2>a, <2>b DEF Typed
  <2> QED BY <1>8, <2>4 DEF row, held
<1>10. /\ feature.links = {<<tip[1], "predecessor">>}
       /\ feature.kind = "feature"
       /\ Typed(feature)
  <2>1. /\ feature.links = {<<tip[1], "predecessor">>} /\ feature.kind = "feature"
        /\ feature = [kind |-> feature.kind, name |-> feature.name, source |-> feature.source,
                      value |-> feature.value, links |-> feature.links]
        /\ feature.source = source
    BY DEF Row
  <2> HIDE DEF feature
  <2>2. \A link \in feature.links :
           link = <<link[1], link[2]>> /\ link[2] \in {"predecessor", "body_tip", "support"}
    BY <2>1
  <2> QED BY <2>1, <2>2 DEF Typed
<1>11. /\ DOMAIN changed = DOMAIN candidate.old \cup {body}
       /\ \A i \in DOMAIN changed :
            changed[i] = (IF i \in DOMAIN candidate.old THEN candidate.old[i]
                          ELSE PayloadEdges(i, candidate.objects[i]))
  BY DEF Edited
<1>12. tip = <<tip[1], "body_tip">> /\ tip \in candidate.objects[body].links
  BY <1>1, <1>3, <1>7 DEF Tip, Typed
<1> HIDE DEF moved, changed, feature
<1>13. /\ DOMAIN new = DOMAIN moved \cup {id} /\ new[id] = feature
       /\ \A i \in DOMAIN moved : new[i] = moved[i]
       /\ DOMAIN old = DOMAIN changed \cup {id}
       /\ \A i \in DOMAIN old : old[i] = (IF i \in {id} THEN {} ELSE changed[i])
  BY <1>6, <1>8
<1>14. Accounted(edited)
  BY ZenonT(60), <1>1, <1>2, <1>7, <1>8, <1>9, <1>11, EditKeeps
<1>15. /\ edited.objects = moved /\ edited.old = changed
       /\ edited.added = candidate.added /\ edited.removed = candidate.removed
  OBVIOUS
<1> HIDE DEF edited, new, old
<1>a. /\ {id} \cap (DOMAIN edited.objects \cup edited.removed) = {}
      /\ DOMAIN new = DOMAIN edited.objects \cup {id}
      /\ \A i \in DOMAIN edited.objects : new[i] = edited.objects[i]
      /\ \A i \in {id} : Typed(new[i])
      /\ DOMAIN old = DOMAIN edited.old \cup {id}
      /\ \A i \in DOMAIN old : old[i] = (IF i \in {id} THEN {} ELSE edited.old[i])
  BY <1>6, <1>8, <1>10, <1>13, <1>15
<1>16. Accounted([objects |-> new, old |-> old, added |-> edited.added \cup {id},
                  removed |-> edited.removed])
  BY <1>14, <1>a, FS_Singleton, AddKeeps
<1>17. Accounted(candidate)'
  BY <1>1, <1>5, <1>15, <1>16 DEF Accounted, Rows, Domains, OldLinks, Change
<1>18. \A e \in Links(new) :
          \/ e \in Links(candidate.objects) /\ e[1] # body
          \/ e = <<body, id, "body_tip">>
          \/ e = <<id, tip[1], "predecessor">>
  <2> SUFFICES ASSUME NEW e \in Links(new)
               PROVE  \/ e \in Links(candidate.objects) /\ e[1] # body
                      \/ e = <<body, id, "body_tip">>
                      \/ e = <<id, tip[1], "predecessor">>
    OBVIOUS
  <2>1. PICK i \in DOMAIN new : \E link \in new[i].links : e = <<i, link[1], link[2]>>
    BY DEF Links, PayloadEdges
  <2>2. CASE i = id
    BY <1>10, <1>13, <2>1, <2>2
  <2>3. CASE i = body
    <3>1. new[i].links = {<<id, "body_tip">>}
      BY <1>1, <1>8, <1>9, <1>13, <2>3
    <3> QED BY <2>1, <2>3, <3>1
  <2>4. CASE i # id /\ i # body
    BY <1>8, <1>13, <2>1, <2>4 DEF Links, PayloadEdges
  <2> QED BY <2>2, <2>3, <2>4
<1>19. <<body, tip[1], "body_tip">> \in Links(candidate.objects)
  <2>1. <<body, tip[1], "body_tip">> \in PayloadEdges(body, candidate.objects[body])
    BY <1>12 DEF PayloadEdges
  <2> QED BY <1>1, <2>1 DEF Links
<1>20. \A i : Feature(candidate.objects, i) => Feature(new, i)
  BY <1>1, <1>8, <1>9, <1>13 DEF Feature
<1>21. Feature(new, id)
  BY <1>10, <1>13 DEF Feature
<1>22. OneLine(new)
  BY <1>2, <1>6, <1>18, <1>19, <1>20, <1>21, TipMoved
<1>23. UniqueNames(new)
  <2>1. \A i \in Parameters(new) :
           i \in Parameters(candidate.objects) /\ new[i].name = candidate.objects[i].name
    BY ZenonT(60), <1>1, <1>8, <1>9, <1>10, <1>13 DEF Parameters
  <2> QED BY <1>1, <2>1, NamesKept DEF EditInv, Change
<1>24. OneLine(candidate'.objects) /\ UniqueNames(candidate'.objects)
  BY <1>5, <1>22, <1>23
<1> QED BY <1>1, <1>17, <1>24, ChangeInv

---------------------------------------------------------------------------
(* The write                                                               *)

\* The rows to compute again are among the rows, and the edited ones are among
\* them.
LEMMA AffectedRows ==
    ASSUME NEW objects, NEW edited, edited \subseteq DOMAIN objects
    PROVE  Affected(objects, edited) \subseteq DOMAIN objects
             /\ edited \subseteq Affected(objects, edited)
BY DEF Affected

\* A reference starts at a row and ends at a parameter.
LEMMA ReferenceOf ==
    ASSUME NEW objects, NEW e \in References(objects)
    PROVE  /\ e[1] \in DOMAIN objects /\ e[3] = "parameter"
           /\ ValidTarget(objects, e)
<1>1. PICK id \in DOMAIN objects : \E p \in Reads(objects, id) : e = <<id, p, "parameter">>
  BY DEF References
<1>2. PICK p \in Reads(objects, id) : e = <<id, p, "parameter">>
  BY <1>1
<1>3. p \in DOMAIN objects /\ objects[p].kind = "parameter"
  BY <1>2 DEF Reads, Parameters
<1> QED BY <1>1, <1>2, <1>3 DEF ValidTarget

\* The transaction, for any rows to put that the edit counts as changed: the
\* dependency rows are replaced for the rows that are put, and those of the
\* others are what they were.
LEMMA WriteInv == EditInv /\ Write => EditInv'
<1> SUFFICES ASSUME EditInv, Write PROVE EditInv'
  OBVIOUS
<1> DEFINE objects == candidate.objects
           references == References(objects)
           affected == Affected(objects, DOMAIN candidate.old)
           value == Evaluation(objects, affected)
           rows == [id \in affected |-> [objects[id] EXCEPT !.value = value[id]]]
           original == Edited(affected)
           before == {e \in copy.deps : e[3] = "parameter"}
                         \cup UNION {original[id] : id \in affected}
           after == references \cup UNION {PayloadEdges(id, rows[id]) : id \in affected}
           deps == (copy.deps \ (before \ after)) \cup (after \ before)
           new == [id \in (DOMAIN copy.objects \cup affected) \ candidate.removed |->
                      IF id \in affected THEN rows[id] ELSE copy.objects[id]]
           stored == copy.objects
<1>1. /\ Sound(document) /\ Stored
      /\ Accounted(candidate) /\ OneLine(objects)
      /\ Resolved(objects) /\ Acyclic(references)
  BY DEF EditInv, Write
<1>2. /\ \A id \in affected : \A e \in PayloadEdges(id, rows[id]) \ original[id] :
            ValidTarget(objects, e)
      /\ copy' = [objects |-> new, deps |-> {e \in deps : e[1] \notin candidate.removed}]
      /\ phase' = "written" /\ document' = document
  BY DEF Write
<1>3. affected \subseteq DOMAIN objects /\ DOMAIN candidate.old \subseteq affected
  BY <1>1, AffectedRows DEF Accounted, Domains
<1>4. /\ \A id \in DOMAIN objects : Typed(objects[id])
      /\ \A id \in DOMAIN stored : Typed(stored[id])
  BY <1>1 DEF Accounted, Rows, Stored
<1>5. \A id \in affected : /\ rows[id].kind = objects[id].kind
                           /\ rows[id].name = objects[id].name
                           /\ rows[id].source = objects[id].source
                           /\ rows[id].links = objects[id].links
  <2> SUFFICES ASSUME NEW id \in affected
               PROVE  /\ rows[id].kind = objects[id].kind
                      /\ rows[id].name = objects[id].name
                      /\ rows[id].source = objects[id].source
                      /\ rows[id].links = objects[id].links
    OBVIOUS
  <2> DEFINE row == objects[id]
  <2>1. row = [kind |-> row.kind, name |-> row.name, source |-> row.source,
               value |-> row.value, links |-> row.links]
    BY <1>3, <1>4 DEF Typed
  <2>2. rows[id] = [row EXCEPT !.value = value[id]]
    OBVIOUS
  <2> HIDE DEF rows, row, value
  <2>3. rows[id] = [kind |-> row.kind, name |-> row.name, source |-> row.source,
                    value |-> value[id], links |-> row.links]
    BY <2>1, <2>2
  <2>4. /\ rows[id].kind = row.kind /\ rows[id].name = row.name
        /\ rows[id].source = row.source /\ rows[id].links = row.links
    BY <2>3
  <2> QED BY <2>4 DEF row
<1>6. \A id \in affected : PayloadEdges(id, rows[id]) = PayloadEdges(id, objects[id])
  BY <1>5 DEF PayloadEdges
<1> HIDE DEF affected, value
<1>7. candidate.removed \cap DOMAIN objects = {}
  BY <1>1 DEF Accounted, Domains, Parameters
<1>8. \A id \in DOMAIN objects : id \notin affected =>
         id \in DOMAIN stored /\ objects[id] = stored[id]
  BY <1>1, <1>3 DEF Accounted, Domains
<1>9. DOMAIN new = DOMAIN objects
  BY <1>1, <1>3, <1>7, <1>8 DEF Accounted, Domains
<1>10. \A id \in DOMAIN objects : /\ objects[id].kind = new[id].kind
                                  /\ objects[id].name = new[id].name
                                  /\ objects[id].source = new[id].source
                                  /\ objects[id].links = new[id].links
  BY <1>5, <1>8, <1>9
<1>11. \A id \in affected :
         original[id] = (IF id \in candidate.added THEN {} ELSE PayloadEdges(id, stored[id]))
  <2> SUFFICES ASSUME NEW id \in affected
               PROVE  original[id] = (IF id \in candidate.added THEN {}
                                      ELSE PayloadEdges(id, stored[id]))
    OBVIOUS
  <2>1. original[id] = (IF id \in DOMAIN candidate.old THEN candidate.old[id]
                        ELSE PayloadEdges(id, objects[id]))
    BY DEF Edited
  <2>2. CASE id \in DOMAIN candidate.old
    BY <1>1, <2>1, <2>2 DEF Accounted, OldLinks
  <2>3. CASE id \notin DOMAIN candidate.old
    BY <1>1, <1>3, <2>1, <2>3 DEF Accounted, Domains
  <2> QED BY <2>2, <2>3
<1> HIDE DEF rows, original, new
<1>12. /\ Links(objects) = Links(new) /\ references = References(new) /\ Resolved(new)
       /\ \A e : ValidTarget(objects, e) => ValidTarget(new, e)
  BY <1>1, <1>9, <1>10, SameRows
<1>13. /\ \A e \in Links(stored) : /\ e[1] \in DOMAIN stored
                                   /\ e \in PayloadEdges(e[1], stored[e[1]])
                                   /\ e[3] # "parameter"
       /\ \A id \in DOMAIN stored : PayloadEdges(id, stored[id]) \subseteq Links(stored)
  BY <1>4, LinkOf
<1>14. /\ \A e \in Links(objects) : /\ e[1] \in DOMAIN objects
                                    /\ e \in PayloadEdges(e[1], objects[e[1]])
                                    /\ e[3] # "parameter"
       /\ \A id \in DOMAIN objects : PayloadEdges(id, objects[id]) \subseteq Links(objects)
  BY <1>4, LinkOf
<1>15. /\ \A e \in references : e[1] \in DOMAIN objects /\ e[3] = "parameter"
                                  /\ ValidTarget(objects, e)
       /\ \A e \in References(stored) : e[3] = "parameter"
  BY ReferenceOf
<1>16. copy.deps = Links(stored) \cup References(stored)
  BY <1>1 DEF Stored, Sound
<1>17. \A id \in affected : original[id] \subseteq Links(stored)
  <2> SUFFICES ASSUME NEW id \in affected PROVE original[id] \subseteq Links(stored)
    OBVIOUS
  <2>1. CASE id \in candidate.added
    BY <1>11, <2>1
  <2>2. CASE id \notin candidate.added
    <3>1. id \in DOMAIN stored
      BY <1>1, <1>3, <2>2 DEF Accounted, Domains
    <3> QED BY <1>11, <1>13, <2>2, <3>1
  <2> QED BY <2>1, <2>2
<1>18. deps = (copy.deps \ before) \cup after
  <2>1. before \subseteq copy.deps
    BY <1>16, <1>17
  <2> QED BY <2>1, Replaced
<1>19. copy.deps \ before = {e \in Links(stored) : e[1] \notin affected}
  <2>1. ASSUME NEW e \in copy.deps, e \notin before
        PROVE  e \in Links(stored) /\ e[1] \notin affected
    <3>1. e \in Links(stored)
      BY <1>15, <1>16, <2>1
    <3>2. e[1] \in DOMAIN stored /\ e \in PayloadEdges(e[1], stored[e[1]])
      BY <1>13, <3>1
    <3>3. e[1] \notin candidate.added
      BY <1>1, <3>2 DEF Accounted, Domains
    <3>4. e[1] \in affected => e \in original[e[1]]
      BY <1>11, <3>2, <3>3
    <3> QED BY <2>1, <3>1, <3>4
  <2>2. ASSUME NEW e \in Links(stored), e[1] \notin affected
        PROVE  e \in copy.deps /\ e \notin before
    <3>1. ASSUME NEW id \in affected, e \in original[id] PROVE e[1] = id
      <4>1. e \in PayloadEdges(id, stored[id])
        BY <1>11, <3>1
      <4>2. PICK link \in stored[id].links : e = <<id, link[1], link[2]>>
        BY <4>1 DEF PayloadEdges
      <4> QED BY <4>2
    <3> QED BY <1>13, <1>16, <2>2, <3>1
  <2> QED BY <2>1, <2>2
<1>20. UNION {PayloadEdges(id, rows[id]) : id \in affected}
         = {e \in Links(objects) : e[1] \in affected}
  <2>1. ASSUME NEW id \in affected, NEW e \in PayloadEdges(id, rows[id])
        PROVE  e \in Links(objects) /\ e[1] \in affected
    <3>1. e \in PayloadEdges(id, objects[id]) /\ id \in DOMAIN objects
      BY <1>3, <1>6, <2>1
    <3>2. e[1] = id
      BY <3>1 DEF PayloadEdges
    <3> QED BY <1>14, <3>1, <3>2
  <2>2. ASSUME NEW e \in Links(objects), e[1] \in affected
        PROVE  e \in PayloadEdges(e[1], rows[e[1]])
    BY <1>6, <1>14, <2>2
  <2> QED BY <2>1, <2>2
<1>21. \A e : e[1] \notin affected /\ e[1] \notin candidate.removed =>
          (e \in Links(stored) <=> e \in Links(objects))
  <2> SUFFICES ASSUME NEW e, e[1] \notin affected, e[1] \notin candidate.removed
               PROVE  e \in Links(stored) <=> e \in Links(objects)
    OBVIOUS
  <2>1. ASSUME e \in Links(stored) PROVE e \in Links(objects)
    <3>1. e[1] \in DOMAIN stored /\ e \in PayloadEdges(e[1], stored[e[1]])
      BY <1>13, <2>1
    <3>2. e[1] \in DOMAIN objects
      BY <1>1, <3>1 DEF Accounted, Domains
    <3> QED BY <1>8, <1>14, <3>1, <3>2
  <2>2. ASSUME e \in Links(objects) PROVE e \in Links(stored)
    BY <1>8, <1>13, <1>14, <2>2
  <2> QED BY <2>1, <2>2
<1>22. copy'.deps = Links(objects) \cup references
  <2>1. copy'.deps = {e \in (copy.deps \ before) \cup after : e[1] \notin candidate.removed}
    BY <1>2, <1>18
  <2> HIDE DEF before, deps
  <2>2. after = references \cup {e \in Links(objects) : e[1] \in affected}
    BY <1>20
  <2> HIDE DEF after, references
  <2>3. ASSUME NEW e \in copy'.deps PROVE e \in Links(objects) \cup references
    BY <1>19, <1>21, <2>1, <2>2, <2>3
  <2>4. ASSUME NEW e \in Links(objects) \cup references PROVE e \in copy'.deps
    <3>1. e[1] \notin candidate.removed
      BY <1>7, <1>14, <1>15, <2>4
    <3> QED BY <1>19, <1>21, <2>1, <2>2, <2>4, <3>1
  <2> QED BY <2>3, <2>4
<1>23. \A e \in Links(stored) : ValidTarget(stored, e) => ValidTarget(objects, e)
  <2> SUFFICES ASSUME NEW e \in Links(stored), ValidTarget(stored, e)
               PROVE  ValidTarget(objects, e)
    OBVIOUS
  <2>1. e[2] \in DOMAIN stored /\ stored[e[2]].kind = "feature"
    BY <1>13 DEF ValidTarget
  <2>2. e[2] \notin candidate.removed
    BY <1>1, <2>1 DEF Accounted, Domains, Parameters
  <2>3. e[2] \in DOMAIN objects
    BY <1>1, <2>1, <2>2 DEF Accounted, Domains
  <2>4. objects[e[2]].kind = stored[e[2]].kind
    BY <1>1, <2>1, <2>3 DEF Accounted, Rows
  <2> QED BY <1>13, <2>1, <2>3, <2>4 DEF ValidTarget
<1>24. \A e \in Links(objects) : ValidTarget(objects, e)
  <2> SUFFICES ASSUME NEW e \in Links(objects) PROVE ValidTarget(objects, e)
    OBVIOUS
  <2>1. \A f \in Links(stored) : ValidTarget(objects, f)
    BY <1>1, <1>16, <1>23 DEF Stored, Sound
  <2>2. CASE e[1] \in affected
    <3>1. e \in PayloadEdges(e[1], rows[e[1]])
      BY <1>6, <1>14, <2>2
    <3> QED BY <1>2, <1>17, <2>1, <2>2, <3>1
  <2>3. CASE e[1] \notin affected
    BY <1>7, <1>14, <1>21, <2>1, <2>3
  <2> QED BY <2>2, <2>3
<1>25. copy'.objects = new
  BY <1>2
<1> HIDE DEF objects, references, before, after, deps, stored
<1>26. Sound(copy')
  <2>1. copy'.deps = Links(new) \cup References(new)
    BY <1>12, <1>22
  <2>2. \A e \in copy'.deps : ValidTarget(new, e)
    BY <1>12, <1>15, <1>22, <1>24
  <2>3. Acyclic(References(new))
    BY <1>1, <1>12
  <2> QED BY <1>12, <1>25, <2>1, <2>2, <2>3 DEF Sound
<1>27. OneHistory(copy'.deps)
  BY <1>1, <1>15, <1>22 DEF OneLine, OneHistory
<1> QED BY <1>1, <1>2, <1>26, <1>27 DEF EditInv

---------------------------------------------------------------------------
(* Values and renames                                                      *)

\* What is added up over a finite set, one element after the other.
SumOf(f) ==
    LET iter[s \in SUBSET DOMAIN f] ==
            IF s = {} THEN 0
            ELSE LET x == CHOOSE x \in s : TRUE IN f[x] + iter[s \ {x}]
    IN  iter[DOMAIN f]

\* The terms of a row's sum.
TermsOf(objects, id, of) ==
    [p \in Reads(objects, id) |-> objects[id].source.uses[objects[p].name] * of[p]]

\* What a formula comes to: the module's fold adds up the terms.
LEMMA ValueIs ==
    ASSUME NEW objects, NEW id, NEW of
    PROVE  LET sum == objects[id].source.literal + SumOf(TermsOf(objects, id, of))
           IN  Value(objects, id, of) = (IF sum > Cap THEN Failed ELSE sum)
<1> DEFINE S == Reads(objects, id)
           uses == objects[id].source.uses
           f == TermsOf(objects, id, of)
           Folds(iter) ==
               iter = [s \in SUBSET S |->
                          IF s = {} THEN 0
                          ELSE uses[objects[CHOOSE x \in s : TRUE].name]
                                 * of[CHOOSE x \in s : TRUE]
                                 + iter[s \ {CHOOSE x \in s : TRUE}]]
           Sums(iter) ==
               iter = [s \in SUBSET S |->
                          IF s = {} THEN 0
                          ELSE f[CHOOSE x \in s : TRUE] + iter[s \ {CHOOSE x \in s : TRUE}]]
           folded == MapThenSumSet(LAMBDA p : uses[objects[p].name] * of[p], S)
           Sum(x) == LET sum == objects[id].source.literal + x
                     IN  IF sum > Cap THEN Failed ELSE sum
<1>1. ASSUME NEW s \in SUBSET S, s # {}
      PROVE  uses[objects[CHOOSE x \in s : TRUE].name] * of[CHOOSE x \in s : TRUE]
               = f[CHOOSE x \in s : TRUE]
  <2> DEFINE c == CHOOSE x \in s : TRUE
  <2>1. c \in S
    BY <1>1
  <2> HIDE DEF c, S
  <2>2. f[c] = uses[objects[c].name] * of[c]
    BY <2>1 DEF TermsOf, S
  <2> QED BY <2>2 DEF c
<1>2. DOMAIN f = S
  BY DEF TermsOf
<1>3. Value(objects, id, of) = Sum(folded)
  BY Zenon DEF Value
<1>4. folded = (CHOOSE iter : Folds(iter))[S]
  BY DEF MapThenSumSet, MapThenFoldSet
<1> HIDE DEF f, S, uses, folded
<1>5. ASSUME NEW iter PROVE Folds(iter) <=> Sums(iter)
  BY <1>1
<1>6. SumOf(f) = (CHOOSE iter : Sums(iter))[S]
  BY <1>2 DEF SumOf
<1> HIDE DEF Folds, Sums
<1>7. (CHOOSE iter : Folds(iter)) = (CHOOSE iter : Sums(iter))
  BY <1>5, Zenon
<1>8. folded = SumOf(f)
  BY <1>4, <1>6, <1>7
<1> QED BY <1>3, <1>8 DEF f

\* A formula comes to the same where it names the same parameters as often and
\* those have the same values.
LEMMA ValuesAlike ==
    ASSUME NEW A, NEW B, NEW id, NEW of, NEW other,
           A[id].source.literal = B[id].source.literal,
           Reads(A, id) = Reads(B, id),
           \A p \in Reads(A, id) : /\ A[id].source.uses[A[p].name] = B[id].source.uses[B[p].name]
                                   /\ of[p] = other[p]
    PROVE  Value(A, id, of) = Value(B, id, other)
<1>1. TermsOf(A, id, of) = TermsOf(B, id, other)
  BY DEF TermsOf
<1> QED BY <1>1, ValueIs

\* Two sets of rows whose formulas come to the same, whatever the values of the
\* parameters, mean the same.
LEMMA MeaningsAlike ==
    ASSUME NEW A, NEW B, DOMAIN A = DOMAIN B,
           \A id \in DOMAIN A : \A of : Value(A, id, of) = Value(B, id, of)
    PROVE  Meaning(A) = Meaning(B)
<1> DEFINE InA(value) == value = [id \in DOMAIN A |-> Value(A, id, value)]
           InB(value) == value = [id \in DOMAIN B |-> Value(B, id, value)]
<1>1. ASSUME NEW value PROVE InA(value) <=> InB(value)
  OBVIOUS
<1>2. /\ Meaning(A) = (CHOOSE value : InA(value))
      /\ Meaning(B) = (CHOOSE value : InB(value))
  BY DEF Meaning
<1> HIDE DEF InA, InB
<1>3. (CHOOSE value : InA(value)) = (CHOOSE value : InB(value))
  BY <1>1, Zenon
<1> QED BY <1>2, <1>3

\* What a rename keeps: every reference, and what each formula comes to.
LEMMA RenameKeeps ==
    ASSUME EditInv, NEW id, NEW name \in Names, RenameParameter(id, name)
    PROVE  LET before == candidate.objects
               after == candidate'.objects
           IN  /\ References(before) \subseteq References(after)
               /\ Resolved(before) =>
                    /\ Resolved(after)
                    /\ References(after) = References(before)
                    /\ Meaning(after) = Meaning(before)
<1> DEFINE A == candidate.objects
           B == candidate'.objects
           old == A[id].name
           OldUses(i) == A[i].source.uses
           NewUses(i) == B[i].source.uses
<1>1. /\ id \in Parameters(A) /\ UniqueNames(A) /\ CheckName(id, name)
      /\ \A i \in DOMAIN A : Typed(A[i])
  BY DEF EditInv, RenameParameter, Change, Accounted, Rows
<1>2. DOMAIN B = DOMAIN A /\ old \in Names /\ id \in DOMAIN A
  BY <1>1, RowsRenamed DEF Parameters, Typed
<1>3. /\ Parameters(B) = Parameters(A)
      /\ \A p \in Parameters(A) : B[p].name = (IF p = id THEN name ELSE A[p].name)
      /\ \A p \in Parameters(A) : p # id => A[p].name # old /\ A[p].name # name
      /\ \A p \in Parameters(A) : A[p].name \in Names
  <2>1. \A i \in DOMAIN A : B[i].kind = A[i].kind /\ B[i].name = (IF i = id THEN name ELSE A[i].name)
    BY RowsRenamed
  <2>2. Parameters(B) = Parameters(A)
    BY <1>2, <2>1 DEF Parameters
  <2>3. ASSUME NEW p \in Parameters(A), p # id PROVE A[p].name # old /\ A[p].name # name
    BY <1>1, <2>3 DEF Parameters, UniqueNames, CheckName
  <2>4. \A p \in Parameters(A) : A[p].name \in Names
    BY <1>1 DEF Parameters, Typed
  <2> HIDE DEF A, B
  <2>5. Parameters(A) \subseteq DOMAIN A
    BY DEF Parameters
  <2> QED BY <2>1, <2>2, <2>3, <2>4, <2>5
<1>4. ASSUME NEW i \in DOMAIN A
      PROVE  /\ OldUses(i) \in [Names -> Nat]
             /\ NewUses(i) \in [Names -> Nat]
             /\ B[i].source.literal = A[i].source.literal
             /\ \A n \in Names :
                  NewUses(i)[n] = (IF old = name THEN OldUses(i)[n]
                                   ELSE IF n = old THEN 0
                                   ELSE IF n = name THEN OldUses(i)[name] + OldUses(i)[old]
                                   ELSE OldUses(i)[n])
  <2>1. A[i].source \in Formula
    BY <1>1 DEF Typed
  <2>2. CASE i \in Users(old)
    <3>1. B[i].source = Renamed(A[i].source, old, name)
      BY <2>2, RowsRenamed
    <3>2. B[i].source \in Formula
      BY <1>2, RowsRenamed DEF Typed
    <3>3. /\ B[i].source.literal = A[i].source.literal
          /\ \A n \in Names :
               NewUses(i)[n] = (IF old = name THEN OldUses(i)[n]
                                ELSE IF n = old THEN 0
                                ELSE IF n = name THEN OldUses(i)[name] + OldUses(i)[old]
                                ELSE OldUses(i)[n])
      <4> DEFINE f == A[i].source
      <4>1. f \in Formula /\ old \in Names /\ name \in Names
        BY <1>2, <2>1
      <4> HIDE DEF f, old
      <4>2. /\ Renamed(f, old, name).literal = f.literal
            /\ \A n \in Names :
                 Renamed(f, old, name).uses[n] = (IF old = name THEN f.uses[n]
                                                  ELSE IF n = old THEN 0
                                                  ELSE IF n = name THEN f.uses[name] + f.uses[old]
                                                  ELSE f.uses[n])
        BY <4>1, RenamedIs
      <4>3. B[i].source = Renamed(f, old, name)
        BY <3>1 DEF f, old
      <4> HIDE DEF B
      <4> QED BY <4>2, <4>3 DEF f
    <3>4. OldUses(i) \in [Names -> Nat] /\ NewUses(i) \in [Names -> Nat]
      BY <2>1, <3>2 DEF Formula
    <3> HIDE DEF A, B, OldUses, NewUses
    <3> QED BY <3>3, <3>4
  <2>3. CASE i \notin Users(old)
    <3>1. B[i].source = A[i].source
      BY <2>3, RowsRenamed
    <3>2. OldUses(i)[old] = 0
      BY <1>2, <2>1, <2>3 DEF Users, NamesOf, Formula
    <3> QED BY <1>2, <2>1, <3>1, <3>2 DEF Formula
  <2> QED BY <2>2, <2>3
<1>5. ASSUME NEW i \in DOMAIN A
      PROVE  Reads(A, i) \subseteq Reads(B, i)
  BY <1>2, <1>3, <1>4 DEF Reads, NamesOf
<1>6. References(A) \subseteq References(B)
  BY <1>2, <1>5 DEF References
<1>7. ASSUME Resolved(A), NEW i \in DOMAIN A
      PROVE  old # name => OldUses(i)[name] = 0
  BY <1>3, <1>4, <1>7 DEF Resolved, NamesOf
<1>8. ASSUME Resolved(A), NEW i \in DOMAIN A
      PROVE  /\ Reads(B, i) = Reads(A, i)
             /\ \A p \in Reads(A, i) : NewUses(i)[B[p].name] = OldUses(i)[A[p].name]
  <2>1. old # name => OldUses(i)[name] = 0
    BY <1>7, <1>8
  <2>2. ASSUME NEW p \in Reads(B, i) PROVE p \in Reads(A, i)
    BY <1>2, <1>3, <1>4, <1>8, <2>1 DEF Reads, NamesOf
  <2>3. ASSUME NEW p \in Reads(A, i) PROVE NewUses(i)[B[p].name] = OldUses(i)[A[p].name]
    BY SMTT(40), <1>2, <1>3, <1>4, <1>8, <2>1 DEF Reads, NamesOf
  <2> QED BY <1>5, <1>8, <2>2, <2>3
<1>9. ASSUME Resolved(A) PROVE References(B) = References(A)
  BY <1>2, <1>8, <1>9 DEF References
<1>10. ASSUME Resolved(A) PROVE Resolved(B)
  <2>1. UniqueNames(B)
    BY <1>1, <1>3 DEF UniqueNames
  <2>2. ASSUME NEW i \in DOMAIN B, NEW n \in NamesOf(B[i].source)
        PROVE  \E p \in Parameters(B) : B[p].name = n
    <3>1. n \in Names /\ NewUses(i)[n] > 0
      BY <2>2 DEF NamesOf
    <3>2. CASE n = name
      BY <1>1, <1>3, <3>2
    <3>3. CASE n # name
      <4>1. n # old /\ OldUses(i)[n] > 0
        BY <1>2, <1>4, <2>2, <3>1, <3>3
      <4>2. PICK p \in Parameters(A) : A[p].name = n
        BY <1>2, <1>10, <2>2, <3>1, <4>1 DEF Resolved, NamesOf
      <4>3. p # id
        BY <4>1, <4>2
      <4> QED BY <1>3, <4>2, <4>3
    <3> QED BY <3>2, <3>3
  <2> QED BY <2>1, <2>2 DEF Resolved
<1>11. ASSUME Resolved(A) PROVE Meaning(B) = Meaning(A)
  <2>1. ASSUME NEW i \in DOMAIN A, NEW of PROVE Value(A, i, of) = Value(B, i, of)
    <3>1. /\ A[i].source.literal = B[i].source.literal
          /\ Reads(A, i) = Reads(B, i)
          /\ \A p \in Reads(A, i) : A[i].source.uses[A[p].name] = B[i].source.uses[B[p].name]
      BY <1>4, <1>8, <1>11
    <3> HIDE DEF A, B
    <3> QED BY <3>1, ValuesAlike
  <2> HIDE DEF A, B
  <2> QED BY <1>2, <2>1, MeaningsAlike
<1> QED BY <1>6, <1>9, <1>10, <1>11

---------------------------------------------------------------------------
(* Functions that are defined by recursion                                 *)

\* Every nonempty set of elements of D has one that R relates to none of it.
WellFounded(D, R) ==
    /\ \A x \in D : R[x] \subseteq D
    /\ \A S \in SUBSET D : S # {} => \E x \in S : R[x] \cap S = {}

\* h says what a function is at x, from what it is at the elements of R[x].
Step(D, V, R, h) ==
    \A x \in D : \A f, g \in [D -> V] :
        /\ h[x][f] \in V
        /\ (\A y \in R[x] : f[y] = g[y]) => h[x][f] = h[x][g]

\* f is as h says on T, and T holds what that rests on.
Partly(D, R, h, T, f) ==
    /\ \A x \in T : R[x] \subseteq T
    /\ \A x \in T : f[x] = h[x][f]

\* Two functions that are as h says agree where both are.
LEMMA PartlyOnce ==
    ASSUME NEW D, NEW V, NEW R, NEW h, WellFounded(D, R), Step(D, V, R, h),
           NEW T \in SUBSET D, NEW f \in [D -> V], Partly(D, R, h, T, f),
           NEW U \in SUBSET D, NEW g \in [D -> V], Partly(D, R, h, U, g)
    PROVE  \A x \in T \cap U : f[x] = g[x]
<1> DEFINE S == {x \in T \cap U : f[x] # g[x]}
<1>1. SUFFICES S = {}
  OBVIOUS
<1>2. SUFFICES ASSUME S # {} PROVE FALSE
  OBVIOUS
<1>3. PICK x \in S : R[x] \cap S = {}
  BY <1>2 DEF WellFounded
<1>4. \A y \in R[x] : f[y] = g[y]
  BY <1>3 DEF Partly
<1>5. x \in D /\ h[x][f] = h[x][g]
  BY <1>3, <1>4 DEF Step
<1> QED BY <1>3, <1>5 DEF Partly

\* There is a function that is everywhere what h says.  The library's theorem
\* about recursion takes the step as an operator; here it is a function.
LEMMA Recursion ==
    ASSUME NEW D, NEW V, NEW R, NEW h, V # {}, WellFounded(D, R), Step(D, V, R, h)
    PROVE  \E f \in [D -> V] : \A x \in D : f[x] = h[x][f]
<1> DEFINE Witness(x, f) == \E T \in SUBSET D : x \in T /\ Partly(D, R, h, T, f)
           Covered == {x \in D : \E f \in [D -> V] : Witness(x, f)}
           At(x) == CHOOSE f \in [D -> V] : Witness(x, f)
<1>1. PICK v \in V : TRUE
  OBVIOUS
<1> DEFINE F == [x \in D |-> IF x \in Covered THEN At(x)[x] ELSE v]
<1>2. ASSUME NEW x \in Covered PROVE At(x) \in [D -> V] /\ Witness(x, At(x))
  <2>1. \E f \in [D -> V] : Witness(x, f)
    OBVIOUS
  <2> HIDE DEF Witness
  <2> QED BY <2>1
<1>3. F \in [D -> V]
  <2>1. ASSUME NEW x \in Covered PROVE At(x)[x] \in V
    <3>1. x \in D
      OBVIOUS
    <3> HIDE DEF At, Covered
    <3> QED BY <1>2, <3>1
  <2> HIDE DEF At, Covered
  <2> QED BY <2>1
<1>4. ASSUME NEW T \in SUBSET D, NEW f \in [D -> V], Partly(D, R, h, T, f), NEW x \in T
      PROVE  x \in Covered /\ F[x] = f[x]
  <2>1. x \in Covered
    BY <1>4
  <2>2. PICK U \in SUBSET D : x \in U /\ Partly(D, R, h, U, At(x))
    BY <1>2, <2>1
  <2>3. At(x) \in [D -> V]
    BY <1>2, <2>1
  <2> HIDE DEF At
  <2>4. At(x)[x] = f[x]
    BY <1>4, <2>2, <2>3, PartlyOnce
  <2> QED BY <2>1, <2>4
<1>5. ASSUME NEW x \in Covered
      PROVE  /\ R[x] \subseteq Covered
             /\ F[x] = h[x][F]
  <2> DEFINE f == At(x)
  <2>1. PICK T \in SUBSET D : x \in T /\ Partly(D, R, h, T, f)
    BY <1>2
  <2>2. f \in [D -> V]
    BY <1>2
  <2> HIDE DEF f, Covered, F
  <2>3. \A y \in T : y \in Covered /\ F[y] = f[y]
    BY <1>4, <2>1, <2>2
  <2>4. R[x] \subseteq T /\ f[x] = h[x][f]
    BY <2>1 DEF Partly
  <2>5. x \in D
    BY <2>1
  <2>6. h[x][F] = h[x][f]
    BY <1>3, <2>2, <2>3, <2>4, <2>5 DEF Step
  <2> QED BY <2>1, <2>3, <2>4, <2>6
<1>6. D \subseteq Covered
  <2>1. SUFFICES ASSUME D \ Covered # {} PROVE FALSE
    OBVIOUS
  <2>2. PICK x \in D \ Covered : R[x] \cap (D \ Covered) = {}
    BY <2>1 DEF WellFounded
  <2> DEFINE G == [F EXCEPT ![x] = h[x][F]]
             T == Covered \cup {x}
  <2>3. x \in D /\ x \notin Covered /\ R[x] \subseteq Covered
    BY <2>2 DEF WellFounded
  <2>4. h[x][F] \in V
    BY <1>3, <2>3 DEF Step
  <2> HIDE DEF F
  <2>5. G \in [D -> V] /\ G[x] = h[x][F] /\ \A y \in D : y # x => G[y] = F[y]
    BY <1>3, <2>3, <2>4
  <2>6. T \in SUBSET D
    BY <2>3
  <2> HIDE DEF G, Covered
  <2>7. ASSUME NEW y \in T PROVE R[y] \subseteq Covered
    BY <1>5, <2>3, <2>7
  <2>8. ASSUME NEW y \in T PROVE h[y][F] = h[y][G]
    <3>1. \A z \in R[y] : F[z] = G[z]
      BY <2>3, <2>5, <2>6, <2>7, <2>8
    <3> QED BY <1>3, <2>5, <2>6, <2>8, <3>1 DEF Step
  <2>9. ASSUME NEW y \in T PROVE G[y] = h[y][G]
    <3>1. CASE y = x
      BY <2>5, <2>8, <3>1
    <3>2. CASE y # x
      <4>1. y \in Covered /\ y \in D
        BY <2>6, <2>9, <3>2
      <4> QED BY <1>5, <2>5, <2>8, <3>2, <4>1
    <3> QED BY <3>1, <3>2
  <2>10. Partly(D, R, h, T, G)
    BY <2>7, <2>9 DEF Partly
  <2> HIDE DEF T
  <2>11. x \in Covered
    BY <1>4, <2>5, <2>6, <2>10 DEF T
  <2> QED BY <2>3, <2>11
<1> HIDE DEF F, Covered
<1> QED BY <1>3, <1>5, <1>6

\* Counting down comes to an end.
LEMMA PredecessorsWellFounded ==
    WellFounded(Nat, [n \in Nat |-> IF n = 0 THEN {} ELSE {n - 1}])
<1> DEFINE R == [n \in Nat |-> IF n = 0 THEN {} ELSE {n - 1}]
<1>1. ASSUME NEW S \in SUBSET Nat, S # {} PROVE \E x \in S : R[x] \cap S = {}
  <2>1. PICK x \in S : \A y \in S : ~ (<<y, x>> \in OpToRel(<, Nat))
    BY <1>1, NatLessThanWellFounded, WFMin, Zenon
  <2>2. \A y \in S : ~ (y < x)
    BY <2>1 DEF OpToRel
  <2> QED BY <2>2
<1>2. \A x \in Nat : R[x] \subseteq Nat
  OBVIOUS
<1> HIDE DEF R
<1>3. WellFounded(Nat, R)
  BY <1>1, <1>2 DEF WellFounded
<1> QED BY <1>3 DEF R

\* Edges without a cycle lead out of every set of rows.
LEMMA AcyclicOrders ==
    ASSUME NEW edges, Acyclic(edges), IsFiniteSet({e[1] : e \in edges}), NEW S, S # {}
    PROVE  \E x \in S : \A e \in edges : e[1] = x => e[2] \notin S
<1> DEFINE waiting == {e[1] : e \in edges}
           Left(before) == {id \in before : \E e \in edges : e[1] = id /\ e[2] \in before}
           Rounds(r) == r = [n \in Nat |-> IF n = 0 THEN waiting ELSE Left(r[n - 1])]
           R == [n \in Nat |-> IF n = 0 THEN {} ELSE {n - 1}]
           V == SUBSET waiting
           h == [n \in Nat |-> [f \in [Nat -> V] |-> IF n = 0 THEN waiting ELSE Left(f[n - 1])]]
           last == Cardinality(waiting)
<1>1. Acyclic(edges) <=> (CHOOSE r : Rounds(r))[last] = {}
  BY DEF Acyclic
<1>2. last \in Nat
  BY FS_CardinalityType
<1> HIDE DEF last
<1>3. \A before \in V : Left(before) \in V
  OBVIOUS
<1>4. Step(Nat, V, R, h)
  <2> HIDE DEF waiting, V, Left
  <2>1. waiting \in V
    BY DEF V
  <2>2. ASSUME NEW x \in Nat, NEW f \in [Nat -> V], NEW g \in [Nat -> V]
        PROVE  /\ h[x][f] \in V
               /\ (\A y \in R[x] : f[y] = g[y]) => h[x][f] = h[x][g]
    <3>1. CASE x = 0
      BY <2>1, <3>1
    <3>2. CASE x # 0
      <4>1. x - 1 \in Nat /\ R[x] = {x - 1}
        BY <3>2
      <4> QED BY <1>3, <3>2, <4>1
    <3> QED BY <3>1, <3>2
  <2> QED BY <2>2 DEF Step
<1>5. \E r : Rounds(r)
  <2>1. V # {}
    OBVIOUS
  <2> HIDE DEF waiting, V, Left, R, h
  <2>2. PICK r \in [Nat -> V] : \A n \in Nat : r[n] = h[n][r]
    BY <1>4, <2>1, PredecessorsWellFounded, Recursion DEF R
  <2>3. \A n \in Nat : r[n] = (IF n = 0 THEN waiting ELSE Left(r[n - 1]))
    BY <2>2 DEF h
  <2>4. Rounds(r)
    BY <2>2, <2>3
  <2> QED BY <2>4
<1> DEFINE r == CHOOSE r : Rounds(r)
<1>6. Rounds(r)
  <2> HIDE DEF Rounds
  <2> QED BY <1>5
<1> HIDE DEF r
<1>7. SUFFICES ASSUME \A x \in S : \E e \in edges : e[1] = x /\ e[2] \in S PROVE FALSE
  OBVIOUS
<1>8. S \subseteq waiting
  BY <1>7
<1> DEFINE Out == {n \in Nat : ~ (S \subseteq r[n])}
<1>9. Out = {}
  <2> SUFFICES ASSUME Out # {} PROVE FALSE
    OBVIOUS
  <2>1. PICK n \in Out : R[n] \cap Out = {}
    BY PredecessorsWellFounded DEF WellFounded
  <2>2. n # 0
    BY <1>6, <1>8
  <2>3. n - 1 \in Nat /\ n - 1 \in R[n]
    BY <2>2
  <2>4. S \subseteq r[n - 1]
    BY <2>1, <2>3
  <2>5. r[n] = Left(r[n - 1])
    BY <1>6, <2>2
  <2>6. S \subseteq Left(r[n - 1])
    BY <1>7, <2>4
  <2> QED BY <2>5, <2>6
<1>10. S \subseteq r[last]
  BY <1>2, <1>9
<1> QED BY <1>1, <1>10 DEF r

\* A sum of natural numbers is one, and none of its terms is larger.
LEMMA SumBounds ==
    ASSUME NEW S, IsFiniteSet(S), NEW f \in [S -> Nat]
    PROVE  SumOf(f) \in Nat /\ \A x \in S : f[x] <= SumOf(f)
<1> DEFINE Pick(s) == CHOOSE x \in s : TRUE
           Sums(iter) ==
               iter = [s \in SUBSET S |-> IF s = {} THEN 0
                                          ELSE f[Pick(s)] + iter[s \ {Pick(s)}]]
           D == SUBSET S
           R == [s \in D |-> IF s = {} THEN {} ELSE {s \ {Pick(s)}}]
           h == [s \in D |-> [iter \in [D -> Nat] |->
                    IF s = {} THEN 0 ELSE f[Pick(s)] + iter[s \ {Pick(s)}]]]
<1>1. \A s \in D : s # {} => Pick(s) \in s
  OBVIOUS
<1> HIDE DEF Pick
<1>2. WellFounded(D, R)
  <2>1. \A s \in D : R[s] \subseteq D
    OBVIOUS
  <2>2. ASSUME NEW T \in SUBSET D, T # {} PROVE \E s \in T : R[s] \cap T = {}
    <3>1. IsWellFoundedOn(StrictSubsetOrdering(S), D)
      BY FS_StrictSubsetOrderingWellFounded, FS_FiniteSubsetsOfFinite, Zenon
    <3> HIDE DEF D
    <3>2. PICK s \in T : \A t \in T : ~ (<<t, s>> \in StrictSubsetOrdering(S))
      BY <2>2, <3>1, WFMin, Zenon
    <3> USE DEF D
    <3>3. ASSUME s # {} PROVE s \ {Pick(s)} \notin T
      <4>1. s \in SUBSET S /\ s \ {Pick(s)} \in SUBSET S /\ s \ {Pick(s)} \subseteq s
        BY <3>2
      <4>2. s \ {Pick(s)} # s
        BY <1>1, <3>3, <4>1
      <4>3. <<s \ {Pick(s)}, s>> \in StrictSubsetOrdering(S)
        BY <4>1, <4>2 DEF StrictSubsetOrdering
      <4> QED BY <3>2, <4>3
    <3> QED BY <3>2, <3>3
  <2> HIDE DEF R, D
  <2> QED BY <2>1, <2>2 DEF WellFounded
<1>3. Step(D, Nat, R, h)
  <2>1. ASSUME NEW s \in D, NEW e \in [D -> Nat], NEW g \in [D -> Nat]
        PROVE  /\ h[s][e] \in Nat
               /\ (\A y \in R[s] : e[y] = g[y]) => h[s][e] = h[s][g]
    <3>1. CASE s = {}
      BY <3>1
    <3>2. CASE s # {}
      <4>1. Pick(s) \in S /\ s \ {Pick(s)} \in D /\ R[s] = {s \ {Pick(s)}}
        BY <1>1, <3>2
      <4>2. f[Pick(s)] \in Nat /\ e[s \ {Pick(s)}] \in Nat
        BY <4>1
      <4> QED BY <3>2, <4>1, <4>2
    <3> QED BY <3>1, <3>2
  <2> HIDE DEF D, R, h
  <2> QED BY <2>1 DEF Step
<1>4. \E iter : Sums(iter) /\ iter \in [D -> Nat]
  <2> HIDE DEF D, R, h
  <2>1. PICK iter \in [D -> Nat] : \A s \in D : iter[s] = h[s][iter]
    <3>1. Nat # {}
      OBVIOUS
    <3> QED BY <1>2, <1>3, <3>1, Recursion
  <2>2. \A s \in D : iter[s] = (IF s = {} THEN 0 ELSE f[Pick(s)] + iter[s \ {Pick(s)}])
    BY <2>1 DEF h
  <2> QED BY <2>1, <2>2 DEF D
<1> DEFINE iter == CHOOSE i : Sums(i)
<1>5. Sums(iter)
  <2> HIDE DEF Sums
  <2> QED BY <1>4
<1>6. SumOf(f) = iter[S]
  BY DEF SumOf, Pick
<1> HIDE DEF iter
<1>7. \A s \in D : iter[s] = (IF s = {} THEN 0 ELSE f[Pick(s)] + iter[s \ {Pick(s)}])
  BY <1>5
<1> DEFINE Well(s) == iter[s] \in Nat /\ \A x \in s : f[x] <= iter[s]
           Bad == {s \in D : ~ Well(s)}
<1>8. Bad = {}
  <2> SUFFICES ASSUME Bad # {} PROVE FALSE
    OBVIOUS
  <2> HIDE DEF R
  <2>1. PICK s \in Bad : R[s] \cap Bad = {}
    BY <1>2 DEF WellFounded
  <2> USE DEF R
  <2>2. CASE s = {}
    <3>1. iter[s] = 0
      BY <1>7, <2>1, <2>2
    <3>2. Well(s)
      BY <2>2, <3>1
    <3> QED BY <2>1, <3>2
  <2>3. CASE s # {}
    <3> DEFINE x == Pick(s)
               t == s \ {x}
    <3>1. x \in S /\ x \in s /\ t \in D /\ R[s] = {t}
      BY <1>1, <2>1, <2>3
    <3>2. Well(t)
      BY <2>1, <3>1
    <3>3. iter[s] = f[x] + iter[t] /\ f[x] \in Nat
      BY <1>7, <2>1, <2>3, <3>1
    <3>4. \A y \in s : y = x \/ y \in t
      OBVIOUS
    <3>5. \A y \in s : f[y] \in Nat
      BY <2>1
    <3> HIDE DEF x, t, D, R
    <3>6. Well(s)
      BY <3>1, <3>2, <3>3, <3>4, <3>5
    <3> QED BY <2>1, <3>6
  <2> QED BY <2>2, <2>3
<1>9. Well(S)
  <2>1. S \in D
    OBVIOUS
  <2> HIDE DEF Well, D
  <2> QED BY <1>8, <2>1
<1> QED BY <1>6, <1>9

---------------------------------------------------------------------------
(* What the transaction computes                                           *)

\* Rows whose formulas can be computed one after the other.
Ordered(objects) ==
    /\ IsFiniteSet(DOMAIN objects)
    /\ \A id \in DOMAIN objects : Typed(objects[id])
    /\ Acyclic(References(objects))

\* What each formula names, row by row.
Below(objects) == [id \in DOMAIN objects |-> Reads(objects, id)]

LEMMA OrderedRows ==
    ASSUME NEW objects, Ordered(objects)
    PROVE  WellFounded(DOMAIN objects, Below(objects))
<1> DEFINE edges == References(objects)
<1>1. \A id \in DOMAIN objects : Reads(objects, id) \subseteq DOMAIN objects
  BY DEF Reads, Parameters
<1>2. {e[1] : e \in edges} \subseteq DOMAIN objects
  BY ReferenceOf
<1>3. IsFiniteSet({e[1] : e \in edges})
  BY <1>2, FS_Subset DEF Ordered
<1>4. ASSUME NEW S \in SUBSET DOMAIN objects, S # {}
      PROVE  \E x \in S : Below(objects)[x] \cap S = {}
  <2>1. Acyclic(edges)
    BY DEF Ordered
  <2> HIDE DEF edges
  <2>2. PICK x \in S : \A e \in edges : e[1] = x => e[2] \notin S
    BY <1>3, <1>4, <2>1, AcyclicOrders
  <2>3. ASSUME NEW p \in Reads(objects, x) PROVE p \notin S
    <3>1. <<x, p, "parameter">> \in edges
      BY DEF edges, References
    <3> QED BY <2>2, <3>1
  <2> QED BY <2>3 DEF Below
<1> QED BY <1>1, <1>4 DEF WellFounded, Below

\* The value of a formula is a number; where it does not fail, nothing it reads
\* does.
LEMMA ValueBounds ==
    ASSUME NEW objects, Ordered(objects), NEW id \in DOMAIN objects,
           NEW of \in [DOMAIN objects -> Nat]
    PROVE  /\ Value(objects, id, of) \in Nat
           /\ Value(objects, id, of) # Failed => \A p \in Reads(objects, id) : of[p] # Failed
<1> DEFINE S == Reads(objects, id)
           f == TermsOf(objects, id, of)
           uses == objects[id].source.uses
<1>1. S \subseteq DOMAIN objects /\ IsFiniteSet(S)
  BY FS_Subset DEF Reads, Parameters, Ordered
<1>2. objects[id].source.literal \in Nat /\ uses \in [Names -> Nat]
  BY DEF Ordered, Typed, Formula
<1>3. \A p \in S : objects[p].name \in Names /\ uses[objects[p].name] > 0
  BY DEF Reads, NamesOf
<1>4. \A p \in S : of[p] \in Nat /\ uses[objects[p].name] \in Nat
  BY <1>1, <1>2, <1>3
<1>5. f = [p \in S |-> uses[objects[p].name] * of[p]]
  BY DEF TermsOf
<1>6. Cap \in Nat /\ Failed = Cap + 1
  BY FormulasAssumption DEF Failed
<1>7. LET sum == objects[id].source.literal + SumOf(f)
      IN  Value(objects, id, of) = (IF sum > Cap THEN Failed ELSE sum)
  BY ValueIs
<1> HIDE DEF S, f, uses
<1>8. \A a, n \in Nat : a > 0 => n <= a * n
  OBVIOUS
<1>9. \A p \in S : f[p] \in Nat /\ of[p] <= f[p]
  BY <1>3, <1>4, <1>5, <1>8
<1>10. f \in [S -> Nat]
  BY <1>5, <1>9
<1>11. SumOf(f) \in Nat /\ \A p \in S : f[p] <= SumOf(f)
  BY <1>1, <1>10, SumBounds
<1>12. \A p \in S : of[p] <= SumOf(f)
  BY <1>4, <1>9, <1>11
<1> HIDE DEF Failed
<1>13. Value(objects, id, of) # Failed => SumOf(f) <= Cap
  BY <1>2, <1>6, <1>7, <1>11
<1> QED BY <1>2, <1>4, <1>6, <1>7, <1>11, <1>12, <1>13 DEF S

\* The values of the rows are there, and each is what its formula says.
LEMMA MeaningIs ==
    ASSUME NEW objects, Ordered(objects)
    PROVE  /\ Meaning(objects) \in [DOMAIN objects -> Nat]
           /\ \A id \in DOMAIN objects :
                Meaning(objects)[id] = Value(objects, id, Meaning(objects))
<1> DEFINE D == DOMAIN objects
           Means(value) == value = [id \in D |-> Value(objects, id, value)]
           h == [id \in D |-> [value \in [D -> Nat] |-> Value(objects, id, value)]]
<1>1. Meaning(objects) = CHOOSE value : Means(value)
  BY DEF Meaning
<1>2. ASSUME NEW id \in D, NEW f \in [D -> Nat] PROVE Value(objects, id, f) \in Nat
  BY <1>2, ValueBounds
<1>3. ASSUME NEW id \in D, NEW f \in [D -> Nat], NEW g \in [D -> Nat],
             \A p \in Below(objects)[id] : f[p] = g[p]
      PROVE  Value(objects, id, f) = Value(objects, id, g)
  BY <1>3, ValuesAlike DEF Below
<1> HIDE DEF D
<1>4. Step(D, Nat, Below(objects), h)
  BY <1>2, <1>3 DEF Step
<1>5. WellFounded(D, Below(objects)) /\ Nat # {}
  BY OrderedRows DEF D
<1> HIDE DEF h
<1>6. PICK value \in [D -> Nat] : \A id \in D : value[id] = h[id][value]
  BY <1>4, <1>5, Recursion
<1>7. Means(value)
  BY <1>6 DEF h
<1> HIDE DEF Means
<1>8. Means(Meaning(objects))
  BY <1>1, <1>7
<1> USE DEF Means
<1>9. Meaning(objects) = [id \in D |-> Value(objects, id, Meaning(objects))]
  BY <1>8
<1>10. \A id \in D : Meaning(objects)[id] = Value(objects, id, Meaning(objects))
  BY <1>9
<1> DEFINE Wrongs == {id \in D : Meaning(objects)[id] \notin Nat}
<1>11. Wrongs = {}
  <2> SUFFICES ASSUME Wrongs # {} PROVE FALSE
    OBVIOUS
  <2>1. PICK id \in Wrongs : Below(objects)[id] \cap Wrongs = {}
    BY <1>5 DEF WellFounded
  <2> DEFINE capped == [p \in D |-> IF Meaning(objects)[p] \in Nat THEN Meaning(objects)[p] ELSE 0]
  <2>2. capped \in [D -> Nat]
    OBVIOUS
  <2>3. \A p \in Below(objects)[id] : p \in D /\ capped[p] = Meaning(objects)[p]
    BY <1>5, <2>1 DEF WellFounded
  <2> HIDE DEF capped
  <2>4. Value(objects, id, capped) = Value(objects, id, Meaning(objects))
    BY <2>1, <2>3, ValuesAlike DEF Below, D
  <2> QED BY <1>2, <1>10, <2>1, <2>2, <2>4
<1> QED BY <1>9, <1>10, <1>11 DEF D

\* Candidate::evaluate comes to an end, and what it did not fail at has the
\* value its formula says.
LEMMA EvaluationIs ==
    ASSUME NEW objects, Ordered(objects), NEW affected
    PROVE  /\ Evaluation(objects, affected) \in [DOMAIN objects -> Nat]
           /\ \A id \in DOMAIN objects :
                Evaluation(objects, affected)[id] # Failed =>
                    Evaluation(objects, affected)[id]
                      = Value(objects, id, Evaluation(objects, affected))
<1> DEFINE D == DOMAIN objects
           Kept(id, v) == IF id \in affected \/ v = objects[id].value THEN v ELSE Failed
           Evaluates(value) == value = [id \in D |-> Kept(id, Value(objects, id, value))]
           h == [id \in D |-> [value \in [D -> Nat] |-> Kept(id, Value(objects, id, value))]]
           ev == Evaluation(objects, affected)
<1>1. ev = CHOOSE value : Evaluates(value)
  BY DEF Evaluation
<1>2. ASSUME NEW id \in D, NEW f \in [D -> Nat] PROVE Kept(id, Value(objects, id, f)) \in Nat
  BY <1>2, ValueBounds, FormulasAssumption DEF Failed
<1>3. ASSUME NEW id \in D, NEW f, NEW g,
             \A p \in Below(objects)[id] : f[p] = g[p]
      PROVE  Kept(id, Value(objects, id, f)) = Kept(id, Value(objects, id, g))
  <2>1. Value(objects, id, f) = Value(objects, id, g)
    BY <1>3, ValuesAlike DEF Below
  <2> QED BY <2>1
<1> HIDE DEF D, ev, Kept
<1>4. Step(D, Nat, Below(objects), h)
  BY <1>2, <1>3 DEF Step
<1>5. WellFounded(D, Below(objects)) /\ Nat # {}
  BY OrderedRows DEF D
<1> HIDE DEF h
<1>6. PICK value \in [D -> Nat] : \A id \in D : value[id] = h[id][value]
  BY <1>4, <1>5, Recursion
<1>7. Evaluates(value)
  BY <1>6 DEF h
<1> HIDE DEF Evaluates
<1>8. Evaluates(ev)
  BY <1>1, <1>7
<1> USE DEF Evaluates
<1>9. ev = [id \in D |-> Kept(id, Value(objects, id, ev))]
  BY <1>8
<1>10. \A id \in D : ev[id] = Kept(id, Value(objects, id, ev))
  BY <1>9
<1> DEFINE Wrongs == {id \in D : ev[id] \notin Nat}
<1>11. Wrongs = {}
  <2> SUFFICES ASSUME Wrongs # {} PROVE FALSE
    OBVIOUS
  <2>1. PICK id \in Wrongs : Below(objects)[id] \cap Wrongs = {}
    BY <1>5 DEF WellFounded
  <2> DEFINE capped == [p \in D |-> IF ev[p] \in Nat THEN ev[p] ELSE 0]
  <2>2. capped \in [D -> Nat]
    OBVIOUS
  <2>3. \A p \in Below(objects)[id] : p \in D /\ capped[p] = ev[p]
    BY <1>5, <2>1 DEF WellFounded
  <2> HIDE DEF capped
  <2>4. Kept(id, Value(objects, id, capped)) = Kept(id, Value(objects, id, ev))
    BY <1>3, <2>1, <2>3
  <2> QED BY <1>2, <1>10, <2>1, <2>2, <2>4
<1>12. \A id \in D : ev[id] # Failed => ev[id] = Value(objects, id, ev)
  BY <1>10 DEF Kept
<1> QED BY <1>9, <1>11, <1>12 DEF D, ev

\* A row that is not computed again reads none that is.
LEMMA UnaffectedReads ==
    ASSUME NEW objects, Ordered(objects), NEW edited,
           NEW id \in DOMAIN objects, id \notin Affected(objects, edited)
    PROVE  id \notin edited /\ \A p \in Reads(objects, id) : p \notin Affected(objects, edited)
<1> DEFINE D == DOMAIN objects
           Reached(r) == r = [i \in D |-> \E p \in Reads(objects, i) : p \in edited \/ r[p]]
           h == [i \in D |-> [r \in [D -> BOOLEAN] |->
                    \E p \in Below(objects)[i] : p \in edited \/ r[p]]]
           reached == CHOOSE r : Reached(r)
<1>1. Affected(objects, edited) = edited \cup {i \in D : reached[i]}
  BY DEF Affected
<1>2. WellFounded(D, Below(objects))
  BY OrderedRows
<1> HIDE DEF D
<1>3. Step(D, BOOLEAN, Below(objects), h)
  BY DEF Step
<1>4. BOOLEAN # {}
  OBVIOUS
<1>5. PICK r \in [D -> BOOLEAN] : \A i \in D : r[i] = h[i][r]
  <2> HIDE DEF h
  <2> QED BY <1>2, <1>3, <1>4, Recursion
<1>6. Reached(r)
  BY <1>5 DEF Below, D
<1> HIDE DEF Reached
<1>7. Reached(reached)
  BY <1>6
<1> HIDE DEF reached
<1>8. reached = [i \in D |-> \E p \in Reads(objects, i) : p \in edited \/ reached[p]]
  BY <1>7 DEF Reached
<1>9. ~ reached[id] /\ id \notin edited
  BY <1>1 DEF D
<1>10. \A p \in Reads(objects, id) : ~ (p \in edited \/ reached[p])
  BY <1>8, <1>9 DEF D
<1> QED BY <1>1, <1>9, <1>10

\* What the evaluation does not fail at is what the formulas alone say, stored
\* values or not.
LEMMA EvaluationMeans ==
    ASSUME NEW objects, Ordered(objects), NEW affected,
           NEW id \in DOMAIN objects, Evaluation(objects, affected)[id] # Failed
    PROVE  Evaluation(objects, affected)[id] = Meaning(objects)[id]
<1> DEFINE ev == Evaluation(objects, affected)
           meaning == Meaning(objects)
           Off == {i \in DOMAIN objects : ev[i] # Failed /\ ev[i] # meaning[i]}
<1>1. SUFFICES ASSUME Off # {} PROVE FALSE
  OBVIOUS
<1>2. PICK i \in Off : Below(objects)[i] \cap Off = {}
  <2>1. WellFounded(DOMAIN objects, Below(objects))
    BY OrderedRows
  <2>2. Off \in SUBSET DOMAIN objects
    OBVIOUS
  <2> HIDE DEF Off
  <2> QED BY <1>1, <2>1, <2>2 DEF WellFounded
<1>3. ev \in [DOMAIN objects -> Nat] /\ ev[i] = Value(objects, i, ev)
  BY <1>2, EvaluationIs
<1>4. \A p \in Reads(objects, i) : ev[p] # Failed
  BY <1>2, <1>3, ValueBounds
<1>5. \A p \in Reads(objects, i) : p \in DOMAIN objects /\ p \notin Off
  BY <1>2 DEF Below, Reads, Parameters
<1>6. \A p \in Reads(objects, i) : ev[p] = meaning[p]
  BY <1>4, <1>5
<1>7. Value(objects, i, ev) = Value(objects, i, meaning)
  BY <1>6, ValuesAlike
<1> QED BY <1>2, <1>3, <1>7, MeaningIs

\* A row the write does not put means what it meant in the document.
LEMMA UnaffectedMeans ==
    ASSUME NEW objects, NEW stored, Ordered(objects), Ordered(stored),
           Resolved(objects), Resolved(stored), NEW edited,
           \A i \in DOMAIN objects \ edited : i \in DOMAIN stored /\ objects[i] = stored[i],
           NEW id \in DOMAIN objects, id \notin Affected(objects, edited)
    PROVE  Meaning(objects)[id] = Meaning(stored)[id]
<1> DEFINE affected == Affected(objects, edited)
           Off == {i \in DOMAIN objects \ affected : Meaning(objects)[i] # Meaning(stored)[i]}
<1>1. SUFFICES ASSUME Off # {} PROVE FALSE
  OBVIOUS
<1>2. PICK i \in Off : Below(objects)[i] \cap Off = {}
  <2>1. WellFounded(DOMAIN objects, Below(objects))
    BY OrderedRows
  <2>2. Off \in SUBSET DOMAIN objects
    OBVIOUS
  <2> HIDE DEF Off
  <2> QED BY <1>1, <2>1, <2>2 DEF WellFounded
<1>3. /\ i \in DOMAIN objects /\ i \notin affected /\ i \notin edited
      /\ \A p \in Reads(objects, i) : p \in DOMAIN objects /\ p \notin affected
  BY <1>2, UnaffectedReads DEF Reads, Parameters
<1>4. i \in DOMAIN stored /\ objects[i] = stored[i]
  BY <1>3
<1>5. ASSUME NEW p \in Reads(objects, i)
      PROVE  /\ p \in DOMAIN stored /\ objects[p] = stored[p]
             /\ p \in Reads(stored, i)
             /\ Meaning(objects)[p] = Meaning(stored)[p]
  <2>1. p \notin edited
    BY <1>3, UnaffectedReads
  <2>2. p \in DOMAIN stored /\ objects[p] = stored[p]
    BY <1>3, <2>1
  <2>3. p \in Reads(stored, i)
    BY <1>4, <2>2 DEF Reads, Parameters
  <2>4. p \notin Off
    BY <1>2, <1>3 DEF Below
  <2> QED BY <1>3, <2>2, <2>3, <2>4
<1>6. ASSUME NEW q \in Reads(stored, i) PROVE q \in Reads(objects, i)
  <2>1. q \in Parameters(stored) /\ stored[q].name \in NamesOf(stored[i].source)
    BY DEF Reads
  <2>2. PICK p \in Parameters(objects) : objects[p].name = stored[q].name
    BY <1>3, <1>4, <2>1 DEF Resolved
  <2>3. p \in Reads(objects, i)
    BY <1>4, <2>1, <2>2 DEF Reads
  <2>4. p \in Parameters(stored) /\ stored[p].name = stored[q].name
    BY <1>5, <2>2, <2>3 DEF Reads
  <2>5. p = q
    BY <2>1, <2>4 DEF Resolved, UniqueNames
  <2> QED BY <2>3, <2>5
<1>7. Value(objects, i, Meaning(objects)) = Value(stored, i, Meaning(stored))
  <2>1. Reads(objects, i) = Reads(stored, i)
    BY <1>5, <1>6
  <2>2. \A p \in Reads(objects, i) : /\ objects[p].name = stored[p].name
                                     /\ Meaning(objects)[p] = Meaning(stored)[p]
    BY <1>5
  <2> QED BY <1>4, <2>1, <2>2, ValuesAlike
<1> QED BY <1>2, <1>3, <1>4, <1>7, MeaningIs

\* The rows the transaction leaves: those computed again have their new values,
\* which no failure is among, and the others are the stored ones.
LEMMA RowsWritten ==
    ASSUME EditInv, Write
    PROVE  LET objects == candidate.objects
               new == copy'.objects
               affected == Affected(objects, DOMAIN candidate.old)
               value == Evaluation(objects, affected)
           IN  /\ DOMAIN new = DOMAIN objects
               /\ \A id \in DOMAIN objects : /\ objects[id].kind = new[id].kind
                                             /\ objects[id].name = new[id].name
                                             /\ objects[id].source = new[id].source
               /\ \A id \in affected : new[id].value = value[id] /\ value[id] # Failed
               /\ \A id \in DOMAIN objects \ affected :
                      /\ id \in DOMAIN copy.objects
                      /\ objects[id] = copy.objects[id] /\ new[id] = copy.objects[id]
<1> DEFINE objects == candidate.objects
           affected == Affected(objects, DOMAIN candidate.old)
           value == Evaluation(objects, affected)
           rows == [id \in affected |-> [objects[id] EXCEPT !.value = value[id]]]
           stored == copy.objects
           new == [id \in (DOMAIN stored \cup affected) \ candidate.removed |->
                      IF id \in affected THEN rows[id] ELSE stored[id]]
<1>1. Accounted(candidate)
  BY DEF EditInv, Write
<1>2. copy'.objects = new /\ \A id \in affected : ValidRow(rows[id])
  BY DEF Write
<1>3. affected \subseteq DOMAIN objects /\ DOMAIN candidate.old \subseteq affected
  BY <1>1, AffectedRows DEF Accounted, Domains
<1> HIDE DEF affected, value
<1>4. ASSUME NEW id \in affected
      PROVE  /\ rows[id].kind = objects[id].kind
             /\ rows[id].name = objects[id].name
             /\ rows[id].source = objects[id].source
             /\ rows[id].value = value[id]
  <2> DEFINE row == objects[id]
  <2>1. row = [kind |-> row.kind, name |-> row.name, source |-> row.source,
               value |-> row.value, links |-> row.links]
    BY <1>1, <1>3, <1>4 DEF Accounted, Rows, Typed
  <2>2. rows[id] = [row EXCEPT !.value = value[id]]
    BY <1>4
  <2> HIDE DEF rows, row
  <2>3. rows[id] = [kind |-> row.kind, name |-> row.name, source |-> row.source,
                    value |-> value[id], links |-> row.links]
    BY <2>1, <2>2
  <2>4. /\ rows[id].kind = row.kind /\ rows[id].name = row.name
        /\ rows[id].source = row.source /\ rows[id].value = value[id]
    BY <2>3
  <2> QED BY <2>4 DEF row
<1>5. \A id \in affected : value[id] # Failed
  BY ZenonT(60), <1>2, <1>4 DEF ValidRow
<1>6. candidate.removed \cap DOMAIN objects = {}
  BY <1>1 DEF Accounted, Domains, Parameters
<1>7. \A id \in DOMAIN objects \ affected :
         id \in DOMAIN stored /\ objects[id] = stored[id]
  BY <1>1, <1>3 DEF Accounted, Domains
<1>8. DOMAIN new = DOMAIN objects
  BY <1>1, <1>3, <1>6, <1>7 DEF Accounted, Domains
<1>9. \A id \in DOMAIN objects : new[id] = (IF id \in affected THEN rows[id] ELSE stored[id])
  BY <1>8
<1> HIDE DEF rows, new, objects, stored
<1>10. /\ DOMAIN new = DOMAIN objects
       /\ \A id \in DOMAIN objects : /\ objects[id].kind = new[id].kind
                                     /\ objects[id].name = new[id].name
                                     /\ objects[id].source = new[id].source
       /\ \A id \in affected : new[id].value = value[id] /\ value[id] # Failed
       /\ \A id \in DOMAIN objects \ affected :
             id \in DOMAIN stored /\ objects[id] = stored[id] /\ new[id] = stored[id]
  BY <1>3, <1>4, <1>5, <1>7, <1>8, <1>9
<1> QED BY <1>2, <1>10 DEF objects, affected, value, stored

\* The transaction: what it computed is what the formulas say, and what it did
\* not was as right or as wrong before.
LEMMA WriteSpreadsNothing ==
    ASSUME EditInv, Write
    PROVE  \A id \in Wrong(copy') :
               id \in Wrong(document) /\ copy'.objects[id] = document.objects[id]
<1> DEFINE objects == candidate.objects
           new == copy'.objects
           stored == document.objects
           edited == DOMAIN candidate.old
           affected == Affected(objects, edited)
           value == Evaluation(objects, affected)
<1>1. copy = document /\ Stored /\ Accounted(candidate) /\ Resolved(objects)
        /\ Acyclic(References(objects))
  BY DEF EditInv, Write
<1>2. IsFiniteSet(DOMAIN objects)
  <2>1. IsFiniteSet(DOMAIN stored \ candidate.removed)
    BY <1>1, FS_Subset DEF Stored
  <2>2. IsFiniteSet(candidate.added)
    BY <1>1 DEF Accounted, Domains
  <2>3. IsFiniteSet((DOMAIN stored \ candidate.removed) \cup candidate.added)
    BY <2>1, <2>2, FS_Union
  <2> QED BY <1>1, <2>3 DEF Accounted, Domains
<1>3. Ordered(objects)
  BY <1>1, <1>2 DEF Accounted, Rows, Ordered
<1>4. Ordered(stored) /\ Resolved(stored)
  BY <1>1 DEF Stored, Sound, Ordered
<1>5. \A i \in DOMAIN objects \ edited : i \in DOMAIN stored /\ objects[i] = stored[i]
  BY <1>1 DEF Accounted, Domains
<1>6. /\ DOMAIN new = DOMAIN objects
      /\ \A id \in DOMAIN objects : /\ objects[id].kind = new[id].kind
                                    /\ objects[id].name = new[id].name
                                    /\ objects[id].source = new[id].source
      /\ \A id \in affected : new[id].value = value[id] /\ value[id] # Failed
      /\ \A id \in DOMAIN objects \ affected :
            /\ id \in DOMAIN stored
            /\ objects[id] = stored[id] /\ new[id] = stored[id]
  BY <1>1, RowsWritten
<1> HIDE DEF objects, new, stored, value
<1>7. Meaning(new) = Meaning(objects)
  <2>1. Parameters(new) = Parameters(objects)
    BY <1>6 DEF Parameters
  <2>2. ASSUME NEW id \in DOMAIN objects, NEW of
        PROVE  Value(objects, id, of) = Value(new, id, of)
    <3>1. Reads(objects, id) = Reads(new, id)
      BY <1>6, <2>1 DEF Reads, Parameters
    <3>2. \A p \in Reads(objects, id) : objects[p].name = new[p].name
      BY <1>6 DEF Reads, Parameters
    <3> QED BY <1>6, <3>1, <3>2, ValuesAlike
  <2> QED BY <1>6, <2>2, MeaningsAlike
<1>8. SUFFICES ASSUME NEW id \in DOMAIN objects, new[id].value # Meaning(objects)[id]
               PROVE  /\ id \in DOMAIN stored /\ new[id] = stored[id]
                      /\ stored[id].value # Meaning(stored)[id]
  BY <1>6, <1>7 DEF Wrong, new, stored
<1>9. id \notin affected
  <2>1. ASSUME id \in affected PROVE FALSE
    <3>1. new[id].value = value[id] /\ value[id] # Failed
      BY <1>6, <2>1
    <3>2. value[id] = Meaning(objects)[id]
      BY <1>3, <3>1, EvaluationMeans DEF value
    <3> QED BY <1>8, <3>1, <3>2
  <2> QED BY <2>1
<1>10. Meaning(objects)[id] = Meaning(stored)[id]
  BY <1>1, <1>3, <1>4, <1>5, <1>9, UnaffectedMeans
<1> QED BY <1>6, <1>8, <1>9, <1>10

---------------------------------------------------------------------------
(* The theorems                                                            *)

LEMMA AcceptInv == EditInv /\ Accept => EditInv'
BY DEF EditInv, Accept

LEMMA RefuseInv == EditInv /\ Refuse => EditInv'
BY DEF EditInv, Refuse

LEMMA NextInv == EditInv /\ [EditNext]_editVars => EditInv'
<1> SUFFICES ASSUME EditInv, [EditNext]_editVars PROVE EditInv'
  OBVIOUS
<1>1. CASE UNCHANGED editVars
  BY <1>1 DEF EditInv, Stored, Accounted, Rows, Domains, OldLinks, editVars
<1>2. CASE Begin
  BY <1>2, BeginInv
<1>3. ASSUME NEW id \in ParameterIds, NEW name \in Names, NEW source \in Formulas,
             AddParameter(id, name, source)
      PROVE  EditInv'
  BY <1>3, FormulasAssumption, AddParameterInv
<1>4. ASSUME NEW id \in ParameterIds, NEW name \in Names, RenameParameter(id, name)
      PROVE  EditInv'
  BY <1>4, RenameParameterInv
<1>5. ASSUME NEW id \in ParameterIds, NEW source \in Formulas, SetParameter(id, source)
      PROVE  EditInv'
  BY <1>5, FormulasAssumption, SetParameterInv
<1>6. ASSUME NEW id \in ParameterIds, RemoveParameter(id)
      PROVE  EditInv'
  BY <1>6, RemoveParameterInv
<1>7. ASSUME NEW id \in FeatureIds, NEW number \in Numbers, SetExpression(id, number)
      PROVE  EditInv'
  BY <1>7, FormulasAssumption, SetExpressionTextInv DEF SetExpression, Numbers
<1>8. ASSUME NEW id \in FeatureIds, NEW number \in Numbers, NEW support,
             SetEndCondition(id, number, support)
      PROVE  EditInv'
  BY <1>8, FormulasAssumption, SetEndConditionInv DEF Numbers
<1>9. ASSUME NEW id \in FeatureIds, NEW source \in Formulas, SetExpressionText(id, source)
      PROVE  EditInv'
  BY <1>9, FormulasAssumption, SetExpressionTextInv
<1>10. ASSUME NEW id \in FeatureIds, NEW source \in Formulas, AddSketch(id, source)
       PROVE  EditInv'
  BY <1>10, FormulasAssumption, AddSketchInv
<1>11. ASSUME NEW id \in FeatureIds, NEW source \in Formulas, NEW body \in BodyIds,
              AddBody(body, id, source)
       PROVE  EditInv'
  BY <1>11, FormulasAssumption, AddBodyInv
<1>12. ASSUME NEW id \in FeatureIds, NEW source \in Formulas, NEW body \in BodyIds,
              AddFeature(id, body, source)
       PROVE  EditInv'
  BY <1>12, FormulasAssumption, AddFeatureInv
<1>13. ASSUME NEW id \in FeatureIds, SetField(id)
       PROVE  EditInv'
  BY <1>13, SetFieldInv
<1>14. CASE Write
  BY <1>14, WriteInv
<1>15. CASE Accept
  BY <1>15, AcceptInv
<1>16. CASE Refuse
  BY <1>16, RefuseInv
<1> QED BY <1>1, <1>2, <1>3, <1>4, <1>5, <1>6, <1>7, <1>8, <1>9, <1>10, <1>11, <1>12,
           <1>13, <1>14, <1>15, <1>16 DEF EditNext

\* No other step writes, and none changes what was written.
LEMMA SpreadsInv == EditInv /\ StalenessNeverSpreads /\ [EditNext]_editVars => StalenessNeverSpreads'
<1> SUFFICES ASSUME EditInv, StalenessNeverSpreads, [EditNext]_editVars, phase' = "written"
             PROVE  \A id \in Wrong(copy') :
                        id \in Wrong(document') /\ copy'.objects[id] = document'.objects[id]
  BY DEF StalenessNeverSpreads
<1>1. CASE UNCHANGED editVars
  BY <1>1 DEF StalenessNeverSpreads, Wrong, editVars
<1>2. CASE Write
  <2>1. document' = document
    BY <1>2 DEF Write
  <2> QED BY <1>2, <2>1, WriteSpreadsNothing
<1>3. CASE EditNext /\ ~ Write
  BY ZenonT(60), <1>3 DEF EditNext, Begin, Accept, Refuse, AddParameter, RenameParameter, SetParameter,
              RemoveParameter, SetExpression, SetEndCondition, SetExpressionText, AddSketch,
              AddBody, AddFeature, SetField, Change
<1> QED BY <1>1, <1>2, <1>3

\* The account the candidate keeps of the stored rows (Candidate, candidate.rs)
\* and the line of features hold throughout an edit.
THEOREM EditInvariant == EditSpec => []EditInv
<1> QED BY InitInv, NextInv, PTL DEF EditSpec

\* Whatever a request changes and in which order, the transaction leaves exactly
\* the dependency rows the formulas and links of its rows ask for
\* (Candidate::write, candidate.rs), for any ids, names and formulas.
THEOREM EditIsSound == EditSpec => []GraphIsSound
<1>1. EditInv => GraphIsSound
  BY DEF EditInv, GraphIsSound
<1> QED BY <1>1, EditInvariant, PTL

\* However many features one request appends, every body keeps one line of them
\* that ends at its tip (edit.rs, append_modeling_feature).
THEOREM HistoryStaysALine == EditSpec => []HistoryIsALine
<1>1. EditInv => HistoryIsALine
  BY DEF EditInv, HistoryIsALine
<1> QED BY <1>1, EditInvariant, PTL

\* What an edit publishes is sound as what it began with was; a refused edit
\* leaves the document alone (edit_object_copy and checked_rebuild).
THEOREM DocumentStaysSound == EditSpec => []Sound(document)
<1>1. EditInv => Sound(document)
  BY DEF EditInv
<1> QED BY <1>1, EditInvariant, PTL

\* A rename changes what no formula reads and no value (Candidate::rename,
\* candidate.rs, and Formula::renamed), whatever the request changed before it.
THEOREM RenamesKeepMeaning == EditSpec => RenameKeepsMeaning
<1>1. ASSUME EditInv, [EditNext]_editVars
      PROVE  [\A id \in ParameterIds, name \in Names :
                RenameParameter(id, name) =>
                   LET before == candidate.objects
                       after == candidate'.objects
                   IN  /\ References(before) \subseteq References(after)
                       /\ Resolved(before) =>
                            /\ Resolved(after)
                            /\ References(after) = References(before)
                            /\ Acyclic(References(before)) => Meaning(after) = Meaning(before)]_editVars
  <2>1. ASSUME NEW id \in ParameterIds, NEW name \in Names, RenameParameter(id, name)
        PROVE  LET before == candidate.objects
                   after == candidate'.objects
               IN  /\ References(before) \subseteq References(after)
                   /\ Resolved(before) =>
                        /\ Resolved(after)
                        /\ References(after) = References(before)
                        /\ Acyclic(References(before)) => Meaning(after) = Meaning(before)
    BY <1>1, <2>1, RenameKeeps
  <2> QED BY <2>1
<1> QED BY <1>1, EditInvariant, PTL DEF EditSpec, RenameKeepsMeaning

\* Whatever an edit changes, a wrong stored value stays where it is or is
\* repaired, and everything the edit computes is what the formulas say
\* (Candidate::evaluate and write_changes, candidate.rs).
THEOREM StalenessStays == EditSpec => []StalenessNeverSpreads
<1>1. EditInit => StalenessNeverSpreads
  BY DEF EditInit, StalenessNeverSpreads
<1> QED BY <1>1, SpreadsInv, EditInvariant, PTL DEF EditSpec

=============================================================================
