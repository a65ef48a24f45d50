---------------------------- MODULE LinearHistory ----------------------------
(***************************************************************************)
(* What an open document promises a person about Undo and Redo: a line of  *)
(* versions, each made from the one before it, and a place in it.          *)
(***************************************************************************)
EXTENDS Integers, Sequences

CONSTANTS Versions

VARIABLES
    line,   \* the versions kept, oldest first
    place,  \* the version shown
    parent  \* the version each version was made from

vars == <<line, place, parent>>

Init ==
    /\ \E v \in Versions : line = <<v>>
    /\ place = 1
    /\ parent \in [Versions -> Versions]

(* A new version of the one shown; what was to be redone is gone.  The     *)
(* oldest versions may be forgotten, the new one never.                    *)
Edit(v) ==
    /\ parent[v] = line[place]
    /\ \E first \in 1 .. place + 1 :
        /\ line' = SubSeq(Append(SubSeq(line, 1, place), v), first, place + 1)
        /\ place' = place + 2 - first
    /\ UNCHANGED parent

Undo == place > 1 /\ place' = place - 1 /\ UNCHANGED <<line, parent>>
Redo == place < Len(line) /\ place' = place + 1 /\ UNCHANGED <<line, parent>>

(* A version is made, and is not part of the line yet.                     *)
Make ==
    /\ parent' \in [Versions -> Versions]
    /\ \A i \in 1 .. Len(line) : parent'[line[i]] = parent[line[i]]
    /\ UNCHANGED <<line, place>>

Next == (\E v \in Versions : Edit(v)) \/ Undo \/ Redo \/ Make

Spec == Init /\ [][Next]_vars
=============================================================================
