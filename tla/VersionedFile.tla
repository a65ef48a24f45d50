---------------------------- MODULE VersionedFile ----------------------------
(***************************************************************************)
(* What Save promises about the user's file (save.rs:1-36): a register     *)
(* that a writer replaces only while it still holds the version that       *)
(* writer last read or wrote, or makes only where nothing is.  Anybody     *)
(* else may change it at will.                                             *)
(***************************************************************************)
CONSTANTS
    Writers,  \* the windows that save to the file
    Contents, \* what the file can hold
    Absent    \* no file

VARIABLES
    content,  \* what is at the path
    view      \* the version each writer last read or wrote

vars == <<content, view>>

Init ==
    /\ content \in Contents \cup {Absent}
    /\ view \in [Writers -> Contents \cup {Absent}]

(* Save: compare and replace, as if in one step.                           *)
Replace(w, new) ==
    /\ content = view[w]
    /\ content # Absent
    /\ content' = new
    /\ view' = [view EXCEPT ![w] = new]

(* Save As: make the file where there is none.                             *)
Create(w, new) ==
    /\ content = Absent
    /\ content' = new
    /\ view' = [view EXCEPT ![w] = new]

(* A window opens the file, or lets go of it.                              *)
Read(w) ==
    /\ view' \in {[view EXCEPT ![w] = content], [view EXCEPT ![w] = Absent]}
    /\ UNCHANGED content

Outside ==
    /\ content' \in Contents \cup {Absent}
    /\ UNCHANGED view

Next ==
    \/ \E w \in Writers :
        \/ \E new \in Contents : Replace(w, new) \/ Create(w, new)
        \/ Read(w)
    \/ Outside

Spec == Init /\ [][Next]_vars
=============================================================================
