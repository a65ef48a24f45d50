--------------------------- MODULE RecoverableCopy ---------------------------
(***************************************************************************)
(* What a crash-recovery record promises whoever owns it (recovery.rs:     *)
(* 1-60): a place for one model, replaced and emptied as if in one step,   *)
(* which a process that ends leaves as it is.                              *)
(***************************************************************************)
CONSTANTS
    Models, \* what the record can hold
    None,   \* no model
    Torn    \* what nobody can recover

VARIABLES
    holds,   \* what is recovered from the record
    owned,   \* some document's session has the record
    current, \* the model that session remembers
    sure     \* it has been told that what it remembers outlives a power cut

vars == <<holds, owned, current, sure>>

Init ==
    /\ holds \in Models \cup {None}
    /\ owned \in BOOLEAN /\ (owned => holds = None)
    /\ current = None /\ sure \in BOOLEAN

(* A session makes a record, or takes one over with what it holds.         *)
Own ==
    /\ ~owned /\ owned'
    /\ IF holds = None THEN holds' \in Models \cup {None}
       ELSE holds # Torn /\ UNCHANGED holds
    /\ current' = holds' /\ sure' \in BOOLEAN

Publish ==
    /\ owned
    /\ holds' \in Models /\ current' = holds' /\ sure' \in BOOLEAN
    /\ UNCHANGED owned

Settle ==
    /\ owned /\ current = holds
    /\ sure'
    /\ UNCHANGED <<holds, owned, current>>

(* A clear that stops half way is not remembered.                          *)
Clear ==
    /\ holds' = None /\ current' \in {current, None} /\ sure' \in BOOLEAN
    /\ UNCHANGED owned

(* The session ends, with or without a decision.                           *)
LetGo ==
    /\ owned /\ ~owned'
    /\ holds' \in {holds, None}
    /\ current' = None /\ sure' \in BOOLEAN

PowerCut ==
    /\ IF owned /\ sure /\ current # None /\ current = holds THEN UNCHANGED holds
       ELSE holds' \in Models \cup {None, Torn}
    /\ ~owned' /\ current' = None /\ sure' \in BOOLEAN

Next == Own \/ Publish \/ Settle \/ Clear \/ LetGo \/ PowerCut

Spec == Init /\ [][Next]_vars
=============================================================================
