---------------------------- MODULE MCLiveModel ----------------------------
(* A plate with a hole cut into a sketch on its own face: a width, a       *)
(* drawing, the plate, a plane on its face, a second drawing there, the    *)
(* cut, and the body.                                                      *)
EXTENDS LiveModel, TLC

Payload(kind, number, note, reads, previous, tip) ==
    [kind |-> kind, number |-> number, note |-> note, reads |-> reads,
     previous |-> previous, tip |-> tip, curves |-> {1}, regions |-> {1}]

Edge(o, role) == [on |-> o, role |-> role]

\* The versions, by what an edit of a person can change.
Plate(width, outline, note, hole, cut) ==
    LET base ==
        (1 :> Payload("parameter", width, note, <<>>, None, None)) @@
        (2 :> Payload("sketch", outline, note, <<>>, None, None)) @@
        (3 :> Payload("feature", IF width < 0 THEN 1 ELSE width, 0,
                      <<Edge(1, "parameter"), Edge(2, "profile")>>, None, None)) @@
        (4 :> Payload("datum", 1, 0, <<Edge(3, "face")>>, None, None)) @@
        (5 :> Payload("sketch", hole, 0, <<Edge(4, "plane")>>, None, None))
    IN  IF cut = None
        THEN base @@ (7 :> Payload("body", 0, 0, <<Edge(3, "tip")>>, None, 3))
        ELSE base @@
        (6 :> Payload("feature", cut, 0, <<Edge(5, "profile"), Edge(3, "previous")>>, 3, None)) @@
        (7 :> Payload("body", 0, 0, <<Edge(6, "tip")>>, None, 6))

Whole == Plate(1, 1, 0, 1, 1)

MCDocuments ==
    {Whole,
     Plate(1, 2, 0, 1, 1),              \* another drawing
     Plate(1, 1, 1, 1, 1),              \* another text of the same width, a note
     Plate(2, 1, 0, 1, 1),              \* a wider plate: its face moves
     Plate(BadValue, 1, 0, 1, 1),       \* a width that cannot be worked out
     Plate(1, 1, 0, BadTool, 1),        \* a second drawing with no profile
     Plate(1, 1, 0, 1, BadBoolean),     \* a cut the kernel refuses
     Plate(1, 1, 0, 1, None),           \* no cut
     Plate(1, 1, 0, BadTool, None),     \* no profile, and nothing that reads it
     [Whole EXCEPT ![5].curves = {2}]}  \* the curve of the cut is gone
=============================================================================
