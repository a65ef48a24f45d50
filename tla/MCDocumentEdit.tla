--------------------------- MODULE MCDocumentEdit ---------------------------
(* Small instances of DocumentEdit.                                        *)
EXTENDS DocumentEdit, TLC

CONSTANTS p1, p2, p3, a, b, c, f1, f2, f3, b1, b2

Adding(literal, once) ==
    [literal |-> literal, uses |-> [n \in Names |-> IF n \in once THEN 1 ELSE 0]]

MCFormulas == {Adding(2, {})} \cup {Adding(0, {n}) : n \in Names}

Document(objects) ==
    [objects |-> objects, deps |-> Links(objects) \cup References(objects)]

\* Two parameters, of which the second may read the first, and a body of one
\* feature or of two; each value as its formula says, or another one.
MCDocuments ==
    {Document([id \in {p1, p2, f1, b1} \cup line |->
         CASE id = p1 -> [Parameter(a, Adding(1, {})) EXCEPT !.value = x]
           [] id = p2 -> [Parameter(b, s) EXCEPT !.value = y]
           [] id = f1 -> [Row("feature", Adding(0, t), {}) EXCEPT !.value = z]
           [] id = f2 -> [Row("feature", Adding(1, {}), {<<f1, "predecessor">>})
                             EXCEPT !.value = 1]
           [] OTHER -> Row("body", Nothing,
                           {<<IF line = {} THEN f1 ELSE f2, "body_tip">>})]) :
        s \in {Adding(1, {}), Adding(0, {a})}, t \in {{a}, {b}, {a, b}},
        x \in {1, 2}, y \in {1, 2}, z \in {1, 2}, line \in {{}, {f2}}}
=============================================================================
