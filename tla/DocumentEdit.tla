---------------------------- MODULE DocumentEdit ----------------------------
(***************************************************************************)
(* One edit of a document: Candidate and write_changes of                  *)
(* ferritecad-document, the formulas and parameters they keep consistent,  *)
(* and edit_object_copy of ferritecad-jobs, which runs them in a private   *)
(* copy, rebuilds the copy and accepts it.                                 *)
(*                                                                         *)
(* A document is its rows and the dependency rows beside them.  A request  *)
(* is a list of changes applied in order to a candidate in memory, then    *)
(* written in one transaction.  A change that is refused, a failed write   *)
(* and a cancelled job are one action, Refuse: the copy is dropped.        *)
(*                                                                         *)
(* A row is its kind, its formula with the value stored beside it, and its *)
(* links to other rows with their roles.  A formula adds up a literal and  *)
(* the parameters it names, each as often as it names it; a sum above Cap  *)
(* stands for an evaluation that fails.  A feature is a row of one formula *)
(* whose value must be positive; a sketch stands for it, datum planes and  *)
(* every other row of formulas that no history leads through.  The links   *)
(* of sketches and datum planes, and those to profiles, are left out.      *)
(***************************************************************************)
EXTENDS Naturals, FiniteSets, FiniteSetsExt

CONSTANTS
    ParameterIds,   \* bound: the identifiers a request may give to a parameter,
    FeatureIds,     \*     to a feature or a sketch,
    BodyIds,        \*     and to a body
    Names,          \* the names of parameters
    Formulas,       \* bound: the formulas a request may hold
    Cap,            \* bound: the largest value
    Unnamed,        \* the name of a row that is not a parameter
    Documents,      \* the documents an edit may begin with
    MaxChanges      \* bound: the changes of one request

\* A literal, and how often each parameter is named.
Formula == [literal : Nat, uses : [Names -> Nat]]

ASSUME FormulasAssumption == Formulas \subseteq Formula /\ Cap \in Nat

\* The formulas that name nothing; bound: an end condition comes with one.
Numbers == {source \in Formulas : \A n \in Names : source.uses[n] = 0}

Nothing == [literal |-> 0, uses |-> [n \in Names |-> 0]]
Failed == Cap + 1

NamesOf(formula) == {n \in Names : formula.uses[n] > 0}

Parameter(name, source) ==
    [kind |-> "parameter", name |-> name, source |-> source, value |-> 0, links |-> {}]
Row(kind, source, links) ==
    [kind |-> kind, name |-> Unnamed, source |-> source, value |-> 0, links |-> links]

VARIABLES
    document,   \* the document the edit began with, then the one it made
    phase,      \* "open", "editing", "written", "done"
    baseline,   \* facts.unbuilt: what did not rebuild before the edit
    candidate,  \* Candidate: objects, old, added, removed
    copy,       \* the document in the private file
    changes     \* how many changes the candidate took

editVars == <<document, phase, baseline, candidate, copy, changes>>

---------------------------------------------------------------------------
(* Names, references and the graph                                         *)

Parameters(objects) == {id \in DOMAIN objects : objects[id].kind = "parameter"}

Feature(objects, id) == id \in DOMAIN objects /\ objects[id].kind = "feature"

\* The parameters a row's formula names.
Reads(objects, id) ==
    {p \in Parameters(objects) : objects[p].name \in NamesOf(objects[id].source)}

\* ObjectPayload::dependencies, and the edges references finds.
PayloadEdges(id, row) == {<<id, link[1], link[2]>> : link \in row.links}
References(objects) ==
    UNION {{<<id, p, "parameter">> : p \in Reads(objects, id)} : id \in DOMAIN objects}

UniqueNames(objects) ==
    \A p, q \in Parameters(objects) : objects[p].name = objects[q].name => p = q

\* What references refuses.
Resolved(objects) ==
    /\ UniqueNames(objects)
    /\ \A id \in DOMAIN objects : \A n \in NamesOf(objects[id].source) :
           \E p \in Parameters(objects) : objects[p].name = n

\* order_with_cycle: round after round the rows that wait for no other leave;
\* there is an order when none remains.
Acyclic(edges) ==
    LET waiting == {e[1] : e \in edges}
        remaining[n \in Nat] ==
            IF n = 0 THEN waiting
            ELSE LET before == remaining[n - 1]
                 IN  {id \in before : \E e \in edges : e[1] = id /\ e[2] \in before}
    IN  remaining[Cardinality(waiting)] = {}

\* Candidate::validate_target.
ValidTarget(objects, e) ==
    /\ e[2] \in DOMAIN objects
    /\ objects[e[2]].kind = (IF e[3] = "parameter" THEN "parameter" ELSE "feature")

Links(objects) == UNION {PayloadEdges(id, objects[id]) : id \in DOMAIN objects}

\* check_feature_history: no feature is followed by two, and none belongs to two
\* bodies, as the tip or before it.
HistoryValidates(edges) ==
    LET into(id, role) == {e[1] : e \in {f \in edges : f[2] = id /\ f[3] = role}}
        ids == {e[1] : e \in edges} \cup {e[2] : e \in edges}
        owners[id \in ids] ==
            into(id, "body_tip") \cup UNION {owners[next] : next \in into(id, "predecessor")}
    IN  \A id \in ids : /\ Cardinality(into(id, "predecessor")) <= 1
                        /\ Cardinality(owners[id]) <= 1

\* Document::open: check_rows.
Opens(d) ==
    /\ Resolved(d.objects)
    /\ {e \in d.deps : e[3] = "parameter"} = References(d.objects)

\* ensure_rebuildable: validate finds no error.  Of the links beside the payload
\* it refuses a support the payload does not name, and no other.
Validates(d) ==
    /\ Links(d.objects) \subseteq d.deps
    /\ \A e \in Links(d.objects) : ValidTarget(d.objects, e)
    /\ \A e \in d.deps : e[3] = "support" => e \in Links(d.objects)
    /\ Acyclic(d.deps)
    /\ HistoryValidates(Links(d.objects))

\* No feature is followed by two others, the tip of two bodies, or both.
OneHistory(edges) ==
    \A e, f \in edges :
        (e[2] = f[2] /\ {e[3], f[3]} \subseteq {"predecessor", "body_tip"}) => e = f

\* What a document is to be: its dependency rows say what its rows say, names
\* are unique and known, parameters have an order, links end at the right kind.
Sound(d) ==
    /\ d.deps = Links(d.objects) \cup References(d.objects)
    /\ Resolved(d.objects)
    /\ Acyclic(References(d.objects))
    /\ \A e \in d.deps : ValidTarget(d.objects, e)

\* A row as the types of the code make it, whatever wrote it.
Typed(row) ==
    /\ row = [kind |-> row.kind, name |-> row.name, source |-> row.source,
              value |-> row.value, links |-> row.links]
    /\ row.source \in Formula
    /\ row.kind = "parameter" => row.name \in Names /\ row.links = {}
    /\ row.kind = "body" => \A link \in row.links : link[2] = "body_tip"
    /\ \A link \in row.links :
         link = <<link[1], link[2]>> /\ link[2] \in {"predecessor", "body_tip", "support"}

ASSUME DocumentsAssumption ==
    \A d \in Documents :
        /\ Sound(d) /\ OneHistory(d.deps) /\ IsFiniteSet(DOMAIN d.objects)
        /\ \A id \in DOMAIN d.objects : Typed(d.objects[id])

---------------------------------------------------------------------------
(* Values                                                                  *)

\* Formula::value, the values of parameters taken from of.
Value(objects, id, of) ==
    LET uses == objects[id].source.uses
        sum == objects[id].source.literal
                 + MapThenSumSet(LAMBDA p : uses[objects[p].name] * of[p], Reads(objects, id))
    IN  IF sum > Cap THEN Failed ELSE sum

\* Candidate::evaluate: the rows to compute again, edited ones and all that
\* read one of them, directly or not.
Affected(objects, edited) ==
    LET reached[id \in DOMAIN objects] ==
            \E p \in Reads(objects, id) : p \in edited \/ reached[p]
    IN  edited \cup {id \in DOMAIN objects : reached[id]}

\* Mutant: a stored value nobody edited is taken for what its formula says.
Evaluation_Trusts(objects, affected) ==
    LET value[id \in DOMAIN objects] ==
            IF id \in affected THEN Value(objects, id, value) ELSE objects[id].value
    IN  value

\* Candidate::evaluate: an affected row gets its value, another one keeps the
\* stored value when that is what its formula says and else fails.
Evaluation(objects, affected) ==
    LET value[id \in DOMAIN objects] ==
            LET v == Value(objects, id, value)
            IN  IF id \in affected \/ v = objects[id].value THEN v ELSE Failed
    IN  value

\* The rows a cold rebuild cannot build on account of their values: verify.
Unbuilt(d) ==
    LET stored == [id \in DOMAIN d.objects |-> d.objects[id].value]
        built[id \in DOMAIN d.objects] ==
            /\ Value(d.objects, id, stored) = stored[id]
            /\ \A e \in d.deps : e[1] = id => built[e[2]]
    IN  {id \in DOMAIN d.objects : ~built[id]}

\* validate: what a payload must hold to be stored.
ValidRow(row) ==
    /\ row.value # Failed
    /\ row.kind = "feature" /\ (\A link \in row.links : link[2] # "support")
         => row.value > 0

---------------------------------------------------------------------------
(* The candidate                                                           *)

NoRows == [id \in {} |-> {}]
NoCandidate == [objects |-> NoRows, old |-> NoRows, added |-> {}, removed |-> {}]

EditInit ==
    /\ document \in Documents
    /\ phase = "open"
    /\ baseline = {}
    /\ candidate = NoCandidate
    /\ copy = document
    /\ changes = 0

\* edit_object_copy up to write_changes, Candidate::read: the copy opens and
\* validates; what of it does not build is the baseline.
Begin ==
    /\ phase = "open"
    /\ Opens(document)
    /\ Validates(document)
    /\ phase' = "editing"
    /\ baseline' = Unbuilt(document)
    /\ candidate' = [NoCandidate EXCEPT !.objects = document.objects]
    /\ UNCHANGED <<document, copy, changes>>

\* Mutant: the old links of an edited row are not kept.
Edited_Forgets(ids) ==
    [id \in DOMAIN candidate.old \cup ids |->
        IF id \in DOMAIN candidate.old THEN candidate.old[id] ELSE {}]

\* Candidate::edit of some rows.
Edited(ids) ==
    [id \in DOMAIN candidate.old \cup ids |->
        IF id \in DOMAIN candidate.old THEN candidate.old[id]
        ELSE PayloadEdges(id, candidate.objects[id])]

\* A change of the candidate that write_changes takes.
Change ==
    /\ phase = "editing"
    /\ changes < MaxChanges
    /\ changes' = changes + 1
    /\ UNCHANGED <<document, phase, baseline, copy>>

\* The edit of one row.
Update(id, row) ==
    candidate' = [candidate EXCEPT !.objects[id] = row, !.old = Edited({id})]

\* Candidate::add of some rows, none of them there or removed.
MayAdd(ids) == ids \cap (DOMAIN candidate.objects \cup candidate.removed) = {}
Added(rows) ==
    [candidate EXCEPT
        !.objects = [id \in DOMAIN @ \cup DOMAIN rows |->
                        IF id \in DOMAIN rows THEN rows[id] ELSE @[id]],
        !.old = [id \in DOMAIN @ \cup DOMAIN rows |->
                        IF id \in DOMAIN rows THEN {} ELSE @[id]],
        !.added = @ \cup DOMAIN rows]

\* Candidate::check_name.
CheckName(id, name) ==
    \A p \in Parameters(candidate.objects) : p # id => candidate.objects[p].name # name

\* Mutant: only parameters are asked.
Users_Parameters(name) ==
    {id \in Parameters(candidate.objects) : name \in NamesOf(candidate.objects[id].source)}

\* Candidate::users.
Users(name) ==
    {id \in DOMAIN candidate.objects : name \in NamesOf(candidate.objects[id].source)}

AddParameter(id, name, source) ==
    /\ Change
    /\ CheckName(id, name)
    /\ MayAdd({id})
    /\ candidate' = Added([i \in {id} |-> Parameter(name, source)])

SetParameter(id, source) ==
    /\ Change
    /\ id \in Parameters(candidate.objects)
    /\ Update(id, [candidate.objects[id] EXCEPT !.source = source])

\* Formula::renamed.
Renamed(formula, old, new) ==
    [formula EXCEPT !.uses = [n \in Names |->
        IF old = new THEN @[n]
        ELSE IF n = old THEN 0
        ELSE IF n = new THEN @[new] + @[old]
        ELSE @[n]]]

\* Candidate::rename: the parameter first, then every user of the old name.
RenameParameter(id, name) ==
    /\ Change
    /\ id \in Parameters(candidate.objects)
    /\ CheckName(id, name)
    /\ LET rows == candidate.objects
           old == rows[id].name
           users == Users(old)
           renamed == [i \in DOMAIN rows |->
               [rows[i] EXCEPT
                   !.name = IF i = id THEN name ELSE rows[i].name,
                   !.source = IF i \in users THEN Renamed(rows[i].source, old, name)
                              ELSE rows[i].source]]
       IN  candidate' = [candidate EXCEPT !.objects = renamed,
                                          !.old = Edited(users \cup {id})]

\* Candidate::remove of a parameter nothing uses.
RemoveParameter(id) ==
    /\ Change
    /\ id \in Parameters(candidate.objects)
    /\ Users(candidate.objects[id].name) = {}
    /\ candidate' = [candidate EXCEPT
           !.objects = [i \in DOMAIN @ \ {id} |-> @[i]],
           !.old = [i \in DOMAIN @ \ {id} |-> @[i]],
           !.added = @ \ {id},
           !.removed = IF id \in candidate.added THEN @ ELSE @ \cup {id}]

\* set_expression with a text (or the formula of a constraint that comes or goes),
\* and with a number, which only replaces a number.
SetExpressionText(id, source) ==
    /\ Change
    /\ id \in DOMAIN candidate.objects
    /\ candidate.objects[id].kind \in {"feature", "sketch"}
    /\ Update(id, [candidate.objects[id] EXCEPT !.source = source])

SetExpression(id, number) ==
    /\ id \in DOMAIN candidate.objects => NamesOf(candidate.objects[id].source) = {}
    /\ SetExpressionText(id, number)

\* A change of a field that holds no formula and no link.
SetField(id) ==
    /\ Change
    /\ id \in DOMAIN candidate.objects
    /\ candidate.objects[id].kind \in {"feature", "sketch"}
    /\ Update(id, candidate.objects[id])

\* The end condition of an extrusion: its formula, and the feature it ends at.
SetEndCondition(id, source, support) ==
    /\ Change
    /\ Feature(candidate.objects, id)
    /\ Update(id, [candidate.objects[id] EXCEPT
                      !.source = source,
                      !.links = {link \in @ : link[2] # "support"}
                                    \cup {<<to, "support">> : to \in support}])

AddSketch(id, source) ==
    /\ Change
    /\ MayAdd({id})
    /\ candidate' = Added([i \in {id} |-> Row("sketch", source, {})])

AddBody(id, feature, source) ==
    /\ Change
    /\ MayAdd({id, feature})
    /\ candidate' = Added([i \in {id, feature} |->
           IF i = feature THEN Row("feature", source, {})
           ELSE Row("body", Nothing, {<<feature, "body_tip">>})])

\* Mutant: the tip is read from the stored document.
Tip_Stored(body) ==
    (IF body \in DOMAIN copy.objects THEN copy.objects ELSE candidate.objects)[body].links

\* The tip the candidate's body has by now.
Tip(body) == candidate.objects[body].links

\* The new feature follows the tip.
AddFeature(id, body, source) ==
    /\ Change
    /\ body \in DOMAIN candidate.objects
    /\ candidate.objects[body].kind = "body"
    /\ MayAdd({id})
    /\ \E tip \in Tip(body) :
         LET moved == [candidate.objects EXCEPT ![body].links = {<<id, "body_tip">>}]
             edited == [candidate EXCEPT !.objects = moved, !.old = Edited({body})]
         IN  candidate' = [edited EXCEPT
               !.objects = [i \in DOMAIN @ \cup {id} |->
                   IF i = id THEN Row("feature", source, {<<tip[1], "predecessor">>})
                   ELSE @[i]],
               !.old = [i \in DOMAIN @ \cup {id} |-> IF i = id THEN {} ELSE @[i]],
               !.added = @ \cup {id}]

---------------------------------------------------------------------------
(* The write and the rebuild                                               *)

\* Candidate::write in one transaction: the rows edited or affected are put,
\* dependency rows are replaced, removed rows go.
Write ==
    /\ phase = "editing"
    /\ Resolved(candidate.objects)
    /\ Acyclic(References(candidate.objects))
    /\ LET objects == candidate.objects
           references == References(objects)
           affected == Affected(objects, DOMAIN candidate.old)
           value == Evaluation(objects, affected)
           rows == [id \in affected |-> [objects[id] EXCEPT !.value = value[id]]]
           original == Edited(affected)
           before == {e \in copy.deps : e[3] = "parameter"}
                         \cup UNION {original[id] : id \in affected}
           after == references \cup UNION {PayloadEdges(id, rows[id]) : id \in affected}
           deps == (copy.deps \ (before \ after)) \cup (after \ before)
       IN  /\ \A id \in affected :
                /\ ValidRow(rows[id])
                /\ \A e \in PayloadEdges(id, rows[id]) \ original[id] : ValidTarget(objects, e)
           /\ \A e \in deps : e[2] \notin candidate.removed
           /\ copy' = [
                objects |-> [id \in (DOMAIN copy.objects \cup affected) \ candidate.removed |->
                                IF id \in affected THEN rows[id] ELSE copy.objects[id]],
                deps |-> {e \in deps : e[1] \notin candidate.removed}]
    /\ phase' = "written"
    /\ candidate' = NoCandidate
    /\ changes' = 0
    /\ UNCHANGED <<document, baseline>>

\* checked_rebuild with the baseline, and publication: the copy is accepted
\* when it validates and no other row fails than before.
Accept ==
    /\ phase = "written"
    /\ Validates(copy)
    /\ Unbuilt(copy) \subseteq baseline
    /\ document' = copy
    /\ phase' = "done"
    /\ UNCHANGED <<baseline, candidate, copy, changes>>

\* A refused change, write or rebuild, or a cancelled job.
Refuse ==
    /\ phase \in {"editing", "written"}
    /\ phase' = "done"
    /\ candidate' = NoCandidate
    /\ copy' = document
    /\ changes' = 0
    /\ UNCHANGED <<document, baseline>>

EditNext ==
    \/ Begin
    \/ \E id \in ParameterIds, name \in Names :
         \/ \E source \in Formulas : AddParameter(id, name, source)
         \/ RenameParameter(id, name)
    \/ \E id \in ParameterIds :
         \/ \E source \in Formulas : SetParameter(id, source)
         \/ RemoveParameter(id)
    \/ \E id \in FeatureIds, number \in Numbers :
         \/ SetExpression(id, number)
         \/ SetEndCondition(id, number, {})
         \/ \E support \in FeatureIds : SetEndCondition(id, number, {support})
    \/ \E id \in FeatureIds, source \in Formulas :
         \/ SetExpressionText(id, source)
         \/ AddSketch(id, source)
         \/ \E body \in BodyIds : AddBody(body, id, source) \/ AddFeature(id, body, source)
    \/ \E id \in FeatureIds : SetField(id)
    \/ Write
    \/ Accept
    \/ Refuse

EditSpec == EditInit /\ [][EditNext]_editVars

---------------------------------------------------------------------------
(* Properties                                                              *)

\* The value a row should hold, from the formulas alone.
Meaning(objects) ==
    LET value[id \in DOMAIN objects] == Value(objects, id, value) IN value
Wrong(d) ==
    LET meaning == Meaning(d.objects)
    IN  {id \in DOMAIN d.objects : d.objects[id].value # meaning[id]}

\* Whatever the changes and their order, the transaction leaves a document
\* whose dependency rows are those its formulas and links ask for, no more and
\* no less: it opens again, and no rebuild waits for a row it does not need,
\* which no later check of the code would tell (validate.rs:437).
GraphIsSound == phase = "written" => Sound(copy)

\* The features of a body stay one line that ends at its tip, also when one
\* request adds several: no feature is followed by two, or belongs to two bodies.
HistoryIsALine == phase = "written" => OneHistory(copy.deps)

\* A stored value that is wrong before the edit stays where it is or is
\* repaired; it never enters a value the edit writes, and no edit leaves a row
\* behind that reads what it changed.
StalenessNeverSpreads ==
    phase = "written" =>
    LET wrong == Wrong(copy)
    IN  /\ wrong \subseteq Wrong(document)
        /\ \A id \in wrong : copy.objects[id] = document.objects[id]

\* Renaming a parameter changes what no formula reads and no value: what a
\* formula named before it names after, under the new name.
RenameKeepsMeaning ==
    [][\A id \in ParameterIds, name \in Names :
         RenameParameter(id, name) =>
            LET before == candidate.objects
                after == candidate'.objects
            IN  /\ References(before) \subseteq References(after)
                /\ Resolved(before) =>
                     /\ Resolved(after)
                     /\ References(after) = References(before)
                     /\ Acyclic(References(before)) => Meaning(after) = Meaning(before)]_editVars
=============================================================================
