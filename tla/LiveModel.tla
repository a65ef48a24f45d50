------------------------------ MODULE LiveModel ------------------------------
(***************************************************************************)
(* The evaluation of a document and the two evaluated versions a window    *)
(* keeps of it: ferritecad-eval (cold.rs, cold/live.rs, cache.rs,          *)
(* status.rs), the dependency graph it follows, LiveDocument of            *)
(* ferritecad-jobs (live.rs) and the meshes of ferritecad-scene (live.rs). *)
(*                                                                         *)
(* A document is evaluated object by object in dependency order.  A live   *)
(* evaluation borrows from the accepted one every result whose key is      *)
(* unchanged; a cached one restores results from the sidecar.  The owning  *)
(* thread runs it alone, so one object is one step, and what can come      *)
(* between two steps is a cancellation.                                    *)
(*                                                                         *)
(* A key is the term that is hashed (hashes do not collide); the geometry  *)
(* of a shape is the term of all the kernel was given to build it.  Both   *)
(* are tuples <<what, object, number, note, inputs>>.                      *)
(***************************************************************************)
EXTENDS Integers, Sequences, FiniteSets

CONSTANTS
    Documents,      \* the versions that exist: functions from object to payload
    Handles,        \* the shapes one kernel session can hold
    Sources,        \* subset of {"live", "sidecar"}: how a session evaluates
    None,
    MaxLine,        \* bound on the undo and on the redo history
    MaxDamage       \* bound on the damages to the sidecar

ASSUME SourcesAssumption == Sources \subseteq {"live", "sidecar"}
ASSUME LineAssumption == MaxLine \in Nat

VARIABLES
    alive,          \* the shapes the kernel holds
    solid,          \* the geometry of each shape, while it is alive
    source,         \* how this session evaluates
    work,           \* the evaluation under way: [doc, base, result]
    candidate,      \* LiveModel.candidate, with its document
    accepted,       \* LiveModel.accepted, with its document
    drawing,        \* BodyMeshes of the candidate's picture
    picture,        \* LiveDocument.picture: [doc, meshes, unbuilt]
    line,           \* the session: [past, current, future]
    change,         \* what is under way: "open", "edit", "undo", "redo", "cached"
    sidecar,        \* the cache: [producer, key, solid, intact]
    damages

vars == <<alive, solid, source, work, candidate, accepted, drawing, picture,
          line, change, sidecar, damages>>

\* A number no formula, no tool and no boolean accepts.
BadValue == -1
BadTool == -2
BadBoolean == -3

---------------------------------------------------------------------------
(* Results                                                                 *)

EmptyMap == [o \in {} |-> None]
Put(f, o, v) == [x \in DOMAIN f \cup {o} |-> IF x = o THEN v ELSE f[x]]
Values(f) == {f[x] : x \in DOMAIN f}

EmptyResult ==
    [status |-> EmptyMap, shapes |-> EmptyMap, values |-> EmptyMap,
     keys |-> EmptyMap, owned |-> {}]

\* No evaluation, candidate or accepted version.
NoVersion == [doc |-> None, base |-> None, result |-> EmptyResult]

Owned(version) == version.result.owned
Borrowed(version) == Values(version.result.shapes)

Built == [is |-> "built", cause |-> None]
Failed == [is |-> "failed", cause |-> None]
Skipped(o) == [is |-> "skipped", cause |-> o]

\* Mutant: only failures count, not what was skipped because of them.
Unbuilt_FailedOnly(result) == {o \in DOMAIN result.status : result.status[o] = Failed}

Unbuilt(result) == {o \in DOMAIN result.status : result.status[o] # Built}

RootFailure(status, o) ==
    CASE status = Built -> None
      [] status = Failed -> o
      [] OTHER -> status.cause

---------------------------------------------------------------------------
(* The graph                                                               *)

Reads(doc, o) == {doc[o].reads[i].on : i \in DOMAIN doc[o].reads}
Ready(doc, done) == {o \in DOMAIN doc \ done : Reads(doc, o) \subseteq done}

\* Of the objects whose inputs are done, the one with the lowest identifier.
NextObject(doc, done) ==
    CHOOSE o \in Ready(doc, done) : \A x \in Ready(doc, done) : o <= x

\* The first edge, in stored order, whose dependency did not come out.
FirstCause(doc, o, status) ==
    LET failing == {i \in DOMAIN doc[o].reads : status[doc[o].reads[i].on] # Built}
    IN  IF failing = {} THEN None
        ELSE doc[o].reads[CHOOSE i \in failing : \A j \in failing : i <= j]

\* A feature and what it modifies, directly or not: the least set that has the
\* feature and, with each feature, the previous one.
Chain(doc, feature) ==
    {f \in DOMAIN doc :
        \A s \in SUBSET DOMAIN doc :
            feature \in s /\ (\A x \in s : doc[x].previous \in s \cup {None}) => f \in s}

\* Walking back from the tip: the last feature of the body that came out.
Fallback(doc, o, usable) ==
    LET left == Chain(doc, doc[o].tip) \cap usable
    IN  IF doc[o].tip = None \/ left = {} THEN None
        ELSE CHOOSE f \in left : left \subseteq Chain(doc, f)

\* A region of the feature names a curve its sketch does not have.
MissingRegion(doc, o) ==
    \E i \in DOMAIN doc[o].reads :
        /\ doc[o].reads[i].role = "profile"
        /\ ~(doc[o].regions \subseteq doc[doc[o].reads[i].on].curves)

\* What kind an object reads in a role.
Target ==
    [parameter |-> "parameter", profile |-> "sketch", plane |-> "datum",
     face |-> "feature", previous |-> "feature", tip |-> "feature"]

ReadAs(doc, o, role) ==
    {doc[o].reads[i].on : i \in {j \in DOMAIN doc[o].reads : doc[o].reads[j].role = role}}

\* What every version is checked for before it is evaluated: its edges are those
\* its payloads imply, each to an object of the kind its role asks for, and
\* following them never comes back.
Sound(doc) ==
    /\ \A o \in DOMAIN doc :
          /\ o \in Nat /\ doc[o].kind \in {"parameter", "datum", "sketch", "feature", "body"}
          /\ doc[o].reads \in Seq([on : DOMAIN doc, role : DOMAIN Target])
          /\ \A i \in DOMAIN doc[o].reads :
                doc[doc[o].reads[i].on].kind = Target[doc[o].reads[i].role]
          /\ ReadAs(doc, o, "previous") = {doc[o].previous} \ {None}
          /\ ReadAs(doc, o, "tip") = {doc[o].tip} \ {None}
    /\ \A s \in SUBSET DOMAIN doc \ {{}} : \E o \in s : Reads(doc, o) \cap s = {}

ASSUME DocumentsAssumption == \A doc \in Documents : Sound(doc)
ASSUME NoneAssumption ==
    /\ None \notin {"open", "edit", "undo", "redo", "cached"} /\ None \notin Documents
    /\ \A doc \in Documents :
          /\ None \notin DOMAIN doc
          /\ \A s \in SUBSET DOMAIN doc : None # s
          /\ \A o \in DOMAIN doc : \A i \in DOMAIN doc[o].reads : None # doc[o].reads[i]

---------------------------------------------------------------------------
(* Keys and geometry                                                       *)

\* The term of what an object reads in a role.
Operand(doc, o, role, term) ==
    LET read == {i \in DOMAIN doc[o].reads : doc[o].reads[i].role = role}
    IN  IF read = {} THEN <<>> ELSE term[doc[o].reads[CHOOSE i \in read : TRUE].on]

\* The plane of a face follows the numbers of its solid, not its drawing.
Face(term) == <<"face", term[2], term[3], 0, <<>>>>

\* What the program and its kernel make of an object and of what it reads.
Meaning(doc, o, term) ==
    CASE doc[o].kind = "parameter" -> <<"number", 0, doc[o].number, 0, <<>>>>
      [] doc[o].kind = "datum" -> <<"plane", 0, doc[o].number, 0, Face(Operand(doc, o, "face", term))>>
      [] doc[o].kind = "sketch" -> <<"profile", 0, doc[o].number, 0, Operand(doc, o, "plane", term)>>
      [] doc[o].kind = "feature" ->
             <<"solid", o, doc[o].number, 0,
               <<Operand(doc, o, "profile", term), Operand(doc, o, "previous", term)>>>>
      [] doc[o].kind = "body" -> IF doc[o].tip = None THEN <<>> ELSE term[doc[o].tip]

\* A parameter is known by its value, whatever text computes it.
EvaluatedPayload(p) ==
    IF p.kind = "parameter" THEN <<p.number, 0>> ELSE <<p.number, p.note>>

NodeKey(doc, o, result) ==
    <<doc[o].kind, o, EvaluatedPayload(doc[o])[1], EvaluatedPayload(doc[o])[2],
      [i \in DOMAIN doc[o].reads |->
          <<doc[o].reads[i].role, doc[o].reads[i].on, result.keys[doc[o].reads[i].on]>>]>>

\* Mutant: the key of the solid that is modified is left out of a feature's key.
FeatureKey_NoTarget(doc, o, result) ==
    <<"feature", o, doc[o].number, 0,
      <<Operand(doc, o, "profile", result.values), <<>>>>>>

\* The request the kernel would get, and the key of the solid it modifies.
FeatureKey(doc, o, result) ==
    <<"feature", o, doc[o].number, 0,
      <<Operand(doc, o, "profile", result.values),
        IF doc[o].previous = None THEN <<>> ELSE result.keys[doc[o].previous]>>>>

\* The numbers at which the program, or the kernel, refuses an object.
Refuses(p) ==
    \/ p.number = BadTool /\ p.kind \in {"sketch", "feature"}
    \/ p.number = BadBoolean /\ p.kind = "feature"

---------------------------------------------------------------------------
(* Evaluating one object of the work                                       *)

Doc == work.doc
Done == DOMAIN work.result.status
Current == NextObject(Doc, Done)
TermOf ==
    [o \in DOMAIN work.result.values \cup DOMAIN work.result.shapes |->
        IF o \in DOMAIN work.result.values THEN work.result.values[o]
        ELSE solid[work.result.shapes[o]]]

Cause == FirstCause(Doc, Current, work.result.status)

\* Every input came out and the formulas give what is stored.
Evaluable ==
    /\ ~MissingRegion(Doc, Current)
    /\ Cause = None
    /\ Doc[Current].number # BadValue

IsFeature == Doc[Current].kind = "feature"
Key == IF IsFeature THEN FeatureKey(Doc, Current, work.result)
                    ELSE NodeKey(Doc, Current, work.result)
Keyed == IsFeature \/ source = "live"

\* The accepted evaluation holds the current object under the same key.
Reusable ==
    /\ source = "live" /\ accepted # NoVersion
    /\ Current \in DOMAIN accepted.result.keys
    /\ accepted.result.keys[Current] = Key

Entry(o, key) == {e \in sidecar : e.producer = o /\ e.key = key}
Restorable ==
    /\ source = "sidecar" /\ IsFeature
    /\ \E e \in Entry(Current, Key) : e.intact

Evaluating == work # NoVersion /\ Ready(Doc, Done) # {}

With(result) == work' = [work EXCEPT !.result = result]

\* The result with the current object marked, and nothing else of it kept.
Mark(status) == [work.result EXCEPT !.status = Put(@, Current, status)]

\* The result with the current object built and its key kept.
Out(shapes, values, owned) ==
    [status |-> Put(work.result.status, Current, Built), shapes |-> shapes,
     values |-> values, keys |-> Put(work.result.keys, Current, Key), owned |-> owned]

Unchanged == UNCHANGED <<source, candidate, accepted, drawing, picture, line, change, damages>>

\* A missing region, a formula, or a parameter that itself failed.
FailsEarly ==
    /\ Evaluating
    /\ \/ MissingRegion(Doc, Current)
       \/ Cause # None /\ Cause.role = "parameter"
       \/ Cause = None /\ Doc[Current].number = BadValue
    /\ With(Mark(Failed))
    /\ UNCHANGED <<alive, solid, sidecar>> /\ Unchanged

\* Another dependency did not come out.  A body falls back to the last feature
\* of its chain that did, and has no key.
Skip ==
    /\ Evaluating /\ ~MissingRegion(Doc, Current)
    /\ Cause # None /\ Cause.role # "parameter"
    /\ LET marked == Mark(Skipped(RootFailure(work.result.status[Cause.on], Cause.on)))
           usable == {f \in DOMAIN work.result.shapes : work.result.status[f] = Built}
           last == IF Doc[Current].kind # "body" THEN None
                   ELSE Fallback(Doc, Current, usable)
       IN  With(IF last \notin DOMAIN work.result.shapes THEN marked
                ELSE [marked EXCEPT !.shapes = Put(@, Current, work.result.shapes[last])])
    /\ UNCHANGED <<alive, solid, sidecar>> /\ Unchanged

\* reuse_node, and Source::feature of a live evaluation: the result is borrowed.
Reuse ==
    /\ Evaluating /\ Evaluable /\ Reusable
    /\ LET old == accepted.result
           kept(f, g) == IF Current \in DOMAIN f THEN Put(g, Current, f[Current]) ELSE g
       IN  With(Out(kept(old.shapes, work.result.shapes),
                    kept(old.values, work.result.values), work.result.owned))
    /\ UNCHANGED <<alive, solid, sidecar>> /\ Unchanged

\* A parameter, a datum plane, a sketch or a body is worked out.
TipShape == Doc[Current].tip \in DOMAIN work.result.shapes

EvaluateNode ==
    /\ Evaluating /\ Evaluable /\ ~IsFeature /\ ~Reusable
    /\ LET keyed == IF Keyed THEN [Mark(Built) EXCEPT !.keys = Put(@, Current, Key)]
                             ELSE Mark(Built)
       IN  IF Doc[Current].kind # "body"
           THEN With(IF Refuses(Doc[Current]) THEN Mark(Failed)
                     ELSE [keyed EXCEPT !.values = Put(@, Current, Meaning(Doc, Current, TermOf))])
           ELSE With(IF Doc[Current].tip = None THEN keyed
                     ELSE IF ~TipShape THEN Mark(Failed)
                     ELSE [keyed EXCEPT !.shapes =
                               Put(@, Current, work.result.shapes[Doc[Current].tip])])
    /\ UNCHANGED <<alive, solid, sidecar>> /\ Unchanged

Mentioned == alive \cup Borrowed(work) \cup Borrowed(candidate) \cup Borrowed(accepted)
HasRoom(used) == Handles \ used # {}
NewShape(used) == CHOOSE h \in Handles \ used : TRUE

\* The current feature has its shape, of all that were made for it; a live
\* evaluation gives back the tool of a boolean, the others keep it to the end.
Publish(shape, made, term) ==
    LET kept == IF source = "live" THEN made \cap {shape} ELSE made
    IN  /\ With(Out(Put(work.result.shapes, Current, shape),
                    work.result.values, work.result.owned \cup kept))
        /\ alive' = alive \cup kept
        /\ solid' = [h \in alive \cup kept |-> IF h \in alive THEN solid[h]
                                               ELSE IF h = shape THEN term ELSE <<>>]

\* The kernel builds the tool and, over a previous solid, the boolean.  What
\* was made for a feature that fails is given back.
BuildFeature ==
    /\ Evaluating /\ Evaluable /\ IsFeature /\ ~Reusable /\ ~Restorable
    /\ IF Refuses(Doc[Current])
       THEN With(Mark(Failed)) /\ UNCHANGED <<alive, solid, sidecar>>
       ELSE /\ HasRoom(Mentioned)
            /\ LET tool == NewShape(Mentioned)
                   result == NewShape(Mentioned \cup {tool})
                   term == Meaning(Doc, Current, TermOf)
               IN  /\ IF Doc[Current].previous = None
                      THEN Publish(tool, {tool}, term)
                      ELSE HasRoom(Mentioned \cup {tool}) /\ Publish(result, {tool, result}, term)
                   /\ \/ source = "sidecar"    \* store
                         /\ sidecar' = (sidecar \ Entry(Current, Key)) \cup
                                {[producer |-> Current, key |-> Key, solid |-> term, intact |-> TRUE]}
                      \/ UNCHANGED sidecar     \* nothing to store to, or it failed
    /\ Unchanged

\* restore: an archive that is there and can be read.
Restore ==
    /\ Evaluating /\ Evaluable /\ ~Reusable /\ Restorable
    /\ HasRoom(Mentioned)
    /\ \E e \in Entry(Current, Key) :
          Publish(NewShape(Mentioned), {NewShape(Mentioned)}, e.solid)
    /\ UNCHANGED sidecar /\ Unchanged

\* The entries of one blob are lost with it, or its bytes are no archive.
Damage ==
    /\ damages < MaxDamage
    /\ \E e \in sidecar :
          LET blob == {x \in sidecar : x.solid = e.solid}
          IN  \/ sidecar' = sidecar \ blob
              \/ sidecar' = (sidecar \ blob) \cup {[x EXCEPT !.intact = FALSE] : x \in blob}
    /\ damages' = damages + 1
    /\ UNCHANGED <<alive, solid, source, work, candidate, accepted, drawing, picture, line, change>>

---------------------------------------------------------------------------
(* Evaluations of a window                                                 *)

Release(handles) ==
    /\ alive' = alive \ handles
    /\ solid' = [h \in alive \ handles |-> solid[h]]

Idle == work = NoVersion /\ candidate = NoVersion /\ change = None

Begin(doc, base, what) ==
    /\ Idle
    /\ work' = [doc |-> doc, base |-> base, result |-> EmptyResult]
    /\ change' = what
    /\ UNCHANGED <<alive, solid, source, candidate, accepted, drawing, picture, line, sidecar, damages>>

\* Only an edit is measured against what was unbuilt before it.
Open == picture = None /\ source = "live" /\ Begin(line.current, None, "open")
Edit(doc) == picture # None /\ doc # line.current /\ Begin(doc, picture.unbuilt, "edit")
Undo == picture # None /\ line.past # <<>> /\ Begin(line.past[Len(line.past)], None, "undo")
Redo == picture # None /\ line.future # <<>> /\ Begin(line.future[1], None, "redo")
Cached(doc) == source = "sidecar" /\ Begin(doc, None, "cached")

\* The rebuild ends without a result, and gives back all it made.
Abandon ==
    /\ work' = NoVersion /\ change' = None
    /\ Release(Owned(work))
    /\ UNCHANGED <<source, candidate, accepted, drawing, picture, line, sidecar, damages>>

Complete == work # NoVersion /\ Done = DOMAIN Doc
Introduced == Unbuilt(work.result) \ work.base

\* Between two objects, inside one, or after the last.
Cancel == work # NoVersion /\ Abandon

\* require_no_new_failures
RefuseNewFailures == Complete /\ work.base # None /\ Introduced # {} /\ Abandon

\* The command line has its result, and lets go of it.
CachedDone == Complete /\ change = "cached" /\ Abandon

Prepare ==
    /\ Complete /\ change # "cached"
    /\ work.base # None => Introduced = {}
    /\ candidate' = work
    /\ work' = NoVersion
    /\ UNCHANGED <<alive, solid, source, accepted, drawing, picture, line, change, sidecar, damages>>

\* Mutant: a mesh is looked up by its body alone.
Lookup_ByBody(o) ==
    {m \in (IF picture = None THEN {} ELSE {picture.meshes[b] : b \in DOMAIN picture.meshes}) :
        m.body = o}

\* BodyMeshes::lookup: the mesh of the accepted picture, if its key is the same.
Lookup(o) ==
    {m \in (IF picture = None THEN {} ELSE {picture.meshes[b] : b \in DOMAIN picture.meshes}) :
        m.body = o /\ m.key # None /\ o \in DOMAIN candidate.result.keys
        /\ m.key = candidate.result.keys[o]}

Mesh(o) ==
    IF Lookup(o) # {} THEN CHOOSE m \in Lookup(o) : TRUE
    ELSE [body |-> o,
          key |-> IF o \in DOMAIN candidate.result.keys THEN candidate.result.keys[o] ELSE None,
          solid |-> solid[candidate.result.shapes[o]]]

Draw ==
    /\ candidate # NoVersion /\ drawing = None
    /\ drawing' = [o \in {b \in DOMAIN candidate.doc :
                            candidate.doc[b].kind = "body" /\ b \in DOMAIN candidate.result.shapes}
                   |-> Mesh(o)]
    /\ UNCHANGED <<alive, solid, source, work, candidate, accepted, picture, line, change, sidecar, damages>>

\* LiveModel::discard: drawing failed, the step was cancelled or dropped, its
\* file could not be published, or the session did not take it.
Discard ==
    /\ candidate # NoVersion
    /\ candidate' = NoVersion /\ drawing' = None /\ change' = None
    /\ Release(Owned(candidate))
    /\ UNCHANGED <<source, work, accepted, picture, line, sidecar, damages>>

Newest(s) == IF Len(s) > MaxLine THEN Tail(s) ELSE s

Moved ==
    CASE change = "open" -> line
      [] change = "edit" -> [past |-> Newest(Append(line.past, line.current)),
                             current |-> candidate.doc, future |-> <<>>]
      [] change = "undo" -> [past |-> SubSeq(line.past, 1, Len(line.past) - 1),
                             current |-> candidate.doc, future |-> <<line.current>> \o line.future]
      [] change = "redo" -> [past |-> Append(line.past, line.current),
                             current |-> candidate.doc, future |-> Tail(line.future)]

\* Mutant: the rest is not kept: shapes the next version borrows are released too.
Survivors_Forgotten == {}

\* LiveModel::accept: the survivors change owner and the rest is released.
Survivors == Owned(accepted) \cap Borrowed(candidate)

\* The session took the step; the model and the picture follow.
Commit ==
    /\ candidate # NoVersion /\ drawing # None
    /\ line' = Moved
    /\ accepted' = [candidate EXCEPT !.result.owned = @ \cup Survivors]
    /\ Release(Owned(accepted) \ Survivors)
    /\ picture' = [doc |-> candidate.doc, meshes |-> drawing,
                   unbuilt |-> Unbuilt(candidate.result)]
    /\ candidate' = NoVersion /\ drawing' = None /\ change' = None
    /\ UNCHANGED <<source, work, sidecar, damages>>

\* The window closes its document.
Drop ==
    /\ Idle /\ accepted # NoVersion
    /\ accepted' = NoVersion /\ picture' = None
    /\ Release(Owned(accepted))
    /\ line' = [line EXCEPT !.past = <<>>, !.future = <<>>]
    /\ UNCHANGED <<source, work, candidate, drawing, change, sidecar, damages>>

---------------------------------------------------------------------------

Init ==
    /\ alive = {} /\ solid = EmptyMap /\ source \in Sources
    /\ work = NoVersion /\ candidate = NoVersion /\ accepted = NoVersion
    /\ drawing = None /\ picture = None /\ change = None
    /\ \E doc \in Documents : line = [past |-> <<>>, current |-> doc, future |-> <<>>]
    /\ sidecar = {} /\ damages = 0

Evaluate == FailsEarly \/ Skip \/ Reuse \/ EvaluateNode \/ BuildFeature \/ Restore

Next ==
    \/ Open \/ Undo \/ Redo
    \/ \E doc \in Documents : Edit(doc) \/ Cached(doc)
    \/ Evaluate
    \/ Cancel \/ RefuseNewFailures \/ CachedDone \/ Prepare
    \/ Draw \/ Discard \/ Commit \/ Drop \/ Damage

Spec == Init /\ [][Next]_vars

---------------------------------------------------------------------------
(* Properties                                                              *)

\* Every shape the kernel holds has one owner among the accepted version, the
\* candidate and the evaluation under way, and what any of them refers to is
\* alive: nothing leaks, nothing is released twice, nothing dangles.
HandlesAreOwned ==
    /\ alive = Owned(work) \cup Owned(candidate) \cup Owned(accepted)
    /\ Owned(work) \cap Owned(candidate) = {}
    /\ Owned(work) \cap Owned(accepted) = {}
    /\ Owned(candidate) \cap Owned(accepted) = {}
    /\ Borrowed(work) \cup Borrowed(candidate) \cup Borrowed(accepted) \subseteq alive

\* What an object follows from: what it reads and, for a body that may have to
\* fall back, the chain of its tip.
Needs(doc, o) ==
    Reads(doc, o) \cup IF doc[o].kind = "body" /\ doc[o].tip # None
                      THEN Chain(doc, doc[o].tip) ELSE {}

\* What becomes of an object, given what became of all it needs.
Judged(doc, o, seen) ==
    LET cause == FirstCause(doc, o, [x \in DOMAIN seen |-> seen[x].status])
        usable == {f \in DOMAIN seen : seen[f].status = Built}
        last == IF doc[o].kind = "body" THEN Fallback(doc, o, usable) ELSE None
    IN  IF \/ MissingRegion(doc, o)
           \/ cause # None /\ cause.role = "parameter"
           \/ cause = None /\ doc[o].number = BadValue
        THEN [status |-> Failed, term |-> <<>>]
        ELSE IF cause # None
        THEN [status |-> Skipped(RootFailure(seen[cause.on].status, cause.on)),
              term |-> IF last = None THEN <<>> ELSE seen[last].term]
        ELSE IF Refuses(doc[o]) THEN [status |-> Failed, term |-> <<>>]
        ELSE [status |-> Built, term |-> Meaning(doc, o, [x \in DOMAIN seen |-> seen[x].term])]

\* What a document means with no cache and no earlier version: for each object
\* its status and its geometry.
Cold(doc) ==
    LET cold[o \in DOMAIN doc] == Judged(doc, o, [x \in Needs(doc, o) |-> cold[x]])
    IN  [o \in DOMAIN doc |-> cold[o]]

\* The cold rebuild of every version.
Truth == [doc \in Documents |-> Cold(doc)]

Agrees(r) ==
    r # NoVersion =>
    LET truth == Truth[r.doc]
    IN  \A o \in DOMAIN r.result.status :
          /\ r.result.status[o] = truth[o].status
          /\ o \in DOMAIN r.result.values => r.result.values[o] = truth[o].term
          /\ o \in DOMAIN r.result.shapes => solid[r.result.shapes[o]] = truth[o].term
          /\ truth[o].term # <<>> => o \in DOMAIN r.result.values \cup DOMAIN r.result.shapes

\* Whatever was borrowed from an earlier version or restored from the sidecar,
\* after any edits, failures, cancellations and damages, every object has the
\* status and the geometry a rebuild from nothing would give it.
AgreesWithCold == Agrees(work) /\ Agrees(candidate) /\ Agrees(accepted)

\* The picture, the accepted evaluation and the session are of one version, and
\* each body is drawn with the geometry of that version, fallen back or not.
PictureIsCurrent ==
    picture # None =>
    /\ picture.doc = line.current
    /\ accepted # NoVersion /\ accepted.doc = line.current
    /\ \A b \in DOMAIN picture.meshes : picture.meshes[b].solid = Truth[line.current][b].term
    /\ \A b \in DOMAIN line.current :
          line.current[b].kind = "body" /\ Truth[line.current][b].term # <<>> => b \in DOMAIN picture.meshes

\* What stands as failed or skipped in an evaluation.
Missing(status) == {o \in DOMAIN status : status[o] # Built}

\* An edit that is taken leaves nothing failed or skipped that was built, or not
\* there, before it, with whatever was already unbuilt left alone.
EditAddsNoFailure ==
    [][change = "edit" /\ line' # line =>
          Missing(accepted'.result.status) \subseteq Missing(accepted.result.status)]_vars

=============================================================================
