--------------------------- MODULE LiveModelProofs ---------------------------
(***************************************************************************)
(* Proofs about LiveModel, for every set of sound documents and of         *)
(* handles: the shapes of a kernel session have exactly one owner, and     *)
(* whatever a version refers to is alive; what a version holds is what a   *)
(* rebuild from nothing gives; the picture is of the version the session   *)
(* is at; and an edit that is taken fails nothing new.                     *)
(***************************************************************************)
EXTENDS LiveModel, WellFoundedInduction, TLAPS

\* A version is a record, and so is its result.
IsVersion(v) ==
    /\ v = [doc |-> v.doc, base |-> v.base, result |-> v.result]
    /\ v.result = [status |-> v.result.status, shapes |-> v.result.shapes,
                   values |-> v.result.values, keys |-> v.result.keys,
                   owned |-> v.result.owned]

\* The strengthening: who may refer to whose shapes, and that an evaluation and
\* a candidate never exist together.
OwnershipInv ==
    /\ IsVersion(work) /\ IsVersion(candidate) /\ IsVersion(accepted)
    /\ work = NoVersion \/ candidate = NoVersion
    /\ alive = Owned(work) \cup Owned(candidate) \cup Owned(accepted)
    /\ Owned(work) \cap Owned(candidate) = {}
    /\ Owned(work) \cap Owned(accepted) = {}
    /\ Owned(candidate) \cap Owned(accepted) = {}
    /\ Borrowed(work) \subseteq Owned(work) \cup Owned(accepted)
    /\ Borrowed(candidate) \subseteq Owned(candidate) \cup Owned(accepted)
    /\ Borrowed(accepted) \subseteq Owned(accepted)

\* A map with one entry put has the old values and the new one.
LEMMA PutValues ==
    ASSUME NEW f, NEW o, NEW v
    PROVE  Values(Put(f, o, v)) \subseteq Values(f) \cup {v}
BY DEF Put, Values

\* An entry is one of the values.
LEMMA EntryIsValue ==
    ASSUME NEW f, NEW o \in DOMAIN f
    PROVE  f[o] \in Values(f)
BY DEF Values

\* No version owns or refers to anything.
LEMMA NothingOwned ==
    /\ IsVersion(NoVersion)
    /\ Owned(NoVersion) = {} /\ Borrowed(NoVersion) = {}
BY DEF IsVersion, NoVersion, EmptyResult, Owned, Borrowed, EmptyMap, Values

\* A new handle is none of those that are mentioned.
LEMMA NewShapeIsNew ==
    ASSUME NEW used, HasRoom(used)
    PROVE  NewShape(used) \in Handles \ used
BY DEF HasRoom, NewShape

\* OwnershipInv is what the runs check.
LEMMA OwnershipSuffices == OwnershipInv => HandlesAreOwned
BY DEF OwnershipInv, HandlesAreOwned

\* The work is replaced by one with these shapes and owned handles; the rest of
\* the invariant follows from what it owns and refers to.
LEMMA WorkStep ==
    ASSUME OwnershipInv, work # NoVersion, NEW result, NEW kept,
           With(result), UNCHANGED <<candidate, accepted>>,
           result = [status |-> result.status, shapes |-> result.shapes,
                     values |-> result.values, keys |-> result.keys,
                     owned |-> result.owned],
           result.owned = work.result.owned \cup kept,
           kept \cap alive = {},
           alive' = alive \cup kept,
           Values(result.shapes)
              \subseteq Borrowed(work) \cup Borrowed(accepted) \cup kept
    PROVE  OwnershipInv'
<1>1. work' = [doc |-> work.doc, base |-> work.base, result |-> result]
  BY DEF With, OwnershipInv, IsVersion
<1>2. IsVersion(work')
  BY <1>1 DEF IsVersion
<1>3. Owned(work') = Owned(work) \cup kept
  BY <1>1 DEF Owned
<1>4. Borrowed(work') \subseteq Borrowed(work) \cup Borrowed(accepted) \cup kept
  BY <1>1 DEF Borrowed
<1>5. /\ Owned(candidate') = Owned(candidate) /\ Owned(accepted') = Owned(accepted)
      /\ Borrowed(candidate') = Borrowed(candidate) /\ Borrowed(accepted') = Borrowed(accepted)
  OBVIOUS
<1>6. candidate = NoVersion /\ candidate' = NoVersion
  BY DEF OwnershipInv
<1>. QED
  BY <1>2, <1>3, <1>4, <1>5, <1>6 DEF OwnershipInv

\* Marking keeps the shapes and the owned handles.
LEMMA MarkKeeps ==
    ASSUME OwnershipInv, NEW status
    PROVE  Mark(status) = [status |-> Put(work.result.status, Current, status),
                           shapes |-> work.result.shapes, values |-> work.result.values,
                           keys |-> work.result.keys, owned |-> work.result.owned]
BY DEF Mark, OwnershipInv, IsVersion

\* Nothing that the invariant is about changes.
LEMMA Untouched ==
    ASSUME OwnershipInv, UNCHANGED <<alive, work, candidate, accepted>>
    PROVE  OwnershipInv'
BY DEF OwnershipInv, IsVersion, Owned, Borrowed, NoVersion

\* A version that did not come out is marked, with or without a shape it
\* already refers to, and nothing is made.
LEMMA MarkStep ==
    ASSUME OwnershipInv, work # NoVersion, NEW result,
           With(result), UNCHANGED <<alive, candidate, accepted>>,
           result = [status |-> result.status, shapes |-> result.shapes,
                     values |-> result.values, keys |-> result.keys,
                     owned |-> work.result.owned],
           \/ result.shapes = work.result.shapes
           \/ \E o, s : /\ result.shapes = Put(work.result.shapes, o, s)
                       /\ s \in Borrowed(work) \cup Borrowed(accepted)
    PROVE  OwnershipInv'
<1>1. Values(result.shapes) \subseteq Borrowed(work) \cup Borrowed(accepted)
  <2>1. CASE result.shapes = work.result.shapes
    BY <2>1 DEF Borrowed
  <2>2. ASSUME NEW o, NEW s, result.shapes = Put(work.result.shapes, o, s),
               s \in Borrowed(work) \cup Borrowed(accepted)
        PROVE  Values(result.shapes) \subseteq Borrowed(work) \cup Borrowed(accepted)
    <3>1. Values(result.shapes)
             \subseteq Values(work.result.shapes) \cup {s}
      BY <2>2, PutValues
    <3>. QED BY <2>2, <3>1 DEF Borrowed
  <2>. QED BY <2>1, <2>2
<1>2. /\ result.owned = work.result.owned \cup {}
      /\ {} \cap alive = {}
      /\ alive' = alive \cup {}
      /\ Values(result.shapes) \subseteq Borrowed(work) \cup Borrowed(accepted) \cup {}
  BY <1>1
<1>. QED BY <1>2, WorkStep

\* A feature that comes out owns new handles and refers to one of them.
LEMMA PublishStep ==
    ASSUME OwnershipInv, work # NoVersion, NEW shape, NEW made, NEW term,
           Publish(shape, made, term), UNCHANGED <<candidate, accepted>>,
           shape \in made, made \cap alive = {}
    PROVE  OwnershipInv'
<1> DEFINE kept == IF source = "live" THEN made \cap {shape} ELSE made
           result == [status |-> Put(work.result.status, Current, Built),
                      shapes |-> Put(work.result.shapes, Current, shape),
                      values |-> work.result.values,
                      keys |-> Put(work.result.keys, Current, Key),
                      owned |-> work.result.owned \cup kept]
<1>2. With(result) /\ alive' = alive \cup kept
  BY DEF Publish, Out
<1>3. shape \in kept /\ kept \cap alive = {}
  OBVIOUS
<1>4. Values(result.shapes) \subseteq Borrowed(work) \cup {shape}
  BY PutValues DEF Borrowed
<1>5. Values(result.shapes) \subseteq Borrowed(work) \cup Borrowed(accepted) \cup kept
  BY <1>3, <1>4
<1>6. result = [status |-> result.status, shapes |-> result.shapes, values |-> result.values,
                keys |-> result.keys, owned |-> result.owned]
      /\ result.owned = work.result.owned \cup kept
  OBVIOUS
<1> HIDE DEF result, kept
<1>. QED BY <1>2, <1>3, <1>5, <1>6, WorkStep

\* Evaluating one object keeps the invariant.
LEMMA EvaluateKeeps ==
    ASSUME OwnershipInv, Evaluate
    PROVE  OwnershipInv'
<1>1. work # NoVersion
  BY DEF Evaluate, FailsEarly, Skip, Reuse, EvaluateNode, BuildFeature, Restore, Evaluating
<1>2. UNCHANGED <<candidate, accepted>>
  BY DEF Evaluate, FailsEarly, Skip, Reuse, EvaluateNode, BuildFeature, Restore, Unchanged
<1>3. ASSUME NEW status, With(Mark(status)), UNCHANGED alive
      PROVE  OwnershipInv'
  BY <1>1, <1>2, <1>3, MarkKeeps, MarkStep
<1>4. CASE FailsEarly
  BY <1>3, <1>4 DEF FailsEarly
<1>5. CASE Skip
  <2> DEFINE marked == Mark(Skipped(RootFailure(work.result.status[Cause.on], Cause.on)))
  <2>1. PICK last : /\ UNCHANGED alive
                    /\ With(IF last \notin DOMAIN work.result.shapes THEN marked
                            ELSE [marked EXCEPT !.shapes = Put(@, Current, work.result.shapes[last])])
    BY <1>5 DEF Skip
  <2>2. CASE last \notin DOMAIN work.result.shapes
    BY <1>3, <2>1, <2>2
  <2>3. CASE last \in DOMAIN work.result.shapes
    <3> DEFINE status == Skipped(RootFailure(work.result.status[Cause.on], Cause.on))
               result == [status |-> Put(work.result.status, Current, status),
                          shapes |-> Put(work.result.shapes, Current, work.result.shapes[last]),
                          values |-> work.result.values, keys |-> work.result.keys,
                          owned |-> work.result.owned]
    <3>1. [marked EXCEPT !.shapes = Put(@, Current, work.result.shapes[last])] = result
      BY MarkKeeps
    <3>2. With(result) /\ UNCHANGED <<alive, candidate, accepted>>
      BY <1>2, <2>1, <2>3, <3>1
    <3>3. work.result.shapes[last] \in Borrowed(work)
      BY <2>3, EntryIsValue DEF Borrowed
    <3>. QED BY <1>1, <3>2, <3>3, MarkStep
  <2>. QED BY <2>2, <2>3
<1>6. CASE Reuse
  <2> DEFINE kept(f, g) == IF Current \in DOMAIN f THEN Put(g, Current, f[Current]) ELSE g
             result == [status |-> Put(work.result.status, Current, Built),
                        shapes |-> kept(accepted.result.shapes, work.result.shapes),
                        values |-> kept(accepted.result.values, work.result.values),
                        keys |-> Put(work.result.keys, Current, Key),
                        owned |-> work.result.owned]
  <2>2. With(result) /\ UNCHANGED alive
    BY <1>6 DEF Reuse, Out
  <2>3. \/ result.shapes = work.result.shapes
        \/ \E o, s : /\ result.shapes = Put(work.result.shapes, o, s)
                    /\ s \in Borrowed(work) \cup Borrowed(accepted)
    <3>1. CASE Current \in DOMAIN accepted.result.shapes
      <4>1. accepted.result.shapes[Current] \in Borrowed(accepted)
        BY <3>1, EntryIsValue DEF Borrowed
      <4>. QED BY <3>1, <4>1
    <3>. QED BY <3>1
  <2>. QED BY <1>1, <1>2, <2>2, <2>3, MarkStep
<1>7. CASE EvaluateNode
  <2> DEFINE keyed == IF Keyed THEN [Mark(Built) EXCEPT !.keys = Put(@, Current, Key)] ELSE Mark(Built)
             keys == IF Keyed THEN Put(work.result.keys, Current, Key) ELSE work.result.keys
             status == Put(work.result.status, Current, Built)
  <2>1. keyed = [status |-> status, shapes |-> work.result.shapes, values |-> work.result.values,
                 keys |-> keys, owned |-> work.result.owned]
    BY MarkKeeps
  <2>2. UNCHANGED <<alive, candidate, accepted>>
    BY <1>2, <1>7 DEF EvaluateNode
  <2>3. \/ With(Mark(Failed)) \/ With(keyed)
        \/ With([keyed EXCEPT !.values = Put(@, Current, Meaning(Doc, Current, TermOf))])
        \/ /\ Doc[Current].tip \in DOMAIN work.result.shapes
           /\ With([keyed EXCEPT !.shapes = Put(@, Current, work.result.shapes[Doc[Current].tip])])
    BY <1>7 DEF EvaluateNode, TipShape
  <2> HIDE DEF keyed, keys, status
  <2>4. CASE With(keyed)
    BY <1>1, <2>1, <2>2, <2>4, MarkStep
  <2>5. CASE With([keyed EXCEPT !.values = Put(@, Current, Meaning(Doc, Current, TermOf))])
    <3> DEFINE values == Put(work.result.values, Current, Meaning(Doc, Current, TermOf))
    <3>1. [keyed EXCEPT !.values = Put(@, Current, Meaning(Doc, Current, TermOf))]
             = [status |-> status, shapes |-> work.result.shapes, values |-> values,
                keys |-> keys, owned |-> work.result.owned]
      BY <2>1
    <3> HIDE DEF values
    <3>. QED BY <1>1, <2>2, <2>5, <3>1, MarkStep
  <2>6. CASE /\ Doc[Current].tip \in DOMAIN work.result.shapes
             /\ With([keyed EXCEPT !.shapes = Put(@, Current, work.result.shapes[Doc[Current].tip])])
    <3> DEFINE s == work.result.shapes[Doc[Current].tip]
    <3>1. [keyed EXCEPT !.shapes = Put(@, Current, s)]
             = [status |-> status, shapes |-> Put(work.result.shapes, Current, s),
                values |-> work.result.values, keys |-> keys, owned |-> work.result.owned]
      BY <2>1
    <3>2. s \in Borrowed(work)
      BY <2>6, EntryIsValue DEF Borrowed
    <3> HIDE DEF s
    <3>. QED BY <1>1, <2>2, <2>6, <3>1, <3>2, MarkStep DEF s
  <2>. QED BY <1>3, <2>2, <2>3, <2>4, <2>5, <2>6
<1>8. CASE BuildFeature
  <2>1. CASE Refuses(Doc[Current])
    BY <1>3, <1>8, <2>1 DEF BuildFeature
  <2>2. CASE ~Refuses(Doc[Current])
    <3> DEFINE tool == NewShape(Mentioned)
               result == NewShape(Mentioned \cup {tool})
               term == Meaning(Doc, Current, TermOf)
    <3>1. HasRoom(Mentioned)
      BY <1>8, <2>2 DEF BuildFeature
    <3>2. tool \notin alive
      BY <3>1, NewShapeIsNew DEF Mentioned
    <3>3. CASE Publish(tool, {tool}, term)
      BY <1>1, <1>2, <3>2, <3>3, PublishStep
    <3>4. CASE HasRoom(Mentioned \cup {tool}) /\ Publish(result, {tool, result}, term)
      <4>1. result \notin alive
        BY <3>4, NewShapeIsNew DEF Mentioned
      <4>. QED BY <1>1, <1>2, <3>2, <3>4, <4>1, PublishStep
    <3>. QED BY <1>8, <2>2, <3>3, <3>4 DEF BuildFeature
  <2>. QED BY <2>1, <2>2
<1>9. CASE Restore
  <2> DEFINE new == NewShape(Mentioned)
  <2>1. new \notin alive
    BY <1>9, NewShapeIsNew DEF Restore, Mentioned
  <2>2. PICK e : Publish(new, {new}, e.solid)
    BY <1>9 DEF Restore
  <2>. QED BY <1>1, <1>2, <2>1, <2>2, PublishStep
<1>. QED BY <1>4, <1>5, <1>6, <1>7, <1>8, <1>9 DEF Evaluate

\* An evaluation that begins owns nothing yet.
LEMMA BeginKeeps ==
    ASSUME OwnershipInv, NEW doc, NEW base, NEW what, Begin(doc, base, what)
    PROVE  OwnershipInv'
<1>1. /\ work = NoVersion /\ candidate = NoVersion
      /\ work' = [doc |-> doc, base |-> base, result |-> EmptyResult]
      /\ UNCHANGED <<alive, candidate, accepted>>
  BY DEF Begin, Idle
<1>2. IsVersion(work') /\ Owned(work') = {} /\ Borrowed(work') = {}
  BY <1>1 DEF IsVersion, Owned, Borrowed, EmptyResult, EmptyMap, Values
<1>. QED BY <1>1, <1>2, NothingOwned DEF OwnershipInv

\* An evaluation that ends without a result gives back all it owned.
LEMMA AbandonKeeps ==
    ASSUME OwnershipInv, work # NoVersion, Abandon
    PROVE  OwnershipInv'
<1>1. work' = NoVersion /\ alive' = alive \ Owned(work) /\ UNCHANGED <<candidate, accepted>>
  BY DEF Abandon, Release
<1>. QED BY <1>1, NothingOwned DEF OwnershipInv

\* The evaluation becomes the candidate as it is.
LEMMA PrepareKeeps ==
    ASSUME OwnershipInv, Prepare
    PROVE  OwnershipInv'
<1>1. /\ candidate' = work /\ work' = NoVersion /\ UNCHANGED <<alive, accepted>>
      /\ work # NoVersion
  BY DEF Prepare, Complete
<1>2. candidate = NoVersion
  BY <1>1 DEF OwnershipInv
<1>. QED BY <1>1, <1>2, NothingOwned DEF OwnershipInv

\* A candidate that is dropped gives back all it owned.
LEMMA DiscardKeeps ==
    ASSUME OwnershipInv, Discard
    PROVE  OwnershipInv'
<1>1. /\ candidate' = NoVersion /\ alive' = alive \ Owned(candidate)
      /\ UNCHANGED <<work, accepted>>
  BY DEF Discard, Release
<1>2. work = NoVersion
  BY DEF OwnershipInv, Discard
<1>. QED BY <1>1, <1>2, NothingOwned DEF OwnershipInv

\* The accepted version takes over what it still refers to, and what only the
\* old one referred to is released.
LEMMA CommitKeeps ==
    ASSUME OwnershipInv, Commit
    PROVE  OwnershipInv'
<1>1. /\ candidate # NoVersion /\ candidate' = NoVersion /\ work' = work
      /\ accepted' = [candidate EXCEPT !.result.owned = @ \cup Survivors]
      /\ alive' = alive \ (Owned(accepted) \ Survivors)
  BY DEF Commit, Release
<1>2. work = NoVersion
  BY <1>1 DEF OwnershipInv
<1>3. accepted' = [doc |-> candidate.doc, base |-> candidate.base,
                   result |-> [status |-> candidate.result.status, shapes |-> candidate.result.shapes,
                               values |-> candidate.result.values, keys |-> candidate.result.keys,
                               owned |-> candidate.result.owned \cup Survivors]]
  BY <1>1 DEF OwnershipInv, IsVersion
<1>4. /\ IsVersion(accepted') /\ Owned(accepted') = Owned(candidate) \cup Survivors
      /\ Borrowed(accepted') = Borrowed(candidate)
  BY <1>3 DEF IsVersion, Owned, Borrowed
<1>5. Survivors = Owned(accepted) \cap Borrowed(candidate)
  BY DEF Survivors
<1>. QED BY <1>1, <1>2, <1>4, <1>5, NothingOwned DEF OwnershipInv

\* A window that closes its document gives back what it owned.
LEMMA DropKeeps ==
    ASSUME OwnershipInv, Drop
    PROVE  OwnershipInv'
<1>1. /\ work = NoVersion /\ candidate = NoVersion /\ UNCHANGED <<work, candidate>>
      /\ accepted' = NoVersion /\ alive' = alive \ Owned(accepted)
  BY DEF Drop, Release, Idle
<1>. QED BY <1>1, NothingOwned DEF OwnershipInv

\* Every step keeps what each version owns.
LEMMA OwnershipIsKept ==
    ASSUME OwnershipInv, [Next]_vars
    PROVE  OwnershipInv'
<1>1. CASE Open
  BY <1>1, BeginKeeps DEF Open
<1>2. CASE Undo
  BY <1>2, BeginKeeps DEF Undo
<1>3. CASE Redo
  BY <1>3, BeginKeeps DEF Redo
<1>4. ASSUME NEW doc \in Documents, Edit(doc) \/ Cached(doc) PROVE OwnershipInv'
  BY <1>4, BeginKeeps DEF Edit, Cached
<1>5. CASE Evaluate
  BY <1>5, EvaluateKeeps
<1>6. CASE Cancel
  BY <1>6, AbandonKeeps DEF Cancel
<1>7. CASE RefuseNewFailures
  BY <1>7, AbandonKeeps DEF RefuseNewFailures, Complete
<1>8. CASE CachedDone
  BY <1>8, AbandonKeeps DEF CachedDone, Complete
<1>9. CASE Prepare
  BY <1>9, PrepareKeeps
<1>10. CASE Draw
  BY <1>10, Untouched DEF Draw
<1>11. CASE Discard
  BY <1>11, DiscardKeeps
<1>12. CASE Commit
  BY <1>12, CommitKeeps
<1>13. CASE Drop
  BY <1>13, DropKeeps
<1>14. CASE Damage
  BY <1>14, Untouched DEF Damage
<1>15. CASE UNCHANGED vars
  BY <1>15, Untouched DEF vars
<1>. QED BY <1>1, <1>2, <1>3, <1>4, <1>5, <1>6, <1>7, <1>8, <1>9, <1>10, <1>11, <1>12,
            <1>13, <1>14, <1>15 DEF Next

\* In every reachable state each shape of the kernel has one owner, and what a
\* version refers to is alive.
THEOREM ShapesHaveOneOwner == Spec => []HandlesAreOwned
<1>1. Init => OwnershipInv
  BY NothingOwned DEF Init, OwnershipInv
<1>2. OwnershipInv /\ [Next]_vars => OwnershipInv'
  BY OwnershipIsKept
<1>. QED BY <1>1, <1>2, OwnershipSuffices, PTL DEF Spec

---------------------------------------------------------------------------
(* What a version means                                                    *)

\* Of some numbers one is the least.
LEMMA LeastNumber ==
    ASSUME NEW s, s \subseteq Nat, s # {}
    PROVE  \E n \in s : \A m \in s : n <= m
<1>1. PICK n \in s : \A m \in s : ~(<<m, n>> \in OpToRel(<, Nat))
  BY NatLessThanWellFounded, WFMin
<1>2. \A m \in s : ~(m < n)
  BY <1>1 DEF OpToRel
<1>3. n \in Nat /\ \A m \in s : m \in Nat
  OBVIOUS
<1>4. \A m \in s : n <= m
  BY <1>2, <1>3
<1>. QED BY <1>4

\* The edges of an object of a version.
LEMMA EdgeIs ==
    ASSUME NEW doc \in Documents, NEW o \in DOMAIN doc
    PROVE  /\ o \in Nat /\ o # None
           /\ doc[o].kind \in {"parameter", "datum", "sketch", "feature", "body"}
           /\ DOMAIN doc[o].reads \subseteq Nat
           /\ \A i \in DOMAIN doc[o].reads :
                 /\ doc[o].reads[i].on \in Reads(doc, o) /\ doc[o].reads[i] # None
                 /\ doc[o].reads[i].on \in DOMAIN doc
                 /\ doc[doc[o].reads[i].on].kind = Target[doc[o].reads[i].role]
                 /\ doc[o].reads[i].role \in DOMAIN Target
           /\ Reads(doc, o) \subseteq DOMAIN doc
           /\ \A x \in Reads(doc, o) : doc[x].kind # "body"
<1>1. Sound(doc)
  BY DocumentsAssumption
<1>2. /\ o \in Nat /\ doc[o].kind \in {"parameter", "datum", "sketch", "feature", "body"}
      /\ doc[o].reads \in Seq([on : DOMAIN doc, role : DOMAIN Target])
      /\ \A i \in DOMAIN doc[o].reads :
            doc[doc[o].reads[i].on].kind = Target[doc[o].reads[i].role]
  BY <1>1 DEF Sound
<1>3. \A i \in DOMAIN doc[o].reads :
         doc[o].reads[i].on \in DOMAIN doc /\ doc[o].reads[i].role \in DOMAIN Target
  <2>1. PICK edges : edges = [on : DOMAIN doc, role : DOMAIN Target]
    OBVIOUS
  <2>2. doc[o].reads \in Seq(edges)
    BY <1>2, <2>1
  <2>3. \A i \in DOMAIN doc[o].reads : doc[o].reads[i] \in edges
    BY <2>2
  <2>. QED BY <2>1, <2>3
<1>4. DOMAIN doc[o].reads \subseteq Nat
  BY <1>2
<1>5. o # None /\ \A i \in DOMAIN doc[o].reads : doc[o].reads[i] # None
  BY NoneAssumption
<1>6. \A role \in DOMAIN Target : Target[role] # "body"
  BY DEF Target
<1>7. \A x \in Reads(doc, o) : x \in DOMAIN doc /\ doc[x].kind # "body"
  BY <1>2, <1>3, <1>6 DEF Reads
<1>. QED BY <1>2, <1>3, <1>4, <1>5, <1>7 DEF Reads

\* What a payload names as its previous feature, or as its tip, it reads.
LEMMA LinkIsRead ==
    ASSUME NEW doc \in Documents, NEW o \in DOMAIN doc
    PROVE  /\ doc[o].previous # None =>
                 /\ doc[o].previous \in Reads(doc, o) /\ doc[doc[o].previous].kind = "feature"
           /\ doc[o].tip # None =>
                 /\ doc[o].tip \in Reads(doc, o) /\ doc[doc[o].tip].kind = "feature"
           /\ \A i \in DOMAIN doc[o].reads :
                 /\ doc[o].reads[i].role = "previous" => doc[o].reads[i].on = doc[o].previous
                 /\ doc[o].reads[i].role = "tip" => doc[o].reads[i].on = doc[o].tip
           /\ doc[o].previous # None => \E i \in DOMAIN doc[o].reads : doc[o].reads[i].role = "previous"
           /\ doc[o].tip # None => \E i \in DOMAIN doc[o].reads : doc[o].reads[i].role = "tip"
<1>1. Sound(doc)
  BY DocumentsAssumption
<1>2. /\ ReadAs(doc, o, "previous") = {doc[o].previous} \ {None}
      /\ ReadAs(doc, o, "tip") = {doc[o].tip} \ {None}
  BY <1>1 DEF Sound
<1>3. \A i \in DOMAIN doc[o].reads :
         /\ doc[o].reads[i].on \in Reads(doc, o)
         /\ doc[o].reads[i].on \in DOMAIN doc
         /\ doc[doc[o].reads[i].on].kind = Target[doc[o].reads[i].role]
  BY EdgeIs
<1>4. Target["previous"] = "feature" /\ Target["tip"] = "feature"
  BY DEF Target
<1>5. \A role : \A i \in DOMAIN doc[o].reads :
         doc[o].reads[i].role = role => doc[o].reads[i].on \in ReadAs(doc, o, role)
  BY DEF ReadAs
<1>6. \A role : \A x \in ReadAs(doc, o, role) : \E i \in DOMAIN doc[o].reads :
         doc[o].reads[i].role = role /\ doc[o].reads[i].on = x
  BY DEF ReadAs
<1>7. ASSUME doc[o].previous # None
      PROVE  \E i \in DOMAIN doc[o].reads :
                doc[o].reads[i].role = "previous" /\ doc[o].reads[i].on = doc[o].previous
  BY <1>2, <1>6, <1>7
<1>8. ASSUME doc[o].tip # None
      PROVE  \E i \in DOMAIN doc[o].reads :
                doc[o].reads[i].role = "tip" /\ doc[o].reads[i].on = doc[o].tip
  BY <1>2, <1>6, <1>8
<1>9. \A i \in DOMAIN doc[o].reads :
         /\ doc[o].reads[i].role = "previous" => doc[o].reads[i].on = doc[o].previous
         /\ doc[o].reads[i].role = "tip" => doc[o].reads[i].on = doc[o].tip
  BY <1>2, <1>5
<1>. QED BY <1>3, <1>4, <1>7, <1>8, <1>9

\* Of objects that wait one is first.
LEMMA NextIsReady ==
    ASSUME NEW doc \in Documents, NEW done, Ready(doc, done) # {}
    PROVE  NextObject(doc, done) \in Ready(doc, done)
<1>1. Ready(doc, done) \subseteq Nat
  BY EdgeIs DEF Ready
<1>2. \E o \in Ready(doc, done) : \A x \in Ready(doc, done) : o <= x
  BY <1>1, LeastNumber
<1>. QED BY <1>2 DEF NextObject

\* The cause of a failure is an edge to an object that did not come out.
LEMMA CauseIsRead ==
    ASSUME NEW doc \in Documents, NEW o \in DOMAIN doc, NEW status
    PROVE  LET cause == FirstCause(doc, o, status)
           IN  /\ cause = None <=> \A x \in Reads(doc, o) : status[x] = Built
               /\ cause # None => /\ cause.on \in Reads(doc, o) /\ status[cause.on] # Built
                                  /\ cause.role \in DOMAIN Target
<1> DEFINE failing == {i \in DOMAIN doc[o].reads : status[doc[o].reads[i].on] # Built}
<1>1. FirstCause(doc, o, status)
         = IF failing = {} THEN None
           ELSE doc[o].reads[CHOOSE i \in failing : \A j \in failing : i <= j]
  BY DEF FirstCause
<1>2. failing \subseteq Nat /\ failing \subseteq DOMAIN doc[o].reads
  BY EdgeIs
<1>3. failing = {} <=> \A x \in Reads(doc, o) : status[x] = Built
  BY DEF Reads
<1>4. \A i \in failing : status[doc[o].reads[i].on] # Built
  OBVIOUS
<1> HIDE DEF failing
<1>5. CASE failing = {}
  BY <1>1, <1>3, <1>5
<1>6. CASE failing # {}
  <2>1. \E i \in failing : \A j \in failing : i <= j
    BY <1>2, <1>6, LeastNumber
  <2>2. PICK i : i = CHOOSE k \in failing : \A j \in failing : k <= j
    OBVIOUS
  <2>3. i \in failing
    BY <2>1, <2>2
  <2>4. FirstCause(doc, o, status) = doc[o].reads[i]
    BY <1>1, <1>6, <2>2
  <2>5. /\ doc[o].reads[i] # None /\ doc[o].reads[i].on \in Reads(doc, o)
        /\ doc[o].reads[i].role \in DOMAIN Target
    BY <1>2, <2>3, EdgeIs
  <2>. QED BY <1>3, <1>4, <1>6, <2>3, <2>4, <2>5
<1>. QED BY <1>5, <1>6

\* The cause depends on what became of the objects that are read.
LEMMA CauseSame ==
    ASSUME NEW doc, NEW o, NEW s, NEW t, \A x \in Reads(doc, o) : s[x] = t[x]
    PROVE  FirstCause(doc, o, s) = FirstCause(doc, o, t)
<1> DEFINE failing(r) == {i \in DOMAIN doc[o].reads : r[doc[o].reads[i].on] # Built}
           cause(f) == IF f = {} THEN None ELSE doc[o].reads[CHOOSE i \in f : \A j \in f : i <= j]
<1>1. \A i \in DOMAIN doc[o].reads : s[doc[o].reads[i].on] = t[doc[o].reads[i].on]
  BY DEF Reads
<1>2. failing(s) = failing(t)
  BY <1>1
<1>3. FirstCause(doc, o, s) = cause(failing(s)) /\ FirstCause(doc, o, t) = cause(failing(t))
  BY DEF FirstCause
<1> HIDE DEF failing, cause
<1>. QED BY <1>2, <1>3

\* So does the term of what is read in a role, and the meaning of the object.
LEMMA MeaningSame ==
    ASSUME NEW doc \in Documents, NEW o \in DOMAIN doc, NEW s, NEW t,
           \A x \in Reads(doc, o) : s[x] = t[x]
    PROVE  /\ \A role : Operand(doc, o, role, s) = Operand(doc, o, role, t)
           /\ Meaning(doc, o, s) = Meaning(doc, o, t)
<1>1. ASSUME NEW role
      PROVE  Operand(doc, o, role, s) = Operand(doc, o, role, t)
  <2> DEFINE read == {i \in DOMAIN doc[o].reads : doc[o].reads[i].role = role}
  <2>1. CASE read = {}
    BY <2>1 DEF Operand
  <2>2. CASE read # {}
    <3>1. PICK i : i = CHOOSE k \in read : TRUE
      OBVIOUS
    <3>2. i \in read
      BY <2>2, <3>1
    <3>3. doc[o].reads[i].on \in Reads(doc, o)
      BY <3>2 DEF Reads
    <3>4. /\ Operand(doc, o, role, s) = s[doc[o].reads[i].on]
          /\ Operand(doc, o, role, t) = t[doc[o].reads[i].on]
      BY <2>2, <3>1 DEF Operand
    <3>. QED BY <3>3, <3>4
  <2>. QED BY <2>1, <2>2
<1>2. doc[o].tip # None => s[doc[o].tip] = t[doc[o].tip]
  BY LinkIsRead
<1>3. /\ Operand(doc, o, "face", s) = Operand(doc, o, "face", t)
      /\ Operand(doc, o, "plane", s) = Operand(doc, o, "plane", t)
      /\ Operand(doc, o, "profile", s) = Operand(doc, o, "profile", t)
      /\ Operand(doc, o, "previous", s) = Operand(doc, o, "previous", t)
  BY <1>1
<1>4. doc[o].kind \in {"parameter", "datum", "sketch", "feature", "body"}
  BY EdgeIs
<1>5. Meaning(doc, o, s) = Meaning(doc, o, t)
  BY <1>2, <1>3, <1>4 DEF Meaning
<1>. QED BY <1>1, <1>5

\* What becomes of an object is found from what became of all it needs.
LEMMA ColdIs ==
    ASSUME NEW doc \in Documents,
           \E c : c = [o \in DOMAIN doc |-> Judged(doc, o, [x \in Needs(doc, o) |-> c[x]])]
    PROVE  Cold(doc) = [o \in DOMAIN doc |-> Judged(doc, o, [x \in Needs(doc, o) |-> Cold(doc)[x]])]
<1> DEFINE P(c) == c = [o \in DOMAIN doc |-> Judged(doc, o, [x \in Needs(doc, o) |-> c[x]])]
<1>1. PICK c : c = CHOOSE d : P(d)
  OBVIOUS
<1>2. P(c)
  BY <1>1
<1>3. Cold(doc) = [o \in DOMAIN doc |-> c[o]]
  BY <1>1, Zenon DEF Cold
<1>. QED BY <1>2, <1>3

\* The chain of a feature: it holds the feature and with each feature the
\* previous one, and it is the least that does.
LEMMA ChainIs ==
    ASSUME NEW doc \in Documents, NEW f \in DOMAIN doc
    PROVE  /\ Chain(doc, f) \subseteq DOMAIN doc /\ f \in Chain(doc, f)
           /\ \A x \in Chain(doc, f) : doc[x].previous \in Chain(doc, f) \cup {None}
           /\ \A s \in SUBSET DOMAIN doc :
                 f \in s /\ (\A x \in s : doc[x].previous \in s \cup {None}) => Chain(doc, f) \subseteq s
<1>1. \A x \in DOMAIN doc : doc[x].previous \in DOMAIN doc \cup {None}
  BY EdgeIs, LinkIsRead
<1>2. Chain(doc, f) \subseteq DOMAIN doc /\ f \in Chain(doc, f)
  BY DEF Chain
<1>3. \A s \in SUBSET DOMAIN doc :
         f \in s /\ (\A x \in s : doc[x].previous \in s \cup {None}) => Chain(doc, f) \subseteq s
  BY DEF Chain
<1>4. ASSUME NEW x \in Chain(doc, f), doc[x].previous # None
      PROVE  doc[x].previous \in Chain(doc, f)
  <2>1. doc[x].previous \in DOMAIN doc
    BY <1>1, <1>2, <1>4
  <2>2. ASSUME NEW s \in SUBSET DOMAIN doc, f \in s, \A y \in s : doc[y].previous \in s \cup {None}
        PROVE  doc[x].previous \in s
    BY <1>3, <1>4, <2>2
  <2>. QED BY <2>1, <2>2 DEF Chain
<1>. QED BY <1>2, <1>3, <1>4

\* The chain of a feature in a chain is part of it, and what is not the feature
\* itself is in the chain of the previous one; all of it are features.
LEMMA ChainSteps ==
    ASSUME NEW doc \in Documents, NEW f \in DOMAIN doc
    PROVE  /\ \A x \in Chain(doc, f) : Chain(doc, x) \subseteq Chain(doc, f)
           /\ \A x \in Chain(doc, f) \ {f} :
                 doc[f].previous # None /\ x \in Chain(doc, doc[f].previous)
           /\ doc[f].kind = "feature" => \A x \in Chain(doc, f) : doc[x].kind = "feature"
<1>1. \A x \in Chain(doc, f) : Chain(doc, x) \subseteq Chain(doc, f)
  BY ChainIs
<1>2. ASSUME NEW x \in Chain(doc, f), x # f
      PROVE  doc[f].previous # None /\ x \in Chain(doc, doc[f].previous)
  <2>1. CASE doc[f].previous = None
    <3>1. Chain(doc, f) \subseteq {f}
      <4>1. PICK s : s = {f}
        OBVIOUS
      <4>2. s \in SUBSET DOMAIN doc /\ f \in s /\ \A y \in s : doc[y].previous \in s \cup {None}
        BY <2>1, <4>1
      <4>. QED BY <4>1, <4>2, ChainIs
    <3>. QED BY <1>2, <3>1
  <2>2. CASE doc[f].previous # None
    <3>1. PICK p \in DOMAIN doc : p = doc[f].previous
      BY <2>2, EdgeIs, LinkIsRead
    <3>2. /\ Chain(doc, p) \subseteq DOMAIN doc /\ p \in Chain(doc, p)
          /\ \A y \in Chain(doc, p) : doc[y].previous \in Chain(doc, p) \cup {None}
      BY ChainIs
    <3>3. Chain(doc, f) \subseteq {f} \cup Chain(doc, p)
      <4>1. PICK s : s = {f} \cup Chain(doc, p)
        OBVIOUS
      <4>2. s \in SUBSET DOMAIN doc /\ f \in s
        BY <3>2, <4>1
      <4>3. \A y \in s : doc[y].previous \in s \cup {None}
        BY <3>1, <3>2, <4>1
      <4>. QED BY <4>1, <4>2, <4>3, ChainIs
    <3>. QED BY <1>2, <2>2, <3>1, <3>3
  <2>. QED BY <2>1, <2>2
<1>3. ASSUME doc[f].kind = "feature"
      PROVE  \A x \in Chain(doc, f) : doc[x].kind = "feature"
  <2> DEFINE features == {x \in DOMAIN doc : doc[x].kind = "feature"}
  <2>1. \A x \in features : doc[x].previous \in features \cup {None}
    BY EdgeIs, LinkIsRead
  <2>2. f \in features /\ features \in SUBSET DOMAIN doc
    BY <1>3
  <2>3. Chain(doc, f) \subseteq features
    BY <2>1, <2>2, ChainIs
  <2>. QED BY <2>3
<1>. QED BY <1>1, <1>2, <1>3

\* Of some objects of a version one follows from none of the others: else take
\* with them the features between, and one of those would read none.
LEMMA FirstOfSome ==
    ASSUME NEW doc \in Documents, NEW s, s \subseteq DOMAIN doc, s # {}
    PROVE  \E o \in s : Needs(doc, o) \cap s = {}
<1> DEFINE T == {x \in DOMAIN doc : x \in s \/ Chain(doc, x) \cap s # {}}
<1>1. Sound(doc)
  BY DocumentsAssumption
<1>2. T \in SUBSET DOMAIN doc /\ T # {}
  OBVIOUS
<1>3. PICK m \in T : Reads(doc, m) \cap T = {}
  BY <1>1, <1>2 DEF Sound
<1>4. m \in DOMAIN doc /\ (m \in s \/ Chain(doc, m) \cap s # {})
  OBVIOUS
<1>5. ASSUME m \notin s PROVE FALSE
  <2>1. PICK y : y \in Chain(doc, m) /\ y \in s /\ y # m
    BY <1>4, <1>5
  <2>2. doc[m].previous # None /\ y \in Chain(doc, doc[m].previous)
    BY <1>4, <2>1, ChainSteps
  <2>3. doc[m].previous \in Reads(doc, m) /\ doc[m].previous \in DOMAIN doc
    BY <1>4, <2>2, EdgeIs, LinkIsRead
  <2>4. doc[m].previous \in T
    BY <2>1, <2>2, <2>3
  <2>. QED BY <1>3, <2>3, <2>4
<1>6. ASSUME NEW y \in Needs(doc, m), y \in s PROVE FALSE
  <2>1. CASE y \in Reads(doc, m)
    BY <1>3, <1>6, <2>1
  <2>2. CASE doc[m].tip # None /\ y \in Chain(doc, doc[m].tip)
    <3>1. doc[m].tip \in Reads(doc, m) /\ doc[m].tip \in DOMAIN doc
      BY <1>4, <2>2, EdgeIs, LinkIsRead
    <3>2. doc[m].tip \in T
      BY <1>6, <2>2, <3>1
    <3>. QED BY <1>3, <3>1, <3>2
  <2>. QED BY <1>6, <2>1, <2>2 DEF Needs
<1>. QED BY <1>5, <1>6

\* A body falls back to a feature of its chain that came out, if one did.
LEMMA FallbackIs ==
    ASSUME NEW doc \in Documents, NEW o \in DOMAIN doc, NEW usable
    PROVE  LET left == Chain(doc, doc[o].tip) \cap usable
           IN  IF doc[o].tip = None \/ left = {} THEN Fallback(doc, o, usable) = None
               ELSE Fallback(doc, o, usable) \in left
<1> DEFINE left == Chain(doc, doc[o].tip) \cap usable
<1>1. CASE doc[o].tip = None \/ left = {}
  BY <1>1 DEF Fallback
<1>2. CASE doc[o].tip # None /\ left # {}
  <2>1. PICK tip \in DOMAIN doc : tip = doc[o].tip
    BY <1>2, EdgeIs, LinkIsRead
  <2>2. left \subseteq Chain(doc, tip)
    BY <2>1
  <2>3. Fallback(doc, o, usable) = CHOOSE f \in left : left \subseteq Chain(doc, f)
    BY <1>2 DEF Fallback
  <2>4. left # {}
    BY <1>2
  <2> HIDE DEF left
  <2> DEFINE T == {x \in Chain(doc, tip) : left \subseteq Chain(doc, x)}
  <2>5. T \subseteq DOMAIN doc /\ tip \in T
    BY <2>2, ChainIs
  <2>6. PICK m \in T : Needs(doc, m) \cap T = {}
    BY <2>5, FirstOfSome
  <2>7. ASSUME m \notin left
        PROVE  FALSE
    <3>1. m \in DOMAIN doc /\ m \in Chain(doc, tip) /\ left \subseteq Chain(doc, m)
      BY <2>5
    <3>2. left \subseteq Chain(doc, m) \ {m}
      BY <2>7, <3>1
    <3>3. doc[m].previous # None /\ left \subseteq Chain(doc, doc[m].previous)
      BY <2>4, <3>1, <3>2, ChainSteps
    <3>4. doc[m].previous \in T
      BY <3>1, <3>3, ChainIs
    <3>5. doc[m].previous \in Needs(doc, m)
      BY <3>1, <3>3, LinkIsRead DEF Needs
    <3>. QED BY <2>6, <3>4, <3>5
  <2>8. \E f \in left : left \subseteq Chain(doc, f)
    BY <2>7
  <2>9. Fallback(doc, o, usable) \in left
    BY <2>3, <2>8
  <2>. QED BY <1>2, <2>9 DEF left
<1>. QED BY <1>1, <1>2

\* It depends on which features of the chain came out.
LEMMA FallbackSame ==
    ASSUME NEW doc, NEW o, NEW s, NEW t,
           doc[o].tip # None => Chain(doc, doc[o].tip) \cap s = Chain(doc, doc[o].tip) \cap t
    PROVE  Fallback(doc, o, s) = Fallback(doc, o, t)
<1> DEFINE last(left) == CHOOSE f \in left : left \subseteq Chain(doc, f)
           found(left) == IF doc[o].tip = None \/ left = {} THEN None ELSE last(left)
<1>1. /\ Fallback(doc, o, s) = found(Chain(doc, doc[o].tip) \cap s)
      /\ Fallback(doc, o, t) = found(Chain(doc, doc[o].tip) \cap t)
  BY DEF Fallback
<1>2. doc[o].tip = None => Fallback(doc, o, s) = None /\ Fallback(doc, o, t) = None
  BY DEF Fallback
<1> HIDE DEF found
<1>. QED BY <1>1, <1>2

\* What an object follows from is in the version, and what it reads is part.
LEMMA NeedsIs ==
    ASSUME NEW doc \in Documents, NEW o \in DOMAIN doc
    PROVE  /\ Reads(doc, o) \subseteq Needs(doc, o) /\ Needs(doc, o) \subseteq DOMAIN doc
           /\ doc[o].kind = "body" /\ doc[o].tip # None => Chain(doc, doc[o].tip) \subseteq Needs(doc, o)
<1>1. doc[o].tip # None => Chain(doc, doc[o].tip) \subseteq DOMAIN doc
  BY EdgeIs, LinkIsRead, ChainIs
<1>2. Reads(doc, o) \subseteq DOMAIN doc
  BY EdgeIs
<1>. QED BY <1>1, <1>2 DEF Needs

\* What becomes of an object, and a part of a version worked out.
Rule(doc, c, o) == Judged(doc, o, [x \in Needs(doc, o) |-> c[x]])
WorkedOut(doc, g) ==
    /\ DOMAIN g \subseteq DOMAIN doc
    /\ \A o \in DOMAIN g : Needs(doc, o) \subseteq DOMAIN g /\ g[o] = Rule(doc, g, o)

LEMMA RuleSame ==
    ASSUME NEW doc, NEW o, NEW c, NEW d, \A x \in Needs(doc, o) : c[x] = d[x]
    PROVE  Rule(doc, c, o) = Rule(doc, d, o)
<1>1. [x \in Needs(doc, o) |-> c[x]] = [x \in Needs(doc, o) |-> d[x]]
  OBVIOUS
<1>. QED BY <1>1 DEF Rule

\* Two such parts say the same of an object of both.
LEMMA WorkedOutSame ==
    ASSUME NEW doc \in Documents, NEW g, NEW h, WorkedOut(doc, g), WorkedOut(doc, h)
    PROVE  \A o \in DOMAIN g \cap DOMAIN h : g[o] = h[o]
<1> DEFINE s == {o \in DOMAIN g \cap DOMAIN h : g[o] # h[o]}
<1>1. s \subseteq DOMAIN doc
  BY DEF WorkedOut
<1>2. SUFFICES ASSUME s # {} PROVE FALSE
  OBVIOUS
<1>3. PICK o \in s : Needs(doc, o) \cap s = {}
  BY <1>1, <1>2, FirstOfSome
<1>4. Needs(doc, o) \subseteq DOMAIN g /\ Needs(doc, o) \subseteq DOMAIN h
  BY DEF WorkedOut
<1>5. \A x \in Needs(doc, o) : g[x] = h[x]
  BY <1>3, <1>4
<1>6. g[o] = Rule(doc, g, o) /\ h[o] = Rule(doc, h, o)
  BY DEF WorkedOut
<1>. QED BY <1>5, <1>6, RuleSame

\* Every object is in such a part: else the first that is not could be added.
LEMMA AllWorkedOut ==
    ASSUME NEW doc \in Documents, NEW o \in DOMAIN doc
    PROVE  \E g : WorkedOut(doc, g) /\ o \in DOMAIN g
<1> DEFINE P(g, x) == WorkedOut(doc, g) /\ x \in DOMAIN g
           missing == {x \in DOMAIN doc : ~\E g : P(g, x)}
           found == DOMAIN doc \ missing
           c == [x \in DOMAIN doc |-> (CHOOSE g : P(g, x))[x]]
<1>1. SUFFICES ASSUME missing # {} PROVE FALSE
  OBVIOUS
<1>2. PICK m \in missing : Needs(doc, m) \cap missing = {}
  BY <1>1, FirstOfSome
<1>3. ASSUME NEW x \in found
      PROVE  /\ Needs(doc, x) \subseteq found
             /\ c[x] = Rule(doc, c, x)
  <2>1. PICK g : P(g, x)
    OBVIOUS
  <2>2. Needs(doc, x) \subseteq DOMAIN g /\ g[x] = Rule(doc, g, x) /\ DOMAIN g \subseteq DOMAIN doc
    BY <2>1 DEF WorkedOut
  <2>3. \A y \in DOMAIN g : P(g, y)
    BY <2>1
  <2>4. DOMAIN g \subseteq found
    BY <2>2, <2>3
  <2>5. ASSUME NEW y \in DOMAIN g
        PROVE  c[y] = g[y]
    <3>1. PICK h : h = CHOOSE k : P(k, y)
      OBVIOUS
    <3>2. P(h, y)
      BY <2>3, <3>1
    <3>3. c[y] = h[y]
      BY <2>2, <3>1
    <3>. QED BY <2>1, <3>2, <3>3, WorkedOutSame
  <2>6. Rule(doc, c, x) = Rule(doc, g, x)
    BY <2>2, <2>5, RuleSame
  <2>. QED BY <2>1, <2>2, <2>4, <2>5, <2>6
<1>4. Needs(doc, m) \subseteq found
  BY <1>2, NeedsIs
<1> HIDE DEF c, found
<1> DEFINE h == [x \in found \cup {m} |-> IF x = m THEN Rule(doc, c, m) ELSE c[x]]
<1>5. found \subseteq DOMAIN doc /\ m \in DOMAIN doc /\ m \notin found
  BY DEF found
<1>6. \A x \in found : h[x] = c[x]
  BY <1>5
<1>7. ASSUME NEW x \in found \cup {m}
      PROVE  Needs(doc, x) \subseteq found \cup {m} /\ h[x] = Rule(doc, h, x)
  <2>1. Needs(doc, x) \subseteq found
    BY <1>3, <1>4
  <2>2. Rule(doc, h, x) = Rule(doc, c, x)
    BY <1>6, <2>1, RuleSame
  <2>3. h[x] = Rule(doc, c, x)
    BY <1>3, <1>7
  <2>. QED BY <2>1, <2>2, <2>3
<1>8. DOMAIN h = found \cup {m}
  OBVIOUS
<1>9. WorkedOut(doc, h)
  BY <1>5, <1>7, <1>8 DEF WorkedOut
<1>. QED BY <1>8, <1>9

\* The cold rebuild says of every object what becomes of it.
LEMMA TruthRule ==
    ASSUME NEW doc \in Documents
    PROVE  /\ DOMAIN Truth[doc] = DOMAIN doc
           /\ \A o \in DOMAIN doc : Truth[doc][o] = Rule(doc, Truth[doc], o)
<1> DEFINE P(g, x) == WorkedOut(doc, g) /\ x \in DOMAIN g
           c == [x \in DOMAIN doc |-> (CHOOSE g : P(g, x))[x]]
<1>1. ASSUME NEW o \in DOMAIN doc
      PROVE  c[o] = Rule(doc, c, o)
  <2>1. PICK g : P(g, o)
    BY AllWorkedOut
  <2>2. Needs(doc, o) \subseteq DOMAIN g /\ g[o] = Rule(doc, g, o) /\ DOMAIN g \subseteq DOMAIN doc
    BY <2>1 DEF WorkedOut
  <2>3. ASSUME NEW y \in DOMAIN g
        PROVE  c[y] = g[y]
    <3>1. PICK h : h = CHOOSE k : P(k, y)
      OBVIOUS
    <3>2. P(h, y)
      BY <2>1, <3>1
    <3>3. c[y] = h[y]
      BY <2>2, <3>1
    <3>. QED BY <2>1, <3>2, <3>3, WorkedOutSame
  <2>4. Rule(doc, c, o) = Rule(doc, g, o)
    BY <2>2, <2>3, RuleSame
  <2>. QED BY <2>1, <2>2, <2>3, <2>4
<1>2. PICK d : d = c
  OBVIOUS
<1>3. DOMAIN d = DOMAIN doc /\ \A o \in DOMAIN doc : d[o] = Rule(doc, d, o)
  BY <1>1, <1>2
<1>4. d = [o \in DOMAIN doc |-> d[o]]
  BY <1>2
<1>5. d = [o \in DOMAIN doc |-> Judged(doc, o, [x \in Needs(doc, o) |-> d[x]])]
  BY <1>3, <1>4 DEF Rule
<1>6. Cold(doc) = [o \in DOMAIN doc |-> Judged(doc, o, [x \in Needs(doc, o) |-> Cold(doc)[x]])]
  BY <1>5, ColdIs
<1>7. Truth[doc] = Cold(doc)
  BY DEF Truth
<1>. QED BY <1>6, <1>7 DEF Rule

\* The statuses and the terms of a version, and the objects that come out.
Statuses(doc) == [x \in DOMAIN doc |-> Truth[doc][x].status]
Terms(doc) == [x \in DOMAIN doc |-> Truth[doc][x].term]
ComesOut(doc) == {x \in DOMAIN doc : Statuses(doc)[x] = Built}

\* What becomes of an object, told from the whole version.
LEMMA TruthIs ==
    ASSUME NEW doc \in Documents, NEW o \in DOMAIN doc
    PROVE  LET cause == FirstCause(doc, o, Statuses(doc))
               last == IF doc[o].kind = "body" THEN Fallback(doc, o, ComesOut(doc)) ELSE None
           IN  Truth[doc][o] =
                 IF \/ MissingRegion(doc, o)
                    \/ cause # None /\ cause.role = "parameter"
                    \/ cause = None /\ doc[o].number = BadValue
                 THEN [status |-> Failed, term |-> <<>>]
                 ELSE IF cause # None
                 THEN [status |-> Skipped(RootFailure(Statuses(doc)[cause.on], cause.on)),
                       term |-> IF last = None THEN <<>> ELSE Terms(doc)[last]]
                 ELSE IF Refuses(doc[o]) THEN [status |-> Failed, term |-> <<>>]
                 ELSE [status |-> Built, term |-> Meaning(doc, o, Terms(doc))]
<1> DEFINE seen == [x \in Needs(doc, o) |-> Truth[doc][x]]
           statuses == [x \in DOMAIN seen |-> seen[x].status]
           terms == [x \in DOMAIN seen |-> seen[x].term]
           usable == {f \in DOMAIN seen : seen[f].status = Built}
           cause == FirstCause(doc, o, Statuses(doc))
           last == IF doc[o].kind = "body" THEN Fallback(doc, o, ComesOut(doc)) ELSE None
           seenCause == FirstCause(doc, o, statuses)
           seenLast == IF doc[o].kind = "body" THEN Fallback(doc, o, usable) ELSE None
           Verdict(c, l, s, t, m) ==
              IF \/ MissingRegion(doc, o)
                 \/ c # None /\ c.role = "parameter"
                 \/ c = None /\ doc[o].number = BadValue
              THEN [status |-> Failed, term |-> <<>>]
              ELSE IF c # None
              THEN [status |-> Skipped(RootFailure(s, c.on)), term |-> IF l = None THEN <<>> ELSE t]
              ELSE IF Refuses(doc[o]) THEN [status |-> Failed, term |-> <<>>]
              ELSE [status |-> Built, term |-> m]
<1>1. /\ Needs(doc, o) \subseteq DOMAIN doc /\ Reads(doc, o) \subseteq Needs(doc, o)
      /\ doc[o].kind = "body" /\ doc[o].tip # None => Chain(doc, doc[o].tip) \subseteq Needs(doc, o)
  BY NeedsIs
<1>2. /\ \A x \in Needs(doc, o) : statuses[x] = Statuses(doc)[x] /\ terms[x] = Terms(doc)[x]
      /\ \A x \in Needs(doc, o) : seen[x].status = Statuses(doc)[x] /\ seen[x].term = Terms(doc)[x]
      /\ usable = Needs(doc, o) \cap ComesOut(doc)
  BY <1>1 DEF Statuses, Terms, ComesOut
<1>3. Truth[doc][o] = Judged(doc, o, seen)
  BY TruthRule DEF Rule
<1>4. Judged(doc, o, seen)
        = Verdict(seenCause, seenLast, seen[seenCause.on].status, seen[seenLast].term,
                  Meaning(doc, o, terms))
  BY DEF Judged
<1>5. \A x \in Reads(doc, o) : statuses[x] = Statuses(doc)[x] /\ terms[x] = Terms(doc)[x]
  BY <1>1, <1>2
<1> HIDE DEF seen, statuses, terms, usable
<1>6. seenCause = cause
  BY <1>5, CauseSame
<1>7. Meaning(doc, o, terms) = Meaning(doc, o, Terms(doc))
  BY <1>5, MeaningSame
<1>8. seenLast = last
  <2>1. CASE doc[o].kind = "body"
    <3>1. doc[o].tip # None =>
             Chain(doc, doc[o].tip) \cap usable = Chain(doc, doc[o].tip) \cap ComesOut(doc)
      BY <1>1, <1>2, <2>1
    <3>2. Fallback(doc, o, usable) = Fallback(doc, o, ComesOut(doc))
      BY <3>1, FallbackSame
    <3>. QED BY <2>1, <3>2
  <2>. QED BY <2>1
<1>9. cause # None => seen[cause.on].status = Statuses(doc)[cause.on]
  BY <1>1, <1>2, CauseIsRead
<1>10. last # None => seen[last].term = Terms(doc)[last]
  <2>1. ASSUME last # None PROVE last \in Needs(doc, o)
    <3>1. doc[o].kind = "body" /\ last = Fallback(doc, o, ComesOut(doc))
      BY <2>1
    <3>2. doc[o].tip # None /\ last \in Chain(doc, doc[o].tip)
      BY <2>1, <3>1, FallbackIs
    <3>. QED BY <1>1, <3>1, <3>2
  <2>. QED BY <1>2, <2>1
<1>11. Truth[doc][o] = Verdict(cause, last, seen[cause.on].status, seen[last].term,
                               Meaning(doc, o, Terms(doc)))
  BY <1>3, <1>4, <1>6, <1>7, <1>8
<1> HIDE DEF cause, last
<1>12. Truth[doc][o] = Verdict(cause, last, Statuses(doc)[cause.on], Terms(doc)[last],
                               Meaning(doc, o, Terms(doc)))
  BY <1>9, <1>10, <1>11
<1>. QED BY <1>12 DEF cause, last

\* An object that comes out: all it reads did, the program accepts its numbers,
\* it is what its payload means, and only a body can be empty.
LEMMA BuiltIs ==
    ASSUME NEW doc \in Documents, NEW o \in DOMAIN doc
    PROVE  /\ (Truth[doc][o].status = Built) <=>
                 /\ ~MissingRegion(doc, o) /\ doc[o].number # BadValue /\ ~Refuses(doc[o])
                 /\ \A x \in Reads(doc, o) : Statuses(doc)[x] = Built
           /\ Truth[doc][o].status = Built =>
                 /\ Truth[doc][o].term = Meaning(doc, o, Terms(doc))
                 /\ doc[o].kind # "body" => Truth[doc][o].term # <<>>
<1> DEFINE cause == FirstCause(doc, o, Statuses(doc))
           last == IF doc[o].kind = "body" THEN Fallback(doc, o, ComesOut(doc)) ELSE None
<1>1. cause = None <=> \A x \in Reads(doc, o) : Statuses(doc)[x] = Built
  BY CauseIsRead
<1>2. Truth[doc][o] =
        IF \/ MissingRegion(doc, o)
           \/ cause # None /\ cause.role = "parameter"
           \/ cause = None /\ doc[o].number = BadValue
        THEN [status |-> Failed, term |-> <<>>]
        ELSE IF cause # None
        THEN [status |-> Skipped(RootFailure(Statuses(doc)[cause.on], cause.on)),
              term |-> IF last = None THEN <<>> ELSE Terms(doc)[last]]
        ELSE IF Refuses(doc[o]) THEN [status |-> Failed, term |-> <<>>]
        ELSE [status |-> Built, term |-> Meaning(doc, o, Terms(doc))]
  BY TruthIs
<1>3. Failed # Built /\ \A x : Skipped(x) # Built
  BY DEF Failed, Built, Skipped
<1> HIDE DEF cause, last
<1>4. (Truth[doc][o].status = Built) <=>
         ~MissingRegion(doc, o) /\ cause = None /\ doc[o].number # BadValue /\ ~Refuses(doc[o])
  BY <1>2, <1>3
<1>5. Truth[doc][o].status = Built => Truth[doc][o].term = Meaning(doc, o, Terms(doc))
  BY <1>2, <1>3
<1>6. doc[o].kind # "body" => Meaning(doc, o, Terms(doc)) # <<>>
  <2>1. doc[o].kind \in {"parameter", "datum", "sketch", "feature", "body"}
    BY EdgeIs
  <2>2. \A a, b, c, d, e : <<a, b, c, d, e>> # <<>>
    OBVIOUS
  <2>. QED BY <2>1, <2>2 DEF Meaning
<1>. QED BY <1>1, <1>4, <1>5, <1>6

---------------------------------------------------------------------------
(* Keys                                                                    *)

\* The key of an object that came out, given the keys of what it reads.
KeyIs(doc, o, keys, key) ==
    IF doc[o].kind = "feature"
    THEN /\ doc[o].previous \in DOMAIN keys \cup {None}
         /\ key = <<"feature", o, doc[o].number, 0,
                    <<Operand(doc, o, "profile", Terms(doc)),
                      IF doc[o].previous = None THEN <<>> ELSE keys[doc[o].previous]>>>>
    ELSE /\ Reads(doc, o) \subseteq DOMAIN keys
         /\ key = <<doc[o].kind, o, EvaluatedPayload(doc[o])[1], EvaluatedPayload(doc[o])[2],
                    [i \in DOMAIN doc[o].reads |->
                        <<doc[o].reads[i].role, doc[o].reads[i].on, keys[doc[o].reads[i].on]>>]>>

\* Keys of objects of a version that come out.
Keying(doc, keys) ==
    \A o \in DOMAIN keys :
        o \in DOMAIN doc /\ Truth[doc][o].status = Built /\ KeyIs(doc, o, keys, keys[o])

\* Two versions make the same of an object.
MakeTheSame(d, e, o) ==
    /\ d[o].kind = e[o].kind /\ d[o].number = e[o].number
    /\ Truth[d][o].term = Truth[e][o].term

\* What every key tells.
LEMMA KeyTells ==
    ASSUME NEW doc, NEW o, NEW keys, NEW key, KeyIs(doc, o, keys, key)
    PROVE  key[1] = doc[o].kind /\ key[2] = o /\ key[3] = doc[o].number /\ key # <<>>
<1>1. EvaluatedPayload(doc[o])[1] = doc[o].number
  BY DEF EvaluatedPayload
<1>2. \A a, b, c, d, e : /\ <<a, b, c, d, e>> # <<>>
                         /\ <<a, b, c, d, e>>[1] = a /\ <<a, b, c, d, e>>[2] = b
                         /\ <<a, b, c, d, e>>[3] = c
  OBVIOUS
<1>3. PICK b, c : key = <<doc[o].kind, o, doc[o].number, b, c>>
  <2>1. CASE doc[o].kind = "feature"
    BY <2>1 DEF KeyIs
  <2>2. CASE doc[o].kind # "feature"
    <3>1. PICK c : c = [i \in DOMAIN doc[o].reads |->
                          <<doc[o].reads[i].role, doc[o].reads[i].on, keys[doc[o].reads[i].on]>>]
      OBVIOUS
    <3>2. key = <<doc[o].kind, o, EvaluatedPayload(doc[o])[1], EvaluatedPayload(doc[o])[2], c>>
      BY <2>2, <3>1 DEF KeyIs
    <3>. QED BY <1>1, <3>2
  <2>. QED BY <2>1, <2>2
<1>. QED BY <1>2, <1>3

\* Two features with equal keys are made of the same profile and over the same
\* previous solid.
LEMMA FeatureKeyDetermines ==
    ASSUME NEW d \in Documents, NEW e \in Documents, NEW j, NEW k, NEW o,
           o \in DOMAIN d, o \in DOMAIN e, d[o].kind = "feature", e[o].kind = "feature",
           KeyIs(d, o, j, j[o]), KeyIs(e, o, k, k[o]), j[o] = k[o],
           Keying(d, j), Keying(e, k),
           \A x \in Reads(d, o) : x \in DOMAIN j \cap DOMAIN k /\ j[x] = k[x] => MakeTheSame(d, e, x)
    PROVE  Meaning(d, o, Terms(d)) = Meaning(e, o, Terms(e))
<1> DEFINE profile(v) == Operand(v, o, "profile", Terms(v))
           previous(v) == Operand(v, o, "previous", Terms(v))
           under(v, keys) == IF v[o].previous = None THEN <<>> ELSE keys[v[o].previous]
<1>1. /\ j[o] = <<"feature", o, d[o].number, 0, <<profile(d), under(d, j)>>>>
      /\ k[o] = <<"feature", o, e[o].number, 0, <<profile(e), under(e, k)>>>>
      /\ d[o].previous \in DOMAIN j \cup {None} /\ e[o].previous \in DOMAIN k \cup {None}
  BY DEF KeyIs
<1>2. /\ Meaning(d, o, Terms(d)) = <<"solid", o, d[o].number, 0, <<profile(d), previous(d)>>>>
      /\ Meaning(e, o, Terms(e)) = <<"solid", o, e[o].number, 0, <<profile(e), previous(e)>>>>
  BY DEF Meaning
<1> HIDE DEF profile, previous, under
<1>3. ASSUME NEW v \in Documents, o \in DOMAIN v
      PROVE  previous(v) = IF v[o].previous = None THEN <<>> ELSE Terms(v)[v[o].previous]
  <2> DEFINE read == {i \in DOMAIN v[o].reads : v[o].reads[i].role = "previous"}
  <2>1. v[o].previous = None => read = {}
    <3>1. ASSUME NEW i \in read, v[o].previous = None PROVE FALSE
      <4>1. v[o].reads[i].on = None
        BY <1>3, <3>1, LinkIsRead
      <4>2. v[o].reads[i].on \in DOMAIN v
        BY <1>3, EdgeIs
      <4>. QED BY <4>1, <4>2, NoneAssumption
    <3>. QED BY <3>1
  <2>2. v[o].previous # None =>
           /\ read # {}
           /\ \A i \in read : v[o].reads[i].on = v[o].previous
    BY <1>3, LinkIsRead
  <2>3. previous(v) = IF read = {} THEN <<>> ELSE Terms(v)[v[o].reads[CHOOSE i \in read : TRUE].on]
    BY DEF Operand, previous
  <2> HIDE DEF read
  <2>4. read # {} => (CHOOSE i \in read : TRUE) \in read
    OBVIOUS
  <2>. QED BY <2>1, <2>2, <2>3, <2>4
<1>4. d[o].number = e[o].number /\ profile(d) = profile(e) /\ under(d, j) = under(e, k)
  <2>1. PICK a, b : a = <<profile(d), under(d, j)>> /\ b = <<profile(e), under(e, k)>>
    OBVIOUS
  <2>2. <<"feature", o, d[o].number, 0, a>> = <<"feature", o, e[o].number, 0, b>>
    BY <1>1, <2>1
  <2>3. d[o].number = e[o].number /\ a = b
    BY <2>2
  <2>. QED BY <2>1, <2>3
<1>5. \A x \in DOMAIN j : j[x][2] = x /\ j[x] # <<>>
  BY KeyTells DEF Keying
<1>6. \A x \in DOMAIN k : k[x][2] = x /\ k[x] # <<>>
  BY KeyTells DEF Keying
<1>7. d[o].previous = None <=> e[o].previous = None
  BY <1>1, <1>4, <1>5, <1>6 DEF under
<1>8. CASE d[o].previous = None
  BY <1>2, <1>3, <1>4, <1>7, <1>8
<1>9. CASE d[o].previous # None
  <2>1. PICK x : x = d[o].previous
    OBVIOUS
  <2>2. x \in DOMAIN j /\ e[o].previous \in DOMAIN k /\ j[x] = k[e[o].previous]
    BY <1>1, <1>4, <1>7, <1>9, <2>1 DEF under
  <2>3. e[o].previous = x
    BY <1>5, <1>6, <2>2
  <2>4. x \in Reads(d, o)
    BY <1>9, <2>1, LinkIsRead
  <2>5. Truth[d][x].term = Truth[e][x].term
    BY <2>2, <2>3, <2>4 DEF MakeTheSame
  <2>6. x \in DOMAIN d /\ x \in DOMAIN e
    BY <2>2, <2>3 DEF Keying
  <2>7. Terms(d)[x] = Terms(e)[x]
    BY <2>5, <2>6 DEF Terms
  <2>. QED BY <1>2, <1>3, <1>4, <1>7, <1>9, <2>1, <2>3, <2>7
<1>. QED BY <1>8, <1>9

\* Two other objects with equal keys read the same objects in the same roles.
LEMMA NodeKeyDetermines ==
    ASSUME NEW d \in Documents, NEW e \in Documents, NEW j, NEW k, NEW o,
           o \in DOMAIN d, o \in DOMAIN e, d[o].kind = e[o].kind, e[o].kind # "feature",
           d[o].number = e[o].number,
           KeyIs(d, o, j, j[o]), KeyIs(e, o, k, k[o]), j[o] = k[o],
           Keying(d, j), Keying(e, k),
           \A x \in Reads(d, o) : x \in DOMAIN j \cap DOMAIN k /\ j[x] = k[x] => MakeTheSame(d, e, x)
    PROVE  Meaning(d, o, Terms(d)) = Meaning(e, o, Terms(e))
<1> DEFINE edges(v, keys) == [i \in DOMAIN v[o].reads |->
                                <<v[o].reads[i].role, v[o].reads[i].on, keys[v[o].reads[i].on]>>]
           read(v, role) == {i \in DOMAIN v[o].reads : v[o].reads[i].role = role}
<1>1. edges(d, j) = edges(e, k) /\ Reads(d, o) \subseteq DOMAIN j /\ Reads(e, o) \subseteq DOMAIN k
  <2>1. PICK a, b : a = edges(d, j) /\ b = edges(e, k)
    OBVIOUS
  <2>2. /\ j[o] = <<d[o].kind, o, EvaluatedPayload(d[o])[1], EvaluatedPayload(d[o])[2], a>>
        /\ k[o] = <<e[o].kind, o, EvaluatedPayload(e[o])[1], EvaluatedPayload(e[o])[2], b>>
        /\ Reads(d, o) \subseteq DOMAIN j /\ Reads(e, o) \subseteq DOMAIN k
    BY <2>1 DEF KeyIs
  <2>3. <<d[o].kind, o, EvaluatedPayload(d[o])[1], EvaluatedPayload(d[o])[2], a>>
          = <<e[o].kind, o, EvaluatedPayload(e[o])[1], EvaluatedPayload(e[o])[2], b>>
    BY <2>2
  <2>4. a = b
    BY <2>3
  <2>. QED BY <2>1, <2>2, <2>4
<1>2. DOMAIN d[o].reads = DOMAIN e[o].reads
  BY <1>1
<1>3. ASSUME NEW i \in DOMAIN d[o].reads
      PROVE  /\ d[o].reads[i].role = e[o].reads[i].role /\ d[o].reads[i].on = e[o].reads[i].on
             /\ Terms(d)[d[o].reads[i].on] = Terms(e)[e[o].reads[i].on]
  <2>1. edges(d, j)[i] = edges(e, k)[i]
    BY <1>1
  <2>2. <<d[o].reads[i].role, d[o].reads[i].on, j[d[o].reads[i].on]>>
          = <<e[o].reads[i].role, e[o].reads[i].on, k[e[o].reads[i].on]>>
    BY <1>2, <1>3, <2>1
  <2>3. PICK x : x = d[o].reads[i].on
    OBVIOUS
  <2>4. d[o].reads[i].role = e[o].reads[i].role /\ e[o].reads[i].on = x /\ j[x] = k[x]
    BY <2>2, <2>3
  <2>5. x \in Reads(d, o) /\ x \in Reads(e, o)
    BY <1>2, <1>3, <2>3, <2>4 DEF Reads
  <2>6. MakeTheSame(d, e, x) /\ x \in DOMAIN d /\ x \in DOMAIN e
    BY <1>1, <2>4, <2>5, EdgeIs
  <2>7. Terms(d)[x] = Terms(e)[x]
    BY <2>6 DEF Terms, MakeTheSame
  <2>. QED BY <2>3, <2>4, <2>7
<1>4. ASSUME NEW role
      PROVE  Operand(d, o, role, Terms(d)) = Operand(e, o, role, Terms(e))
  <2>1. read(d, role) = read(e, role)
    BY <1>2, <1>3
  <2> DEFINE operand(v, r) == IF r = {} THEN <<>> ELSE Terms(v)[v[o].reads[CHOOSE i \in r : TRUE].on]
  <2>2. /\ Operand(d, o, role, Terms(d)) = operand(d, read(d, role))
        /\ Operand(e, o, role, Terms(e)) = operand(e, read(e, role))
    BY DEF Operand
  <2>3. PICK r : r = read(d, role) /\ r \subseteq DOMAIN d[o].reads
    OBVIOUS
  <2> HIDE DEF read
  <2>4. r # {} => (CHOOSE i \in r : TRUE) \in DOMAIN d[o].reads
    BY <2>3
  <2>5. operand(d, r) = operand(e, r)
    BY <1>3, <2>4
  <2>. QED BY <2>1, <2>2, <2>3, <2>5
<1>5. /\ Operand(d, o, "face", Terms(d)) = Operand(e, o, "face", Terms(e))
      /\ Operand(d, o, "plane", Terms(d)) = Operand(e, o, "plane", Terms(e))
  BY <1>4
<1>6. /\ d[o].tip = None <=> e[o].tip = None
      /\ d[o].tip # None => Terms(d)[d[o].tip] = Terms(e)[e[o].tip]
  <2>1. d[o].tip # None => \E i \in DOMAIN d[o].reads :
           d[o].reads[i].role = "tip" /\ d[o].reads[i].on = d[o].tip
    BY LinkIsRead
  <2>2. e[o].tip # None => \E i \in DOMAIN e[o].reads :
           e[o].reads[i].role = "tip" /\ e[o].reads[i].on = e[o].tip
    BY LinkIsRead
  <2>3. \A i \in DOMAIN d[o].reads : d[o].reads[i].role = "tip" =>
           /\ d[o].reads[i].on = d[o].tip /\ d[o].reads[i].on # None
    BY LinkIsRead, EdgeIs, NoneAssumption
  <2>4. \A i \in DOMAIN e[o].reads : e[o].reads[i].role = "tip" =>
           /\ e[o].reads[i].on = e[o].tip /\ e[o].reads[i].on # None
    BY LinkIsRead, EdgeIs, NoneAssumption
  <2>. QED BY <1>2, <1>3, <2>1, <2>2, <2>3, <2>4
<1>7. d[o].kind \in {"parameter", "datum", "sketch", "body"}
  BY EdgeIs
<1>8. CASE d[o].kind = "parameter"
  BY <1>8 DEF Meaning
<1>9. CASE d[o].kind = "datum"
  BY <1>5, <1>9 DEF Meaning
<1>10. CASE d[o].kind = "sketch"
  BY <1>5, <1>10 DEF Meaning
<1>11. CASE d[o].kind = "body"
  BY <1>6, <1>11 DEF Meaning
<1>. QED BY <1>7, <1>8, <1>9, <1>10, <1>11

\* Objects of two versions that have one key are made the same.
LEMMA KeyDetermines ==
    ASSUME NEW d \in Documents, NEW e \in Documents, NEW j, NEW k, Keying(d, j), Keying(e, k)
    PROVE  \A o \in DOMAIN j \cap DOMAIN k : j[o] = k[o] => MakeTheSame(d, e, o)
<1> DEFINE s == {o \in DOMAIN j \cap DOMAIN k : j[o] = k[o] /\ ~MakeTheSame(d, e, o)}
<1>1. s \subseteq DOMAIN d
  BY DEF Keying
<1>2. SUFFICES ASSUME s # {} PROVE FALSE
  OBVIOUS
<1>3. PICK o \in s : Needs(d, o) \cap s = {}
  BY <1>1, <1>2, FirstOfSome
<1>4. /\ o \in DOMAIN d /\ o \in DOMAIN e /\ j[o] = k[o] /\ ~MakeTheSame(d, e, o)
      /\ KeyIs(d, o, j, j[o]) /\ KeyIs(e, o, k, k[o])
      /\ Truth[d][o].status = Built /\ Truth[e][o].status = Built
  BY DEF Keying
<1>5. d[o].kind = e[o].kind /\ d[o].number = e[o].number
  BY <1>4, KeyTells
<1>6. \A x \in Reads(d, o) : x \in DOMAIN j \cap DOMAIN k /\ j[x] = k[x] => MakeTheSame(d, e, x)
  BY <1>3, <1>4, NeedsIs
<1>7. Meaning(d, o, Terms(d)) = Meaning(e, o, Terms(e))
  <2>1. CASE e[o].kind = "feature"
    BY <1>4, <1>5, <1>6, <2>1, FeatureKeyDetermines
  <2>2. CASE e[o].kind # "feature"
    BY <1>4, <1>5, <1>6, <2>2, NodeKeyDetermines
  <2>. QED BY <2>1, <2>2
<1>8. Truth[d][o].term = Truth[e][o].term
  BY <1>4, <1>7, BuiltIs
<1>. QED BY <1>4, <1>5, <1>8 DEF MakeTheSame

---------------------------------------------------------------------------
(* What an evaluation holds                                                *)

\* What is kept of an object is what the cold rebuild gives it.
RightObject(doc, r, geometry, o) ==
    /\ r.status[o] = Truth[doc][o].status
    /\ o \in DOMAIN r.values => r.values[o] = Truth[doc][o].term
    /\ o \in DOMAIN r.shapes => geometry[r.shapes[o]] = Truth[doc][o].term
    /\ Truth[doc][o].term # <<>> => o \in DOMAIN r.values \cup DOMAIN r.shapes

\* A result, complete or under way: its objects come in an order that follows
\* their edges, all that is kept is right and every result that may be borrowed
\* has the key of what it was made from.
Right(doc, r, how, geometry) ==
    /\ DOMAIN r.status \subseteq DOMAIN doc
    /\ \A o \in DOMAIN r.status : Reads(doc, o) \subseteq DOMAIN r.status
    /\ DOMAIN r.values \subseteq DOMAIN r.status /\ DOMAIN r.shapes \subseteq DOMAIN r.status
    /\ DOMAIN r.keys \subseteq DOMAIN r.status
    /\ \A o \in DOMAIN r.values : doc[o].kind \in {"parameter", "datum", "sketch"}
    /\ \A o \in DOMAIN r.shapes : doc[o].kind \in {"feature", "body"}
    /\ Keying(doc, r.keys)
    /\ \A o \in DOMAIN r.status :
          Truth[doc][o].status = Built /\ (doc[o].kind = "feature" \/ how = "live")
             => o \in DOMAIN r.keys
    /\ \A o \in DOMAIN r.status : RightObject(doc, r, geometry, o)

Faithful(v, how, geometry) ==
    v # NoVersion => v.doc \in Documents /\ Right(v.doc, v.result, how, geometry)

\* The next object is added to a result, with what it should have.
Adds(doc, r, n, o, how, geometry) ==
    /\ n.status = Put(r.status, o, Truth[doc][o].status)
    /\ \/ n.values = r.values
       \/ /\ doc[o].kind \in {"parameter", "datum", "sketch"}
          /\ n.values = Put(r.values, o, Truth[doc][o].term)
    /\ \/ n.shapes = r.shapes
       \/ /\ doc[o].kind \in {"feature", "body"}
          /\ \E h : geometry[h] = Truth[doc][o].term /\ n.shapes = Put(r.shapes, o, h)
    /\ \/ n.keys = r.keys
       \/ /\ Truth[doc][o].status = Built
          /\ \E key : KeyIs(doc, o, r.keys, key) /\ n.keys = Put(r.keys, o, key)
    /\ Truth[doc][o].status = Built /\ (doc[o].kind = "feature" \/ how = "live")
          => o \in DOMAIN n.keys
    /\ Truth[doc][o].term # <<>> => o \in DOMAIN n.values \cup DOMAIN n.shapes

\* A key stays right when another object gets one.
LEMMA KeyStays ==
    ASSUME NEW doc, NEW o, NEW keys, NEW more, NEW key, KeyIs(doc, o, keys, key),
           DOMAIN keys \subseteq DOMAIN more, \A x \in DOMAIN keys : more[x] = keys[x]
    PROVE  KeyIs(doc, o, more, key)
<1>1. CASE doc[o].kind = "feature"
  <2>1. doc[o].previous # None => more[doc[o].previous] = keys[doc[o].previous]
    BY <1>1 DEF KeyIs
  <2>. QED BY <1>1, <2>1 DEF KeyIs
<1>2. CASE doc[o].kind # "feature"
  <2> DEFINE edges(k) == [i \in DOMAIN doc[o].reads |->
                            <<doc[o].reads[i].role, doc[o].reads[i].on, k[doc[o].reads[i].on]>>]
  <2>1. Reads(doc, o) \subseteq DOMAIN keys
    BY <1>2 DEF KeyIs
  <2>2. \A i \in DOMAIN doc[o].reads : more[doc[o].reads[i].on] = keys[doc[o].reads[i].on]
    BY <2>1 DEF Reads
  <2>3. edges(keys) = edges(more)
    BY <2>2
  <2>4. PICK a : a = edges(keys) /\ a = edges(more)
    BY <2>3
  <2>. QED BY <1>2, <2>1, <2>4 DEF KeyIs
<1>. QED BY <1>1, <1>2

\* Keys with the key of one more object.
LEMMA KeyingGrows ==
    ASSUME NEW doc, NEW keys, NEW o \in DOMAIN doc, NEW key, Keying(doc, keys), o \notin DOMAIN keys,
           Truth[doc][o].status = Built, KeyIs(doc, o, keys, key)
    PROVE  Keying(doc, Put(keys, o, key))
<1>1. PICK more : more = Put(keys, o, key)
  OBVIOUS
<1>2. DOMAIN more = DOMAIN keys \cup {o} /\ more[o] = key /\ \A x \in DOMAIN keys : more[x] = keys[x]
  BY <1>1 DEF Put
<1>3. KeyIs(doc, o, more, more[o])
  BY <1>2, KeyStays
<1>4. ASSUME NEW x \in DOMAIN keys
      PROVE  x \in DOMAIN doc /\ Truth[doc][x].status = Built /\ KeyIs(doc, x, more, more[x])
  BY <1>2, KeyStays DEF Keying
<1>. QED BY <1>1, <1>2, <1>3, <1>4 DEF Keying

\* A result to which the next object is added rightly is right.
LEMMA AddsIsRight ==
    ASSUME NEW doc \in Documents, NEW r, NEW n, NEW o, NEW how, NEW before, NEW geometry,
           Right(doc, r, how, before), o \in Ready(doc, DOMAIN r.status),
           Adds(doc, r, n, o, how, geometry),
           \A x \in DOMAIN r.shapes : geometry[r.shapes[x]] = before[r.shapes[x]]
    PROVE  Right(doc, n, how, geometry)
<1>1. o \in DOMAIN doc /\ o \notin DOMAIN r.status /\ Reads(doc, o) \subseteq DOMAIN r.status
  BY DEF Ready
<1>2. /\ o \notin DOMAIN r.values /\ o \notin DOMAIN r.shapes /\ o \notin DOMAIN r.keys
      /\ DOMAIN r.values \subseteq DOMAIN r.status /\ DOMAIN r.shapes \subseteq DOMAIN r.status
      /\ DOMAIN r.keys \subseteq DOMAIN r.status
  BY <1>1 DEF Right
<1>3. /\ DOMAIN n.status = DOMAIN r.status \cup {o} /\ n.status[o] = Truth[doc][o].status
      /\ \A x \in DOMAIN r.status : n.status[x] = r.status[x]
  <2>1. n.status = Put(r.status, o, Truth[doc][o].status)
    BY DEF Adds
  <2>. QED BY <1>1, <2>1 DEF Put
<1>4. /\ DOMAIN n.values \subseteq DOMAIN r.values \cup {o} /\ DOMAIN r.values \subseteq DOMAIN n.values
      /\ \A x \in DOMAIN r.values : n.values[x] = r.values[x]
      /\ o \in DOMAIN n.values => /\ n.values[o] = Truth[doc][o].term
                                  /\ doc[o].kind \in {"parameter", "datum", "sketch"}
  <2>1. CASE n.values = r.values
    BY <1>2, <2>1
  <2>2. CASE /\ doc[o].kind \in {"parameter", "datum", "sketch"}
             /\ n.values = Put(r.values, o, Truth[doc][o].term)
    BY <1>2, <2>2 DEF Put
  <2>. QED BY <2>1, <2>2 DEF Adds
<1>5. /\ DOMAIN n.shapes \subseteq DOMAIN r.shapes \cup {o} /\ DOMAIN r.shapes \subseteq DOMAIN n.shapes
      /\ \A x \in DOMAIN r.shapes : n.shapes[x] = r.shapes[x]
      /\ o \in DOMAIN n.shapes => /\ geometry[n.shapes[o]] = Truth[doc][o].term
                                  /\ doc[o].kind \in {"feature", "body"}
  <2>1. CASE n.shapes = r.shapes
    BY <1>2, <2>1
  <2>2. CASE doc[o].kind \in {"feature", "body"}
             /\ \E h : geometry[h] = Truth[doc][o].term /\ n.shapes = Put(r.shapes, o, h)
    BY <1>2, <2>2 DEF Put
  <2>. QED BY <2>1, <2>2 DEF Adds
<1>6. /\ DOMAIN n.keys \subseteq DOMAIN r.keys \cup {o} /\ DOMAIN r.keys \subseteq DOMAIN n.keys
      /\ Keying(doc, n.keys)
  <2>0. Keying(doc, r.keys)
    BY DEF Right
  <2>1. CASE n.keys = r.keys
    BY <2>0, <2>1
  <2>2. CASE Truth[doc][o].status = Built
             /\ \E key : KeyIs(doc, o, r.keys, key) /\ n.keys = Put(r.keys, o, key)
    BY <1>1, <1>2, <2>0, <2>2, KeyingGrows DEF Put
  <2>. QED BY <2>1, <2>2 DEF Adds
<1>7. /\ Truth[doc][o].status = Built /\ (doc[o].kind = "feature" \/ how = "live") => o \in DOMAIN n.keys
      /\ Truth[doc][o].term # <<>> => o \in DOMAIN n.values \cup DOMAIN n.shapes
  BY DEF Adds
<1>8. RightObject(doc, n, geometry, o)
  BY <1>3, <1>4, <1>5, <1>7 DEF RightObject
<1>9. ASSUME NEW x \in DOMAIN r.status
      PROVE  RightObject(doc, n, geometry, x)
  <2>1. RightObject(doc, r, before, x) /\ x # o
    BY <1>1 DEF Right
  <2>. QED BY <1>3, <1>4, <1>5, <2>1 DEF RightObject
<1>10. /\ DOMAIN n.status \subseteq DOMAIN doc
       /\ \A x \in DOMAIN n.status : Reads(doc, x) \subseteq DOMAIN n.status
       /\ DOMAIN n.values \subseteq DOMAIN n.status /\ DOMAIN n.shapes \subseteq DOMAIN n.status
       /\ DOMAIN n.keys \subseteq DOMAIN n.status
  BY <1>1, <1>2, <1>3, <1>4, <1>5, <1>6 DEF Right
<1>11. /\ \A x \in DOMAIN n.values : doc[x].kind \in {"parameter", "datum", "sketch"}
       /\ \A x \in DOMAIN n.shapes : doc[x].kind \in {"feature", "body"}
  BY <1>4, <1>5 DEF Right
<1>12. \A x \in DOMAIN n.status :
          Truth[doc][x].status = Built /\ (doc[x].kind = "feature" \/ how = "live")
             => x \in DOMAIN n.keys
  BY <1>3, <1>6, <1>7 DEF Right
<1>13. \A x \in DOMAIN n.status : RightObject(doc, n, geometry, x)
  BY <1>3, <1>8, <1>9
<1>. QED BY <1>6, <1>10, <1>11, <1>12, <1>13 DEF Right

\* An entry of the sidecar holds what some version makes of its producer, under
\* the key it has there.
Trusted(e) ==
    \E doc \in Documents : \E keys :
        /\ Keying(doc, keys) /\ e.producer \in DOMAIN keys /\ keys[e.producer] = e.key
        /\ e.solid = Truth[doc][e.producer].term

\* The session and the change that is under way.
LineInv ==
    /\ line = [past |-> line.past, current |-> line.current, future |-> line.future]
    /\ line.past \in Seq(Documents) /\ line.current \in Documents /\ line.future \in Seq(Documents)
    /\ change \in {None, "open", "edit", "undo", "redo", "cached"}
    /\ change = None => work = NoVersion /\ candidate = NoVersion
    /\ candidate # NoVersion => change # "cached"
    /\ change = "undo" => line.past # <<>>
    /\ change = "redo" => line.future # <<>>

\* The strengthening: everything an evaluation holds, and everything it could
\* borrow or restore, is right for its version and known by the key it has there.
FaithInv ==
    /\ OwnershipInv /\ LineInv
    /\ Faithful(work, source, solid)
    /\ Faithful(candidate, source, solid)
    /\ Faithful(accepted, source, solid)
    /\ \A e \in sidecar : Trusted(e)

\* FaithInv is more than what the runs check.
LEMMA FaithSuffices == FaithInv => AgreesWithCold
<1>1. ASSUME NEW v, Faithful(v, source, solid)
      PROVE  Agrees(v)
  BY <1>1 DEF Faithful, Right, RightObject, Agrees
<1>. QED BY <1>1 DEF FaithInv, AgreesWithCold

\* What is read in a role depends on the terms of what is read in it.
LEMMA OperandSame ==
    ASSUME NEW doc, NEW o, NEW role, NEW s, NEW t,
           \A i \in DOMAIN doc[o].reads :
              doc[o].reads[i].role = role => s[doc[o].reads[i].on] = t[doc[o].reads[i].on]
    PROVE  Operand(doc, o, role, s) = Operand(doc, o, role, t)
<1> DEFINE read == {i \in DOMAIN doc[o].reads : doc[o].reads[i].role = role}
<1>1. CASE read = {}
  BY <1>1 DEF Operand
<1>2. CASE read # {}
  <2>1. PICK i : i = CHOOSE k \in read : TRUE
    OBVIOUS
  <2>2. i \in read
    BY <1>2, <2>1
  <2>3. /\ Operand(doc, o, role, s) = s[doc[o].reads[i].on]
        /\ Operand(doc, o, role, t) = t[doc[o].reads[i].on]
    BY <1>2, <2>1 DEF Operand
  <2>. QED BY <2>2, <2>3
<1>. QED BY <1>1, <1>2

\* The terms a result holds of its objects.
Held(r, geometry) ==
    [o \in DOMAIN r.values \cup DOMAIN r.shapes |->
        IF o \in DOMAIN r.values THEN r.values[o] ELSE geometry[r.shapes[o]]]

\* Of an object that came out, and is no body, the right term is held: that of a
\* feature as a shape, that of any other as a value.
LEMMA HeldIsRight ==
    ASSUME NEW doc \in Documents, NEW r, NEW how, NEW geometry, Right(doc, r, how, geometry),
           NEW x \in DOMAIN r.status, r.status[x] = Built, doc[x].kind # "body"
    PROVE  /\ Held(r, geometry)[x] = Terms(doc)[x]
           /\ doc[x].kind = "feature" => /\ x \in DOMAIN r.shapes /\ x \in DOMAIN r.keys
                                         /\ geometry[r.shapes[x]] = Terms(doc)[x]
           /\ doc[x].kind # "feature" => x \in DOMAIN r.values /\ r.values[x] = Terms(doc)[x]
           /\ how = "live" => x \in DOMAIN r.keys
<1>1. x \in DOMAIN doc /\ RightObject(doc, r, geometry, x)
  BY DEF Right
<1>2. Truth[doc][x].status = Built
  BY <1>1 DEF RightObject
<1>3. Truth[doc][x].term # <<>>
  BY <1>1, <1>2, BuiltIs
<1>4. Terms(doc)[x] = Truth[doc][x].term
  BY <1>1 DEF Terms
<1>5. /\ x \in DOMAIN r.values => r.values[x] = Terms(doc)[x]
      /\ x \in DOMAIN r.shapes => geometry[r.shapes[x]] = Terms(doc)[x]
      /\ x \in DOMAIN r.values \cup DOMAIN r.shapes
  BY <1>1, <1>3, <1>4 DEF RightObject
<1>6. /\ x \in DOMAIN r.values => doc[x].kind \in {"parameter", "datum", "sketch"}
      /\ x \in DOMAIN r.shapes => doc[x].kind \in {"feature", "body"}
      /\ doc[x].kind = "feature" \/ how = "live" => x \in DOMAIN r.keys
  BY <1>2 DEF Right
<1>7. Held(r, geometry)[x] = IF x \in DOMAIN r.values THEN r.values[x] ELSE geometry[r.shapes[x]]
  BY <1>5 DEF Held
<1>. QED BY <1>5, <1>6, <1>7

\* The object being evaluated: its version, its cause, and what it reads.
LEMMA CurrentIs ==
    ASSUME FaithInv, Evaluating
    PROVE  /\ work # NoVersion /\ Doc \in Documents /\ Right(Doc, work.result, source, solid)
           /\ Current \in Ready(Doc, Done) /\ Current \in DOMAIN Doc
           /\ Reads(Doc, Current) \subseteq Done /\ Current \notin Done
           /\ Cause = FirstCause(Doc, Current, Statuses(Doc))
           /\ \A x \in Done : x \in DOMAIN Doc /\ work.result.status[x] = Statuses(Doc)[x]
           /\ Cause = None <=> \A x \in Reads(Doc, Current) : Statuses(Doc)[x] = Built
<1>1. work # NoVersion /\ Doc \in Documents /\ Right(Doc, work.result, source, solid)
  BY DEF FaithInv, Faithful, Evaluating, Doc
<1>2. Current \in Ready(Doc, Done)
  BY <1>1, NextIsReady DEF Evaluating, Current
<1>3. Current \in DOMAIN Doc /\ Reads(Doc, Current) \subseteq Done /\ Current \notin Done
  BY <1>2 DEF Ready
<1>4. \A x \in Done : x \in DOMAIN Doc /\ work.result.status[x] = Statuses(Doc)[x]
  BY <1>1 DEF Right, RightObject, Statuses, Done
<1>5. Cause = FirstCause(Doc, Current, Statuses(Doc))
  BY <1>3, <1>4, CauseSame DEF Cause
<1>6. Cause = None <=> \A x \in Reads(Doc, Current) : Statuses(Doc)[x] = Built
  BY <1>1, <1>3, <1>5, CauseIsRead
<1>. QED BY <1>1, <1>2, <1>3, <1>4, <1>5, <1>6

\* What an object that can be evaluated reads is held as it should be.
LEMMA InputsAreRight ==
    ASSUME FaithInv, Evaluating, Cause = None
    PROVE  \A x \in Reads(Doc, Current) :
              /\ TermOf[x] = Terms(Doc)[x]
              /\ Doc[x].kind = "feature" => /\ x \in DOMAIN work.result.shapes
                                            /\ x \in DOMAIN work.result.keys
                                            /\ solid[work.result.shapes[x]] = Terms(Doc)[x]
              /\ Doc[x].kind # "feature" => /\ x \in DOMAIN work.result.values
                                            /\ work.result.values[x] = Terms(Doc)[x]
              /\ source = "live" => x \in DOMAIN work.result.keys
<1>1. TermOf = Held(work.result, solid)
  BY DEF TermOf, Held
<1>2. ASSUME NEW x \in Reads(Doc, Current)
      PROVE  x \in Done /\ work.result.status[x] = Built /\ Doc[x].kind # "body"
  BY <1>2, CurrentIs, EdgeIs
<1>. QED BY <1>1, <1>2, CurrentIs, HeldIsRight DEF Done

\* The key that is computed is the one such an object should have.
LEMMA KeyIsRight ==
    ASSUME FaithInv, Evaluating, Cause = None, Keyed
    PROVE  KeyIs(Doc, Current, work.result.keys, Key)
<1>1. Doc \in Documents /\ Current \in DOMAIN Doc
  BY CurrentIs
<1>2. CASE IsFeature
  <2>1. ASSUME NEW i \in DOMAIN Doc[Current].reads, Doc[Current].reads[i].role = "profile"
        PROVE  work.result.values[Doc[Current].reads[i].on] = Terms(Doc)[Doc[Current].reads[i].on]
    <3>1. Doc[Current].reads[i].on \in Reads(Doc, Current)
      BY <2>1 DEF Reads
    <3>2. Doc[Doc[Current].reads[i].on].kind = "sketch"
      BY <1>1, <2>1, EdgeIs DEF Target
    <3>. QED BY <3>1, <3>2, InputsAreRight
  <2>2. Operand(Doc, Current, "profile", work.result.values) = Operand(Doc, Current, "profile", Terms(Doc))
    BY <2>1, OperandSame
  <2>3. Doc[Current].previous # None => Doc[Current].previous \in DOMAIN work.result.keys
    BY <1>1, LinkIsRead, InputsAreRight
  <2>. QED BY <1>2, <2>2, <2>3 DEF KeyIs, Key, FeatureKey, IsFeature
<1>3. CASE ~IsFeature
  <2>1. Reads(Doc, Current) \subseteq DOMAIN work.result.keys
    BY <1>3, InputsAreRight DEF Keyed
  <2>. QED BY <1>3, <2>1 DEF KeyIs, Key, NodeKey, IsFeature
<1>. QED BY <1>2, <1>3

\* What is known by the key of the current object is what the object is made.
LEMMA KeyMatches ==
    ASSUME FaithInv, Evaluating, Evaluable, Keyed,
           NEW d \in Documents, NEW j, Keying(d, j), Current \in DOMAIN j, j[Current] = Key
    PROVE  /\ ~Refuses(Doc[Current])
           /\ Truth[Doc][Current].status = Built
           /\ Truth[d][Current].term = Truth[Doc][Current].term
           /\ d[Current].kind = Doc[Current].kind
<1>1. /\ Doc \in Documents /\ Current \in DOMAIN Doc /\ Current \notin Done
      /\ Right(Doc, work.result, source, solid)
      /\ Cause = None /\ ~MissingRegion(Doc, Current) /\ Doc[Current].number # BadValue
      /\ \A x \in Reads(Doc, Current) : Statuses(Doc)[x] = Built
  BY CurrentIs DEF Evaluable
<1>2. KeyIs(Doc, Current, work.result.keys, Key)
  BY <1>1, KeyIsRight
<1>3. Current \in DOMAIN d /\ Truth[d][Current].status = Built /\ KeyIs(d, Current, j, Key)
  BY DEF Keying
<1>4. d[Current].kind = Doc[Current].kind /\ d[Current].number = Doc[Current].number
  <2>1. Key[1] = Doc[Current].kind /\ Key[3] = Doc[Current].number
    BY <1>2, KeyTells
  <2>2. Key[1] = d[Current].kind /\ Key[3] = d[Current].number
    BY <1>3, KeyTells
  <2>. QED BY <2>1, <2>2
<1>5. ~Refuses(d[Current])
  BY <1>3, BuiltIs
<1>6. ~Refuses(Doc[Current])
  BY <1>4, <1>5 DEF Refuses
<1>7. Truth[Doc][Current].status = Built
  BY <1>1, <1>6, BuiltIs
<1> DEFINE keys == Put(work.result.keys, Current, Key)
<1>8. Current \notin DOMAIN work.result.keys /\ Keying(Doc, work.result.keys)
  BY <1>1 DEF Right, Done
<1>9. Keying(Doc, keys)
  BY <1>1, <1>2, <1>7, <1>8, KeyingGrows
<1>10. Current \in DOMAIN keys /\ keys[Current] = Key
  BY DEF Put
<1> HIDE DEF keys
<1>11. MakeTheSame(d, Doc, Current)
  BY <1>1, <1>9, <1>10, KeyDetermines
<1>. QED BY <1>4, <1>6, <1>7, <1>11 DEF MakeTheSame

\* An object that can be evaluated and is not refused comes out, with the term
\* its inputs give; one that is refused fails.
LEMMA EvaluableIs ==
    ASSUME FaithInv, Evaluating, Evaluable
    PROVE  /\ Refuses(Doc[Current]) => Truth[Doc][Current] = [status |-> Failed, term |-> <<>>]
           /\ ~Refuses(Doc[Current]) =>
                 /\ Truth[Doc][Current].status = Built
                 /\ Truth[Doc][Current].term = Meaning(Doc, Current, TermOf)
<1>1. /\ Doc \in Documents /\ Current \in DOMAIN Doc
      /\ Cause = None /\ ~MissingRegion(Doc, Current) /\ Doc[Current].number # BadValue
      /\ FirstCause(Doc, Current, Statuses(Doc)) = None
      /\ \A x \in Reads(Doc, Current) : Statuses(Doc)[x] = Built
  BY CurrentIs DEF Evaluable
<1>2. Refuses(Doc[Current]) => Truth[Doc][Current] = [status |-> Failed, term |-> <<>>]
  BY <1>1, TruthIs
<1>3. \A x \in Reads(Doc, Current) : TermOf[x] = Terms(Doc)[x]
  BY <1>1, InputsAreRight
<1>4. Meaning(Doc, Current, TermOf) = Meaning(Doc, Current, Terms(Doc))
  BY <1>1, <1>3, MeaningSame
<1>. QED BY <1>1, <1>2, <1>4, BuiltIs

\* A version is as right after a step that leaves the geometry of its shapes.
LEMMA FaithMoves ==
    ASSUME NEW v, NEW how, NEW before, NEW geometry, Faithful(v, how, before),
           \A h \in Borrowed(v) : geometry[h] = before[h]
    PROVE  Faithful(v, how, geometry)
<1>1. \A x \in DOMAIN v.result.shapes :
         geometry[v.result.shapes[x]] = before[v.result.shapes[x]]
  BY DEF Borrowed, Values
<1>2. ASSUME v # NoVersion, NEW x \in DOMAIN v.result.status
      PROVE  RightObject(v.doc, v.result, geometry, x)
  <2>1. RightObject(v.doc, v.result, before, x)
    BY <1>2 DEF Faithful, Right
  <2>. QED BY <1>1, <2>1 DEF RightObject
<1>3. v # NoVersion => v.doc \in Documents /\ Right(v.doc, v.result, how, before)
  BY DEF Faithful
<1>. QED BY <1>2, <1>3 DEF Faithful, Right

\* One more object, rightly added, and the kernel's other shapes as they were.
LEMMA AddKeepsFaith ==
    ASSUME FaithInv, Evaluating, OwnershipInv', NEW n, With(n),
           n = [status |-> n.status, shapes |-> n.shapes, values |-> n.values,
                keys |-> n.keys, owned |-> n.owned],
           Adds(Doc, work.result, n, Current, source, solid'),
           \A h \in alive : solid'[h] = solid[h],
           UNCHANGED <<source, candidate, accepted, line, change>>,
           \A e \in sidecar' : Trusted(e)
    PROVE  FaithInv'
<1>1. /\ work # NoVersion /\ Doc \in Documents /\ Right(Doc, work.result, source, solid)
      /\ Current \in Ready(Doc, DOMAIN work.result.status)
  BY CurrentIs DEF Done
<1>2. work' = [doc |-> Doc, base |-> work.base, result |-> n]
  BY DEF With, FaithInv, OwnershipInv, IsVersion, Doc
<1>3. Borrowed(work) \cup Borrowed(candidate) \cup Borrowed(accepted) \subseteq alive
  BY OwnershipSuffices DEF FaithInv, HandlesAreOwned
<1>4. /\ \A h \in Borrowed(candidate) : solid'[h] = solid[h]
      /\ \A h \in Borrowed(accepted) : solid'[h] = solid[h]
  BY <1>3
<1>5. Faithful(candidate, source, solid') /\ Faithful(accepted, source, solid')
  BY <1>4, FaithMoves DEF FaithInv
<1>6. Right(Doc, n, source, solid')
  <2>1. \A x \in DOMAIN work.result.shapes : solid'[work.result.shapes[x]] = solid[work.result.shapes[x]]
    BY <1>3 DEF Borrowed, Values
  <2>. QED BY <1>1, <2>1, AddsIsRight
<1>7. Faithful(work', source, solid')
  <2>1. work'.doc = Doc /\ work'.result = n
    BY <1>2
  <2>. QED BY <1>1, <1>6, <2>1 DEF Faithful
<1>8. change' = None => work' = NoVersion /\ candidate' = NoVersion
  BY <1>1 DEF FaithInv, LineInv
<1>9. LineInv'
  BY <1>8 DEF FaithInv, LineInv
<1>. QED BY <1>5, <1>7, <1>9 DEF FaithInv

\* What is marked: nothing but the status, and of a body the shape it falls back to.
LEMMA MarkAdds ==
    ASSUME FaithInv, Evaluating, NEW geometry,
           Truth[Doc][Current].status # Built, Truth[Doc][Current].term = <<>>
    PROVE  Adds(Doc, work.result, Mark(Truth[Doc][Current].status), Current, source, geometry)
<1>1. Mark(Truth[Doc][Current].status)
        = [status |-> Put(work.result.status, Current, Truth[Doc][Current].status),
           shapes |-> work.result.shapes, values |-> work.result.values,
           keys |-> work.result.keys, owned |-> work.result.owned]
  BY MarkKeeps DEF FaithInv
<1>. QED BY <1>1 DEF Adds

\* An object that fails at once, or is refused.
LEMMA FailKeepsFaith ==
    ASSUME FaithInv, Evaluating, OwnershipInv', With(Mark(Failed)),
           Truth[Doc][Current] = [status |-> Failed, term |-> <<>>],
           UNCHANGED <<solid, sidecar, source, candidate, accepted, line, change>>
    PROVE  FaithInv'
<1>1. Failed # Built
  BY DEF Failed, Built
<1>2. Adds(Doc, work.result, Mark(Failed), Current, source, solid')
  BY <1>1, MarkAdds
<1>3. Mark(Failed) = [status |-> Mark(Failed).status, shapes |-> Mark(Failed).shapes,
                      values |-> Mark(Failed).values, keys |-> Mark(Failed).keys,
                      owned |-> Mark(Failed).owned]
  BY MarkKeeps DEF FaithInv
<1>4. \A e \in sidecar' : Trusted(e)
  BY DEF FaithInv
<1>. QED BY <1>2, <1>3, <1>4, AddKeepsFaith

LEMMA FailsEarlyKeepsFaith ==
    ASSUME FaithInv, OwnershipInv', FailsEarly
    PROVE  FaithInv'
<1>1. /\ Evaluating /\ With(Mark(Failed))
      /\ UNCHANGED <<solid, sidecar, source, candidate, accepted, line, change>>
      /\ \/ MissingRegion(Doc, Current)
         \/ Cause # None /\ Cause.role = "parameter"
         \/ Cause = None /\ Doc[Current].number = BadValue
  BY DEF FailsEarly, Unchanged
<1>2. Truth[Doc][Current] = [status |-> Failed, term |-> <<>>]
  BY <1>1, CurrentIs, TruthIs
<1>. QED BY <1>1, <1>2, FailKeepsFaith

\* The whole chain of a tip is done before its body is evaluated.
LEMMA ChainIsDone ==
    ASSUME NEW doc \in Documents, NEW r, NEW how, NEW geometry, Right(doc, r, how, geometry),
           NEW tip \in DOMAIN r.status
    PROVE  Chain(doc, tip) \subseteq DOMAIN r.status
<1>1. PICK s : s = DOMAIN r.status
  OBVIOUS
<1>2. s \in SUBSET DOMAIN doc /\ \A x \in s : Reads(doc, x) \subseteq s
  BY <1>1 DEF Right
<1>3. \A x \in s : doc[x].previous \in s \cup {None}
  BY <1>2, LinkIsRead
<1>. QED BY <1>1, <1>2, <1>3, ChainIs

\* The features of the chain that have a shape are those that come out.
LEMMA UsableIs ==
    ASSUME FaithInv, Evaluating, Doc[Current].tip # None
    PROVE  Chain(Doc, Doc[Current].tip)
              \cap {f \in DOMAIN work.result.shapes : work.result.status[f] = Built}
           = Chain(Doc, Doc[Current].tip) \cap ComesOut(Doc)
<1>1. PICK tip : tip = Doc[Current].tip
  OBVIOUS
<1>2. /\ Doc \in Documents /\ Current \in DOMAIN Doc /\ Reads(Doc, Current) \subseteq Done
      /\ Right(Doc, work.result, source, solid)
      /\ \A x \in Done : x \in DOMAIN Doc /\ work.result.status[x] = Statuses(Doc)[x]
  BY CurrentIs
<1>3. tip \in Done /\ tip \in DOMAIN Doc /\ Doc[tip].kind = "feature"
  BY <1>1, <1>2, LinkIsRead
<1>4. Chain(Doc, tip) \subseteq Done
  BY <1>2, <1>3, ChainIsDone DEF Done
<1>5. DOMAIN work.result.shapes \subseteq Done
  BY <1>2 DEF Right, Done
<1>6. ASSUME NEW f \in Chain(Doc, tip), work.result.status[f] = Built
      PROVE  f \in DOMAIN work.result.shapes
  <2>1. Doc[f].kind = "feature"
    BY <1>2, <1>3, ChainSteps
  <2>. QED BY <1>2, <1>4, <1>6, <2>1, HeldIsRight DEF Done
<1>7. \A f \in Chain(Doc, tip) : f \in ComesOut(Doc) <=> work.result.status[f] = Built
  BY <1>2, <1>4 DEF ComesOut
<1>8. Chain(Doc, tip) \cap {f \in DOMAIN work.result.shapes : work.result.status[f] = Built}
        = Chain(Doc, tip) \cap ComesOut(Doc)
  BY <1>6, <1>7
<1>. QED BY <1>1, <1>8

\* A body falls back to the shape of the feature the cold rebuild falls back to.
LEMMA SkipKeepsFaith ==
    ASSUME FaithInv, OwnershipInv', Skip
    PROVE  FaithInv'
<1> DEFINE status == Skipped(RootFailure(work.result.status[Cause.on], Cause.on))
           usable == {f \in DOMAIN work.result.shapes : work.result.status[f] = Built}
           last == IF Doc[Current].kind # "body" THEN None ELSE Fallback(Doc, Current, usable)
           cold == IF Doc[Current].kind = "body" THEN Fallback(Doc, Current, ComesOut(Doc)) ELSE None
           marked == Mark(status)
           n == IF last \notin DOMAIN work.result.shapes THEN marked
                ELSE [marked EXCEPT !.shapes = Put(@, Current, work.result.shapes[last])]
<1>1. /\ Evaluating /\ ~MissingRegion(Doc, Current) /\ Cause # None /\ Cause.role # "parameter"
      /\ With(n) /\ UNCHANGED <<solid, sidecar, source, candidate, accepted, line, change>>
  BY DEF Skip, Unchanged
<1>2. /\ Doc \in Documents /\ Current \in DOMAIN Doc /\ Reads(Doc, Current) \subseteq Done
      /\ Right(Doc, work.result, source, solid) /\ Current \notin Done
      /\ Cause = FirstCause(Doc, Current, Statuses(Doc))
      /\ \A x \in Done : x \in DOMAIN Doc /\ work.result.status[x] = Statuses(Doc)[x]
  BY <1>1, CurrentIs
<1>3. last = cold
  <2>1. Fallback(Doc, Current, usable) = Fallback(Doc, Current, ComesOut(Doc))
    <3>1. Doc[Current].tip # None =>
             Chain(Doc, Doc[Current].tip) \cap usable = Chain(Doc, Doc[Current].tip) \cap ComesOut(Doc)
      BY <1>1, UsableIs
    <3>. QED BY <3>1, FallbackSame
  <2>. QED BY <2>1
<1>4. work.result.status[Cause.on] = Statuses(Doc)[Cause.on]
  BY <1>1, <1>2, CauseIsRead
<1>5. Truth[Doc][Current]
        = [status |-> Skipped(RootFailure(Statuses(Doc)[Cause.on], Cause.on)),
           term |-> IF cold = None THEN <<>> ELSE Terms(Doc)[cold]]
  BY <1>1, <1>2, TruthIs
<1>6. Truth[Doc][Current].status = status
  BY <1>4, <1>5
<1>7. Truth[Doc][Current].term = IF last = None THEN <<>> ELSE Terms(Doc)[last]
  BY <1>3, <1>5
<1>8. status # Built
  BY DEF Skipped, Built
<1>9. last # None => /\ last \in DOMAIN work.result.shapes /\ work.result.status[last] = Built
                     /\ Doc[Current].kind = "body"
  BY <1>2, FallbackIs
<1>10. None \notin DOMAIN work.result.shapes
  BY <1>2, NoneAssumption DEF Right
<1>11. marked = [status |-> Put(work.result.status, Current, status),
                 shapes |-> work.result.shapes, values |-> work.result.values,
                 keys |-> work.result.keys, owned |-> work.result.owned]
  BY MarkKeeps DEF FaithInv
<1>12. \A e \in sidecar' : Trusted(e)
  BY <1>1 DEF FaithInv
<1> HIDE DEF status, usable, marked, cold
<1>13. CASE last = None
  <2>1. n = marked
    BY <1>10, <1>13
  <2>2. Adds(Doc, work.result, n, Current, source, solid')
    BY <1>6, <1>7, <1>8, <1>11, <1>13, <2>1 DEF Adds
  <2>3. n = [status |-> n.status, shapes |-> n.shapes, values |-> n.values,
             keys |-> n.keys, owned |-> n.owned]
    BY <1>11, <2>1
  <2> HIDE DEF n
  <2>. QED BY <1>1, <1>12, <2>2, <2>3, AddKeepsFaith
<1>14. CASE last # None
  <2>1. PICK h : h = work.result.shapes[last]
    OBVIOUS
  <2>2. n = [status |-> Put(work.result.status, Current, status),
             shapes |-> Put(work.result.shapes, Current, h), values |-> work.result.values,
             keys |-> work.result.keys, owned |-> work.result.owned]
    BY <1>9, <1>11, <1>14, <2>1
  <2>3. solid[h] = Terms(Doc)[last]
    <3>1. last \in DOMAIN work.result.status /\ last \in DOMAIN Doc
      BY <1>2, <1>9, <1>14 DEF Right
    <3>2. RightObject(Doc, work.result, solid, last)
      BY <1>2, <3>1 DEF Right
    <3>. QED BY <1>9, <1>14, <2>1, <3>1, <3>2 DEF RightObject, Terms
  <2>4. solid'[h] = Truth[Doc][Current].term
    BY <1>1, <1>7, <1>14, <2>3
  <2> HIDE DEF n, last
  <2>5. Current \in DOMAIN n.shapes
    BY <2>2 DEF Put
  <2>6. Adds(Doc, work.result, n, Current, source, solid')
    BY <1>6, <1>8, <1>9, <1>14, <2>2, <2>4, <2>5 DEF Adds
  <2>7. n = [status |-> n.status, shapes |-> n.shapes, values |-> n.values,
             keys |-> n.keys, owned |-> n.owned]
    BY <2>2
  <2>. QED BY <1>1, <1>12, <2>6, <2>7, AddKeepsFaith
<1>. QED BY <1>13, <1>14

\* What the accepted version has under the same key is what the object is.
LEMMA ReuseKeepsFaith ==
    ASSUME FaithInv, OwnershipInv', Reuse
    PROVE  FaithInv'
<1> DEFINE old == accepted.result
           kept(f, g) == IF Current \in DOMAIN f THEN Put(g, Current, f[Current]) ELSE g
           n == [status |-> Put(work.result.status, Current, Built),
                 shapes |-> kept(old.shapes, work.result.shapes),
                 values |-> kept(old.values, work.result.values),
                 keys |-> Put(work.result.keys, Current, Key),
                 owned |-> work.result.owned]
<1>1. /\ Evaluating /\ Evaluable /\ Reusable /\ With(n)
      /\ UNCHANGED <<solid, sidecar, source, candidate, accepted, line, change>>
  BY DEF Reuse, Unchanged, Out
<1>2. /\ source = "live" /\ accepted # NoVersion
      /\ Current \in DOMAIN old.keys /\ old.keys[Current] = Key /\ Cause = None
  BY <1>1 DEF Reusable, Evaluable
<1>3. accepted.doc \in Documents /\ Right(accepted.doc, old, source, solid)
  BY <1>2 DEF FaithInv, Faithful
<1>4. Keyed
  BY <1>2 DEF Keyed
<1>5. Keying(accepted.doc, old.keys)
  BY <1>3 DEF Right
<1>6. /\ Truth[Doc][Current].status = Built
      /\ Truth[accepted.doc][Current].term = Truth[Doc][Current].term
      /\ accepted.doc[Current].kind = Doc[Current].kind
  BY <1>1, <1>2, <1>3, <1>4, <1>5, KeyMatches
<1>7. KeyIs(Doc, Current, work.result.keys, Key)
  BY <1>1, <1>2, <1>4, KeyIsRight
<1>8. RightObject(accepted.doc, old, solid, Current)
  BY <1>2, <1>3 DEF Right
<1>9. /\ Current \in DOMAIN old.values => accepted.doc[Current].kind \in {"parameter", "datum", "sketch"}
      /\ Current \in DOMAIN old.shapes => accepted.doc[Current].kind \in {"feature", "body"}
  BY <1>3 DEF Right
<1>10. \A e \in sidecar' : Trusted(e)
  BY <1>1 DEF FaithInv
<1> DEFINE values == kept(old.values, work.result.values)
           shapes == kept(old.shapes, work.result.shapes)
<1>11. \/ values = work.result.values
       \/ /\ Doc[Current].kind \in {"parameter", "datum", "sketch"}
          /\ values = Put(work.result.values, Current, Truth[Doc][Current].term)
  BY <1>6, <1>8, <1>9 DEF RightObject
<1>12. \/ shapes = work.result.shapes
       \/ /\ Doc[Current].kind \in {"feature", "body"}
          /\ \E h : solid'[h] = Truth[Doc][Current].term /\ shapes = Put(work.result.shapes, Current, h)
  BY <1>1, <1>6, <1>8, <1>9 DEF RightObject
<1>13. Truth[Doc][Current].term # <<>> => Current \in DOMAIN values \cup DOMAIN shapes
  BY <1>6, <1>8 DEF RightObject, Put
<1>14. Current \in DOMAIN Put(work.result.keys, Current, Key)
  BY DEF Put
<1> HIDE DEF values, shapes
<1>15. /\ n.status = Put(work.result.status, Current, Built) /\ n.values = values
       /\ n.shapes = shapes /\ n.keys = Put(work.result.keys, Current, Key)
  BY DEF values, shapes
<1>16. n = [status |-> n.status, shapes |-> n.shapes, values |-> n.values,
            keys |-> n.keys, owned |-> n.owned]
  OBVIOUS
<1> HIDE DEF n
<1>17. Adds(Doc, work.result, n, Current, source, solid')
  BY <1>6, <1>7, <1>11, <1>12, <1>13, <1>14, <1>15 DEF Adds
<1>. QED BY <1>1, <1>10, <1>16, <1>17, AddKeepsFaith

\* A value, or the shape of its tip for a body, is worked out.
LEMMA EvaluateNodeKeepsFaith ==
    ASSUME FaithInv, OwnershipInv', EvaluateNode
    PROVE  FaithInv'
<1> DEFINE keyed == IF Keyed THEN [Mark(Built) EXCEPT !.keys = Put(@, Current, Key)] ELSE Mark(Built)
           keys == IF Keyed THEN Put(work.result.keys, Current, Key) ELSE work.result.keys
           status == Put(work.result.status, Current, Built)
           term == Meaning(Doc, Current, TermOf)
<1>1. /\ Evaluating /\ Evaluable /\ ~IsFeature /\ Cause = None
      /\ UNCHANGED <<solid, sidecar, source, candidate, accepted, line, change>>
  BY DEF EvaluateNode, Unchanged, Evaluable
<1>2. IF Doc[Current].kind # "body"
      THEN With(IF Refuses(Doc[Current]) THEN Mark(Failed)
                ELSE [keyed EXCEPT !.values = Put(@, Current, term)])
      ELSE With(IF Doc[Current].tip = None THEN keyed
                ELSE IF ~TipShape THEN Mark(Failed)
                ELSE [keyed EXCEPT !.shapes = Put(@, Current, work.result.shapes[Doc[Current].tip])])
  BY DEF EvaluateNode
<1>3. keyed = [status |-> status, shapes |-> work.result.shapes, values |-> work.result.values,
               keys |-> keys, owned |-> work.result.owned]
  BY MarkKeeps DEF FaithInv
<1>4. Keyed => KeyIs(Doc, Current, work.result.keys, Key)
  BY <1>1, KeyIsRight
<1>5. /\ Doc \in Documents /\ Current \in DOMAIN Doc
      /\ Doc[Current].kind \in {"parameter", "datum", "sketch", "body"}
  BY <1>1, CurrentIs, EdgeIs DEF IsFeature
<1>6. \A e \in sidecar' : Trusted(e)
  BY <1>1 DEF FaithInv
<1>7. source = "live" => Keyed
  BY DEF Keyed
<1>8. Current \in DOMAIN Put(work.result.keys, Current, Key)
  BY DEF Put
<1>9. ASSUME Truth[Doc][Current].status = Built
      PROVE  /\ \/ keys = work.result.keys
                \/ \E key : /\ KeyIs(Doc, Current, work.result.keys, key)
                            /\ keys = Put(work.result.keys, Current, key)
             /\ Doc[Current].kind = "feature" \/ source = "live" => Current \in DOMAIN keys
  BY <1>1, <1>4, <1>7, <1>8 DEF IsFeature
<1> HIDE DEF keyed, keys, status, term
<1>10. ASSUME NEW n, With(n),
             n.status = Put(work.result.status, Current, Truth[Doc][Current].status), n.keys = keys,
             n = [status |-> n.status, shapes |-> n.shapes, values |-> n.values,
                  keys |-> n.keys, owned |-> n.owned],
             Truth[Doc][Current].status = Built,
             \/ n.values = work.result.values
             \/ /\ Doc[Current].kind \in {"parameter", "datum", "sketch"}
                /\ n.values = Put(work.result.values, Current, Truth[Doc][Current].term),
             \/ n.shapes = work.result.shapes
             \/ /\ Doc[Current].kind \in {"feature", "body"}
                /\ \E h : /\ solid'[h] = Truth[Doc][Current].term
                         /\ n.shapes = Put(work.result.shapes, Current, h),
             Truth[Doc][Current].term # <<>> => Current \in DOMAIN n.values \cup DOMAIN n.shapes
       PROVE  FaithInv'
  <2>1. Adds(Doc, work.result, n, Current, source, solid')
    BY <1>9, <1>10 DEF Adds
  <2>. QED BY <1>1, <1>6, <1>10, <2>1, AddKeepsFaith
<1>11. /\ Refuses(Doc[Current]) => Truth[Doc][Current] = [status |-> Failed, term |-> <<>>]
       /\ ~Refuses(Doc[Current]) => /\ Truth[Doc][Current].status = Built
                                    /\ Truth[Doc][Current].term = term
  BY <1>1, EvaluableIs DEF term
<1>12. CASE Doc[Current].kind # "body" /\ Refuses(Doc[Current])
  BY <1>1, <1>2, <1>11, <1>12, FailKeepsFaith
<1>13. CASE Doc[Current].kind # "body" /\ ~Refuses(Doc[Current])
  <2> DEFINE n == [status |-> status, shapes |-> work.result.shapes,
                   values |-> Put(work.result.values, Current, term),
                   keys |-> keys, owned |-> work.result.owned]
  <2>1. [keyed EXCEPT !.values = Put(@, Current, term)] = n
    BY <1>3
  <2>2. With(n)
    BY <1>2, <1>13, <2>1
  <2>3. Current \in DOMAIN n.values
    BY DEF Put
  <2>4. n.status = Put(work.result.status, Current, Truth[Doc][Current].status)
    BY <1>11, <1>13 DEF status
  <2>. QED BY <1>5, <1>10, <1>11, <1>13, <2>2, <2>3, <2>4
<1>14. CASE Doc[Current].kind = "body"
  <2>1. ~Refuses(Doc[Current])
    BY <1>14 DEF Refuses
  <2>2. term = IF Doc[Current].tip = None THEN <<>> ELSE TermOf[Doc[Current].tip]
    BY <1>14 DEF term, Meaning
  <2>3. status = Put(work.result.status, Current, Truth[Doc][Current].status)
    BY <1>11, <2>1 DEF status
  <2>4. CASE Doc[Current].tip = None
    <3>1. With(keyed)
      BY <1>2, <1>14, <2>4
    <3>2. PICK n : n = keyed
      OBVIOUS
    <3>3. /\ n.status = status /\ n.keys = keys /\ n.values = work.result.values
          /\ n.shapes = work.result.shapes
          /\ n = [status |-> n.status, shapes |-> n.shapes, values |-> n.values,
                  keys |-> n.keys, owned |-> n.owned]
      BY <1>3, <3>2
    <3>4. Truth[Doc][Current].term = <<>>
      BY <1>11, <2>1, <2>2, <2>4
    <3>. QED BY <1>10, <1>11, <2>1, <2>3, <3>1, <3>2, <3>3, <3>4
  <2>5. CASE Doc[Current].tip # None
    <3>1. PICK tip : tip = Doc[Current].tip
      OBVIOUS
    <3>2. tip \in Reads(Doc, Current) /\ Doc[tip].kind = "feature"
      BY <1>5, <2>5, <3>1, LinkIsRead
    <3>3. tip \in DOMAIN work.result.shapes /\ solid[work.result.shapes[tip]] = TermOf[tip]
      BY <1>1, <3>2, InputsAreRight
    <3>4. PICK h : h = work.result.shapes[tip]
      OBVIOUS
    <3>5. With([keyed EXCEPT !.shapes = Put(@, Current, h)])
      BY <1>2, <1>14, <2>5, <3>1, <3>3, <3>4 DEF TipShape
    <3> DEFINE n == [status |-> status, shapes |-> Put(work.result.shapes, Current, h),
                     values |-> work.result.values, keys |-> keys, owned |-> work.result.owned]
    <3>6. [keyed EXCEPT !.shapes = Put(@, Current, h)] = n
      BY <1>3
    <3>7. With(n)
      BY <3>5, <3>6
    <3>8. Current \in DOMAIN n.shapes
      BY DEF Put
    <3>9. solid'[h] = Truth[Doc][Current].term
      BY <1>1, <1>11, <2>1, <2>2, <2>5, <3>1, <3>3, <3>4
    <3>. QED BY <1>10, <1>11, <1>14, <2>1, <2>3, <3>7, <3>8, <3>9
  <2>. QED BY <2>4, <2>5
<1>. QED BY <1>12, <1>13, <1>14

\* A feature gets its new shape, of the geometry the cold rebuild gives it.
LEMMA PublishKeepsFaith ==
    ASSUME FaithInv, OwnershipInv', Evaluating, Evaluable, IsFeature,
           Truth[Doc][Current].status = Built,
           NEW shape, NEW made, NEW term, Publish(shape, made, term),
           shape \in made, made \cap alive = {}, term = Truth[Doc][Current].term,
           UNCHANGED <<source, candidate, accepted, line, change>>,
           \A e \in sidecar' : Trusted(e)
    PROVE  FaithInv'
<1> DEFINE kept == IF source = "live" THEN made \cap {shape} ELSE made
           n == [status |-> Put(work.result.status, Current, Built),
                 shapes |-> Put(work.result.shapes, Current, shape),
                 values |-> work.result.values,
                 keys |-> Put(work.result.keys, Current, Key),
                 owned |-> work.result.owned \cup kept]
<1>1. /\ With(n)
      /\ solid' = [h \in alive \cup kept |-> IF h \in alive THEN solid[h]
                                             ELSE IF h = shape THEN term ELSE <<>>]
  BY DEF Publish, Out
<1>2. shape \in kept /\ shape \notin alive
  OBVIOUS
<1> HIDE DEF kept
<1>3. solid'[shape] = term /\ \A h \in alive : solid'[h] = solid[h]
  BY <1>1, <1>2
<1>4. KeyIs(Doc, Current, work.result.keys, Key)
  BY KeyIsRight DEF Evaluable, Keyed
<1>5. /\ n.status = Put(work.result.status, Current, Built) /\ n.values = work.result.values
      /\ n.shapes = Put(work.result.shapes, Current, shape)
      /\ n.keys = Put(work.result.keys, Current, Key)
      /\ n = [status |-> n.status, shapes |-> n.shapes, values |-> n.values,
              keys |-> n.keys, owned |-> n.owned]
  OBVIOUS
<1> HIDE DEF n
<1>6. Current \in DOMAIN n.shapes /\ Current \in DOMAIN n.keys
  BY <1>5 DEF Put
<1>7. Doc[Current].kind = "feature"
  BY DEF IsFeature
<1>8. Adds(Doc, work.result, n, Current, source, solid')
  BY <1>3, <1>4, <1>5, <1>6, <1>7 DEF Adds
<1>. QED BY <1>1, <1>3, <1>5, <1>8, AddKeepsFaith

\* The kernel builds a feature that is not refused, and what is stored of it is
\* what its version makes of it.
LEMMA BuildKeepsFaith ==
    ASSUME FaithInv, OwnershipInv', BuildFeature
    PROVE  FaithInv'
<1> DEFINE tool == NewShape(Mentioned)
           result == NewShape(Mentioned \cup {tool})
           term == Meaning(Doc, Current, TermOf)
           entry == [producer |-> Current, key |-> Key, solid |-> term, intact |-> TRUE]
<1>1. /\ Evaluating /\ Evaluable /\ IsFeature
      /\ UNCHANGED <<source, candidate, accepted, line, change>>
  BY DEF BuildFeature, Unchanged
<1>2. CASE Refuses(Doc[Current])
  <2>1. With(Mark(Failed)) /\ UNCHANGED <<solid, sidecar>>
    BY <1>2 DEF BuildFeature
  <2>2. Truth[Doc][Current] = [status |-> Failed, term |-> <<>>]
    BY <1>1, <1>2, EvaluableIs
  <2>. QED BY <1>1, <2>1, <2>2, FailKeepsFaith
<1>3. CASE ~Refuses(Doc[Current])
  <2>1. /\ HasRoom(Mentioned)
        /\ \/ Publish(tool, {tool}, term)
           \/ HasRoom(Mentioned \cup {tool}) /\ Publish(result, {tool, result}, term)
        /\ \/ sidecar' = (sidecar \ Entry(Current, Key)) \cup {entry}
           \/ UNCHANGED sidecar
    BY <1>3 DEF BuildFeature
  <2>2. Truth[Doc][Current].status = Built /\ term = Truth[Doc][Current].term
    BY <1>1, <1>3, EvaluableIs
  <2>3. /\ Doc \in Documents /\ Current \in DOMAIN Doc /\ Current \notin Done
        /\ Right(Doc, work.result, source, solid)
    BY <1>1, CurrentIs
  <2>4. Trusted(entry)
    <3> DEFINE keys == Put(work.result.keys, Current, Key)
    <3>1. KeyIs(Doc, Current, work.result.keys, Key)
      BY <1>1, KeyIsRight DEF Evaluable, Keyed
    <3>2. Current \notin DOMAIN work.result.keys /\ Keying(Doc, work.result.keys)
      BY <2>3 DEF Right, Done
    <3>3. Keying(Doc, keys)
      BY <2>2, <2>3, <3>1, <3>2, KeyingGrows
    <3>4. Current \in DOMAIN keys /\ keys[Current] = Key
      BY DEF Put
    <3>5. entry.producer = Current /\ entry.key = Key /\ entry.solid = term
      OBVIOUS
    <3> HIDE DEF keys, entry
    <3>. QED BY <2>2, <2>3, <3>3, <3>4, <3>5 DEF Trusted
  <2>5. \A e \in sidecar' : Trusted(e)
    <3> HIDE DEF entry
    <3>. QED BY <2>1, <2>4 DEF FaithInv
  <2>6. tool \notin alive
    BY <2>1, NewShapeIsNew DEF Mentioned
  <2> HIDE DEF term, tool
  <2>7. CASE Publish(tool, {tool}, term)
    BY <1>1, <2>2, <2>5, <2>6, <2>7, PublishKeepsFaith
  <2>8. CASE HasRoom(Mentioned \cup {tool}) /\ Publish(result, {tool, result}, term)
    <3>1. result \notin alive
      BY <2>8, NewShapeIsNew DEF Mentioned
    <3> HIDE DEF result
    <3>. QED BY <1>1, <2>2, <2>5, <2>6, <2>8, <3>1, PublishKeepsFaith
  <2>. QED BY <2>1, <2>7, <2>8
<1>. QED BY <1>2, <1>3

\* What is restored under a key is what the object is, whoever stored it.
LEMMA RestoreKeepsFaith ==
    ASSUME FaithInv, OwnershipInv', Restore
    PROVE  FaithInv'
<1> DEFINE new == NewShape(Mentioned)
<1>1. /\ Evaluating /\ Evaluable /\ IsFeature /\ Keyed /\ HasRoom(Mentioned)
      /\ UNCHANGED <<source, candidate, accepted, line, change, sidecar>>
  BY DEF Restore, Unchanged, Restorable, Keyed
<1>2. PICK e \in Entry(Current, Key) : Publish(new, {new}, e.solid)
  BY DEF Restore
<1>3. e \in sidecar /\ e.producer = Current /\ e.key = Key
  BY DEF Entry
<1>4. PICK d : /\ d \in Documents
               /\ \E j : /\ Keying(d, j) /\ Current \in DOMAIN j /\ j[Current] = Key
                         /\ e.solid = Truth[d][Current].term
  BY <1>3 DEF FaithInv, Trusted
<1>5. /\ Truth[Doc][Current].status = Built
      /\ Truth[d][Current].term = Truth[Doc][Current].term
  BY <1>1, <1>4, KeyMatches
<1>6. new \notin alive
  BY <1>1, NewShapeIsNew DEF Mentioned
<1>7. \A x \in sidecar' : Trusted(x)
  BY <1>1 DEF FaithInv
<1>8. e.solid = Truth[Doc][Current].term
  BY <1>4, <1>5
<1> HIDE DEF new
<1>. QED BY <1>1, <1>2, <1>5, <1>6, <1>7, <1>8, PublishKeepsFaith

\* Evaluating one object keeps the faith.
LEMMA EvaluateKeepsFaith ==
    ASSUME FaithInv, OwnershipInv', Evaluate
    PROVE  FaithInv'
BY FailsEarlyKeepsFaith, SkipKeepsFaith, ReuseKeepsFaith, EvaluateNodeKeepsFaith,
   BuildKeepsFaith, RestoreKeepsFaith DEF Evaluate

\* Shapes are released: the versions that stay refer to none of them.
LEMMA ReleaseKeepsFaith ==
    ASSUME FaithInv, OwnershipInv', NEW handles, Release(handles), UNCHANGED source,
           NEW v, Faithful(v, source, solid), Borrowed(v) \subseteq alive'
    PROVE  Faithful(v, source', solid')
<1>1. alive' = alive \ handles /\ solid' = [h \in alive \ handles |-> solid[h]]
  BY DEF Release
<1>2. \A h \in Borrowed(v) : solid'[h] = solid[h]
  BY <1>1
<1>. QED BY <1>2, FaithMoves

\* What is referred to after a step is alive.
LEMMA BorrowedIsAlive ==
    ASSUME OwnershipInv
    PROVE  Borrowed(work) \subseteq alive /\ Borrowed(candidate) \subseteq alive
           /\ Borrowed(accepted) \subseteq alive
BY DEF OwnershipInv

\* A version that has nothing yet.
LEMMA EmptyIsRight ==
    ASSUME NEW doc \in Documents, NEW how, NEW geometry
    PROVE  Right(doc, EmptyResult, how, geometry)
BY DEF Right, EmptyResult, EmptyMap, Keying

\* An evaluation begins, of a version of the session or of a new one.
LEMMA BeginKeepsFaith ==
    ASSUME FaithInv, OwnershipInv', NEW doc \in Documents, NEW base, NEW what, Begin(doc, base, what),
           what \in {"open", "edit", "undo", "redo", "cached"},
           what = "undo" => line.past # <<>>, what = "redo" => line.future # <<>>
    PROVE  FaithInv'
<1>1. /\ work = NoVersion /\ candidate = NoVersion /\ change' = what
      /\ work' = [doc |-> doc, base |-> base, result |-> EmptyResult]
      /\ UNCHANGED <<solid, source, candidate, accepted, line, sidecar>>
  BY DEF Begin, Idle
<1>2. Faithful(work', source, solid)
  <2>1. work'.doc = doc /\ work'.result = EmptyResult
    BY <1>1
  <2>. QED BY <2>1, EmptyIsRight DEF Faithful
<1>3. None \notin {"open", "edit", "undo", "redo", "cached"}
  BY NoneAssumption
<1>4. LineInv'
  BY <1>1, <1>3 DEF FaithInv, LineInv
<1>5. Faithful(candidate', source', solid') /\ Faithful(accepted', source', solid')
  BY <1>1 DEF FaithInv
<1>6. \A e \in sidecar' : Trusted(e)
  BY <1>1 DEF FaithInv
<1>. QED BY <1>1, <1>2, <1>4, <1>5, <1>6 DEF FaithInv

\* It ends without a result.
LEMMA AbandonKeepsFaith ==
    ASSUME FaithInv, OwnershipInv', work # NoVersion, Abandon
    PROVE  FaithInv'
<1>1. /\ work' = NoVersion /\ change' = None /\ candidate = NoVersion
      /\ Release(Owned(work)) /\ UNCHANGED <<source, candidate, accepted, line, sidecar>>
  BY DEF Abandon, FaithInv, OwnershipInv
<1>2. Borrowed(accepted) \subseteq alive'
  BY <1>1 DEF OwnershipInv
<1>3. Faithful(accepted, source', solid')
  BY <1>1, <1>2, ReleaseKeepsFaith DEF FaithInv
<1>4. Faithful(work', source', solid') /\ Faithful(candidate', source', solid')
  BY <1>1 DEF Faithful
<1>5. LineInv'
  BY <1>1, NoneAssumption DEF FaithInv, LineInv
<1>6. \A e \in sidecar' : Trusted(e)
  BY <1>1 DEF FaithInv
<1>. QED BY <1>1, <1>3, <1>4, <1>5, <1>6 DEF FaithInv

LEMMA PrepareKeepsFaith ==
    ASSUME FaithInv, OwnershipInv', Prepare
    PROVE  FaithInv'
<1>1. /\ work # NoVersion /\ change # "cached" /\ candidate' = work /\ work' = NoVersion
      /\ UNCHANGED <<solid, source, accepted, line, change, sidecar>>
  BY DEF Prepare, Complete
<1>2. Faithful(candidate', source', solid') /\ Faithful(accepted', source', solid')
  BY <1>1 DEF FaithInv
<1>3. Faithful(work', source', solid')
  BY <1>1 DEF Faithful
<1>4. LineInv'
  BY <1>1 DEF FaithInv, LineInv
<1>5. \A e \in sidecar' : Trusted(e)
  BY <1>1 DEF FaithInv
<1>. QED BY <1>2, <1>3, <1>4, <1>5 DEF FaithInv

LEMMA DiscardKeepsFaith ==
    ASSUME FaithInv, OwnershipInv', Discard
    PROVE  FaithInv'
<1>1. /\ candidate # NoVersion /\ candidate' = NoVersion /\ change' = None /\ work = NoVersion
      /\ Release(Owned(candidate)) /\ UNCHANGED <<source, work, accepted, line, sidecar>>
  BY DEF Discard, FaithInv, OwnershipInv
<1>2. Borrowed(accepted) \subseteq alive'
  BY <1>1 DEF OwnershipInv
<1>3. Faithful(accepted, source', solid')
  BY <1>1, <1>2, ReleaseKeepsFaith DEF FaithInv
<1>4. Faithful(work', source', solid') /\ Faithful(candidate', source', solid')
  BY <1>1 DEF Faithful
<1>5. LineInv'
  BY <1>1, NoneAssumption DEF FaithInv, LineInv
<1>6. \A e \in sidecar' : Trusted(e)
  BY <1>1 DEF FaithInv
<1>. QED BY <1>1, <1>3, <1>4, <1>5, <1>6 DEF FaithInv

\* The session stays a list of versions.
LEMMA MovedIsLine ==
    ASSUME LineInv, candidate # NoVersion, candidate.doc \in Documents
    PROVE  /\ Moved = [past |-> Moved.past, current |-> Moved.current, future |-> Moved.future]
           /\ Moved.past \in Seq(Documents) /\ Moved.future \in Seq(Documents)
           /\ Moved.current \in Documents
           /\ change # "open" => Moved.current = candidate.doc
           /\ change = "open" => Moved = line
<1>1. /\ line.past \in Seq(Documents) /\ line.current \in Documents /\ line.future \in Seq(Documents)
      /\ change \in {"open", "edit", "undo", "redo"}
      /\ line = [past |-> line.past, current |-> line.current, future |-> line.future]
  BY DEF LineInv
<1>2. CASE change = "open"
  BY <1>1, <1>2 DEF Moved
<1>3. CASE change = "edit"
  <2>1. Append(line.past, line.current) \in Seq(Documents) /\ Append(line.past, line.current) # <<>>
    BY <1>1
  <2>2. Newest(Append(line.past, line.current)) \in Seq(Documents)
    BY <2>1 DEF Newest
  <2>3. Moved = [past |-> Newest(Append(line.past, line.current)), current |-> candidate.doc,
                 future |-> <<>>]
    BY <1>3 DEF Moved
  <2>4. <<>> \in Seq(Documents)
    OBVIOUS
  <2>. QED BY <1>3, <2>2, <2>3, <2>4
<1>4. CASE change = "undo"
  <2>1. line.past # <<>>
    BY <1>4 DEF LineInv
  <2>2. SubSeq(line.past, 1, Len(line.past) - 1) \in Seq(Documents)
    BY <1>1, <2>1
  <2>3. <<line.current>> \o line.future \in Seq(Documents)
    BY <1>1
  <2>4. Moved = [past |-> SubSeq(line.past, 1, Len(line.past) - 1), current |-> candidate.doc,
                 future |-> <<line.current>> \o line.future]
    BY <1>4 DEF Moved
  <2>. QED BY <1>4, <2>2, <2>3, <2>4
<1>5. CASE change = "redo"
  <2>1. line.future # <<>>
    BY <1>5 DEF LineInv
  <2>2. Tail(line.future) \in Seq(Documents) /\ Append(line.past, line.current) \in Seq(Documents)
    BY <1>1, <2>1
  <2>3. Moved = [past |-> Append(line.past, line.current), current |-> candidate.doc,
                 future |-> Tail(line.future)]
    BY <1>5 DEF Moved
  <2>. QED BY <1>5, <2>2, <2>3
<1>. QED BY <1>1, <1>2, <1>3, <1>4, <1>5

\* The candidate is what the accepted version becomes.
LEMMA AcceptedIs ==
    ASSUME OwnershipInv, Commit
    PROVE  accepted' = [doc |-> candidate.doc, base |-> candidate.base,
                        result |-> [status |-> candidate.result.status,
                                    shapes |-> candidate.result.shapes,
                                    values |-> candidate.result.values,
                                    keys |-> candidate.result.keys,
                                    owned |-> candidate.result.owned \cup Survivors]]
BY DEF OwnershipInv, IsVersion, Commit

LEMMA CommitKeepsFaith ==
    ASSUME FaithInv, OwnershipInv', Commit
    PROVE  FaithInv'
<1>1. /\ candidate # NoVersion /\ candidate' = NoVersion /\ work' = work /\ work = NoVersion
      /\ change' = None /\ line' = Moved /\ UNCHANGED <<source, sidecar>>
      /\ Release(Owned(accepted) \ Survivors)
  BY DEF Commit, FaithInv, OwnershipInv
<1>2. PICK owned : accepted' = [doc |-> candidate.doc, base |-> candidate.base,
                                result |-> [status |-> candidate.result.status,
                                            shapes |-> candidate.result.shapes,
                                            values |-> candidate.result.values,
                                            keys |-> candidate.result.keys,
                                            owned |-> owned]]
  BY AcceptedIs DEF FaithInv
<1>3. /\ accepted'.doc = candidate.doc /\ accepted'.result.status = candidate.result.status
      /\ accepted'.result.shapes = candidate.result.shapes
      /\ accepted'.result.values = candidate.result.values
      /\ accepted'.result.keys = candidate.result.keys
  BY <1>2
<1>4. Borrowed(candidate) \subseteq alive'
  <2>1. Borrowed(accepted') = Borrowed(candidate)
    BY <1>3 DEF Borrowed
  <2>. QED BY <2>1, BorrowedIsAlive DEF OwnershipInv
<1>5. Faithful(candidate, source', solid')
  BY <1>1, <1>4, ReleaseKeepsFaith DEF FaithInv
<1>6. candidate.doc \in Documents /\ Right(candidate.doc, candidate.result, source', solid')
  BY <1>1, <1>5 DEF Faithful
<1>7. Faithful(accepted', source', solid')
  BY <1>3, <1>6 DEF Faithful, Right, RightObject
<1>8. LineInv'
  <2>1. /\ Moved = [past |-> Moved.past, current |-> Moved.current, future |-> Moved.future]
        /\ Moved.past \in Seq(Documents) /\ Moved.future \in Seq(Documents)
        /\ Moved.current \in Documents
    BY <1>1, <1>6, MovedIsLine DEF FaithInv
  <2>. QED BY <1>1, <2>1, NoneAssumption DEF LineInv
<1>9. Faithful(work', source', solid') /\ Faithful(candidate', source', solid')
  BY <1>1 DEF Faithful
<1>10. \A e \in sidecar' : Trusted(e)
  BY <1>1 DEF FaithInv
<1>. QED BY <1>7, <1>8, <1>9, <1>10 DEF FaithInv

LEMMA DropKeepsFaith ==
    ASSUME FaithInv, OwnershipInv', Drop
    PROVE  FaithInv'
<1>1. /\ work = NoVersion /\ candidate = NoVersion /\ accepted' = NoVersion
      /\ line' = [line EXCEPT !.past = <<>>, !.future = <<>>]
      /\ UNCHANGED <<source, work, candidate, change, sidecar>>
      /\ change = None
  BY DEF Drop, Idle
<1>2. line' = [past |-> <<>>, current |-> line.current, future |-> <<>>]
  BY <1>1 DEF FaithInv, LineInv
<1>3. LineInv'
  <2>1. /\ line'.past = <<>> /\ line'.current = line.current /\ line'.future = <<>>
        /\ line' = [past |-> line'.past, current |-> line'.current, future |-> line'.future]
    BY <1>2
  <2>2. line.current \in Documents /\ <<>> \in Seq(Documents)
    BY DEF FaithInv, LineInv
  <2>3. change' = None /\ None \notin {"open", "edit", "undo", "redo", "cached"}
        /\ candidate' = NoVersion /\ work' = NoVersion
    BY <1>1, NoneAssumption
  <2>. QED BY <2>1, <2>2, <2>3 DEF LineInv
<1>4. /\ Faithful(work', source', solid') /\ Faithful(candidate', source', solid')
      /\ Faithful(accepted', source', solid')
  BY <1>1 DEF Faithful
<1>5. \A e \in sidecar' : Trusted(e)
  BY <1>1 DEF FaithInv
<1>. QED BY <1>3, <1>4, <1>5 DEF FaithInv

\* Entries that are lost, or damaged, are no less right for it.
LEMMA DamageKeepsFaith ==
    ASSUME FaithInv, OwnershipInv', Damage
    PROVE  FaithInv'
<1>1. UNCHANGED <<solid, source, work, candidate, accepted, line, change>>
  BY DEF Damage
<1>2. ASSUME NEW x, Trusted(x)
      PROVE  Trusted([x EXCEPT !.intact = FALSE])
  <2>1. PICK y : y = [x EXCEPT !.intact = FALSE]
    OBVIOUS
  <2>2. y.producer = x.producer /\ y.key = x.key /\ y.solid = x.solid
    BY <2>1
  <2>. QED BY <1>2, <2>1, <2>2 DEF Trusted
<1>3. PICK blob \in SUBSET sidecar :
         \/ sidecar' = sidecar \ blob
         \/ sidecar' = (sidecar \ blob) \cup {[x EXCEPT !.intact = FALSE] : x \in blob}
  BY DEF Damage
<1>4. \A e \in sidecar' : Trusted(e)
  BY <1>2, <1>3 DEF FaithInv
<1>5. LineInv'
  BY <1>1 DEF FaithInv, LineInv
<1>. QED BY <1>1, <1>4, <1>5 DEF FaithInv

\* Nothing FaithInv is about changes.
LEMMA UntouchedKeepsFaith ==
    ASSUME FaithInv, OwnershipInv',
           UNCHANGED <<solid, source, work, candidate, accepted, line, change, sidecar>>
    PROVE  FaithInv'
<1>1. LineInv'
  BY DEF FaithInv, LineInv
<1>. QED BY <1>1 DEF FaithInv

\* One step keeps the faith.
LEMMA StepKeepsFaith ==
    ASSUME FaithInv, OwnershipInv', [Next]_vars
    PROVE  FaithInv'
<1>1. /\ line.current \in Documents
      /\ line.past # <<>> => line.past[Len(line.past)] \in Documents
      /\ line.future # <<>> => line.future[1] \in Documents
  <2>1. line.past \in Seq(Documents) /\ line.current \in Documents /\ line.future \in Seq(Documents)
    BY DEF FaithInv, LineInv
  <2>. QED BY <2>1
<1>2. CASE Open
  BY <1>1, <1>2, BeginKeepsFaith DEF Open
<1>3. CASE Undo
  BY <1>1, <1>3, BeginKeepsFaith DEF Undo
<1>4. CASE Redo
  BY <1>1, <1>4, BeginKeepsFaith DEF Redo
<1>5. ASSUME NEW doc \in Documents, Edit(doc) \/ Cached(doc) PROVE FaithInv'
  BY <1>5, BeginKeepsFaith DEF Edit, Cached
<1>6. CASE Evaluate
  BY <1>6, EvaluateKeepsFaith
<1>7. CASE Cancel
  BY <1>7, AbandonKeepsFaith DEF Cancel
<1>8. CASE RefuseNewFailures
  BY <1>8, AbandonKeepsFaith DEF RefuseNewFailures, Complete
<1>9. CASE CachedDone
  BY <1>9, AbandonKeepsFaith DEF CachedDone, Complete
<1>10. CASE Prepare
  BY <1>10, PrepareKeepsFaith
<1>11. CASE Draw
  BY <1>11, UntouchedKeepsFaith DEF Draw
<1>12. CASE Discard
  BY <1>12, DiscardKeepsFaith
<1>13. CASE Commit
  BY <1>13, CommitKeepsFaith
<1>14. CASE Drop
  BY <1>14, DropKeepsFaith
<1>15. CASE Damage
  BY <1>15, DamageKeepsFaith
<1>16. CASE UNCHANGED vars
  BY <1>16, UntouchedKeepsFaith DEF vars
<1>. QED BY <1>2, <1>3, <1>4, <1>5, <1>6, <1>7, <1>8, <1>9, <1>10, <1>11, <1>12, <1>13, <1>14,
            <1>15, <1>16 DEF Next

\* Nothing is evaluated, borrowed or stored at first.
LEMMA InitIsFaithful == Init => FaithInv
<1> SUFFICES ASSUME Init PROVE FaithInv
  OBVIOUS
<1>1. OwnershipInv
  BY NothingOwned DEF Init, OwnershipInv
<1>2. PICK doc \in Documents : line = [past |-> <<>>, current |-> doc, future |-> <<>>]
  BY DEF Init
<1>3. <<>> \in Seq(Documents)
  OBVIOUS
<1>4. LineInv
  BY <1>2, <1>3, NoneAssumption DEF LineInv, Init
<1>5. Faithful(work, source, solid) /\ Faithful(candidate, source, solid)
      /\ Faithful(accepted, source, solid) /\ sidecar = {}
  BY DEF Init, Faithful
<1>. QED BY <1>1, <1>4, <1>5 DEF FaithInv

\* In every reachable state what is held of any object, borrowed, restored or
\* built, has the status and the geometry a rebuild from nothing would give it.
THEOREM HeldIsCold == Spec => []AgreesWithCold
<1>1. Init => FaithInv
  BY InitIsFaithful
<1>2. FaithInv /\ [Next]_vars => FaithInv'
  <2> SUFFICES ASSUME FaithInv, [Next]_vars PROVE FaithInv'
    OBVIOUS
  <2>1. OwnershipInv'
    BY OwnershipIsKept DEF FaithInv
  <2>. QED BY <2>1, StepKeepsFaith
<1>3. FaithInv => AgreesWithCold
  BY FaithSuffices
<1>. QED BY <1>1, <1>2, <1>3, PTL DEF Spec

---------------------------------------------------------------------------
(* The picture and the session                                             *)

\* The meshes of a version: one for each body with a shape, of its geometry, and
\* known, if at all, by the key the body has in it.
Drawn(meshes, v) ==
    /\ DOMAIN meshes = {b \in DOMAIN v.doc : v.doc[b].kind = "body" /\ b \in DOMAIN v.result.shapes}
    /\ \A b \in DOMAIN meshes :
          /\ meshes[b].body = b /\ meshes[b].solid = Truth[v.doc][b].term
          /\ meshes[b].key # None =>
                b \in DOMAIN v.result.keys /\ meshes[b].key = v.result.keys[b]

\* The strengthening: what is prepared or accepted is complete, a drawing is of
\* the candidate and the picture of the accepted version, which is the session's,
\* and an edit is measured against what is unbuilt in that version.
PictureInv ==
    /\ candidate # NoVersion => DOMAIN candidate.result.status = DOMAIN candidate.doc
    /\ accepted # NoVersion => DOMAIN accepted.result.status = DOMAIN accepted.doc
    /\ drawing # None => candidate # NoVersion /\ Drawn(drawing, candidate)
    /\ picture # None =>
          /\ accepted # NoVersion /\ picture.doc = accepted.doc /\ accepted.doc = line.current
          /\ Drawn(picture.meshes, accepted)
          /\ picture.unbuilt = Missing(accepted.result.status)
    /\ change = "open" => /\ work # NoVersion => work.doc = line.current
                          /\ candidate # NoVersion => candidate.doc = line.current
    /\ change = "edit" =>
          /\ work # NoVersion => picture # None /\ work.base = picture.unbuilt
          /\ candidate # NoVersion =>
                Missing(candidate.result.status) \subseteq Missing(accepted.result.status)

\* With what FaithInv says of the accepted version this is what the runs check.
LEMMA PictureSuffices == FaithInv /\ PictureInv => PictureIsCurrent
<1> SUFFICES ASSUME FaithInv, PictureInv, picture # None PROVE PictureIsCurrent
  BY DEF PictureIsCurrent
<1>1. /\ accepted # NoVersion /\ picture.doc = accepted.doc /\ accepted.doc = line.current
      /\ Drawn(picture.meshes, accepted) /\ DOMAIN accepted.result.status = DOMAIN accepted.doc
  BY DEF PictureInv
<1>2. Right(accepted.doc, accepted.result, source, solid)
  BY <1>1 DEF FaithInv, Faithful
<1>3. ASSUME NEW b \in DOMAIN line.current, line.current[b].kind = "body",
             Truth[line.current][b].term # <<>>
      PROVE  b \in DOMAIN picture.meshes
  <2>1. b \in DOMAIN accepted.result.values \cup DOMAIN accepted.result.shapes
    BY <1>1, <1>2, <1>3 DEF Right, RightObject
  <2>2. b \notin DOMAIN accepted.result.values
    BY <1>1, <1>2, <1>3 DEF Right
  <2>. QED BY <1>1, <1>3, <2>1, <2>2 DEF Drawn
<1>. QED BY <1>1, <1>3 DEF PictureIsCurrent, Drawn

\* A body is drawn with its own geometry, even if its mesh is that of the
\* accepted picture.
LEMMA MeshIsRight ==
    ASSUME FaithInv, PictureInv, candidate # NoVersion,
           NEW o \in DOMAIN candidate.doc, candidate.doc[o].kind = "body",
           o \in DOMAIN candidate.result.shapes
    PROVE  /\ Mesh(o).body = o /\ Mesh(o).solid = Truth[candidate.doc][o].term
           /\ Mesh(o).key # None =>
                 o \in DOMAIN candidate.result.keys /\ Mesh(o).key = candidate.result.keys[o]
<1>1. candidate.doc \in Documents /\ Right(candidate.doc, candidate.result, source, solid)
  BY DEF FaithInv, Faithful
<1>2. CASE Lookup(o) # {}
  <2>1. PICK m : m = CHOOSE x \in Lookup(o) : TRUE
    OBVIOUS
  <2>2. m \in Lookup(o) /\ Mesh(o) = m
    BY <1>2, <2>1 DEF Mesh
  <2>3. /\ picture # None /\ m \in {picture.meshes[b] : b \in DOMAIN picture.meshes}
        /\ m.body = o /\ m.key # None /\ o \in DOMAIN candidate.result.keys
        /\ m.key = candidate.result.keys[o]
    BY <2>2 DEF Lookup
  <2>4. accepted # NoVersion /\ Drawn(picture.meshes, accepted)
    BY <2>3 DEF PictureInv
  <2>5. accepted.doc \in Documents /\ Right(accepted.doc, accepted.result, source, solid)
    BY <2>4 DEF FaithInv, Faithful
  <2>6. PICK b \in DOMAIN picture.meshes : m = picture.meshes[b]
    BY <2>3
  <2>7. /\ b = o /\ m.solid = Truth[accepted.doc][o].term
        /\ o \in DOMAIN accepted.result.keys /\ m.key = accepted.result.keys[o]
    BY <2>3, <2>4, <2>6 DEF Drawn
  <2>8. Keying(candidate.doc, candidate.result.keys) /\ Keying(accepted.doc, accepted.result.keys)
    BY <1>1, <2>5 DEF Right
  <2>9. MakeTheSame(candidate.doc, accepted.doc, o)
    BY <1>1, <2>3, <2>5, <2>7, <2>8, KeyDetermines
  <2>. QED BY <2>2, <2>3, <2>7, <2>9 DEF MakeTheSame
<1>3. CASE Lookup(o) = {}
  <2>1. Mesh(o) = [body |-> o,
                   key |-> IF o \in DOMAIN candidate.result.keys THEN candidate.result.keys[o] ELSE None,
                   solid |-> solid[candidate.result.shapes[o]]]
    BY <1>3 DEF Mesh
  <2>2. RightObject(candidate.doc, candidate.result, solid, o)
    BY <1>1 DEF Right
  <2>3. solid[candidate.result.shapes[o]] = Truth[candidate.doc][o].term
    BY <2>2 DEF RightObject
  <2>. QED BY <2>1, <2>3
<1>. QED BY <1>2, <1>3

LEMMA DrawKeepsPicture ==
    ASSUME FaithInv, PictureInv, Draw
    PROVE  PictureInv'
<1>1. /\ candidate # NoVersion
      /\ drawing' = [o \in {b \in DOMAIN candidate.doc :
                              candidate.doc[b].kind = "body" /\ b \in DOMAIN candidate.result.shapes}
                     |-> Mesh(o)]
      /\ UNCHANGED <<work, candidate, accepted, picture, line, change>>
  BY DEF Draw
<1>2. PICK meshes : meshes = drawing'
  OBVIOUS
<1>3. Drawn(meshes, candidate)
  BY <1>1, <1>2, MeshIsRight DEF Drawn
<1>4. Drawn(drawing', candidate')
  BY <1>1, <1>2, <1>3
<1>. QED BY <1>1, <1>4 DEF PictureInv

LEMMA BeginKeepsPicture ==
    ASSUME FaithInv, PictureInv, NEW doc, NEW base, NEW what, Begin(doc, base, what),
           what = "open" => doc = line.current,
           what = "edit" => picture # None /\ base = picture.unbuilt
    PROVE  PictureInv'
<1>1. /\ candidate = NoVersion /\ change' = what /\ work'.doc = doc /\ work'.base = base
      /\ UNCHANGED <<candidate, accepted, drawing, picture, line>>
  BY DEF Begin, Idle
<1>. QED BY <1>1 DEF PictureInv

LEMMA EvaluateKeepsPicture ==
    ASSUME FaithInv, PictureInv, Evaluate
    PROVE  PictureInv'
<1>1. PICK result : work # NoVersion /\ With(result)
  BY DEF Evaluate, FailsEarly, Skip, Reuse, EvaluateNode, BuildFeature, Restore, Evaluating, Publish
<1>2. work'.doc = work.doc /\ work'.base = work.base
  BY <1>1 DEF With, FaithInv, OwnershipInv, IsVersion
<1>3. UNCHANGED <<candidate, accepted, drawing, picture, line, change>>
  BY DEF Evaluate, FailsEarly, Skip, Reuse, EvaluateNode, BuildFeature, Restore, Unchanged
<1>. QED BY <1>1, <1>2, <1>3 DEF PictureInv

LEMMA AbandonKeepsPicture ==
    ASSUME FaithInv, PictureInv, work # NoVersion, Abandon
    PROVE  PictureInv'
<1>1. /\ change' = None /\ candidate = NoVersion
      /\ UNCHANGED <<candidate, accepted, drawing, picture, line>>
  BY DEF Abandon, FaithInv, OwnershipInv
<1>. QED BY <1>1, NoneAssumption DEF PictureInv

\* An edit that adds a failure does not become the candidate.
LEMMA PrepareKeepsPicture ==
    ASSUME FaithInv, PictureInv, Prepare
    PROVE  PictureInv'
<1>1. /\ work # NoVersion /\ candidate = NoVersion /\ DOMAIN work.result.status = DOMAIN work.doc
      /\ candidate' = work /\ work' = NoVersion
      /\ work.base # None => Introduced = {}
      /\ UNCHANGED <<accepted, picture, line, change>> /\ drawing' = drawing
  BY DEF Prepare, Complete, Done, Doc, FaithInv, OwnershipInv
<1>2. drawing = None
  BY <1>1 DEF PictureInv
<1>3. ASSUME change = "edit"
      PROVE  Missing(work.result.status) \subseteq Missing(accepted.result.status)
  <2>1. /\ picture # None /\ work.base = Missing(accepted.result.status) /\ accepted # NoVersion
        /\ DOMAIN accepted.result.status = DOMAIN accepted.doc
    BY <1>1, <1>3 DEF PictureInv
  <2>2. accepted.doc \in Documents
    BY <2>1 DEF FaithInv, Faithful
  <2>3. Missing(accepted.result.status) \subseteq DOMAIN accepted.doc
    BY <2>1 DEF Missing
  <2>4. work.base # None
    BY <2>1, <2>2, <2>3, NoneAssumption
  <2>5. Unbuilt(work.result) = Missing(work.result.status)
    BY DEF Unbuilt, Missing
  <2>. QED BY <1>1, <2>1, <2>4, <2>5 DEF Introduced
<1>. QED BY <1>1, <1>2, <1>3 DEF PictureInv

LEMMA DiscardKeepsPicture ==
    ASSUME FaithInv, PictureInv, Discard
    PROVE  PictureInv'
<1>1. /\ candidate' = NoVersion /\ drawing' = None /\ change' = None
      /\ UNCHANGED <<work, accepted, picture, line>>
  BY DEF Discard
<1>. QED BY <1>1, NoneAssumption DEF PictureInv

\* The picture, the accepted version and the session move together.
LEMMA CommitKeepsPicture ==
    ASSUME FaithInv, PictureInv, Commit
    PROVE  PictureInv'
<1>1. /\ candidate # NoVersion /\ drawing # None /\ candidate' = NoVersion /\ drawing' = None
      /\ change' = None /\ line' = Moved
      /\ picture' = [doc |-> candidate.doc, meshes |-> drawing, unbuilt |-> Unbuilt(candidate.result)]
  BY DEF Commit
<1>2. PICK owned : accepted' = [doc |-> candidate.doc, base |-> candidate.base,
                                result |-> [status |-> candidate.result.status,
                                            shapes |-> candidate.result.shapes,
                                            values |-> candidate.result.values,
                                            keys |-> candidate.result.keys,
                                            owned |-> owned]]
  BY AcceptedIs DEF FaithInv
<1>3. /\ accepted'.doc = candidate.doc /\ accepted'.result.status = candidate.result.status
      /\ accepted'.result.shapes = candidate.result.shapes
      /\ accepted'.result.keys = candidate.result.keys
  BY <1>2
<1>4. candidate.doc \in Documents /\ DOMAIN candidate.result.status = DOMAIN candidate.doc
  BY <1>1 DEF FaithInv, Faithful, PictureInv
<1>5. accepted' # NoVersion
  <2>1. NoVersion.doc = None
    BY DEF NoVersion
  <2>. QED BY <1>3, <1>4, <2>1, NoneAssumption
<1>6. Drawn(drawing, accepted')
  <2>1. Drawn(drawing, candidate)
    BY <1>1 DEF PictureInv
  <2>. QED BY <1>3, <2>1 DEF Drawn
<1>7. line'.current = candidate.doc
  <2>1. change # "open" => Moved.current = candidate.doc
    BY <1>1, <1>4, MovedIsLine DEF FaithInv
  <2>2. change = "open" => Moved = line /\ candidate.doc = line.current
    BY <1>1, <1>4, MovedIsLine DEF FaithInv, PictureInv
  <2>. QED BY <1>1, <2>1, <2>2
<1>8. /\ picture'.doc = accepted'.doc /\ picture'.meshes = drawing
      /\ picture'.unbuilt = Missing(accepted'.result.status)
  BY <1>1, <1>3 DEF Unbuilt, Missing
<1>9. DOMAIN accepted'.result.status = DOMAIN accepted'.doc
  BY <1>3, <1>4
<1>10. change' # "open" /\ change' # "edit"
  BY <1>1, NoneAssumption
<1>. QED BY <1>1, <1>3, <1>5, <1>6, <1>7, <1>8, <1>9, <1>10 DEF PictureInv

LEMMA DropKeepsPicture ==
    ASSUME FaithInv, PictureInv, Drop
    PROVE  PictureInv'
<1>1. /\ accepted' = NoVersion /\ picture' = None /\ work = NoVersion /\ candidate = NoVersion
      /\ UNCHANGED <<work, candidate, drawing, change>>
  BY DEF Drop, Idle
<1>. QED BY <1>1 DEF PictureInv

LEMMA StepKeepsPicture ==
    ASSUME FaithInv, PictureInv, [Next]_vars
    PROVE  PictureInv'
<1>1. CASE Open
  BY <1>1, BeginKeepsPicture DEF Open
<1>2. CASE Undo
  BY <1>2, BeginKeepsPicture DEF Undo
<1>3. CASE Redo
  BY <1>3, BeginKeepsPicture DEF Redo
<1>4. ASSUME NEW doc \in Documents, Edit(doc) \/ Cached(doc) PROVE PictureInv'
  BY <1>4, BeginKeepsPicture DEF Edit, Cached
<1>5. CASE Evaluate
  BY <1>5, EvaluateKeepsPicture
<1>6. CASE Cancel
  BY <1>6, AbandonKeepsPicture DEF Cancel
<1>7. CASE RefuseNewFailures
  BY <1>7, AbandonKeepsPicture DEF RefuseNewFailures, Complete
<1>8. CASE CachedDone
  BY <1>8, AbandonKeepsPicture DEF CachedDone, Complete
<1>9. CASE Prepare
  BY <1>9, PrepareKeepsPicture
<1>10. CASE Draw
  BY <1>10, DrawKeepsPicture
<1>11. CASE Discard
  BY <1>11, DiscardKeepsPicture
<1>12. CASE Commit
  BY <1>12, CommitKeepsPicture
<1>13. CASE Drop
  BY <1>13, DropKeepsPicture
<1>14. CASE Damage \/ UNCHANGED vars
  <2>1. UNCHANGED <<work, candidate, accepted, drawing, picture, line, change>>
    BY <1>14 DEF Damage, vars
  <2>. QED BY <2>1 DEF PictureInv
<1>. QED BY <1>1, <1>2, <1>3, <1>4, <1>5, <1>6, <1>7, <1>8, <1>9, <1>10, <1>11, <1>12, <1>13,
            <1>14 DEF Next

\* The invariant of the theorems below.
VersionsInv == FaithInv /\ PictureInv

LEMMA VersionsAreKept ==
    /\ Init => VersionsInv
    /\ VersionsInv /\ [Next]_vars => VersionsInv'
<1>1. Init => VersionsInv
  <2>1. Init => PictureInv
    BY NoneAssumption DEF Init, PictureInv
  <2>. QED BY <2>1, InitIsFaithful DEF VersionsInv
<1>2. ASSUME VersionsInv, [Next]_vars
      PROVE  VersionsInv'
  <2>1. OwnershipInv'
    BY <1>2, OwnershipIsKept DEF VersionsInv, FaithInv
  <2>2. FaithInv'
    BY <1>2, <2>1, StepKeepsFaith DEF VersionsInv
  <2>3. PictureInv'
    BY <1>2, StepKeepsPicture DEF VersionsInv
  <2>. QED BY <2>2, <2>3 DEF VersionsInv
<1>. QED BY <1>1, <1>2

\* In every reachable state the picture, the accepted version and the session
\* are of one version, and each body is drawn with the geometry it has there.
THEOREM ShownIsTheSession == Spec => []PictureIsCurrent
<1>1. VersionsInv => PictureIsCurrent
  BY PictureSuffices DEF VersionsInv
<1>. QED BY <1>1, VersionsAreKept, PTL DEF Spec

\* An edit that is taken leaves nothing failed or skipped that was built, or was
\* not there, before it.
THEOREM EditsFailNothingNew == Spec => EditAddsNoFailure
<1>1. VersionsInv /\ [Next]_vars =>
         [change = "edit" /\ line' # line =>
             Missing(accepted'.result.status) \subseteq Missing(accepted.result.status)]_vars
  <2> SUFFICES ASSUME VersionsInv, Next, change = "edit", line' # line
               PROVE  Missing(accepted'.result.status) \subseteq Missing(accepted.result.status)
    OBVIOUS
  <2>1. Commit \/ Drop
    BY DEF Next, Open, Undo, Redo, Edit, Cached, Begin, Evaluate, FailsEarly, Skip, Reuse, EvaluateNode,
           BuildFeature, Restore, Unchanged, Cancel, RefuseNewFailures, CachedDone, Abandon, Prepare,
           Draw, Discard, Damage
  <2>2. CASE Drop
    BY <2>2, NoneAssumption DEF Drop, Idle
  <2>3. CASE Commit
    <3>1. candidate # NoVersion
      BY <2>3 DEF Commit
    <3>2. accepted'.result.status = candidate.result.status
      BY <2>3, AcceptedIs DEF VersionsInv, FaithInv
    <3>. QED BY <3>1, <3>2 DEF VersionsInv, PictureInv
  <2>. QED BY <2>1, <2>2, <2>3
<1>. QED BY <1>1, VersionsAreKept, PTL DEF Spec, EditAddsNoFailure

=============================================================================
