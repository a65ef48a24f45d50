---------------------------- MODULE WindowProofs ----------------------------
(***************************************************************************)
(* Proofs about Window: its type invariant, that the screen shows what     *)
(* Save would write, that no file has two writers, that no form is lost or *)
(* doubled, that a Reopen accounts for every file, and that nothing is     *)
(* lost unasked, for any tabs, files, versions and workers.                *)
(*                                                                         *)
(* WindowInv is the inductive invariant, in three parts: Core is about the *)
(* documents, the slots, the workers and the picture, FormsInv about the   *)
(* forms and the questions that hold them, Control about what the window   *)
(* waits for and does next. First come lemmas about what steps have in     *)
(* common, then one about each handler and each answer, at last the        *)
(* theorems.                                                               *)
(***************************************************************************)
EXTENDS Window, FiniteSetTheorems, SequenceTheorems, WellFoundedInduction, TLAPS

-----------------------------------------------------------------------------
(* What the state is made of                                               *)

Kinds == {"switch", "recover", "apply", "checkpoint", "move", "save"}
Operations == [kind : Kinds, gen : Nat, cancelled : BOOLEAN,
               version : Versions \cup {None}, next : {None, "quit", "closeForm", "close"}]
Jobs == [what : {"load", "picture", "step", "scene", "save", "saveAs", "create", "recover", "copy"},
         gen : Nat, tab : TabIds \cup {None}, version : Versions \cup {None},
         path : Paths \cup {None}, wanted : BOOLEAN]
Controllers == TabIds \cup {None}
Changing == {"apply", "checkpoint", "move"}
Saving == {"save", "saveAs"}

\* The documents, and the row of their tabs.
TabsInv ==
    /\ docs \in [TabIds -> Docs \cup {None}]
    /\ \A t \in OpenTabs : docs[t].pos <= Len(docs[t].line)
    /\ active \in OpenTabs \cup {None}
    /\ order \in Seq(TabIds) /\ ToSet(order) = OpenTabs
    /\ \A i, j \in DOMAIN order : order[i] = order[j] => i = j

\* The slots. A closed document has no operation, and a move leads along its line.
SlotInv ==
    /\ slot \in [Controllers -> Operations \cup {Free}]
    /\ \A t \in TabIds : Busy(t) => t \in OpenTabs
    /\ \A c \in Controllers : slot[c].kind = "move" =>
          c \in OpenTabs /\ slot[c].version \in ToSet(docs[c].line)

\* The workers, each with a generation of its own.
WorkersInv ==
    /\ workers \in SUBSET Jobs /\ IsFiniteSet(workers)
    /\ \A w \in workers : w.what \in {"picture", "step", "scene", "save", "saveAs"} => w.tab \in TabIds
    /\ \A w \in workers : w.what \in {"picture", "scene", "save", "saveAs"} => w.version \in Versions
    /\ \A w \in workers : w.what \in Saving => w.path \in Paths
    /\ \A w, x \in workers : w.gen = x.gen => w = x

\* The picture of a staged version is of that version.
SceneInv ==
    \A w \in workers :
        w.what = "scene" /\ slot[w.tab].kind \in Changing /\ slot[w.tab].gen = w.gen
            => slot[w.tab].version = w.version

\* The picture that is awaited is of the current version of a hidden tab.
SwitchInv ==
    switch # None =>
        /\ switch \in [gen : Nat, target : TabIds, base : Versions,
                       after : {"nothing", "quit", "close"}]
        /\ \A w \in workers :
              w.what = "picture" /\ w.gen = switch.gen =>
                  /\ w.tab = switch.target /\ w.version = switch.base
                  /\ w.tab # active
                  /\ w.tab \in OpenTabs => Current(w.tab) = w.version

\* A tab that saves writes its current version. It is shown, and no other one has the
\* file it saves to, except for those a new document hid.
SaverInv ==
    \A w \in workers :
        w.what \in Saving /\ slot[w.tab].kind = "save" /\ slot[w.tab].gen = w.gen
        => /\ w.version = Current(w.tab)
           /\ w.tab \notin overrun =>
                  w.tab = active /\ Owners(w.path, {w.tab} \cup overrun) = {}
SavesShown == \A t \in TabIds : slot[t].kind = "save" => t = active \/ t \in overrun

Core ==
    /\ TabsInv /\ SlotInv /\ WorkersInv /\ SceneInv /\ SwitchInv
    /\ SaverInv /\ SavesShown /\ ShownIsCurrent /\ OneWriter

\* The forms, the readings and the Reopen.
FormsTyped ==
    /\ form \in FormOrNone /\ draft \in [TabIds -> FormOrNone]
    /\ aside \in Asides \cup {None} /\ closing \in Closings \cup {None}
    /\ quit \in Passes \cup {None}
Awaiting == [load : Nat \cup {None}, create : Nat \cup {None},
             recover : Nat \cup {None}, copy : Nat \cup {None}]
IoTyped ==
    /\ newOpen \in BOOLEAN /\ awaited \in Awaiting /\ reopen \in Reopens \cup {None}

\* What is about to be closed or shown is there.
TurnInv ==
    /\ turn \in [do : {"wait", "reopen", "quit", "close", "closeTab", "show", "ended"},
                 tab : TabIds \cup {None}]
    /\ turn.do = "wait" => turn = Wait
    /\ turn.do \in {"close", "closeTab", "show"} => turn.tab \in OpenTabs
    /\ turn.do = "closeTab" => turn.tab = active
    /\ turn.do = "show" => active = None
    /\ turn.do = "reopen" => reopen # None

\* While a new document is made, the window does nothing else.
MakingInv ==
    /\ awaited.create # None => newOpen
    /\ newOpen => ~Modal /\ turn = Wait /\ IoIdle /\ ~Busy(active) /\ form = None /\ reopen = None
    /\ \A w \in workers : w.what = "create" => awaited.create = w.gen

\* The places a form may be in, and when.
PlacesInv ==
    /\ aside # None => aside.tab = active /\ newOpen
    /\ closing # None => closing.tab = active /\ quit = None
    /\ HasSession => draft[active] = None
    /\ ~HasSession => form = None
Places == {"here", "draft", "aside", "close", "quit"}
Kept ==
    \A t \in TabIds :
        /\ t \in typed <=> \E place \in Places : FormsOf(t)[place] # None
        /\ \A one, two \in Places :
              FormsOf(t)[one] # None /\ FormsOf(t)[two] # None => one = two
        /\ \A place \in Places : FormsOf(t)[place] # None =>
              t \in OpenTabs /\ FormsOf(t)[place].base = Current(t)
\* A checkpoint, and a save on the way to a close, found no form.
Formless ==
    \A t \in TabIds : slot[t].kind = "checkpoint" \/ (slot[t].kind = "save" /\ slot[t].next = "close")
                        => t \notin typed
CopyInv ==
    /\ Copying => ~Modal /\ ~newOpen /\ reopen = None
    /\ \A w \in workers : w.what = "copy" => awaited.copy = w.gen

\* What was agreed to is what the questions were about.
Confirmed == closing # None /\ closing.confirmed => FormOf(closing.tab) \in agreed
PassInv ==
    quit # None =>
        /\ \A t \in TabIds : Held(t) # None /\ Held(t).confirmed => FormOf(t) \in agreed
        /\ \A t \in OpenTabs : <<t, Current(t)>> \in quit.answered => Agreed(t)
        /\ \A t \in TabIds : \A v \in Versions : <<t, v>> \in quit.answered =>
              t \in OpenTabs /\ v \in ToSet(SubSeq(docs[t].line, 1, docs[t].pos))
        /\ quit.model # None =>
              draft[quit.model[1]] = None /\ (quit.model[1] = active => form = None)
CloseInv == turn.do = "close" /\ MayClose(turn.tab) => Agreed(turn.tab)

\* A Reopen reads alone.
ReopenInv ==
    reopen # None =>
        /\ ~Busy(active) /\ ~Modal /\ turn \in {Wait, Go("reopen", None)}
        /\ \A i, j \in DOMAIN reopen.files : reopen.files[i] = reopen.files[j] => i = j
        /\ reopen.next <= Len(reopen.files) + 1
        /\ reopen.open \subseteq {reopen.files[i] : i \in 1..(reopen.next - 1)}
        /\ \A i \in 1..(reopen.next - (IF Idle THEN 2 ELSE 1)) :
              reopen.files[i] \in reopen.open <=> Owners(reopen.files[i], {}) # {}
        /\ Idle =>
            /\ reopen.next >= 2 /\ reopen.wait # None /\ awaited.load = reopen.wait
            /\ reopen.files[reopen.next - 1] \notin reopen.open
            /\ Owners(reopen.files[reopen.next - 1], {}) = {}
            /\ \E w \in workers : /\ w.what = "load" /\ w.gen = reopen.wait
                                  /\ w.path = reopen.files[reopen.next - 1]

FormsInv == FormsTyped /\ PlacesInv /\ Kept /\ Confirmed /\ PassInv
Control == IoTyped /\ TurnInv /\ MakingInv /\ Formless /\ CopyInv /\ CloseInv /\ ReopenInv
WindowInv == Core /\ FormsInv /\ Control

-----------------------------------------------------------------------------
(* Generations and places                                                  *)

\* Numbers have a least one.
LEMMA LeastIs ==
    ASSUME NEW I, I \subseteq Nat, I # {}
    PROVE  Min(I) \in I /\ \A y \in I : Min(I) <= y
<1>1. PICK x \in I : \A y \in I : ~ (<<y, x>> \in OpToRel(<, Nat))
  BY NatLessThanWellFounded, WFMin, Zenon
<1>2. \A y \in I : x <= y
  <2>1. \A y \in I : ~ (y < x)
    BY <1>1 DEF OpToRel
  <2>2. \A y \in I : y \in Nat /\ x \in Nat
    OBVIOUS
  <2> QED BY <2>1, <2>2
<1> QED BY <1>2 DEF Min

\* An element of a sequence is at its place.
LEMMA PlaceIs ==
    ASSUME NEW S, NEW s \in Seq(S), NEW e \in ToSet(s)
    PROVE  Place(s, e) \in DOMAIN s /\ s[Place(s, e)] = e
<1> DEFINE I == {i \in 1..Len(s) : s[i] = e}
<1>1. Place(s, e) = (IF I # {} THEN Min(I) ELSE 0)
  BY DEF Place, SelectInSeq
<1>2. DOMAIN s = 1..Len(s) /\ Len(s) \in Nat
  OBVIOUS
<1>3. I # {} /\ I \subseteq Nat
  BY <1>2 DEF ToSet
<1> HIDE DEF I
<1>6. Min(I) \in I
  BY <1>3, LeastIs
<1> QED BY <1>1, <1>2, <1>3, <1>6 DEF I

\* A new generation is nobody's.
LEMMA GenIsNew ==
    ASSUME SlotInv, WorkersInv
    PROVE  /\ NewGen \in Nat
           /\ \A w \in workers : w.gen # NewGen
           /\ \A c \in Controllers : Busy(c) => slot[c].gen # NewGen
<1> DEFINE busy == {c \in Controllers : Busy(c)}
           n == Cardinality(UsedGens)
<1>1. UsedGens = {w.gen : w \in workers} \cup {slot[c].gen : c \in busy}
  BY DEF UsedGens, SlotInv
<1>2. IsFiniteSet({w.gen : w \in workers})
  <2> DEFINE f == [w \in workers |-> w.gen]
  <2>1. f \in Surjection(workers, {w.gen : w \in workers})
    BY DEF Surjection
  <2> QED BY <2>1, FS_Surjection DEF WorkersInv
<1>3. IsFiniteSet(busy)
  <2>1. IsFiniteSet(TabIds \cup {None})
    BY WindowAssumption, FS_AddElement
  <2> QED BY <2>1, FS_Subset DEF Controllers
<1>4. IsFiniteSet({slot[c].gen : c \in busy})
  <2> DEFINE f == [c \in busy |-> slot[c].gen]
  <2>1. f \in Surjection(busy, {slot[c].gen : c \in busy})
    BY DEF Surjection
  <2> HIDE DEF busy
  <2> QED BY <1>3, <2>1, FS_Surjection
<1>5. IsFiniteSet(UsedGens) /\ n \in Nat
  BY <1>1, <1>2, <1>4, FS_Union, FS_CardinalityType
<1>6. ~ (1..(n + 1) \subseteq UsedGens)
  <2>1. Cardinality(1..(n + 1)) = n + 1
    BY <1>5, FS_Interval
  <2>2. SUFFICES ASSUME 1..(n + 1) \subseteq UsedGens PROVE FALSE
    OBVIOUS
  <2>3. Cardinality(1..(n + 1)) <= n
    BY <1>5, <2>2, FS_Subset
  <2> QED BY <1>5, <2>1, <2>3
<1>7. NewGen \in 1..(n + 1) /\ NewGen \notin UsedGens
  BY <1>6 DEF NewGen
<1> HIDE DEF n
<1>8. NewGen \in Nat
  BY <1>5, <1>7
<1> QED BY <1>1, <1>7, <1>8

-----------------------------------------------------------------------------
(* The row of tabs                                                         *)

Distinct(s) == \A i, j \in DOMAIN s : s[i] = s[j] => i = j

\* A new element in a row of different ones.
LEMMA Inserted ==
    ASSUME NEW S, NEW s \in Seq(S), NEW e \in S, NEW i \in 1..(Len(s) + 1),
           Distinct(s), e \notin ToSet(s)
    PROVE  /\ InsertAt(s, i, e) \in Seq(S)
           /\ ToSet(InsertAt(s, i, e)) = ToSet(s) \cup {e}
           /\ Distinct(InsertAt(s, i, e))
<1> DEFINE r == InsertAt(s, i, e)
           a == SubSeq(s, 1, i - 1)
           b == SubSeq(s, i, Len(s))
           n == Len(s)
<1>1. n \in Nat /\ DOMAIN s = 1..n /\ i \in Int
  OBVIOUS
<1>2. /\ a \in Seq(S) /\ Len(a) = i - 1 /\ \A k \in 1..(i - 1) : a[k] = s[k]
      /\ b \in Seq(S) /\ Len(b) = n - i + 1 /\ \A k \in 1..(n - i + 1) : b[k] = s[i + k - 1]
  BY SubSeqProperties
<1>3. r = (a \o <<e>>) \o b
  BY DEF InsertAt
<1> HIDE DEF a, b, r
<1>4. /\ a \o <<e>> \in Seq(S) /\ Len(a \o <<e>>) = i
      /\ \A k \in 1..i : (a \o <<e>>)[k] = IF k < i THEN s[k] ELSE e
  <2>1. <<e>> \in Seq(S) /\ Len(<<e>>) = 1 /\ <<e>>[1] = e
    OBVIOUS
  <2>2. /\ a \o <<e>> \in Seq(S) /\ Len(a \o <<e>>) = (i - 1) + 1
        /\ \A k \in 1..((i - 1) + 1) : (a \o <<e>>)[k] =
              IF k <= i - 1 THEN a[k] ELSE <<e>>[k - (i - 1)]
    BY <1>1, <1>2, <2>1, ConcatProperties
  <2>3. ASSUME NEW k \in 1..i PROVE (a \o <<e>>)[k] = IF k < i THEN s[k] ELSE e
    <3>1. CASE k < i
      BY <1>1, <1>2, <2>2, <3>1
    <3>2. CASE k = i
      BY <1>1, <2>1, <2>2, <3>2
    <3>3. k < i \/ k = i
      OBVIOUS
    <3> QED BY <3>1, <3>2, <3>3
  <2> QED BY <1>1, <2>2, <2>3
<1>5. r \in Seq(S) /\ Len(r) = n + 1
  <2>1. r \in Seq(S) /\ Len(r) = Len(a \o <<e>>) + Len(b)
    BY <1>2, <1>3, <1>4, ConcatProperties
  <2>2. i + (n - i + 1) = n + 1
    BY <1>1
  <2> QED BY <1>2, <1>4, <2>1, <2>2
<1>6. ASSUME NEW k \in 1..(n + 1)
      PROVE  r[k] = IF k < i THEN s[k] ELSE IF k = i THEN e ELSE s[k - 1]
  <2>1. r[k] = IF k <= i THEN (a \o <<e>>)[k] ELSE b[k - i]
    <3> DEFINE c == a \o <<e>>
    <3>1. c \in Seq(S) /\ Len(c) = i /\ Len(b) = n - i + 1 /\ r = c \o b
      BY <1>2, <1>3, <1>4
    <3> HIDE DEF c
    <3>2. \A m \in 1..(Len(c) + Len(b)) : (c \o b)[m] = IF m <= Len(c) THEN c[m] ELSE b[m - Len(c)]
      BY <1>2, <3>1, ConcatProperties
    <3>3. k \in 1..(Len(c) + Len(b))
      BY <1>1, <3>1
    <3>4. r[k] = IF k <= i THEN c[k] ELSE b[k - i]
      BY <3>1, <3>2, <3>3
    <3> QED BY <3>4 DEF c
  <2>2. CASE k <= i
    BY <1>1, <1>4, <2>1, <2>2
  <2>3. CASE k > i
    <3>1. k - i \in 1..(n - i + 1)
      BY <1>1, <2>3
    <3>2. b[k - i] = s[i + (k - i) - 1]
      BY <1>2, <3>1
    <3>3. i + (k - i) - 1 = k - 1 /\ ~ (k <= i) /\ k # i /\ ~ (k < i)
      BY <1>1, <2>3
    <3> QED BY <2>1, <3>2, <3>3
  <2> QED BY <1>1, <2>2, <2>3
<1>7. DOMAIN r = 1..(n + 1)
  BY <1>5
<1>8. ToSet(r) = ToSet(s) \cup {e}
  <2>1. ASSUME NEW x \in ToSet(r) PROVE x \in ToSet(s) \cup {e}
    <3>1. PICK k \in 1..(n + 1) : x = r[k]
      BY <1>7 DEF ToSet
    <3>2. k < i => k \in 1..n
      BY <1>1
    <3>3. k > i => k - 1 \in 1..n
      BY <1>1
    <3>4. CASE k < i
      BY <1>1, <1>6, <3>1, <3>2, <3>4 DEF ToSet
    <3>5. CASE k = i
      BY <1>1, <1>6, <3>1, <3>5
    <3>6. CASE k > i
      BY <1>1, <1>6, <3>1, <3>3, <3>6 DEF ToSet
    <3> QED BY <1>1, <3>4, <3>5, <3>6
  <2>2. ASSUME NEW x \in ToSet(s) PROVE x \in ToSet(r)
    <3>1. PICK k \in 1..n : x = s[k]
      BY <1>1 DEF ToSet
    <3>2. CASE k < i
      <4>1. k \in 1..(n + 1) /\ r[k] = x
        BY <1>1, <1>6, <3>1, <3>2
      <4> QED BY <1>7, <4>1 DEF ToSet
    <3>3. CASE k >= i
      <4>1. k + 1 \in 1..(n + 1) /\ r[k + 1] = x
        BY <1>1, <1>6, <3>1, <3>3
      <4> QED BY <1>7, <4>1 DEF ToSet
    <3> QED BY <1>1, <3>2, <3>3
  <2>3. e \in ToSet(r)
    <3>1. i \in 1..(n + 1) /\ r[i] = e
      BY <1>1, <1>6
    <3> QED BY <1>7, <3>1 DEF ToSet
  <2> QED BY <2>1, <2>2, <2>3
<1>9. Distinct(r)
  <2> SUFFICES ASSUME NEW j \in 1..(n + 1), NEW k \in 1..(n + 1), r[j] = r[k] PROVE j = k
    BY <1>7 DEF Distinct
  <2>1. \A x \in 1..n : s[x] # e
    BY <1>1 DEF ToSet
  <2>2. \A x, y \in 1..n : s[x] = s[y] => x = y
    BY <1>1 DEF Distinct
  <2> DEFINE from(x) == IF x < i THEN x ELSE x - 1
  <2>3. \A x \in 1..(n + 1) : x # i => from(x) \in 1..n /\ r[x] = s[from(x)]
    BY <1>1, <1>6
  <2>4. r[i] = e
    BY <1>1, <1>6
  <2>5. j = i <=> k = i
    BY <2>1, <2>3, <2>4
  <2>6. j # i /\ k # i => from(j) = from(k)
    <3> HIDE DEF from
    <3> QED BY <2>2, <2>3
  <2> QED BY <1>1, <2>5, <2>6
<1> QED BY <1>5, <1>8, <1>9 DEF r

\* And a row without one of its elements.
LEMMA Removed ==
    ASSUME NEW S, NEW s \in Seq(S), NEW i \in 1..Len(s), Distinct(s)
    PROVE  /\ RemoveAt(s, i) \in Seq(S)
           /\ ToSet(RemoveAt(s, i)) = ToSet(s) \ {s[i]}
           /\ Distinct(RemoveAt(s, i))
<1> DEFINE r == RemoveAt(s, i)
           a == SubSeq(s, 1, i - 1)
           b == SubSeq(s, i + 1, Len(s))
           n == Len(s)
<1>1. n \in Nat /\ DOMAIN s = 1..n /\ i \in Int
  OBVIOUS
<1>2. /\ a \in Seq(S) /\ Len(a) = i - 1 /\ \A k \in 1..(i - 1) : a[k] = s[k]
      /\ b \in Seq(S) /\ Len(b) = n - i /\ \A k \in 1..(n - i) : b[k] = s[i + k]
  BY SubSeqProperties
<1>3. r = a \o b
  BY DEF RemoveAt
<1> HIDE DEF a, b, r
<1>5. r \in Seq(S) /\ Len(r) = n - 1
  <2>1. r \in Seq(S) /\ Len(r) = Len(a) + Len(b)
    BY <1>2, <1>3, ConcatProperties
  <2> QED BY <1>1, <1>2, <2>1
<1>6. ASSUME NEW k \in 1..(n - 1)
      PROVE  r[k] = IF k < i THEN s[k] ELSE s[k + 1]
  <2>1. r[k] = IF k <= i - 1 THEN a[k] ELSE b[k - (i - 1)]
    BY <1>1, <1>2, <1>3, ConcatProperties
  <2>2. CASE k < i
    BY <1>1, <1>2, <2>1, <2>2
  <2>3. CASE k >= i
    <3>1. k - (i - 1) \in 1..(n - i)
      BY <1>1, <2>3
    <3> QED BY <1>1, <1>2, <2>1, <2>3, <3>1
  <2> QED BY <1>1, <2>2, <2>3
<1>7. DOMAIN r = 1..(n - 1)
  BY <1>5
<1>8. ToSet(r) = ToSet(s) \ {s[i]}
  <2> DEFINE to(k) == IF k < i THEN k ELSE k + 1
  <2>0. \A k \in 1..(n - 1) : to(k) \in 1..n /\ to(k) # i /\ r[k] = s[to(k)]
    BY <1>1, <1>6
  <2>1. ASSUME NEW x \in ToSet(r) PROVE x \in ToSet(s) \ {s[i]}
    <3>1. PICK k \in 1..(n - 1) : x = r[k]
      BY <1>7 DEF ToSet
    <3>2. to(k) \in DOMAIN s /\ i \in DOMAIN s /\ to(k) # i /\ x = s[to(k)]
      BY <1>1, <2>0, <3>1
    <3> HIDE DEF to
    <3> QED BY <3>2 DEF ToSet, Distinct
  <2>2. ASSUME NEW x \in ToSet(s) \ {s[i]} PROVE x \in ToSet(r)
    <3>1. PICK k \in 1..n : x = s[k]
      BY <1>1 DEF ToSet
    <3>2. CASE k < i
      <4>1. k \in 1..(n - 1) /\ r[k] = x
        BY <1>1, <1>6, <3>1, <3>2
      <4> QED BY <1>7, <4>1 DEF ToSet
    <3>3. CASE k > i
      <4>1. k - 1 \in 1..(n - 1) /\ r[k - 1] = x
        BY <1>1, <1>6, <3>1, <3>3
      <4> QED BY <1>7, <4>1 DEF ToSet
    <3> QED BY <1>1, <3>1, <3>2, <3>3
  <2> QED BY <2>1, <2>2
<1>9. Distinct(r)
  <2> SUFFICES ASSUME NEW j \in 1..(n - 1), NEW k \in 1..(n - 1), r[j] = r[k] PROVE j = k
    BY <1>7 DEF Distinct
  <2> DEFINE to(x) == IF x < i THEN x ELSE x + 1
  <2>3. \A x \in 1..(n - 1) : to(x) \in 1..n /\ r[x] = s[to(x)]
    BY <1>1, <1>6
  <2>6. to(j) = to(k)
    <3> HIDE DEF to
    <3> QED BY <1>1, <2>3 DEF Distinct
  <2> QED BY <1>1, <2>6
<1> QED BY <1>5, <1>8, <1>9 DEF r

-----------------------------------------------------------------------------
(* What a step does to the documents, the slots and the workers            *)

DocumentsStay == UNCHANGED <<docs, active, order, picture, overrun>>

\* A worker as its kind has it.
Proper(j) ==
    /\ j \in Jobs
    /\ j.what \in {"picture", "step", "scene", "save", "saveAs"} => j.tab \in TabIds
    /\ j.what \in {"picture", "scene", "save", "saveAs"} => j.version \in Versions
    /\ j.what \in Saving => j.path \in Paths

\* What is asked of an operation that is put in the shown tab's slot for a worker.
Reserves(op, j) ==
    /\ op \in Operations /\ op.gen = NewGen
    /\ op.kind = "move" => active \in OpenTabs /\ op.version \in ToSet(docs[active].line)
    /\ j.what = "scene" => op.version = j.version
    /\ j.what \in Saving /\ op.kind = "save" =>
          /\ j.tab = active /\ j.version = Current(active)
          /\ active \notin overrun => Owners(j.path, {active} \cup overrun) = {}

\* And of the switch that is begun with one.
Switches(j) ==
    /\ j.what = "picture" /\ j.tab \in Hidden /\ j.version = Current(j.tab)
    /\ switch' \in [gen : Nat, target : TabIds, base : Versions, after : {"nothing", "quit", "close"}]
    /\ switch'.gen = NewGen /\ switch'.target = j.tab /\ switch'.base = j.version

\* Nothing that concerns documents alone is touched by what leaves them alone.
LEMMA DocumentsKept ==
    ASSUME TabsInv, ShownIsCurrent, OneWriter, DocumentsStay
    PROVE  /\ TabsInv' /\ ShownIsCurrent' /\ OneWriter'
           /\ OpenTabs' = OpenTabs /\ (\A t \in TabIds : Current(t)' = Current(t))
           /\ \A p, other : Owners(p, other)' = Owners(p, other)
BY DEF TabsInv, ShownIsCurrent, OneWriter, DocumentsStay, OpenTabs, Current, Owners, HasSession

\* A worker starts, for an operation of the shown tab or for none.
LEMMA Started ==
    ASSUME Core, DocumentsStay, NEW others \in SUBSET workers, NEW j, Proper(j), j.gen = NewGen,
           workers' = others \cup {j},
           \/ slot' = slot
           \/ \E op : Reserves(op, j) /\ slot' = [slot EXCEPT ![active] = op],
           \/ switch' = switch /\ j.what # "picture"
           \/ Switches(j)
    PROVE  Core'
<1>1. TabsInv' /\ ShownIsCurrent' /\ OneWriter'
        /\ OpenTabs' = OpenTabs /\ (\A t \in TabIds : Current(t)' = Current(t))
        /\ \A p, other : Owners(p, other)' = Owners(p, other)
  BY DocumentsKept DEF Core
<1>2. /\ NewGen \in Nat
      /\ \A w \in workers : w.gen # NewGen
      /\ \A c \in Controllers : Busy(c) => slot[c].gen # NewGen
  BY GenIsNew DEF Core
<1>3. active' = active /\ docs' = docs /\ overrun' = overrun /\ active \in Controllers
  BY DEF DocumentsStay, Core, TabsInv, OpenTabs, Controllers
<1>4. WorkersInv'
  <2>1. IsFiniteSet(workers')
    BY FS_Subset, FS_AddElement DEF Core, WorkersInv
  <2>2. \A w \in workers' : w = j \/ (w \in workers /\ w.gen # j.gen)
    BY <1>2
  <2>3. \A w \in workers' : w \in Jobs /\ Proper(w)
    BY <2>2 DEF Proper, Core, WorkersInv
  <2>4. \A w, x \in workers' : w.gen = x.gen => w = x
    BY <2>2 DEF Core, WorkersInv
  <2> QED BY <2>1, <2>3, <2>4 DEF WorkersInv, Proper
<1>5. \A c \in Controllers :
         \/ slot'[c] = slot[c]
         \/ c = active /\ slot'[c].gen = NewGen /\ Reserves(slot'[c], j)
  BY <1>3 DEF Core, SlotInv, Reserves
<1>6. SlotInv'
  <2>1. slot' \in [Controllers -> Operations \cup {Free}]
    BY <1>3 DEF Core, SlotInv, Reserves
  <2>2. ASSUME NEW t \in TabIds, Busy(t)' PROVE t \in OpenTabs
    <3>1. CASE t = active
      BY <3>1, WindowAssumption DEF Core, TabsInv
    <3>2. CASE t # active
      BY <1>5, <2>2, <3>2 DEF Core, SlotInv, Busy, Controllers
    <3> QED BY <3>1, <3>2
  <2>3. \A c \in Controllers : slot'[c].kind = "move" =>
           c \in OpenTabs /\ slot'[c].version \in ToSet(docs[c].line)
    BY <1>3, <1>5 DEF Core, SlotInv, Reserves
  <2> QED BY <1>1, <1>3, <2>1, <2>2, <2>3 DEF SlotInv
<1>7. \A w \in workers' : w = j \/ w \in workers
  OBVIOUS
<1>8. \A w \in workers' : w.tab \in Controllers
  BY <1>4 DEF WorkersInv, Jobs, Controllers
<1>9. SceneInv'
  <2> SUFFICES ASSUME NEW w \in workers', w.what = "scene",
                      slot'[w.tab].kind \in Changing, slot'[w.tab].gen = w.gen
               PROVE  slot'[w.tab].version = w.version
    BY DEF SceneInv
  <2>1. CASE w = j
    <3>1. Busy(w.tab) => slot[w.tab].gen # NewGen
      BY <1>2, <1>8
    <3>2. slot'[w.tab] # slot[w.tab]
      BY <2>1, <3>1 DEF Busy, Changing
    <3> QED BY <1>5, <1>8, <2>1, <3>2 DEF Reserves
  <2>2. CASE w \in workers
    BY <1>2, <1>5, <1>8, <2>2 DEF Core, SceneInv
  <2> QED BY <1>7, <2>1, <2>2
<1>10. SwitchInv'
  <2>1. CASE switch' = switch /\ j.what # "picture"
    BY <1>1, <1>3, <1>4, <1>7, <2>1 DEF Core, SwitchInv, WorkersInv
  <2>2. CASE Switches(j)
    <3>2. \A w \in workers' : w.gen = switch'.gen => w = j
      BY <1>2, <1>7, <2>2 DEF Switches
    <3>3. j.tab \in TabIds /\ j.tab # active
      BY <2>2 DEF Switches, Hidden, OpenTabs
    <3> QED BY <1>1, <1>3, <2>2, <3>2, <3>3 DEF SwitchInv, Switches
  <2> QED BY <2>1, <2>2
<1>11. SavesShown'
  BY <1>3, <1>5 DEF Core, SavesShown, Controllers
<1>12. SaverInv'
  <2> SUFFICES ASSUME NEW w \in workers', w.what \in Saving, slot'[w.tab].kind = "save",
                      slot'[w.tab].gen = w.gen
               PROVE  /\ w.version = Current(w.tab)
                      /\ w.tab \notin overrun =>
                            w.tab = active /\ Owners(w.path, {w.tab} \cup overrun) = {}
    BY <1>1, <1>3, <1>4 DEF SaverInv, WorkersInv, Saving
  <2>1. CASE w = j
    <3>1. slot'[w.tab] # slot[w.tab]
      BY <1>2, <1>8, <2>1 DEF Busy
    <3> QED BY <1>5, <1>8, <2>1, <3>1 DEF Reserves
  <2>2. CASE w \in workers
    BY <1>2, <1>5, <1>8, <2>2 DEF Core, SaverInv
  <2> QED BY <1>7, <2>1, <2>2
<1> QED BY <1>1, <1>4, <1>6, <1>9, <1>10, <1>11, <1>12 DEF Core

\* Workers answer or are told, operations end or are told.
Answered ==
    /\ workers' \in SUBSET Jobs /\ IsFiniteSet(workers')
    /\ \A x \in workers' : \E w \in workers :
          x.what = w.what /\ x.gen = w.gen /\ x.tab = w.tab /\ x.version = w.version /\ x.path = w.path
    /\ \A x, y \in workers' : x.gen = y.gen => x = y
Eased ==
    /\ slot' \in [Controllers -> Operations \cup {Free}]
    /\ \A c \in Controllers :
          \/ slot'[c] = Free
          \/ slot'[c].kind = slot[c].kind /\ slot'[c].gen = slot[c].gen
                /\ slot'[c].version = slot[c].version /\ slot'[c].next = slot[c].next

\* An answer, or a cancel, that leaves the documents: what it takes away was no one's.
LEMMA Ended ==
    ASSUME Core, DocumentsStay, Answered, Eased, switch' \in {switch, None}
    PROVE  Core'
<1>1. TabsInv' /\ ShownIsCurrent' /\ OneWriter'
        /\ OpenTabs' = OpenTabs /\ (\A t \in TabIds : Current(t)' = Current(t))
        /\ \A p, other : Owners(p, other)' = Owners(p, other)
  BY DocumentsKept DEF Core
<1>2. active' = active /\ docs' = docs /\ overrun' = overrun
  BY DEF DocumentsStay
<1>3. WorkersInv'
  BY DEF Core, WorkersInv, Answered
<1>4. \A w \in workers' : w.tab \in Controllers
  BY <1>3 DEF WorkersInv, Jobs, Controllers
<1>5. Free.kind \notin Changing \cup {"save"} /\ Free.kind = "free"
  BY DEF Free, Changing
<1>6. SlotInv'
  <2>1. \A t \in TabIds : Busy(t)' => Busy(t)
    BY <1>5 DEF Busy, Eased, Controllers
  <2> QED BY <1>1, <1>2, <1>5, <2>1 DEF Core, SlotInv, Eased
<1>7. SceneInv'
  <2> SUFFICES ASSUME NEW x \in workers', x.what = "scene",
                      slot'[x.tab].kind \in Changing, slot'[x.tab].gen = x.gen
               PROVE  slot'[x.tab].version = x.version
    BY DEF SceneInv
  <2>1. PICK w \in workers : x.what = w.what /\ x.gen = w.gen /\ x.tab = w.tab
                               /\ x.version = w.version
    BY DEF Answered
  <2> QED BY <1>4, <1>5, <2>1 DEF Core, SceneInv, Eased
<1>8. SwitchInv'
  BY <1>1, <1>2, <1>3 DEF Core, SwitchInv, Answered, WorkersInv
<1>9. SavesShown'
  BY <1>2, <1>5 DEF Core, SavesShown, Eased, Controllers
<1>10. SaverInv'
  <2> SUFFICES ASSUME NEW x \in workers', x.what \in Saving, slot'[x.tab].kind = "save",
                      slot'[x.tab].gen = x.gen
               PROVE  /\ x.version = Current(x.tab)
                      /\ x.tab \notin overrun =>
                            x.tab = active /\ Owners(x.path, {x.tab} \cup overrun) = {}
    BY <1>1, <1>2, <1>3 DEF SaverInv, WorkersInv, Saving
  <2>1. PICK w \in workers : x.what = w.what /\ x.gen = w.gen /\ x.tab = w.tab
                               /\ x.path = w.path /\ x.version = w.version
    BY DEF Answered
  <2>2. slot[w.tab].kind = "save" /\ slot[w.tab].gen = w.gen
    BY <1>4, <1>5, <2>1 DEF Eased
  <2> QED BY <2>1, <2>2 DEF Core, SaverInv
<1> QED BY <1>1, <1>3, <1>6, <1>7, <1>8, <1>9, <1>10 DEF Core

\* A document opens in a new tab. The tab it hides may be saving, and is then told
\* apart from the others.
LEMMA Opened ==
    ASSUME Core, NEW t \in NewTabs, NEW p \in Paths \cup {None}, OpenTab(t, p),
           p # None => Owners(p, {}) = {}, Answered, Eased, switch' = switch,
           overrun \subseteq overrun', overrun' \subseteq overrun \cup {active},
           slot'[active].kind = "save" => active \in overrun'
    PROVE  Core' /\ active' = t /\ OpenTabs' = OpenTabs \cup {t} /\ t \notin OpenTabs
<1>1. /\ t \in TabIds /\ t \notin OpenTabs /\ docs[t] = None /\ \A w \in workers : w.tab # t
      /\ None \notin TabIds
  BY WindowAssumption DEF NewTabs, OpenTabs
<1> DEFINE new == [line |-> <<1>>, pos |-> 1, path |-> p, saved |-> IF p = None THEN None ELSE 1]
<1>2. new \in Docs /\ new.path = p /\ Len(new.line) = 1 /\ new.line[new.pos] = 1
  <2>1. 1 \in Versions
    BY WindowAssumption DEF Versions
  <2>2. <<1>> \in Seq(Versions)
    BY <2>1
  <2> QED BY <2>1, <2>2 DEF Docs
<1>3. docs' = [docs EXCEPT ![t] = new] /\ docs'[t] = new /\ docs' \in [TabIds -> Docs \cup {None}]
  BY <1>1, <1>2 DEF OpenTab, Core, TabsInv
<1>4. new # None
  BY <1>2, NothingIsNothing
<1>5. \A c \in TabIds : c # t => docs'[c] = docs[c] /\ Current(c)' = Current(c)
  BY <1>3 DEF Current, Core, TabsInv
<1> HIDE DEF new
<1>6. OpenTabs' = OpenTabs \cup {t}
  BY <1>1, <1>3, <1>4, <1>5 DEF OpenTabs
<1>7. active' = t /\ picture' = <<t, 1>> /\ Current(t)' = 1
  BY <1>2, <1>3 DEF OpenTab, Current
<1>8. TabsInv'
  <2> DEFINE at == IF HasSession THEN Place(order, active) ELSE Len(order)
  <2>1. at + 1 \in 1..(Len(order) + 1)
    <3>1. CASE HasSession
      <4>1. active \in ToSet(order)
        BY <3>1 DEF HasSession, Core, TabsInv
      <4>2. at \in DOMAIN order
        BY <3>1, <4>1, PlaceIs DEF Core, TabsInv
      <4>3. DOMAIN order = 1..Len(order) /\ Len(order) \in Nat
        BY DEF Core, TabsInv
      <4> HIDE DEF at
      <4> QED BY <4>2, <4>3
    <3>2. CASE ~HasSession
      <4>1. at = Len(order) /\ Len(order) \in Nat
        BY <3>2 DEF Core, TabsInv
      <4> HIDE DEF at
      <4> QED BY <4>1
    <3> QED BY <3>1, <3>2
  <2>2. order' = InsertAt(order, at + 1, t)
    BY DEF OpenTab
  <2>3. order \in Seq(TabIds) /\ Distinct(order) /\ ToSet(order) = OpenTabs
    BY DEF Core, TabsInv, Distinct
  <2> HIDE DEF at
  <2>4. order' \in Seq(TabIds) /\ ToSet(order') = OpenTabs \cup {t} /\ Distinct(order')
    BY <1>1, <2>1, <2>2, <2>3, Inserted
  <2>5. \A c \in OpenTabs' : docs'[c].pos <= Len(docs'[c].line)
    <3>1. docs'[t].pos <= Len(docs'[t].line)
      BY <1>2, <1>3 DEF new
    <3> QED BY <1>5, <1>6, <3>1 DEF Core, TabsInv, OpenTabs
  <2> QED BY <1>3, <1>6, <1>7, <2>4, <2>5 DEF TabsInv, Distinct
<1>9. WorkersInv'
  BY DEF Core, WorkersInv, Answered
<1>10. \A x \in workers' : \E w \in workers :
          x.what = w.what /\ x.gen = w.gen /\ x.tab = w.tab /\ x.version = w.version /\ x.path = w.path
  BY DEF Answered
<1>11. \A w \in workers' : w.tab \in Controllers /\ w.tab # t
  BY <1>1, <1>9, <1>10 DEF WorkersInv, Jobs, Controllers
<1>12. /\ Free.kind \notin Changing \cup {"save"} /\ Free.kind = "free"
       /\ \A c \in Controllers : slot'[c].kind # "free" => slot[c].kind = slot'[c].kind
  BY DEF Free, Changing, Eased
<1>13. \A c \in TabIds : Busy(c)' => c \in OpenTabs
  BY <1>12 DEF Busy, Core, SlotInv, Controllers
<1>14. SlotInv'
  <2>1. \A c \in Controllers : slot'[c].kind = "move" =>
           c \in OpenTabs' /\ slot'[c].version \in ToSet(docs'[c].line)
    <3> SUFFICES ASSUME NEW c \in Controllers, slot'[c].kind = "move"
                 PROVE  c \in OpenTabs' /\ slot'[c].version \in ToSet(docs'[c].line)
      OBVIOUS
    <3>1. slot'[c].version = slot[c].version /\ slot[c].kind = "move"
      BY <1>12 DEF Eased
    <3>2. c \in OpenTabs /\ slot[c].version \in ToSet(docs[c].line)
      BY <3>1 DEF Core, SlotInv
    <3>3. c \in TabIds /\ c # t
      BY <1>1, <3>2 DEF OpenTabs
    <3> QED BY <1>5, <1>6, <3>1, <3>2, <3>3
  <2>2. \A c \in TabIds : Busy(c)' => c \in OpenTabs'
    BY <1>6, <1>13
  <2> QED BY <2>1, <2>2 DEF SlotInv, Eased
<1>15. SceneInv'
  <2> SUFFICES ASSUME NEW x \in workers', x.what = "scene",
                      slot'[x.tab].kind \in Changing, slot'[x.tab].gen = x.gen
               PROVE  slot'[x.tab].version = x.version
    BY DEF SceneInv
  <2>1. PICK w \in workers : x.what = w.what /\ x.gen = w.gen /\ x.tab = w.tab
                               /\ x.version = w.version
    BY <1>10
  <2> QED BY <1>11, <1>12, <2>1 DEF Core, SceneInv, Eased
<1>16. SwitchInv'
  <2> SUFFICES ASSUME switch # None, NEW x \in workers', x.what = "picture", x.gen = switch.gen
               PROVE  /\ x.tab = switch.target /\ x.version = switch.base
                      /\ x.tab # t
                      /\ x.tab \in OpenTabs' => Current(x.tab)' = x.version
    BY <1>7 DEF SwitchInv, Core
  <2>1. PICK w \in workers : x.what = w.what /\ x.gen = w.gen /\ x.tab = w.tab
                               /\ x.version = w.version
    BY <1>10
  <2>2. x.tab # t /\ x.tab \in TabIds
    BY <1>9, <1>11 DEF WorkersInv
  <2>3. /\ x.tab = switch.target /\ x.version = switch.base
        /\ x.tab \in OpenTabs => Current(x.tab) = x.version
    BY <2>1 DEF SwitchInv, Core
  <2> QED BY <1>5, <1>6, <2>2, <2>3
<1>17. \A c \in TabIds : slot'[c].kind = "save" => c \in overrun'
  <2> SUFFICES ASSUME NEW c \in TabIds, slot'[c].kind = "save" PROVE c \in overrun'
    OBVIOUS
  <2>1. slot[c].kind = "save"
    BY <1>12 DEF Controllers
  <2> QED BY <2>1 DEF Core, SavesShown
<1>18. SavesShown'
  BY <1>17 DEF SavesShown
<1>19. SaverInv'
  <2> SUFFICES ASSUME NEW x \in workers', x.what \in Saving, slot'[x.tab].kind = "save",
                      slot'[x.tab].gen = x.gen
               PROVE  x.version = Current(x.tab)' /\ x.tab \in overrun'
    BY DEF SaverInv
  <2>1. PICK w \in workers : x.what = w.what /\ x.gen = w.gen /\ x.tab = w.tab
                               /\ x.path = w.path /\ x.version = w.version
    BY <1>10
  <2>2. x.tab \in TabIds /\ x.tab # t
    BY <1>9, <1>11 DEF WorkersInv, Saving
  <2>3. slot[x.tab].kind = "save" /\ slot[x.tab].gen = x.gen
    BY <1>12, <2>2 DEF Eased, Controllers
  <2>4. x.version = Current(x.tab)
    BY <2>1, <2>3 DEF Core, SaverInv
  <2> QED BY <1>5, <1>17, <2>2, <2>4
<1>20. ShownIsCurrent'
  BY <1>1, <1>7 DEF ShownIsCurrent, HasSession
<1>21. OneWriter'
  <2> SUFFICES ASSUME NEW c \in OpenTabs' \ overrun', docs'[c].path # None,
                      NEW d \in OpenTabs', d \notin {c} \cup overrun', docs'[d].path = docs'[c].path
               PROVE  FALSE
    BY DEF OneWriter, Owners
  <2>1. c # t => c \in OpenTabs /\ docs'[c] = docs[c]
    BY <1>5, <1>6 DEF OpenTabs
  <2>2. d # t => d \in OpenTabs /\ docs'[d] = docs[d]
    BY <1>5, <1>6 DEF OpenTabs
  <2>3. CASE c # t /\ d # t
    BY <2>1, <2>2, <2>3 DEF Core, OneWriter, Owners
  <2>4. CASE c = t /\ d # t
    BY <1>2, <1>3, <2>2, <2>4 DEF Owners
  <2>5. CASE c # t /\ d = t
    BY <1>2, <1>3, <2>1, <2>5 DEF Owners
  <2> QED BY <2>3, <2>4, <2>5
<1> QED BY <1>1, <1>6, <1>7, <1>8, <1>9, <1>14, <1>15, <1>16, <1>18, <1>19, <1>20, <1>21 DEF Core

\* A new version has no other name.
LEMMA FreshIs ==
    ASSUME NEW t, Unnamed(t) # {}
    PROVE  Fresh(t) \in Versions /\ Fresh(t) \notin Named(t)
<1>1. Unnamed(t) \subseteq Nat /\ Unnamed(t) \subseteq Versions
  BY WindowAssumption DEF Unnamed, Versions
<1>2. Fresh(t) = Min(Unnamed(t))
  BY DEF Fresh, Min
<1> QED BY <1>1, <1>2, LeastIs DEF Unnamed

\* A version becomes the current one.
LEMMA Accepted ==
    ASSUME Core, active \in TabIds, slot[active].kind \in Changing,
           NEW v \in Versions, Accept(v, v),
           slot[active].kind = "move" => v = slot[active].version,
           slot' = [slot EXCEPT ![active] = Free], NEW w, workers' = workers \ {w},
           UNCHANGED <<order, active, switch, overrun>>
    PROVE  /\ Core' /\ OpenTabs' = OpenTabs /\ active \in OpenTabs /\ Current(active)' = v
           /\ \A c \in TabIds : c # active => docs'[c] = docs[c]
           /\ docs'[active].saved = docs[active].saved
           /\ docs'[active].line = (IF slot[active].kind = "move" THEN docs[active].line
                                    ELSE Append(SubSeq(docs[active].line, 1, docs[active].pos), v))
           /\ docs'[active].pos = Place(docs'[active].line, v)
           /\ \A p, other : Owners(p, other)' = Owners(p, other)
<1> DEFINE d == docs[active]
           to == IF slot[active].kind = "move" THEN d.line ELSE Append(SubSeq(d.line, 1, d.pos), v)
<1>1. active \in OpenTabs /\ None \notin TabIds
  BY WindowAssumption DEF Core, SlotInv, Busy, Changing
<1>2. d \in Docs /\ d.pos \in 1..Len(d.line) /\ d.line \in Seq(Versions) /\ Len(d.line) \in Nat
  BY <1>1 DEF OpenTabs, Core, TabsInv, Docs
<1>3. to \in Seq(Versions) /\ v \in ToSet(to)
  <2>1. CASE slot[active].kind = "move"
    BY <1>1, <1>2, <2>1 DEF Core, SlotInv, Controllers
  <2>2. CASE slot[active].kind # "move"
    <3> DEFINE head == SubSeq(d.line, 1, d.pos)
    <3>1. head \in Seq(Versions)
      BY <1>2
    <3>2. to = Append(head, v)
      BY <2>2
    <3> HIDE DEF head, to
    <3>3. to \in Seq(Versions) /\ Len(to) = Len(head) + 1 /\ to[Len(head) + 1] = v /\ Len(head) \in Nat
      BY <3>1, <3>2
    <3>4. Len(head) + 1 \in DOMAIN to
      BY <3>3
    <3> QED BY <3>3, <3>4 DEF ToSet
  <2> QED BY <2>1, <2>2
<1>4. Place(to, v) \in DOMAIN to /\ to[Place(to, v)] = v
  <2> HIDE DEF to
  <2> QED BY <1>3, PlaceIs
<1>5. docs' = [docs EXCEPT ![active] = [d EXCEPT !.line = to, !.pos = Place(to, v)]]
  BY <1>1, <1>2 DEF Accept, Core, TabsInv
<1>6. picture' = <<active, v>>
  BY DEF Accept
<1> HIDE DEF to
<1>7. /\ docs'[active].line = to /\ docs'[active].pos = Place(to, v) /\ docs'[active] \in Docs
      /\ docs'[active].path = d.path /\ docs'[active].saved = d.saved
  <2>1. DOMAIN to = 1..Len(to) /\ Len(to) \in Nat
    BY <1>3
  <2>2. Place(to, v) \in Nat \ {0}
    BY <1>4, <2>1
  <2> QED BY <1>1, <1>2, <1>3, <1>5, <2>2 DEF Docs, Core, TabsInv, OpenTabs
<1>8. docs'[active] # None
  BY <1>7, NothingIsNothing
<1>9. \A c \in TabIds : c # active => docs'[c] = docs[c] /\ Current(c)' = Current(c)
  BY <1>5 DEF Current, Core, TabsInv
<1>10. OpenTabs' = OpenTabs
  BY <1>1, <1>8, <1>9 DEF OpenTabs
<1>11. Current(active)' = v
  BY <1>4, <1>7 DEF Current
<1>12. \A p, other : Owners(p, other)' = Owners(p, other)
  <2>1. \A c \in OpenTabs : docs'[c].path = docs[c].path
    BY <1>7, <1>9 DEF OpenTabs
  <2> QED BY <1>10, <2>1 DEF Owners
<1>13. TabsInv'
  <2>1. docs' \in [TabIds -> Docs \cup {None}]
    BY <1>5, <1>7, <1>9 DEF Core, TabsInv
  <2>2. docs'[active].pos <= Len(docs'[active].line)
    BY <1>3, <1>4, <1>7
  <2>3. \A c \in OpenTabs : docs'[c].pos <= Len(docs'[c].line)
    BY <1>9, <2>2 DEF Core, TabsInv, OpenTabs
  <2> QED BY <1>10, <2>1, <2>3 DEF Core, TabsInv
<1>14. WorkersInv'
  <2>1. IsFiniteSet(workers')
    BY FS_Subset DEF Core, WorkersInv
  <2> QED BY <2>1 DEF Core, WorkersInv
<1>15. \A c \in Controllers : slot'[c] = IF c = active THEN Free ELSE slot[c]
  BY DEF Core, SlotInv
<1>16. Free.kind = "free"
  BY DEF Free
<1>17. SlotInv'
  <2>1. slot' \in [Controllers -> Operations \cup {Free}]
    BY DEF Core, SlotInv
  <2>2. \A c \in TabIds : Busy(c)' => c \in OpenTabs
    BY <1>15, <1>16 DEF Core, SlotInv, Busy, Controllers
  <2>3. \A c \in Controllers : slot'[c].kind = "move" =>
           c \in OpenTabs /\ slot'[c].version \in ToSet(docs'[c].line)
    BY <1>9, <1>15, <1>16 DEF Core, SlotInv, OpenTabs
  <2> QED BY <1>10, <2>1, <2>2, <2>3 DEF SlotInv
<1>18. \A x \in workers' : x \in workers /\ x.tab \in Controllers
  BY DEF Core, WorkersInv, Jobs, Controllers
<1>19. SceneInv'
  BY <1>15, <1>16, <1>18 DEF Core, SceneInv, Changing
<1>20. SwitchInv'
  <2> SUFFICES ASSUME switch # None, NEW x \in workers', x.what = "picture", x.gen = switch.gen
               PROVE  /\ x.tab = switch.target /\ x.version = switch.base /\ x.tab # active
                      /\ x.tab \in OpenTabs => Current(x.tab)' = x.version
    BY <1>10 DEF SwitchInv, Core
  <2>1. x.tab \in TabIds
    BY DEF Core, WorkersInv
  <2> QED BY <1>9, <1>18, <2>1 DEF SwitchInv, Core
<1>21. SavesShown'
  BY <1>15, <1>16 DEF Core, SavesShown, Controllers
<1>22. SaverInv'
  <2> SUFFICES ASSUME NEW x \in workers', x.what \in Saving, slot'[x.tab].kind = "save",
                      slot'[x.tab].gen = x.gen
               PROVE  /\ x.version = Current(x.tab)'
                      /\ x.tab \notin overrun =>
                            x.tab = active /\ Owners(x.path, {x.tab} \cup overrun) = {}
    BY <1>12 DEF SaverInv
  <2>1. x.tab \in TabIds
    BY DEF Core, WorkersInv, Saving
  <2>2. x.tab # active
    BY <1>15, <1>16, <1>18
  <2> QED BY <1>9, <1>15, <1>18, <2>1, <2>2 DEF Core, SaverInv
<1>23. ShownIsCurrent'
  BY <1>1, <1>6, <1>11 DEF ShownIsCurrent, HasSession
<1>24. OneWriter'
  <2>1. \A c \in OpenTabs : docs'[c].path = docs[c].path
    BY <1>7, <1>9 DEF OpenTabs
  <2> QED BY <1>10, <1>12, <2>1 DEF Core, OneWriter
<1>25. docs'[active].line = (IF slot[active].kind = "move" THEN docs[active].line
                             ELSE Append(SubSeq(docs[active].line, 1, docs[active].pos), v))
         /\ docs'[active].pos = Place(docs'[active].line, v)
  BY <1>7 DEF to
<1> QED BY <1>1, <1>7, <1>9, <1>25, <1>10, <1>11, <1>12, <1>13, <1>14, <1>17, <1>19, <1>20, <1>21, <1>22, <1>23, <1>24 DEF Core

\* A change's worker answers with a version, whose picture is to be made.
LEMMA Staged ==
    ASSUME Core, NEW w \in workers, w.what = "step", NEW v \in Versions,
           active \in TabIds, slot[active].kind \in {"apply", "checkpoint"}, slot[active].gen = w.gen,
           slot' = [slot EXCEPT ![active] = [@ EXCEPT !.version = v]],
           workers' = (workers \ {w}) \cup {Worker("scene", w.gen, active, v, None)},
           DocumentsStay, switch' = switch
    PROVE  Core'
<1> DEFINE j == Worker("scene", w.gen, active, v, None)
<1>1. TabsInv' /\ ShownIsCurrent' /\ OneWriter'
        /\ OpenTabs' = OpenTabs /\ (\A t \in TabIds : Current(t)' = Current(t))
        /\ \A p, other : Owners(p, other)' = Owners(p, other)
  BY DocumentsKept DEF Core
<1>2. active' = active /\ docs' = docs /\ overrun' = overrun
  BY DEF DocumentsStay
<1>3. /\ j.what = "scene" /\ j.gen = w.gen /\ j.tab = active /\ j.version = v /\ j \in Jobs
  BY DEF Worker, Jobs, Core, WorkersInv
<1> HIDE DEF j
<1>4. workers' = (workers \ {w}) \cup {j}
  BY DEF j
<1>5. \A x \in workers' : x = j \/ (x \in workers /\ x.gen # w.gen)
  BY <1>4 DEF Core, WorkersInv
<1>6. WorkersInv'
  <2>1. IsFiniteSet(workers')
    <3>1. IsFiniteSet(workers \ {w})
      BY FS_Subset DEF Core, WorkersInv
    <3> QED BY <1>4, <3>1, FS_AddElement
  <2>2. workers' \in SUBSET Jobs
    BY <1>3, <1>4 DEF Core, WorkersInv
  <2>3. \A x, y \in workers' : x.gen = y.gen => x = y
    BY <1>3, <1>5 DEF Core, WorkersInv
  <2> QED BY <1>3, <1>5, <2>1, <2>2, <2>3 DEF Core, WorkersInv, Saving
<1>7. \A x \in workers' : x.tab \in Controllers
  BY <1>6 DEF WorkersInv, Jobs, Controllers
<1>8. slot[active] \in Operations
  BY DEF Core, SlotInv, Controllers, Free
<1>9. /\ slot' \in [Controllers -> Operations \cup {Free}]
      /\ slot'[active].version = v
      /\ \A c \in Controllers : slot'[c].kind = slot[c].kind /\ slot'[c].gen = slot[c].gen
                                  /\ (c # active => slot'[c] = slot[c])
  <2> DEFINE op == [slot[active] EXCEPT !.version = v]
  <2>1. /\ op \in Operations /\ op.version = v
        /\ op.kind = slot[active].kind /\ op.gen = slot[active].gen
    BY <1>8 DEF Operations
  <2>2. slot' = [slot EXCEPT ![active] = op]
    OBVIOUS
  <2>3. active \in Controllers /\ slot \in [Controllers -> Operations \cup {Free}]
    BY DEF Core, SlotInv, Controllers
  <2> HIDE DEF op
  <2> QED BY <2>1, <2>2, <2>3
<1>10. SlotInv'
  <2>1. \A c \in TabIds : Busy(c)' => c \in OpenTabs
    BY <1>9 DEF Core, SlotInv, Busy, Controllers
  <2>2. \A c \in Controllers : slot'[c].kind = "move" =>
           c \in OpenTabs /\ slot'[c].version \in ToSet(docs[c].line)
    BY <1>9 DEF Core, SlotInv
  <2> QED BY <1>1, <1>2, <1>9, <2>1, <2>2 DEF SlotInv
<1>11. SceneInv'
  <2> SUFFICES ASSUME NEW x \in workers', x.what = "scene",
                      slot'[x.tab].kind \in Changing, slot'[x.tab].gen = x.gen
               PROVE  slot'[x.tab].version = x.version
    BY DEF SceneInv
  <2>1. CASE x = j
    BY <1>3, <1>9, <2>1
  <2>2. CASE x \in workers /\ x.gen # w.gen
    BY <1>7, <1>9, <2>2 DEF Core, SceneInv
  <2> QED BY <1>5, <2>1, <2>2
<1>12. SwitchInv'
  BY <1>1, <1>2, <1>3, <1>5, <1>6 DEF Core, SwitchInv, WorkersInv
<1>13. SavesShown'
  BY <1>2, <1>9 DEF Core, SavesShown, Controllers
<1>14. SaverInv'
  <2> SUFFICES ASSUME NEW x \in workers', x.what \in Saving, slot'[x.tab].kind = "save",
                      slot'[x.tab].gen = x.gen
               PROVE  /\ x.version = Current(x.tab)
                      /\ x.tab \notin overrun =>
                            x.tab = active /\ Owners(x.path, {x.tab} \cup overrun) = {}
    BY <1>1, <1>2, <1>6 DEF SaverInv, WorkersInv, Saving
  <2>1. x \in workers
    BY <1>3, <1>5 DEF Saving
  <2> QED BY <1>7, <1>9, <2>1 DEF Core, SaverInv
<1> QED BY <1>1, <1>6, <1>10, <1>11, <1>12, <1>13, <1>14 DEF Core

\* The picture of a hidden tab is there, and that tab is shown.
LEMMA Shown ==
    ASSUME Core, NEW w \in workers, w.what = "picture", Awaits(w), HoldsSwitch,
           active' = switch.target, picture' = <<w.tab, w.version>>,
           slot' = [slot EXCEPT ![active] = Free], workers' = workers \ {w}, switch' = None,
           UNCHANGED <<docs, order, overrun>>
    PROVE  Core' /\ OpenTabs' = OpenTabs /\ (\A t \in TabIds : Current(t)' = Current(t))
<1>1. switch # None /\ switch.target \in OpenTabs /\ switch.gen = w.gen /\ switch.target \in TabIds
  BY DEF Awaits, Hidden, OpenTabs
<1>2. w.tab = switch.target /\ Current(w.tab) = w.version
  BY <1>1 DEF Core, SwitchInv
<1>3. OpenTabs' = OpenTabs /\ (\A t \in TabIds : Current(t)' = Current(t))
        /\ \A p, other : Owners(p, other)' = Owners(p, other)
  BY DEF OpenTabs, Current, Owners
<1>4. TabsInv'
  BY <1>1, <1>3 DEF Core, TabsInv
<1>5. active \in Controllers /\ slot[active].kind = "switch"
  BY DEF Core, TabsInv, OpenTabs, Controllers, HoldsSwitch
<1>6. \A c \in Controllers : slot'[c] = IF c = active THEN Free ELSE slot[c]
  BY DEF Core, SlotInv
<1>7. Free.kind = "free"
  BY DEF Free
<1>8. SlotInv'
  <2>1. slot' \in [Controllers -> Operations \cup {Free}]
    BY DEF Core, SlotInv
  <2>2. \A c \in TabIds : Busy(c)' => c \in OpenTabs
    BY <1>6, <1>7 DEF Core, SlotInv, Busy, Controllers
  <2>3. \A c \in Controllers : slot'[c].kind = "move" =>
           c \in OpenTabs /\ slot'[c].version \in ToSet(docs[c].line)
    BY <1>6, <1>7 DEF Core, SlotInv
  <2> QED BY <1>3, <2>1, <2>2, <2>3 DEF SlotInv
<1>9. WorkersInv'
  <2>1. IsFiniteSet(workers')
    BY FS_Subset DEF Core, WorkersInv
  <2> QED BY <2>1 DEF Core, WorkersInv
<1>10. \A x \in workers' : x \in workers /\ x.tab \in Controllers
  BY DEF Core, WorkersInv, Jobs, Controllers
<1>11. SceneInv'
  BY <1>6, <1>7, <1>10 DEF Core, SceneInv, Changing
<1>12. SwitchInv'
  BY DEF SwitchInv
<1>13. \A c \in TabIds : slot'[c].kind = "save" => c \in overrun /\ slot[c].kind = "save"
  <2> SUFFICES ASSUME NEW c \in TabIds, slot'[c].kind = "save"
               PROVE  c \in overrun /\ slot[c].kind = "save"
    OBVIOUS
  <2>1. c # active /\ slot[c].kind = "save"
    BY <1>6, <1>7 DEF Controllers
  <2> QED BY <2>1 DEF Core, SavesShown
<1>14. SavesShown'
  BY <1>13 DEF SavesShown
<1>15. SaverInv'
  <2> SUFFICES ASSUME NEW x \in workers', x.what \in Saving, slot'[x.tab].kind = "save",
                      slot'[x.tab].gen = x.gen
               PROVE  x.version = Current(x.tab)' /\ x.tab \in overrun
    BY DEF SaverInv
  <2>1. x.tab \in TabIds
    BY <1>10 DEF Core, WorkersInv, Saving
  <2>2. slot[x.tab].gen = x.gen
    BY <1>6, <1>7, <1>10
  <2> QED BY <1>3, <1>10, <1>13, <2>1, <2>2 DEF Core, SaverInv
<1>16. ShownIsCurrent'
  BY <1>1, <1>2, <1>3, WindowAssumption DEF ShownIsCurrent, HasSession
<1>17. OneWriter'
  BY <1>3 DEF Core, OneWriter
<1> QED BY <1>3, <1>4, <1>8, <1>9, <1>11, <1>12, <1>14, <1>15, <1>16, <1>17 DEF Core

\* A save was published: the shown tab has that file, and no other one.
LEMMA Saved ==
    ASSUME Core, NEW w \in workers, w.what \in Saving, Addressed(w, {"save"}),
           slot' = [slot EXCEPT ![active] = Free], workers' = workers \ {w},
           docs' = [docs EXCEPT ![active].saved = w.version, ![active].path = w.path],
           UNCHANGED <<order, active, picture, switch, overrun>>
    PROVE  /\ Core' /\ OpenTabs' = OpenTabs /\ (\A t \in TabIds : Current(t)' = Current(t))
           /\ active \in OpenTabs /\ w.version = Current(active) /\ ~Dirty(active)'
           /\ \A c \in TabIds : c # active => docs'[c] = docs[c]
           /\ docs'[active].line = docs[active].line /\ docs'[active].pos = docs[active].pos
<1> DEFINE d == docs[active]
<1>1. /\ w.tab = active /\ active \in TabIds /\ slot[active].kind = "save"
      /\ w.version \in Versions /\ w.path \in Paths
  BY DEF Addressed, Core, WorkersInv, Saving
<1>2. active \in OpenTabs /\ None \notin TabIds
  BY <1>1, WindowAssumption DEF Core, SlotInv, Busy
<1>3. d \in Docs
  BY <1>2 DEF OpenTabs, Core, TabsInv
<1>4. docs' = [docs EXCEPT ![active] = [d EXCEPT !.saved = w.version, !.path = w.path]]
  BY <1>1, <1>3 DEF Core, TabsInv
<1>5. /\ docs'[active].line = d.line /\ docs'[active].pos = d.pos /\ docs'[active] \in Docs
      /\ docs'[active].path = w.path /\ docs'[active].saved = w.version
  <2> DEFINE e == [d EXCEPT !.saved = w.version, !.path = w.path]
  <2>1. e \in Docs /\ e.line = d.line /\ e.pos = d.pos /\ e.path = w.path /\ e.saved = w.version
    BY <1>1, <1>3 DEF Docs
  <2>2. docs'[active] = e
    BY <1>1, <1>4 DEF Core, TabsInv
  <2> HIDE DEF e
  <2> QED BY <2>1, <2>2
<1>6. docs'[active] # None
  BY <1>5, NothingIsNothing
<1>7. \A c \in TabIds : c # active => docs'[c] = docs[c]
  BY <1>4 DEF Core, TabsInv
<1>8. OpenTabs' = OpenTabs
  BY <1>2, <1>6, <1>7 DEF OpenTabs
<1>9. \A t \in TabIds : Current(t)' = Current(t)
  BY <1>5, <1>7 DEF Current
<1>10. w.version = Current(active)
         /\ (active \notin overrun => Owners(w.path, {active} \cup overrun) = {})
  BY <1>1 DEF Core, SaverInv, Addressed
<1>11. ~Dirty(active)'
  BY <1>1, <1>5, <1>9, <1>10 DEF Dirty
<1>12. TabsInv'
  <2>1. docs' \in [TabIds -> Docs \cup {None}]
    BY <1>4, <1>5, <1>7 DEF Core, TabsInv
  <2>2. \A c \in OpenTabs : docs'[c].pos <= Len(docs'[c].line)
    BY <1>5, <1>7 DEF Core, TabsInv, OpenTabs
  <2> QED BY <1>8, <2>1, <2>2 DEF Core, TabsInv
<1>13. WorkersInv'
  <2>1. IsFiniteSet(workers')
    BY FS_Subset DEF Core, WorkersInv
  <2> QED BY <2>1 DEF Core, WorkersInv
<1>14. \A c \in Controllers : slot'[c] = IF c = active THEN Free ELSE slot[c]
  BY DEF Core, SlotInv
<1>15. Free.kind = "free"
  BY DEF Free
<1>16. SlotInv'
  <2>1. slot' \in [Controllers -> Operations \cup {Free}]
    BY DEF Core, SlotInv
  <2>2. \A c \in TabIds : Busy(c)' => c \in OpenTabs
    BY <1>14, <1>15 DEF Core, SlotInv, Busy, Controllers
  <2>3. \A c \in Controllers : slot'[c].kind = "move" =>
           c \in OpenTabs /\ slot'[c].version \in ToSet(docs'[c].line)
    BY <1>7, <1>14, <1>15 DEF Core, SlotInv, OpenTabs
  <2> QED BY <1>8, <2>1, <2>2, <2>3 DEF SlotInv
<1>17. \A x \in workers' : x \in workers /\ x.tab \in Controllers
  BY DEF Core, WorkersInv, Jobs, Controllers
<1>18. SceneInv'
  BY <1>14, <1>15, <1>17 DEF Core, SceneInv, Changing
<1>19. SwitchInv'
  BY <1>8, <1>9, <1>17 DEF Core, SwitchInv, WorkersInv
<1>20. SavesShown'
  BY <1>14, <1>15 DEF Core, SavesShown, Controllers
<1>21. SaverInv'
  <2> SUFFICES ASSUME NEW x \in workers', x.what \in Saving, slot'[x.tab].kind = "save",
                      slot'[x.tab].gen = x.gen
               PROVE  x.version = Current(x.tab)' /\ x.tab \in overrun
    BY DEF SaverInv
  <2>1. x.tab \in TabIds
    BY <1>17 DEF Core, WorkersInv, Saving
  <2>2. x.tab # active /\ slot[x.tab] = slot'[x.tab]
    BY <1>14, <1>15, <1>17
  <2> QED BY <1>9, <1>17, <2>1, <2>2 DEF Core, SaverInv
<1>22. ShownIsCurrent'
  BY <1>1, <1>9 DEF Core, ShownIsCurrent, HasSession
<1>23. OneWriter'
  <2> SUFFICES ASSUME NEW c \in OpenTabs \ overrun, docs'[c].path # None,
                      NEW e \in OpenTabs, e \notin {c} \cup overrun, docs'[e].path = docs'[c].path
               PROVE  FALSE
    BY <1>8 DEF OneWriter, Owners
  <2>1. c # active => docs'[c] = docs[c]
    BY <1>7 DEF OpenTabs
  <2>2. e # active => docs'[e] = docs[e]
    BY <1>7 DEF OpenTabs
  <2>3. CASE c # active /\ e # active
    BY <2>1, <2>2, <2>3 DEF Core, OneWriter, Owners
  <2>4. CASE c = active
    BY <1>5, <1>10, <2>2, <2>4 DEF Owners
  <2>5. CASE c # active /\ e = active
    BY <1>5, <1>10, <2>1, <2>5 DEF Owners
  <2> QED BY <2>3, <2>4, <2>5
<1> QED BY <1>2, <1>5, <1>7, <1>8, <1>9, <1>10, <1>11, <1>12, <1>13, <1>16, <1>18, <1>19, <1>20, <1>21, <1>22, <1>23 DEF Core

\* A tab is closed, the shown one or another.
LEMMA Closed ==
    ASSUME Core, NEW t \in OpenTabs, CloseNow(t)
    PROVE  /\ Core' /\ OpenTabs' = OpenTabs \ {t}
           /\ \A c \in TabIds : c # t => docs'[c] = docs[c] /\ Current(c)' = Current(c)
           /\ turn' = Wait \/ (turn'.do = "show" /\ turn'.tab \in OpenTabs' /\ active' = None
                                 /\ turn' = Go("show", turn'.tab))
<1> DEFINE at == Place(order, t)
           rest == RemoveAt(order, at)
<1>1. t \in TabIds /\ None \notin TabIds
  BY WindowAssumption DEF OpenTabs
<1>2. /\ order' = rest /\ docs' = [docs EXCEPT ![t] = None]
      /\ slot' = [slot EXCEPT ![t] = Free] /\ overrun' = overrun \ {t}
      /\ UNCHANGED <<switch, workers>>
  BY DEF CloseNow
<1>3. IF t = active THEN active' = None /\ picture' = None
      ELSE UNCHANGED <<active, picture>>
  BY DEF CloseNow
<1>4. order \in Seq(TabIds) /\ Distinct(order) /\ ToSet(order) = OpenTabs
  BY DEF Core, TabsInv, Distinct
<1>5. at \in 1..Len(order) /\ order[at] = t
  <2>1. DOMAIN order = 1..Len(order)
    BY <1>4
  <2>2. at \in DOMAIN order /\ order[at] = t
    BY <1>4, PlaceIs
  <2> QED BY <2>1, <2>2
<1> HIDE DEF at
<1>6. rest \in Seq(TabIds) /\ Distinct(rest) /\ ToSet(rest) = OpenTabs \ {t}
  BY <1>4, <1>5, Removed
<1>7. turn' = Wait \/ \E i \in DOMAIN rest : turn' = Go("show", rest[i]) /\ active' = None
  <2>1. CASE t = active
    <3>1. turn' = IF rest = <<>> THEN Wait
                  ELSE Go("show", IF at <= Len(rest) THEN rest[at] ELSE Last(rest))
      BY <2>1 DEF CloseNow, at
    <3>2. DOMAIN rest = 1..Len(rest) /\ Len(rest) \in Nat
      BY <1>6
    <3>3. CASE rest # <<>>
      <4>1. Len(rest) # 0
        BY <1>6, <3>3
      <4>2. Len(rest) \in DOMAIN rest
        BY <3>2, <4>1
      <4>3. at <= Len(rest) => at \in DOMAIN rest
        BY <1>5, <3>2
      <4> QED BY <1>3, <2>1, <3>1, <3>3, <4>2, <4>3 DEF Last
    <3> QED BY <3>1, <3>3
  <2>2. CASE t # active
    BY <2>2 DEF CloseNow
  <2> QED BY <2>1, <2>2
<1> HIDE DEF rest
<1>8. \A c \in TabIds : c # t => docs'[c] = docs[c] /\ Current(c)' = Current(c)
  BY <1>2 DEF Current, Core, TabsInv
<1>9. docs'[t] = None
  BY <1>1, <1>2 DEF Core, TabsInv
<1>10. OpenTabs' = OpenTabs \ {t}
  BY <1>8, <1>9 DEF OpenTabs
<1>11. TabsInv'
  <2>1. docs' \in [TabIds -> Docs \cup {None}]
    BY <1>2 DEF Core, TabsInv
  <2>2. active' \in OpenTabs' \cup {None}
    BY <1>3, <1>10 DEF Core, TabsInv
  <2> QED BY <1>2, <1>6, <1>8, <1>10, <2>1, <2>2 DEF Core, TabsInv, Distinct, OpenTabs
<1>12. WorkersInv' /\ workers' = workers /\ \A x \in workers : x.tab \in Controllers
  BY <1>2 DEF Core, WorkersInv, Jobs, Controllers
<1>13. \A c \in Controllers : slot'[c] = IF c = t THEN Free ELSE slot[c]
  BY <1>2 DEF Core, SlotInv
<1>14. Free.kind = "free"
  BY DEF Free
<1>15. SlotInv'
  <2>1. slot' \in [Controllers -> Operations \cup {Free}]
    BY <1>2 DEF Core, SlotInv
  <2>2. \A c \in TabIds : Busy(c)' => c \in OpenTabs'
    BY <1>10, <1>13, <1>14 DEF Core, SlotInv, Busy, Controllers
  <2>3. \A c \in Controllers : slot'[c].kind = "move" =>
           c \in OpenTabs' /\ slot'[c].version \in ToSet(docs'[c].line)
    BY <1>8, <1>10, <1>13, <1>14 DEF Core, SlotInv, OpenTabs
  <2> QED BY <2>1, <2>2, <2>3 DEF SlotInv
<1>16. SceneInv'
  BY <1>12, <1>13, <1>14 DEF Core, SceneInv, Changing
<1>17. SwitchInv'
  <2> SUFFICES ASSUME switch # None, NEW x \in workers, x.what = "picture", x.gen = switch.gen
               PROVE  /\ x.tab = switch.target /\ x.version = switch.base /\ x.tab # active'
                      /\ x.tab \in OpenTabs' => Current(x.tab)' = x.version
    BY <1>2, <1>12 DEF SwitchInv, Core
  <2>1. x.tab \in TabIds
    BY DEF Core, WorkersInv
  <2> QED BY <1>1, <1>3, <1>8, <1>10, <2>1 DEF SwitchInv, Core
<1>18. \A c \in TabIds : slot'[c].kind = "save" => c # t /\ slot[c] = slot'[c]
  BY <1>13, <1>14 DEF Controllers
<1>19. SavesShown'
  BY <1>2, <1>3, <1>18 DEF Core, SavesShown
<1>20. \A p, other : Owners(p, other)' \subseteq Owners(p, other)
  BY <1>8, <1>10 DEF Owners, OpenTabs
<1>21. \A p, c : c # t => Owners(p, {c} \cup overrun)' \subseteq Owners(p, {c} \cup overrun)
  BY <1>2, <1>8, <1>10 DEF Owners, OpenTabs
<1>22. SaverInv'
  <2> SUFFICES ASSUME NEW x \in workers, x.what \in Saving, slot'[x.tab].kind = "save",
                      slot'[x.tab].gen = x.gen
               PROVE  /\ x.version = Current(x.tab)'
                      /\ x.tab \notin overrun' =>
                            x.tab = active' /\ Owners(x.path, {x.tab} \cup overrun)' = {}
    BY <1>12 DEF SaverInv
  <2>1. x.tab \in TabIds
    BY DEF Core, WorkersInv, Saving
  <2>2. x.tab # t /\ slot[x.tab] = slot'[x.tab]
    BY <1>18, <2>1
  <2>3. x.version = Current(x.tab)'
    BY <1>8, <2>1, <2>2 DEF Core, SaverInv
  <2>4. x.tab \notin overrun' => x.tab = active /\ Owners(x.path, {x.tab} \cup overrun) = {}
    BY <1>2, <2>2 DEF Core, SaverInv
  <2> QED BY <1>3, <1>21, <2>2, <2>3, <2>4
<1>23. ShownIsCurrent'
  <2>1. CASE t = active
    BY <1>3, <2>1 DEF ShownIsCurrent, HasSession
  <2>2. CASE t # active
    BY <1>3, <1>8, <2>2 DEF Core, TabsInv, ShownIsCurrent, HasSession, OpenTabs
  <2> QED BY <2>1, <2>2
<1>24. OneWriter'
  BY <1>2, <1>8, <1>10 DEF Core, OneWriter, Owners, OpenTabs
<1> QED BY <1>6, <1>2, <1>7, <1>8, <1>10, <1>11, <1>12, <1>15, <1>16, <1>17, <1>19, <1>22, <1>23, <1>24 DEF Core, Go, ToSet

-----------------------------------------------------------------------------
(* What a step does to the forms and the questions                         *)

\* The documents are the same, but what is unsaved may have been saved.
Same ==
    /\ OpenTabs' = OpenTabs
    /\ \A t \in TabIds :
          /\ Current(t)' = Current(t) /\ (Dirty(t)' => Dirty(t))
          /\ t \in OpenTabs => docs'[t].line = docs[t].line /\ docs'[t].pos = docs[t].pos

\* A step that leaves the documents leaves what is current and what is unsaved.
LEMMA SameDocuments ==
    ASSUME docs' = docs
    PROVE  Same
BY DEF Same, OpenTabs, Current, Dirty

\* A step that touches no form.
LEMMA FormsStay ==
    ASSUME FormsInv, Same, UNCHANGED <<active, form, draft, aside, closing, quit>>,
           \A t \in TabIds : t \in typed' <=> t \in typed,
           newOpen => newOpen', agreed \subseteq agreed'
    PROVE  FormsInv'
<1>1. FormsTyped'
  BY DEF FormsInv, FormsTyped
<1>2. PlacesInv'
  BY DEF FormsInv, PlacesInv, HasSession
<1>3. \A t : Held(t)' = Held(t)
  BY DEF Held
<1>4. \A t : FormsOf(t)' = FormsOf(t)
  BY <1>3 DEF FormsOf
<1>5. Kept'
  BY <1>4 DEF FormsInv, Kept, Same
<1>6. Confirmed'
  BY DEF FormsInv, Confirmed, FormOf
<1>7. PassInv'
  <2> SUFFICES ASSUME quit # None PROVE PassInv'
    BY DEF PassInv
  <2>1. \A t \in TabIds : Agreed(t) => Agreed(t)'
    BY DEF Agreed, Same, FormOf
  <2>2. \A t \in TabIds : Held(t)' # None /\ Held(t)'.confirmed => FormOf(t) \in agreed'
    BY <1>3 DEF FormsInv, PassInv, FormOf
  <2>3. \A t \in OpenTabs' : <<t, Current(t)'>> \in quit.answered => Agreed(t)'
    BY <2>1 DEF FormsInv, PassInv, Same, OpenTabs
  <2>4. \A t \in TabIds : \A v \in Versions : <<t, v>> \in quit.answered =>
              t \in OpenTabs' /\ v \in ToSet(SubSeq(docs'[t].line, 1, docs'[t].pos))
    <3> SUFFICES ASSUME NEW t \in TabIds, NEW v \in Versions, <<t, v>> \in quit.answered
                 PROVE  t \in OpenTabs' /\ v \in ToSet(SubSeq(docs'[t].line, 1, docs'[t].pos))
      OBVIOUS
    <3>1. t \in OpenTabs /\ v \in ToSet(SubSeq(docs[t].line, 1, docs[t].pos))
      BY DEF FormsInv, PassInv
    <3>2. docs'[t].line = docs[t].line /\ docs'[t].pos = docs[t].pos /\ OpenTabs' = OpenTabs
      BY <3>1 DEF Same
    <3> QED BY <3>1, <3>2
  <2> QED BY <2>2, <2>3, <2>4 DEF FormsInv, PassInv, FormOf, ToSet
<1> QED BY <1>1, <1>2, <1>5, <1>6, <1>7 DEF FormsInv

\* A question is given up: its forms go back.
LEMMA GaveUp ==
    ASSUME FormsInv, Same, GiveUp, UNCHANGED <<active, aside, typed, newOpen>>,
           active \in TabIds \cup {None}, newOpen => ~Modal
    PROVE  FormsInv'
<1>1. None \notin TabIds /\ \A t \in TabIds : Held(t) \in HeldForms \cup {None}
  BY WindowAssumption DEF FormsInv, FormsTyped, Passes, Held
<1>2. quit' = None /\ closing' = None
  BY DEF GiveUp
<1>3. \A t \in TabIds : draft'[t] = IF t # active /\ Held(t) # None THEN Held(t).form ELSE draft[t]
  BY DEF GiveUp
<1>4. form' = IF closing # None THEN closing.form
              ELSE IF HasSession /\ Held(active) # None THEN Held(active).form ELSE form
  <2>1. CASE closing # None
    BY <2>1 DEF GiveUp, FormsInv, PlacesInv, Held
  <2>2. CASE closing = None
    BY <2>2 DEF GiveUp
  <2> QED BY <2>1, <2>2
<1>5. closing # None => quit = None /\ closing.tab = active /\ active \in TabIds /\ closing.form \in Forms
  BY DEF FormsInv, PlacesInv, FormsTyped, Closings
<1>6. \A t \in TabIds : Held(t) # None => Held(t).form \in Forms
  BY <1>1 DEF HeldForms
<1>7. HasSession <=> active \in TabIds
  BY <1>1 DEF HasSession
<1>8. FormsTyped'
  <2>1. form' \in FormOrNone
    BY <1>4, <1>5, <1>6, <1>7 DEF FormsInv, FormsTyped, FormOrNone
  <2>2. draft' \in [TabIds -> FormOrNone]
    <3>1. \A t \in TabIds : draft'[t] \in FormOrNone
      BY <1>3, <1>6 DEF FormsInv, FormsTyped, FormOrNone
    <3>2. draft' = [t \in TabIds |-> draft'[t]]
      BY DEF GiveUp
    <3> QED BY <3>1, <3>2
  <2> QED BY <1>2, <2>1, <2>2 DEF FormsInv, FormsTyped
<1>9. PlacesInv'
  <2>1. HasSession => draft'[active] = None
    BY <1>3, <1>7 DEF FormsInv, PlacesInv
  <2>2. ~HasSession => form' = None
    BY <1>1, <1>4, <1>5, <1>7 DEF FormsInv, PlacesInv
  <2> QED BY <1>2, <2>1, <2>2 DEF FormsInv, PlacesInv, HasSession
<1>10. Confirmed' /\ PassInv'
  BY <1>2 DEF Confirmed, PassInv
<1>11. Kept'
  <2> SUFFICES ASSUME NEW t \in TabIds
               PROVE  /\ t \in typed <=> \E place \in Places : FormsOf(t)'[place] # None
                      /\ \A one, two \in Places :
                            FormsOf(t)'[one] # None /\ FormsOf(t)'[two] # None => one = two
                      /\ \A place \in Places : FormsOf(t)'[place] # None =>
                            t \in OpenTabs /\ FormsOf(t)'[place].base = Current(t)
    BY DEF Kept, Same
  <2> DEFINE f == FormsOf(t)
             g == FormsOf(t)'
  <2>1. /\ f.here = (IF t = active THEN form ELSE None)
        /\ f.draft = draft[t]
        /\ f.aside = (IF aside # None /\ aside.tab = t THEN aside.form ELSE None)
        /\ f.close = (IF closing # None /\ closing.tab = t THEN closing.form ELSE None)
        /\ f.quit = (IF Held(t) # None THEN Held(t).form ELSE None)
    BY DEF FormsOf
  <2>2. /\ g.here = (IF t = active THEN form' ELSE None)
        /\ g.draft = draft'[t]
        /\ g.aside = f.aside
        /\ g.close = None
        /\ g.quit = None
    BY <1>2 DEF FormsOf, Held
  <2>3. /\ t \in typed <=> \E place \in Places : f[place] # None
        /\ \A one, two \in Places : f[one] # None /\ f[two] # None => one = two
        /\ \A place \in Places : f[place] # None => t \in OpenTabs /\ f[place].base = Current(t)
    BY DEF FormsInv, Kept
  <2> HIDE DEF f, g
  <2>4. g.here = IF f.close # None THEN f.close
                 ELSE IF t = active /\ f.quit # None THEN f.quit ELSE f.here
    <3>1. CASE t = active
      BY <1>4, <1>5, <1>6, <1>7, <2>1, <2>2, <3>1, NothingIsNothing
    <3>2. CASE t # active
      BY <1>5, <2>1, <2>2, <3>2
    <3> QED BY <3>1, <3>2
  <2>5. g.draft = IF t # active /\ f.quit # None THEN f.quit ELSE f.draft
    BY <1>3, <1>6, <2>1, <2>2, NothingIsNothing
  <2>6. f.close # None => t = active
    BY <1>5, <2>1
  <2>7. f["here"] = f.here /\ f["draft"] = f.draft /\ f["aside"] = f.aside /\ f["close"] = f.close
          /\ f["quit"] = f.quit
    OBVIOUS
  <2>8. \A place \in Places : g[place] # None => \E one \in Places : f[one] = g[place]
    BY <2>2, <2>4, <2>5 DEF Places
  <2>9. \A place \in Places : f[place] # None => \E one \in Places : g[one] # None
    BY <2>1, <2>2, <2>3, <2>4, <2>5, <2>6 DEF Places
  <2>10. \A one, two \in Places : g[one] # None /\ g[two] # None => one = two
    BY <2>2, <2>3, <2>4, <2>5, <2>6 DEF Places
  <2> QED BY <2>3, <2>8, <2>9, <2>10 DEF g
<1> QED BY <1>8, <1>9, <1>10, <1>11 DEF FormsInv

-----------------------------------------------------------------------------
(* What a step does to the slots, the readings and the Reopen              *)

\* An operation that began, or stayed what it was.
LEMMA FormlessStays ==
    ASSUME Formless, typed' \subseteq typed,
           \A c \in TabIds :
              \/ slot'[c].kind = slot[c].kind
                    /\ (slot'[c].kind = "save" => slot'[c].next = slot[c].next)
              \/ slot'[c].kind = "checkpoint" \/ (slot'[c].kind = "save" /\ slot'[c].next = "close")
                    => c \notin typed
    PROVE  Formless'
BY DEF Formless

\* No Reopen runs in a window that reads nothing.
LEMMA NoReopen ==
    ASSUME ReopenInv, Idle, IoIdle
    PROVE  reopen = None
BY DEF ReopenInv, IoIdle

\* A Reopen that waits goes on waiting.
LEMMA ReopenWaits ==
    ASSUME ReopenInv, Same, docs' = docs, turn' = turn, Idle, reopen' = reopen,
           reopen # None => (Busy(active)' => Busy(active)) /\ (Modal' => Modal),
           reopen # None => awaited'.load = awaited.load,
           \A w \in workers : w.what = "load" /\ w.gen = reopen.wait => w \in workers'
    PROVE  ReopenInv'
<1>1. \A p, other : Owners(p, other)' = Owners(p, other)
  BY DEF Owners, OpenTabs
<1>2. CASE reopen = None
  BY <1>2 DEF ReopenInv
<1>3. CASE reopen # None
  <2>1. Idle' /\ ~Busy(active)' /\ ~Modal' /\ turn' = turn /\ awaited'.load = awaited.load
    BY <1>3 DEF ReopenInv, Idle
  <2>2. \E w \in workers' : /\ w.what = "load" /\ w.gen = reopen.wait
                            /\ w.path = reopen.files[reopen.next - 1]
    BY <1>3 DEF ReopenInv
  <2> QED BY <1>1, <1>3, <2>1, <2>2 DEF ReopenInv
<1> QED BY <1>2, <1>3

\* Nothing is about to be closed.
LEMMA NothingCloses ==
    ASSUME turn'.do # "close"
    PROVE  CloseInv'
BY DEF CloseInv

\* In an idle window that stays so.
LEMMA TurnStays ==
    ASSUME Idle, turn' = turn
    PROVE  TurnInv' /\ CloseInv'
BY DEF TurnInv, CloseInv, Idle, Wait

\* An operation begins in the shown tab, or a reading or a worker of another kind without one.
LEMMA BegunControl ==
    ASSUME Core, Control, ~newOpen, newOpen' = newOpen, reopen' = None, turn' = Wait,
           active' = active, typed' \subseteq typed,
           NEW others \in SUBSET workers, NEW j, workers' = others \cup {j},
           j.what \notin {"create", "copy"},
           \/ slot' = slot
           \/ \E op : /\ slot' = [slot EXCEPT ![active] = op] /\ op.kind \in Kinds
                      /\ op.kind = "checkpoint" \/ (op.kind = "save" /\ op.next = "close")
                            => active \notin typed,
           awaited' \in Awaiting, awaited'.create = awaited.create,
           \/ awaited'.copy = awaited.copy /\ (Copying => ~Modal')
           \/ awaited'.copy = None /\ \A w \in others : w.what # "copy"
    PROVE  Control'
<1>1. awaited.create = None /\ \A w \in workers : w.what # "create"
  <2>1. awaited.create = None
    BY DEF Control, MakingInv
  <2>2. \A w \in workers : w.gen # None
    BY WindowAssumption DEF Core, WorkersInv, Jobs
  <2> QED BY <2>1, <2>2 DEF Control, MakingInv
<1>2. IoTyped'
  BY DEF Control, IoTyped
<1>3. TurnInv' /\ CloseInv' /\ ReopenInv'
  BY DEF TurnInv, CloseInv, ReopenInv, Wait
<1>4. MakingInv'
  BY <1>1 DEF MakingInv
<1>5. Formless'
  <2>1. \A c \in TabIds : slot'[c] = slot[c] \/ c = active
    BY DEF Core, SlotInv, Controllers
  <2>2. CASE slot' = slot
    BY <2>2, FormlessStays DEF Control
  <2>3. CASE \E op : /\ slot' = [slot EXCEPT ![active] = op] /\ op.kind \in Kinds
                     /\ op.kind = "checkpoint" \/ (op.kind = "save" /\ op.next = "close")
                            => active \notin typed
    <3>1. active \in Controllers
      BY DEF Core, TabsInv, OpenTabs, Controllers
    <3>2. slot'[active].kind = "checkpoint" \/ (slot'[active].kind = "save" /\ slot'[active].next = "close")
            => active \notin typed
      BY <2>3, <3>1 DEF Core, SlotInv
    <3> QED BY <2>1, <3>2, FormlessStays DEF Control
  <2> QED BY <2>2, <2>3
<1>6. CopyInv'
  BY DEF Control, CopyInv, Copying
<1> QED BY <1>2, <1>3, <1>4, <1>5, <1>6 DEF Control

\* Operations end or are told, workers answer or are told.
LEMMA EasedControl ==
    ASSUME Core, Control, Idle, turn' = turn, newOpen' = newOpen, Same, docs' = docs, active' = active,
           Answered, Eased, \A c \in typed' : c \in typed \/ ~Busy(c),
           reopen' \in {reopen, None}, Modal' => Modal,
           newOpen => form' = None,
           awaited' \in Awaiting, awaited'.create = awaited.create,
           awaited'.load \in {awaited.load, None},
           reopen' # None => awaited'.load = awaited.load,
           reopen' # None =>
              \A w \in workers : w.what = "load" /\ w.gen = reopen.wait => w \in workers',
           \/ awaited'.copy = awaited.copy
           \/ awaited'.copy = None /\ \A w \in workers' : w.what # "copy"
    PROVE  Control'
<1>1. active \in Controllers /\ \A c \in Controllers : Busy(c)' => Busy(c)
  BY DEF Core, TabsInv, OpenTabs, Controllers, Busy, Eased, Free
<1>2. IoTyped'
  BY DEF Control, IoTyped
<1>3. TurnInv' /\ CloseInv'
  BY TurnStays
<1>4. MakingInv'
  BY <1>1 DEF Control, MakingInv, Answered, IoIdle
<1>5. Formless'
  <2> SUFFICES ASSUME NEW c \in TabIds,
                      slot'[c].kind = "checkpoint" \/ (slot'[c].kind = "save" /\ slot'[c].next = "close")
               PROVE  c \notin typed'
    BY DEF Formless
  <2>1. slot'[c].kind = slot[c].kind /\ slot'[c].next = slot[c].next /\ c \in Controllers
    BY DEF Eased, Controllers, Free
  <2>2. c \notin typed
    BY <2>1 DEF Control, Formless
  <2>3. Busy(c)
    BY <2>1 DEF Busy
  <2> QED BY <2>2, <2>3
<1>6. CopyInv'
  BY DEF Control, CopyInv, Copying, Answered
<1>7. ReopenInv'
  <2>1. CASE reopen' = None
    BY <2>1 DEF ReopenInv
  <2>2. CASE reopen' # None
    <3>1. Busy(active)' => Busy(active)
      BY <1>1
    <3>2. reopen' = reopen /\ awaited'.load = awaited.load
            /\ \A w \in workers : w.what = "load" /\ w.gen = reopen.wait => w \in workers'
      BY <2>2
    <3> QED BY <3>1, <3>2, ReopenWaits DEF Control
  <2> QED BY <2>1, <2>2
<1> QED BY <1>2, <1>3, <1>4, <1>5, <1>6, <1>7 DEF Control

\* One worker answers, and the others go on.
LEMMA AnsweredStays ==
    ASSUME WorkersInv, NEW w, workers' = workers \/ workers' = workers \ {w}
    PROVE  Answered
<1>1. IsFiniteSet(workers')
  BY FS_Subset DEF WorkersInv
<1> QED BY <1>1 DEF WorkersInv, Answered

\* One slot is given back.
LEMMA EasedStays ==
    ASSUME SlotInv, NEW c \in Controllers, slot' = slot \/ slot' = [slot EXCEPT ![c] = Free]
    PROVE  Eased
BY DEF SlotInv, Eased

\* Workers of one kind are told to stop; they stay who they were.
LEMMA Told ==
    ASSUME WorkersInv, NEW what,
           workers' = {IF w.what = what THEN [w EXCEPT !.wanted = FALSE] ELSE w : w \in workers}
    PROVE  Answered /\ \A w \in workers : w.what # what => w \in workers'
<1> DEFINE f == [w \in workers |-> IF w.what = what THEN [w EXCEPT !.wanted = FALSE] ELSE w]
<1>1. workers' = {f[w] : w \in workers}
  OBVIOUS
<1>2. \A w \in workers :
         /\ f[w] \in Jobs
         /\ f[w].what = w.what /\ f[w].gen = w.gen /\ f[w].tab = w.tab
         /\ f[w].version = w.version /\ f[w].path = w.path
         /\ w.what # what => f[w] = w
  <2> SUFFICES ASSUME NEW w \in workers
               PROVE  /\ f[w] \in Jobs
                      /\ f[w].what = w.what /\ f[w].gen = w.gen /\ f[w].tab = w.tab
                      /\ f[w].version = w.version /\ f[w].path = w.path
                      /\ w.what # what => f[w] = w
    OBVIOUS
  <2>1. w \in Jobs
    BY DEF WorkersInv
  <2>2. f[w] = IF w.what = what THEN [w EXCEPT !.wanted = FALSE] ELSE w
    OBVIOUS
  <2> HIDE DEF f
  <2>3. CASE w.what = what
    <3>1. f[w] = [w EXCEPT !.wanted = FALSE]
      BY <2>2, <2>3
    <3>2. f[w] \in Jobs
      BY <2>1, <3>1 DEF Jobs
    <3>3. /\ f[w].what = w.what /\ f[w].gen = w.gen /\ f[w].tab = w.tab
          /\ f[w].version = w.version /\ f[w].path = w.path
      BY <2>1, <3>1 DEF Jobs
    <3> QED BY <2>3, <3>2, <3>3
  <2>4. CASE w.what # what
    BY <2>1, <2>2, <2>4
  <2> QED BY <2>3, <2>4
<1>3. f = [w \in workers |-> f[w]]
  OBVIOUS
<1> HIDE DEF f
<1>4. f \in Surjection(workers, workers')
  BY <1>1, <1>3 DEF Surjection
<1>5. IsFiniteSet(workers')
  BY <1>4, FS_Surjection DEF WorkersInv
<1>6. \A x \in workers' : \E w \in workers : x = f[w]
  BY <1>1
<1>7. ASSUME NEW x \in workers', NEW y \in workers', x.gen = y.gen PROVE x = y
  <2>1. PICK w \in workers : x = f[w]
    BY <1>6
  <2>2. PICK u \in workers : y = f[u]
    BY <1>6
  <2>3. f[w].gen = w.gen /\ f[u].gen = u.gen
    BY <1>2
  <2>4. w = u
    BY <1>7, <2>1, <2>2, <2>3 DEF WorkersInv
  <2> QED BY <2>1, <2>2, <2>4
<1>8. ASSUME NEW x \in workers'
      PROVE  x \in Jobs /\ \E w \in workers :
                 /\ x.what = w.what /\ x.gen = w.gen /\ x.tab = w.tab
                 /\ x.version = w.version /\ x.path = w.path
  <2>1. PICK w \in workers : x = f[w]
    BY <1>6
  <2> QED BY <1>2, <2>1
<1>9. \A w \in workers : w.what # what => w \in workers'
  BY <1>1, <1>2
<1> QED BY <1>5, <1>7, <1>8, <1>9 DEF Answered

-----------------------------------------------------------------------------
(* Switches and saves begin                                                *)

\* An open document has a current version.
LEMMA CurrentTyped ==
    ASSUME TabsInv, NEW t \in OpenTabs
    PROVE  /\ docs[t] \in Docs /\ docs[t].pos \in DOMAIN docs[t].line
           /\ Current(t) \in Versions /\ t \in TabIds
<1>1. docs[t] \in Docs /\ t \in TabIds
  BY DEF TabsInv, OpenTabs
<1>2. docs[t].line \in Seq(Versions) /\ docs[t].pos \in Nat \ {0}
  BY <1>1 DEF Docs
<1>3. docs[t].pos \in 1..Len(docs[t].line) /\ DOMAIN docs[t].line = 1..Len(docs[t].line)
  BY <1>2 DEF TabsInv
<1>4. docs[t].line[docs[t].pos] \in Versions
  BY <1>2, <1>3
<1> QED BY <1>1, <1>3, <1>4 DEF Current

\* A switch begins: a worker draws the current version of a hidden tab.
LEMMA SwitchBegins ==
    ASSUME Core, Control, DocumentsStay, ~newOpen, newOpen' = newOpen, reopen' = None, turn' = Wait,
           typed' \subseteq typed, NEW t \in Hidden, NEW after \in {"nothing", "quit", "close"},
           NEW others \in SUBSET workers, BeginSwitch(t, after, others),
           awaited' \in Awaiting, awaited'.create = awaited.create,
           \/ awaited'.copy = awaited.copy /\ (Copying => ~Modal')
           \/ awaited'.copy = None /\ \A w \in others : w.what # "copy"
    PROVE  Core' /\ Control'
<1> DEFINE op == Operation("switch", NewGen)
           j == Worker("picture", NewGen, t, Current(t), None)
<1>1. t \in OpenTabs /\ t \in TabIds /\ Current(t) \in Versions /\ NewGen \in Nat
  BY CurrentTyped, GenIsNew DEF Hidden, Core
<1>2. Proper(j) /\ j.gen = NewGen /\ j.what = "picture" /\ j.tab = t /\ j.version = Current(t)
  BY <1>1 DEF Worker, Proper, Jobs, Saving
<1>3. op \in Operations /\ op.gen = NewGen /\ op.kind = "switch"
  BY <1>1 DEF Operation, Operations, Kinds
<1>4. /\ slot' = [slot EXCEPT ![active] = op] /\ workers' = others \cup {j}
      /\ switch' = [gen |-> NewGen, target |-> t, after |-> after, base |-> Current(t)]
  BY DEF BeginSwitch
<1>5. Switches(j)
  BY <1>1, <1>2, <1>4 DEF Switches
<1> HIDE DEF op, j
<1>6. Reserves(op, j)
  BY <1>2, <1>3 DEF Reserves, Saving
<1>7. Core'
  BY <1>2, <1>4, <1>5, <1>6, Started
<1>8. op.kind \in Kinds /\ op.kind \notin {"checkpoint", "save"}
  BY <1>3 DEF Kinds
<1>9. Control'
  BY <1>2, <1>4, <1>8, BegunControl DEF DocumentsStay
<1> QED BY <1>7, <1>9

\* A save begins: its worker writes the current version to a file of no other tab.
LEMMA SaveBegins ==
    ASSUME Core, Control, DocumentsStay, ~newOpen, newOpen' = newOpen, reopen' = None, turn' = Wait,
           typed' \subseteq typed, switch' = switch, awaited' = awaited, Copying => ~Modal',
           HasSession, NEW what \in Saving, NEW p \in Paths,
           NEW next \in {None, "quit", "closeForm", "close"}, BeginSave(what, p, next),
           what = "save" => p = docs[active].path, next = "close" => active \notin typed
    PROVE  Core' /\ Control'
<1> DEFINE op == [Operation("save", NewGen) EXCEPT !.next = next]
           j == Worker(what, NewGen, active, Current(active), p)
<1>1. active \in OpenTabs /\ active \in TabIds /\ Current(active) \in Versions /\ NewGen \in Nat
  BY CurrentTyped, GenIsNew DEF HasSession, Core, TabsInv
<1>2. /\ Proper(j) /\ j.gen = NewGen /\ j.what = what /\ j.tab = active /\ j.path = p
      /\ j.version = Current(active)
  BY <1>1 DEF Worker, Proper, Jobs, Saving
<1>3. op \in Operations /\ op.gen = NewGen /\ op.kind = "save" /\ op.next = next
  BY <1>1 DEF Operation, Operations, Kinds
<1>4. /\ slot' = [slot EXCEPT ![active] = op] /\ workers' = workers \cup {j}
      /\ what = "saveAs" => Owners(p, {active}) = {}
  BY DEF BeginSave
<1>5. active \notin overrun => Owners(p, {active} \cup overrun) = {}
  <2>1. CASE what = "save"
    <3>1. p # None
      BY WindowAssumption
    <3> QED BY <1>1, <2>1, <3>1 DEF Core, OneWriter
  <2>2. CASE what = "saveAs"
    BY <1>4, <2>2 DEF Owners
  <2> QED BY <2>1, <2>2 DEF Saving
<1> HIDE DEF op, j
<1>6. Reserves(op, j)
  BY <1>2, <1>3, <1>5 DEF Reserves, Saving
<1>7. Core'
  BY <1>2, <1>4, <1>6, Started DEF Saving
<1>8. op.kind \in Kinds /\ j.what \notin {"create", "copy"}
  BY <1>2, <1>3 DEF Kinds, Saving
<1>9. awaited \in Awaiting
  BY DEF Control, IoTyped
<1>10. Control'
  BY <1>2, <1>3, <1>4, <1>8, <1>9, BegunControl DEF DocumentsStay
<1> QED BY <1>7, <1>10

\* A save, to the document's own file or to another one.
LEMMA SaveThenBegins ==
    ASSUME Core, Control, DocumentsStay, ~newOpen, newOpen' = newOpen, reopen' = None, turn' = Wait,
           typed' \subseteq typed, switch' = switch, awaited' = awaited, Copying => ~Modal',
           HasSession, NEW next \in {None, "quit", "closeForm", "close"}, SaveThen(next),
           next = "close" => active \notin typed
    PROVE  Core' /\ Control'
<1>1. CASE docs[active].path # None /\ BeginSave("save", docs[active].path, next)
  <2>1. docs[active].path \in Paths
    <3>1. active \in OpenTabs
      BY DEF HasSession, Core, TabsInv
    <3>2. docs[active] \in Docs
      BY <3>1, CurrentTyped DEF Core
    <3> QED BY <1>1, <3>2 DEF Docs
  <2> QED BY <1>1, <2>1, SaveBegins DEF Saving
<1>2. CASE \E p \in Paths : BeginSave("saveAs", p, next)
  BY <1>2, SaveBegins DEF Saving
<1> QED BY <1>1, <1>2 DEF SaveThen

\* A person begins only when nothing is being made and no Reopen runs.
LEMMA Quiet ==
    ASSUME Control, Idle, IoIdle
    PROVE  reopen = None /\ awaited \in Awaiting /\ (~Making => ~newOpen)
BY NoReopen DEF Control, IoTyped, Making

-----------------------------------------------------------------------------
(* What a person begins                                                    *)

\* A step that leaves the documents, the forms and the questions.
LEMMA Touchless ==
    ASSUME FormsInv, UNCHANGED <<docs, active, form, draft, aside, closing, typed, quit, agreed>>,
           newOpen => newOpen'
    PROVE  FormsInv' /\ Modal' = Modal
<1>1. FormsInv'
  BY SameDocuments, FormsStay
<1> QED BY <1>1 DEF Modal

\* The places of a tab's form, one by one.
LEMMA PlacesOf ==
    ASSUME NEW t
    PROVE  /\ FormsOf(t)["here"] = (IF t = active THEN form ELSE None)
           /\ FormsOf(t)["draft"] = draft[t]
           /\ FormsOf(t)["aside"] = (IF aside # None /\ aside.tab = t THEN aside.form ELSE None)
           /\ FormsOf(t)["close"] = (IF closing # None /\ closing.tab = t THEN closing.form ELSE None)
           /\ FormsOf(t)["quit"] = (IF Held(t) # None THEN Held(t).form ELSE None)
BY DEF FormsOf

\* A tab whose form is nowhere to be seen has none.
LEMMA Formfree ==
    ASSUME FormsInv, ~Modal, ~newOpen, NEW t \in TabIds,
           (IF t = active THEN form ELSE draft[t]) = None
    PROVE  t \notin typed
<1>1. aside = None /\ closing = None /\ Held(t) = None
  BY DEF FormsInv, PlacesInv, Modal, Held
<1>2. draft[t] = None
  BY WindowAssumption DEF FormsInv, PlacesInv, HasSession
<1>3. \A place \in Places : FormsOf(t)[place] = None
  BY <1>1, <1>2, PlacesOf DEF Places
<1> QED BY <1>3 DEF FormsInv, Kept

\* Apply and a checkpoint begin alike.
LEMMA StepBegins ==
    ASSUME WindowInv, NEW kind \in {"apply", "checkpoint"}, BeginStep(kind),
           Idle, HasSession, ~Making, IoIdle, kind = "checkpoint" => form = None /\ ~Modal,
           Copying => ~Modal
    PROVE  WindowInv'
<1> DEFINE op == Operation(kind, NewGen)
           j == Worker("step", NewGen, active, None, None)
<1>1. FormsInv' /\ Modal' = Modal
  BY Touchless DEF WindowInv, BeginStep, tabVars, formVars, ioVars, history
<1>2. active \in TabIds /\ NewGen \in Nat
  BY CurrentTyped, GenIsNew DEF HasSession, WindowInv, Core, TabsInv
<1>3. Proper(j) /\ j.gen = NewGen /\ j.what = "step" /\ j.tab = active
  BY <1>2 DEF Worker, Proper, Jobs, Saving
<1>4. op \in Operations /\ op.gen = NewGen /\ op.kind = kind
  BY <1>2 DEF Operation, Operations, Kinds
<1>5. /\ slot' = [slot EXCEPT ![active] = op] /\ workers' = workers \cup {j}
      /\ UNCHANGED <<tabVars, formVars, quit, ioVars, switch, turn, history>>
  BY DEF BeginStep
<1> HIDE DEF op, j
<1>6. Reserves(op, j)
  BY <1>3, <1>4 DEF Reserves, Saving
<1>7. DocumentsStay
  BY <1>5 DEF DocumentsStay, tabVars, history
<1>8. Core'
  BY <1>3, <1>5, <1>6, <1>7, Started DEF WindowInv
<1>9. reopen = None /\ awaited \in Awaiting /\ ~newOpen
  BY Quiet DEF WindowInv
<1>10. kind = "checkpoint" => active \notin typed
  BY <1>2, <1>9, Formfree DEF WindowInv
<1>11. Control'
  BY <1>1, <1>3, <1>4, <1>5, <1>9, <1>10, BegunControl
  DEF WindowInv, ioVars, tabVars, history, Kinds, Idle
<1> QED BY <1>1, <1>8, <1>11 DEF WindowInv

\* Each handler of what a person does, in turn. Apply:
LEMMA ApplyKeeps ==
    ASSUME WindowInv, Apply
    PROVE  WindowInv'
BY StepBegins DEF Apply, CanLeave, CanShow

\* A checkpoint finds no form, which Formless remembers.
LEMMA CheckpointKeeps ==
    ASSUME WindowInv, Checkpoint
    PROVE  WindowInv'
BY StepBegins DEF Checkpoint, DocumentIdle, Settled

\* Undo and Redo go to a version of the line.
LEMMA UndoKeeps ==
    ASSUME WindowInv, NEW to, Undo(to)
    PROVE  WindowInv'
<1> DEFINE v == docs[active].line[to]
           op == [Operation("move", NewGen) EXCEPT !.version = v]
           j == Worker("scene", NewGen, active, v, None)
<1>1. FormsInv' /\ Modal' = Modal
  BY Touchless DEF WindowInv, Undo, tabVars, formVars, ioVars, history
<1>2. active \in TabIds /\ NewGen \in Nat /\ active \in OpenTabs /\ docs[active] \in Docs
  BY CurrentTyped, GenIsNew DEF Undo, HasSession, WindowInv, Core, TabsInv
<1>3. v \in Versions /\ v \in ToSet(docs[active].line)
  <2>1. docs[active].line \in Seq(Versions) /\ to \in DOMAIN docs[active].line
    BY <1>2 DEF Docs, Undo
  <2> QED BY <2>1 DEF ToSet
<1>4. /\ slot' = [slot EXCEPT ![active] = op] /\ workers' = workers \cup {j}
      /\ UNCHANGED <<tabVars, formVars, quit, ioVars, switch, turn, history>>
  BY DEF Undo
<1> HIDE DEF v
<1>5. Proper(j) /\ j.gen = NewGen /\ j.what = "scene" /\ j.version = v
  BY <1>2, <1>3 DEF Worker, Proper, Jobs, Saving
<1>6. op \in Operations /\ op.gen = NewGen /\ op.kind = "move" /\ op.version = v
  BY <1>2, <1>3 DEF Operation, Operations, Kinds
<1> HIDE DEF op, j
<1>7. Reserves(op, j)
  BY <1>2, <1>3, <1>5, <1>6 DEF Reserves, Saving
<1>8. DocumentsStay
  BY <1>4 DEF DocumentsStay, tabVars, history
<1>9. Core'
  BY <1>4, <1>5, <1>7, <1>8, Started DEF WindowInv
<1>10. reopen = None /\ awaited \in Awaiting /\ ~newOpen /\ ~Modal
  BY Quiet DEF WindowInv, Undo, DocumentIdle, Settled
<1>11. Control'
  BY <1>1, <1>4, <1>5, <1>6, <1>10, BegunControl
  DEF WindowInv, ioVars, tabVars, history, Kinds, Undo, Idle
<1> QED BY <1>1, <1>9, <1>11 DEF WindowInv

\* Save and Save As.
LEMMA SaveKeeps ==
    ASSUME WindowInv, Save \/ \E p \in Paths : SaveAs(p)
    PROVE  WindowInv'
<1>1. /\ Idle /\ ~Modal /\ Settled /\ HasSession
      /\ UNCHANGED <<tabVars, formVars, quit, ioVars, switch, turn, history>>
  BY DEF Save, SaveAs
<1>2. FormsInv' /\ Modal' = Modal
  BY <1>1, Touchless DEF WindowInv, tabVars, formVars, ioVars, history
<1>3. DocumentsStay
  BY <1>1 DEF DocumentsStay, tabVars, history
<1>4. reopen = None /\ ~newOpen
  BY <1>1, Quiet DEF WindowInv, Settled
<1>5. /\ newOpen' = newOpen /\ reopen' = None /\ turn' = Wait /\ typed' = typed
      /\ awaited' = awaited /\ switch' = switch /\ (Copying => ~Modal')
      /\ None # "close"
  BY NothingIsNothing, <1>1, <1>2, <1>4 DEF ioVars, history, Idle
<1>6. CASE Save
  <2>1. SaveThen(None)
    BY <1>6 DEF Save
  <2>2. Core' /\ Control'
    BY <1>1, <1>2, <1>3, <1>4, <1>5, <2>1, SaveThenBegins DEF WindowInv
  <2> QED BY <1>2, <2>2 DEF WindowInv
<1>7. CASE \E p \in Paths : SaveAs(p)
  <2>1. PICK p \in Paths : BeginSave("saveAs", p, None)
    BY <1>7 DEF SaveAs
  <2>2. Core' /\ Control'
    BY <1>1, <1>2, <1>3, <1>4, <1>5, <2>1, SaveBegins DEF WindowInv, Saving
  <2> QED BY <1>2, <2>2 DEF WindowInv
<1> QED BY <1>6, <1>7

\* A press on a tab.
LEMMA SwitchToKeeps ==
    ASSUME WindowInv, NEW t \in TabIds, SwitchTo(t)
    PROVE  WindowInv'
<1>1. /\ Idle /\ ~Modal /\ CanLeave /\ t \in Hidden /\ BeginSwitch(t, "nothing", workers)
      /\ UNCHANGED <<tabVars, formVars, quit, ioVars, turn, history>>
  BY DEF SwitchTo
<1>2. FormsInv' /\ Modal' = Modal
  BY <1>1, Touchless DEF WindowInv, tabVars, formVars, ioVars, history
<1>3. DocumentsStay
  BY <1>1 DEF DocumentsStay, tabVars, history
<1>4. reopen = None /\ ~newOpen /\ awaited \in Awaiting
  BY <1>1, Quiet DEF WindowInv, CanLeave, CanShow
<1>5. newOpen' = newOpen /\ reopen' = None /\ turn' = Wait /\ typed' = typed /\ awaited' = awaited
  BY <1>1, <1>4 DEF ioVars, history, Idle
<1>6. Core' /\ Control'
  BY <1>1, <1>2, <1>3, <1>4, <1>5, SwitchBegins DEF WindowInv
<1> QED BY <1>2, <1>6 DEF WindowInv

\* Recover reserves the shown tab's slot.
LEMMA RecoverKeeps ==
    ASSUME WindowInv, Recover
    PROVE  WindowInv'
<1> DEFINE op == Operation("recover", NewGen)
           j == Worker("recover", NewGen, None, None, None)
<1>1. FormsInv' /\ Modal' = Modal
  BY Touchless DEF WindowInv, Recover, tabVars, formVars, history
<1>2. NewGen \in Nat
  BY GenIsNew DEF WindowInv, Core
<1>3. Proper(j) /\ j.gen = NewGen /\ j.what = "recover"
  BY <1>2 DEF Worker, Proper, Jobs, Saving
<1>4. op \in Operations /\ op.gen = NewGen /\ op.kind = "recover"
  BY <1>2 DEF Operation, Operations, Kinds
<1>5. /\ slot' = [slot EXCEPT ![active] = op] /\ workers' = workers \cup {j}
      /\ UNCHANGED <<tabVars, formVars, quit, newOpen, reopen, switch, turn, history>>
      /\ awaited' = [awaited EXCEPT !.recover = NewGen] /\ Idle /\ ~Modal /\ CanLeave
  BY DEF Recover
<1> HIDE DEF op, j
<1>6. Reserves(op, j)
  BY <1>3, <1>4 DEF Reserves, Saving
<1>7. DocumentsStay
  BY <1>5 DEF DocumentsStay, tabVars, history
<1>8. Core'
  BY <1>3, <1>5, <1>6, <1>7, Started DEF WindowInv
<1>9. reopen = None /\ awaited \in Awaiting /\ ~newOpen
  BY <1>5, Quiet DEF WindowInv, CanLeave, CanShow
<1>10. awaited' \in Awaiting /\ awaited'.create = awaited.create /\ awaited'.copy = awaited.copy
  BY <1>2, <1>5, <1>9 DEF Awaiting
<1>11. Control'
  BY <1>1, <1>3, <1>4, <1>5, <1>9, <1>10, BegunControl
  DEF WindowInv, tabVars, history, Kinds, Idle
<1> QED BY <1>1, <1>8, <1>11 DEF WindowInv

-----------------------------------------------------------------------------
(* Readings, copies and what is cancelled                                  *)

\* A reading begins, or the tab that has the file is about to be shown.
LEMMA ReadingBegins ==
    ASSUME Core, Control, DocumentsStay, ~newOpen, newOpen' = newOpen, reopen' = None, turn' = Wait,
           typed' \subseteq typed, NEW others \in SUBSET workers, NEW p \in Paths \cup {None},
           ReadDocument(p, others), \A w \in others : w.what # "copy"
    PROVE  Core' /\ Control'
<1>1. awaited \in Awaiting /\ NewGen \in Nat
  BY GenIsNew DEF Control, IoTyped, Core
<1>2. CASE /\ workers' = others \cup {Worker("load", NewGen, None, None, p)}
           /\ awaited' = [awaited EXCEPT !.load = NewGen, !.copy = None]
           /\ UNCHANGED <<slot, switch>>
  <2> DEFINE j == Worker("load", NewGen, None, None, p)
  <2>1. Proper(j) /\ j.gen = NewGen /\ j.what = "load"
    BY <1>1 DEF Worker, Proper, Jobs, Saving
  <2> HIDE DEF j
  <2>2. workers' = others \cup {j}
    BY <1>2 DEF j
  <2>3. Core'
    BY <1>2, <2>1, <2>2, Started
  <2>4. awaited' \in Awaiting /\ awaited'.create = awaited.create /\ awaited'.copy = None
    BY <1>1, <1>2 DEF Awaiting
  <2>5. Control'
    BY <1>2, <2>1, <2>2, <2>4, BegunControl DEF DocumentsStay
  <2> QED BY <2>3, <2>5
<1>3. CASE \E t \in Owners(p, {active}) :
              /\ BeginSwitch(t, "nothing", others)
              /\ awaited' = [awaited EXCEPT !.copy = None]
  <2>1. PICK t \in Owners(p, {active}) : BeginSwitch(t, "nothing", others)
    BY <1>3
  <2>2. t \in Hidden
    BY DEF Owners, Hidden
  <2>3. awaited' \in Awaiting /\ awaited'.create = awaited.create /\ awaited'.copy = None
    BY <1>1, <1>3 DEF Awaiting
  <2> QED BY <2>1, <2>2, <2>3, SwitchBegins
<1> QED BY <1>2, <1>3 DEF ReadDocument

\* Only the copy that is awaited is being made.
LEMMA NoCopy ==
    ASSUME Core, Control, NEW others \in SUBSET workers,
           \A w \in others : awaited.copy # w.gen
    PROVE  \A w \in others : w.what # "copy"
BY DEF Control, CopyInv

\* Open, which waits for a Reopen.
LEMMA OpenKeeps ==
    ASSUME WindowInv, NEW p \in Paths, Open(p)
    PROVE  WindowInv'
<1>1. /\ Idle /\ ~Modal /\ ~Copying /\ ~Making /\ reopen = None /\ ReadDocument(p, workers)
      /\ UNCHANGED <<tabVars, formVars, quit, newOpen, reopen, turn, history>>
  BY DEF Open
<1>2. FormsInv'
  BY <1>1, Touchless DEF WindowInv, tabVars, formVars, history
<1>3. DocumentsStay
  BY <1>1 DEF DocumentsStay, tabVars, history
<1>4. \A w \in workers : w.what # "copy"
  <2>1. \A w \in workers : w.gen # None
    BY WindowAssumption DEF WindowInv, Core, WorkersInv, Jobs
  <2> QED BY <1>1, <2>1, NoCopy DEF WindowInv, Copying
<1>5. ~newOpen /\ turn' = Wait /\ typed' = typed
  BY <1>1 DEF Making, Idle, history
<1>6. Core' /\ Control'
  BY <1>1, <1>3, <1>4, <1>5, ReadingBegins DEF WindowInv
<1> QED BY <1>2, <1>6 DEF WindowInv

\* An edited copy.
LEMMA StartCopyKeeps ==
    ASSUME WindowInv, NEW p \in Paths, StartCopy(p)
    PROVE  WindowInv'
<1> DEFINE j == Worker("copy", NewGen, active, form.base, p)
<1>1. /\ Idle /\ ~Modal /\ form # None /\ ~Copying /\ IoIdle
      /\ awaited' = [awaited EXCEPT !.copy = NewGen] /\ workers' = workers \cup {j}
      /\ UNCHANGED <<tabVars, slot, formVars, quit, newOpen, reopen, switch, turn, history>>
  BY DEF StartCopy
<1>2. FormsInv' /\ Modal' = Modal
  BY <1>1, Touchless DEF WindowInv, tabVars, formVars, history
<1>3. DocumentsStay
  BY <1>1 DEF DocumentsStay, tabVars, history
<1>4. reopen = None /\ awaited \in Awaiting /\ ~newOpen /\ NewGen \in Nat
  BY <1>1, Quiet, GenIsNew DEF WindowInv, Control, MakingInv, Core
<1>5. form.base \in Versions /\ active \in TabIds \cup {None}
  BY <1>1 DEF WindowInv, FormsInv, FormsTyped, FormOrNone, Forms, Core, TabsInv, OpenTabs
<1>6. Proper(j) /\ j.gen = NewGen /\ j.what = "copy"
  BY <1>4, <1>5 DEF Worker, Proper, Jobs, Saving
<1> HIDE DEF j
<1>7. Core'
  BY <1>1, <1>3, <1>6, Started DEF WindowInv
<1>8. \A w \in workers : w.what # "copy" /\ w.gen # None
  <2>1. \A w \in workers : w.gen # None
    BY WindowAssumption DEF WindowInv, Core, WorkersInv, Jobs
  <2> QED BY <1>1, <2>1, NoCopy DEF WindowInv, Copying
<1>9. /\ awaited' \in Awaiting /\ awaited'.create = awaited.create /\ awaited'.copy = NewGen
      /\ awaited'.load = awaited.load
  BY <1>1, <1>4 DEF Awaiting
<1>10. IoTyped' /\ TurnInv' /\ CloseInv' /\ ReopenInv'
  BY <1>1, <1>4, <1>9, TurnStays DEF WindowInv, Control, IoTyped, ReopenInv
<1>11. MakingInv'
  BY <1>1, <1>4, <1>6, <1>9 DEF WindowInv, Control, MakingInv
<1>12. Formless'
  BY <1>1 DEF WindowInv, Control, Formless, history
<1>13. CopyInv'
  BY <1>1, <1>2, <1>4, <1>6, <1>8, <1>9 DEF CopyInv
<1> QED BY <1>2, <1>7, <1>10, <1>11, <1>12, <1>13 DEF WindowInv, Control

\* New's document is being made.
LEMMA CreateNewKeeps ==
    ASSUME WindowInv, CreateNew
    PROVE  WindowInv'
<1> DEFINE j == Worker("create", NewGen, None, None, None)
<1>1. /\ Idle /\ ~Modal /\ newOpen /\ awaited.create = None /\ IoIdle /\ ~Copying
      /\ awaited' = [awaited EXCEPT !.create = NewGen] /\ workers' = workers \cup {j}
      /\ UNCHANGED <<tabVars, slot, formVars, quit, newOpen, reopen, switch, turn, history>>
  BY DEF CreateNew
<1>2. FormsInv' /\ Modal' = Modal
  BY <1>1, Touchless DEF WindowInv, tabVars, formVars, history
<1>3. DocumentsStay
  BY <1>1 DEF DocumentsStay, tabVars, history
<1>4. reopen = None /\ awaited \in Awaiting /\ NewGen \in Nat
  BY <1>1, Quiet, GenIsNew DEF WindowInv, Core
<1>5. Proper(j) /\ j.gen = NewGen /\ j.what = "create"
  BY <1>4 DEF Worker, Proper, Jobs, Saving
<1> HIDE DEF j
<1>6. Core'
  BY <1>1, <1>3, <1>5, Started DEF WindowInv
<1>7. \A w \in workers : w.what # "create"
  <2>1. \A w \in workers : w.gen # None
    BY WindowAssumption DEF WindowInv, Core, WorkersInv, Jobs
  <2> QED BY <1>1, <2>1 DEF WindowInv, Control, MakingInv
<1>8. /\ awaited' \in Awaiting /\ awaited'.create = NewGen /\ awaited'.copy = awaited.copy
      /\ awaited'.load = awaited.load
  BY <1>1, <1>4 DEF Awaiting
<1>9. IoTyped' /\ TurnInv' /\ CloseInv' /\ ReopenInv'
  BY <1>1, <1>4, <1>8, TurnStays DEF WindowInv, Control, IoTyped, ReopenInv
<1>10. MakingInv'
  <2>1. Busy(active)' = Busy(active) /\ IoIdle' = IoIdle /\ form' = form
    BY <1>1, <1>8 DEF Busy, IoIdle, tabVars, formVars
  <2> QED BY <1>1, <1>2, <1>5, <1>7, <1>8, <2>1 DEF WindowInv, Control, MakingInv
<1>11. Formless'
  BY <1>1 DEF WindowInv, Control, Formless, history
<1>12. CopyInv'
  BY <1>1, <1>5, <1>8 DEF WindowInv, Control, CopyInv, Copying
<1> QED BY <1>2, <1>6, <1>9, <1>10, <1>11, <1>12 DEF WindowInv, Control

\* A reading is given up, and the Reopen with it.
LEMMA CancelLoadKeeps ==
    ASSUME WindowInv, CancelLoad
    PROVE  WindowInv'
<1>1. /\ Idle /\ ~Modal /\ reopen' = None /\ awaited' = [awaited EXCEPT !.load = None]
      /\ UNCHANGED <<tabVars, slot, formVars, quit, newOpen, switch, workers, turn, history>>
  BY DEF CancelLoad
<1>2. FormsInv' /\ Modal' = Modal
  BY <1>1, Touchless DEF WindowInv, tabVars, formVars, history
<1>3. DocumentsStay /\ Same
  BY <1>1, SameDocuments DEF DocumentsStay, tabVars, history
<1>4. active \in Controllers
  BY DEF WindowInv, Core, TabsInv, OpenTabs, Controllers
<1>5. Answered /\ Eased
  BY <1>1, <1>4, AnsweredStays, EasedStays DEF WindowInv, Core
<1>6. Core'
  BY <1>1, <1>3, <1>5, Ended DEF WindowInv
<1>7. awaited \in Awaiting
  BY DEF WindowInv, Control, IoTyped
<1>8. /\ awaited' \in Awaiting /\ awaited'.create = awaited.create /\ awaited'.copy = awaited.copy
      /\ awaited'.load = None
  BY <1>1, <1>7 DEF Awaiting
<1>9. newOpen => form = None
  BY DEF WindowInv, Control, MakingInv
<1>10. Control'
  BY <1>1, <1>2, <1>3, <1>5, <1>8, <1>9, EasedControl DEF WindowInv, tabVars, formVars, history
<1> QED BY <1>2, <1>6, <1>10 DEF WindowInv

\* The worker of New is told.
LEMMA CancelCreateKeeps ==
    ASSUME WindowInv, CancelCreate
    PROVE  WindowInv'
<1>1. /\ Idle
      /\ workers' = {IF w.what = "create" THEN [w EXCEPT !.wanted = FALSE] ELSE w : w \in workers}
      /\ UNCHANGED <<tabVars, slot, formVars, quit, ioVars, switch, turn, history>>
  BY DEF CancelCreate
<1>2. FormsInv' /\ Modal' = Modal
  BY <1>1, Touchless DEF WindowInv, tabVars, formVars, history, ioVars
<1>3. DocumentsStay /\ Same
  BY <1>1, SameDocuments DEF DocumentsStay, tabVars, history
<1>4. active \in Controllers
  BY DEF WindowInv, Core, TabsInv, OpenTabs, Controllers
<1>5. Answered /\ Eased /\ \A w \in workers : w.what # "create" => w \in workers'
  BY <1>1, <1>4, Told, EasedStays DEF WindowInv, Core
<1>6. Core'
  BY <1>1, <1>3, <1>5, Ended DEF WindowInv
<1>7. awaited \in Awaiting
  BY DEF WindowInv, Control, IoTyped
<1>8. newOpen => form = None
  BY DEF WindowInv, Control, MakingInv
<1>9. Control'
  BY <1>1, <1>2, <1>3, <1>5, <1>7, <1>8, EasedControl DEF WindowInv, tabVars, formVars, history, ioVars
<1> QED BY <1>2, <1>6, <1>9 DEF WindowInv

\* The form of the shown tab is given up.
LEMMA FormGoes ==
    ASSUME FormsInv, Same, active \in TabIds, form' = None, typed' = typed \ {active},
           \/ form # None
           \/ aside = None /\ closing = None /\ Held(active) = None,
           UNCHANGED <<active, draft, aside, closing, quit, agreed>>, newOpen' = newOpen
    PROVE  FormsInv'
<1>1. FormsTyped'
  BY DEF FormsInv, FormsTyped, FormOrNone
<1>2. PlacesInv'
  BY DEF FormsInv, PlacesInv, HasSession
<1>3. \A t : Held(t)' = Held(t)
  BY DEF Held
<1>4. draft[active] = None
  BY WindowAssumption DEF FormsInv, PlacesInv, HasSession
<1>5. \A place \in Places : FormsOf(active)[place] # None => place = "here"
  <2>1. CASE form # None
    <3>1. "here" \in Places /\ FormsOf(active)["here"] # None
      BY <2>1, PlacesOf DEF Places
    <3> QED BY <3>1 DEF FormsInv, Kept
  <2>2. CASE aside = None /\ closing = None /\ Held(active) = None
    BY <1>4, <2>2, PlacesOf DEF Places
  <2> QED BY <2>1, <2>2
<1>6. \A t \in TabIds : \A place \in Places :
         FormsOf(t)'[place] = IF t = active /\ place = "here" THEN None ELSE FormsOf(t)[place]
  <2> SUFFICES ASSUME NEW t \in TabIds, NEW place \in Places
               PROVE  FormsOf(t)'[place] = IF t = active /\ place = "here" THEN None
                                           ELSE FormsOf(t)[place]
    OBVIOUS
  <2> DEFINE f == FormsOf(t)
             g == FormsOf(t)'
  <2>1. /\ f["here"] = (IF t = active THEN form ELSE None)
        /\ g["here"] = None
        /\ g["draft"] = f["draft"] /\ g["aside"] = f["aside"]
        /\ g["close"] = f["close"] /\ g["quit"] = f["quit"]
    BY <1>3 DEF FormsOf
  <2> HIDE DEF f, g
  <2>4. g[place] = IF t = active /\ place = "here" THEN None ELSE f[place]
    <3>1. CASE place = "here"
      BY <2>1, <3>1
    <3>2. CASE place # "here"
      BY <2>1, <3>2 DEF Places
    <3> QED BY <3>1, <3>2
  <2> QED BY <2>4 DEF f, g
<1>7. Kept'
  <2> SUFFICES ASSUME NEW t \in TabIds
               PROVE  /\ t \in typed' <=> \E place \in Places : FormsOf(t)'[place] # None
                      /\ \A one, two \in Places :
                            FormsOf(t)'[one] # None /\ FormsOf(t)'[two] # None => one = two
                      /\ \A place \in Places : FormsOf(t)'[place] # None =>
                            t \in OpenTabs /\ FormsOf(t)'[place].base = Current(t)
    BY DEF Kept, Same
  <2>1. CASE t = active
    BY <1>5, <1>6, <2>1
  <2>2. CASE t # active
    <3>1. \A place \in Places : FormsOf(t)'[place] = FormsOf(t)[place]
      BY <1>6, <2>2
    <3> QED BY <2>2, <3>1 DEF FormsInv, Kept
  <2> QED BY <2>1, <2>2
<1>8. Confirmed'
  BY DEF FormsInv, Confirmed, FormOf
<1>9. PassInv'
  <2> SUFFICES ASSUME quit # None PROVE PassInv'
    BY DEF PassInv
  <2>1. \A t \in TabIds : Agreed(t) => Agreed(t)'
    BY DEF Agreed, Same, FormOf
  <2>2. \A t \in TabIds : Held(t)' # None /\ Held(t)'.confirmed => FormOf(t) \in agreed'
    BY <1>3 DEF FormsInv, PassInv, FormOf
  <2>3. \A t \in OpenTabs' : <<t, Current(t)'>> \in quit.answered => Agreed(t)'
    BY <2>1 DEF FormsInv, PassInv, Same, OpenTabs
  <2>4. \A t \in TabIds : \A v \in Versions : <<t, v>> \in quit.answered =>
              t \in OpenTabs' /\ v \in ToSet(SubSeq(docs'[t].line, 1, docs'[t].pos))
    <3> SUFFICES ASSUME NEW t \in TabIds, NEW v \in Versions, <<t, v>> \in quit.answered
                 PROVE  t \in OpenTabs' /\ v \in ToSet(SubSeq(docs'[t].line, 1, docs'[t].pos))
      OBVIOUS
    <3>1. t \in OpenTabs /\ v \in ToSet(SubSeq(docs[t].line, 1, docs[t].pos))
      BY DEF FormsInv, PassInv
    <3>2. docs'[t].line = docs[t].line /\ docs'[t].pos = docs[t].pos /\ OpenTabs' = OpenTabs
      BY <3>1 DEF Same
    <3> QED BY <3>1, <3>2
  <2> QED BY <2>2, <2>3, <2>4 DEF FormsInv, PassInv, FormOf, ToSet
<1> QED BY <1>1, <1>2, <1>7, <1>8, <1>9 DEF FormsInv

\* A form is closed.
LEMMA CancelFormKeeps ==
    ASSUME WindowInv, CancelForm
    PROVE  WindowInv'
<1>1. /\ Idle /\ ~Modal /\ form # None /\ form' = None /\ typed' = typed \ {active}
      /\ workers' = {IF w.what = "copy" THEN [w EXCEPT !.wanted = FALSE] ELSE w : w \in workers}
      /\ UNCHANGED <<tabVars, slot, draft, aside, closing, quit, ioVars, switch, turn, agreed, overrun>>
  BY DEF CancelForm
<1>2. DocumentsStay /\ Same
  BY <1>1, SameDocuments DEF DocumentsStay, tabVars
<1>3. active \in TabIds
  BY <1>1 DEF WindowInv, FormsInv, PlacesInv, HasSession, Core, TabsInv, OpenTabs
<1>4. FormsInv'
  BY <1>1, <1>2, <1>3, FormGoes DEF WindowInv, tabVars, ioVars
<1>5. Answered /\ Eased /\ \A w \in workers : w.what # "copy" => w \in workers'
  BY <1>1, <1>3, Told, EasedStays DEF WindowInv, Core, Controllers
<1>6. Core'
  BY <1>1, <1>2, <1>5, Ended DEF WindowInv
<1>7. awaited \in Awaiting /\ Modal' = Modal
  BY <1>1 DEF WindowInv, Control, IoTyped, Modal
<1>8. Control'
  BY <1>1, <1>2, <1>5, <1>7, EasedControl DEF WindowInv, tabVars, ioVars
<1> QED BY <1>4, <1>6, <1>8 DEF WindowInv

\* Cancel, also of a switch that a Quit waits for: its questions are given up.
LEMMA CancelOperationKeeps ==
    ASSUME WindowInv, CancelOperation
    PROVE  WindowInv'
<1>1. /\ Idle /\ Busy(active) /\ switch' = None
      /\ slot' = [slot EXCEPT ![active] =
                    IF @.kind \in {"switch", "recover"} THEN Free ELSE [@ EXCEPT !.cancelled = TRUE]]
      /\ GiveUp \/ UNCHANGED <<quit, agreed, draft, form, closing>>
      /\ UNCHANGED <<tabVars, aside, ioVars, workers, turn, typed, overrun>>
  BY DEF CancelOperation
<1>2. DocumentsStay /\ Same
  BY <1>1, SameDocuments DEF DocumentsStay, tabVars
<1>3. active \in Controllers /\ active \in TabIds \cup {None}
  BY DEF WindowInv, Core, TabsInv, OpenTabs, Controllers
<1>4. ~newOpen /\ newOpen' = newOpen /\ active' = active
  BY <1>1 DEF WindowInv, Control, MakingInv, ioVars, tabVars
<1>5. FormsInv' /\ (Modal' => Modal)
  <2>1. CASE GiveUp
    BY <1>1, <1>2, <1>3, <1>4, <2>1, GaveUp DEF WindowInv, GiveUp, Modal
  <2>2. CASE UNCHANGED <<quit, agreed, draft, form, closing>>
    BY <1>1, <1>2, <1>4, <2>2, FormsStay DEF WindowInv, Modal
  <2> QED BY <1>1, <2>1, <2>2
<1>6. Eased
  <2> DEFINE op == IF slot[active].kind \in {"switch", "recover"} THEN Free
                   ELSE [slot[active] EXCEPT !.cancelled = TRUE]
  <2>1. slot[active] \in Operations
    BY <1>1, <1>3 DEF WindowInv, Core, SlotInv, Busy, Free
  <2>2. op = Free \/ (/\ op \in Operations /\ op.kind = slot[active].kind
                      /\ op.gen = slot[active].gen /\ op.version = slot[active].version
                      /\ op.next = slot[active].next)
    BY <2>1 DEF Operations
  <2>3. slot' = [slot EXCEPT ![active] = op]
    BY <1>1
  <2> HIDE DEF op
  <2> QED BY <1>3, <2>2, <2>3 DEF WindowInv, Core, SlotInv, Eased
<1>7. Answered
  BY <1>1, AnsweredStays DEF WindowInv, Core
<1>8. Core'
  BY <1>1, <1>2, <1>6, <1>7, Ended DEF WindowInv
<1>9. awaited \in Awaiting
  BY DEF WindowInv, Control, IoTyped
<1>10. Control'
  BY <1>1, <1>2, <1>4, <1>5, <1>6, <1>7, <1>9, EasedControl DEF WindowInv, tabVars, ioVars
<1> QED BY <1>5, <1>8, <1>10 DEF WindowInv

-----------------------------------------------------------------------------
(* Forms that are begun, set aside and held                                *)

\* The places of a tab's form after the step.
LEMMA PlacesNext ==
    ASSUME NEW t
    PROVE  /\ FormsOf(t)'["here"] = (IF t = active' THEN form' ELSE None)
           /\ FormsOf(t)'["draft"] = draft'[t]
           /\ FormsOf(t)'["aside"] = (IF aside' # None /\ aside'.tab = t THEN aside'.form ELSE None)
           /\ FormsOf(t)'["close"] = (IF closing' # None /\ closing'.tab = t THEN closing'.form ELSE None)
           /\ FormsOf(t)'["quit"] = (IF Held(t)' # None THEN Held(t)'.form ELSE None)
BY DEF FormsOf

\* Each tab's form stays where it is, or goes somewhere else.
Stays(t) == \A place \in Places : FormsOf(t)'[place] = FormsOf(t)[place]
Goes(t, from, to) ==
    /\ FormsOf(t)[from] # None /\ FormsOf(t)'[to] = FormsOf(t)[from] /\ FormsOf(t)'[from] = None
    /\ \A place \in Places \ {from, to} : FormsOf(t)'[place] = FormsOf(t)[place]

\* Forms that stay, or go from one place to another one, are kept.
LEMMA KeptMoves ==
    ASSUME Kept, typed' = typed, OpenTabs \subseteq OpenTabs',
           \A t \in OpenTabs : Current(t)' = Current(t),
           \A t \in TabIds : Stays(t) \/ \E from, to \in Places : from # to /\ Goes(t, from, to)
    PROVE  Kept'
<1> SUFFICES ASSUME NEW t \in TabIds
             PROVE  /\ t \in typed <=> \E place \in Places : FormsOf(t)'[place] # None
                    /\ \A one, two \in Places :
                          FormsOf(t)'[one] # None /\ FormsOf(t)'[two] # None => one = two
                    /\ \A place \in Places : FormsOf(t)'[place] # None =>
                          t \in OpenTabs' /\ FormsOf(t)'[place].base = Current(t)'
  BY DEF Kept
<1> DEFINE f == FormsOf(t)
           g == FormsOf(t)'
<1>1. /\ t \in typed <=> \E place \in Places : f[place] # None
      /\ \A one, two \in Places : f[one] # None /\ f[two] # None => one = two
      /\ \A place \in Places : f[place] # None => t \in OpenTabs /\ f[place].base = Current(t)
  BY DEF Kept
<1>2. \/ \A place \in Places : g[place] = f[place]
      \/ \E from, to \in Places :
            /\ from # to /\ f[from] # None /\ g[to] = f[from] /\ g[from] = None
            /\ \A place \in Places \ {from, to} : g[place] = f[place]
  BY DEF Stays, Goes
<1>3. /\ t \in typed <=> \E place \in Places : g[place] # None
      /\ \A one, two \in Places : g[one] # None /\ g[two] # None => one = two
      /\ \A place \in Places : g[place] # None => t \in OpenTabs' /\ g[place].base = Current(t)'
  <2> HIDE DEF f, g
  <2>1. CASE \A place \in Places : g[place] = f[place]
    BY <1>1, <2>1
  <2>2. CASE \E from, to \in Places :
                /\ from # to /\ f[from] # None /\ g[to] = f[from] /\ g[from] = None
                /\ \A place \in Places \ {from, to} : g[place] = f[place]
    <3>1. PICK from \in Places, to \in Places :
                /\ from # to /\ f[from] # None /\ g[to] = f[from] /\ g[from] = None
                /\ \A place \in Places \ {from, to} : g[place] = f[place]
      BY <2>2
    <3>2. \A place \in Places : g[place] = IF place = to THEN f[from] ELSE None
      BY <1>1, <3>1
    <3> QED BY <1>1, <3>1, <3>2
  <2> QED BY <1>2, <2>1, <2>2
<1> QED BY <1>3

\* A form is opened on the current version.
LEMMA BeginFormKeeps ==
    ASSUME WindowInv, NEW kind \in {"height", "editor"}, BeginForm(kind)
    PROVE  WindowInv'
<1>1. /\ Idle /\ ~Modal /\ CanLeave /\ HasSession /\ form = None
      /\ form' = [kind |-> kind, base |-> Current(active)] /\ typed' = typed \cup {active}
      /\ UNCHANGED <<tabVars, slot, draft, aside, closing, quit, ioVars, switch, workers, turn,
                     agreed, overrun>>
  BY DEF BeginForm
<1>2. active \in TabIds /\ active \in OpenTabs /\ Current(active) \in Versions
  BY <1>1, CurrentTyped DEF HasSession, WindowInv, Core, TabsInv
<1>3. ~newOpen /\ awaited \in Awaiting /\ ~Busy(active)
  BY <1>1, Quiet DEF WindowInv, CanLeave, CanShow
<1>4. active \notin typed
  BY <1>1, <1>2, <1>3, Formfree DEF WindowInv
<1>5. form' \in Forms /\ form' # None /\ form'.base = Current(active)
  <2>1. form' \in Forms /\ form'.base = Current(active)
    BY <1>1, <1>2 DEF Forms
  <2> QED BY <2>1, NothingIsNothing
<1>6. DocumentsStay /\ Same
  BY <1>1, SameDocuments DEF DocumentsStay, tabVars
<1>7. FormsTyped' /\ PlacesInv' /\ Confirmed' /\ PassInv' /\ Modal' = Modal
  <2>1. quit = None /\ closing = None /\ quit' = None /\ closing' = None
    BY <1>1 DEF Modal
  <2> QED BY <1>1, <1>2, <1>3, <1>5, <2>1
      DEF WindowInv, FormsInv, FormsTyped, FormOrNone, PlacesInv, Confirmed, PassInv, Modal,
          HasSession, tabVars, ioVars
<1>8. Kept'
  <2> SUFFICES ASSUME NEW t \in TabIds
               PROVE  /\ t \in typed' <=> \E place \in Places : FormsOf(t)'[place] # None
                      /\ \A one, two \in Places :
                            FormsOf(t)'[one] # None /\ FormsOf(t)'[two] # None => one = two
                      /\ \A place \in Places : FormsOf(t)'[place] # None =>
                            t \in OpenTabs /\ FormsOf(t)'[place].base = Current(t)
    BY <1>6 DEF Kept, Same
  <2>1. \A place \in Places : FormsOf(t)'[place] =
           IF place = "here" /\ t = active THEN form' ELSE FormsOf(t)[place]
    <3>1. /\ active' = active /\ draft' = draft /\ aside' = aside /\ closing' = closing
          /\ Held(t)' = Held(t)
      BY <1>1 DEF tabVars, Held
    <3> QED BY <1>1, <3>1, PlacesOf, PlacesNext DEF Places
  <2>2. CASE t = active
    <3>1. \A place \in Places : FormsOf(t)[place] = None
      BY <1>4, <2>2 DEF WindowInv, FormsInv, Kept
    <3>2. "here" \in Places /\ t \in typed'
      BY <1>1, <2>2 DEF Places
    <3> QED BY <1>2, <1>5, <2>1, <2>2, <3>1, <3>2
  <2>3. CASE t # active
    <3>1. \A place \in Places : FormsOf(t)'[place] = FormsOf(t)[place]
      BY <2>1, <2>3
    <3>2. t \in typed' <=> t \in typed
      BY <1>1, <2>3
    <3> QED BY <3>1, <3>2 DEF WindowInv, FormsInv, Kept
  <2> QED BY <2>2, <2>3
<1>9. Answered /\ Eased
  BY <1>1, <1>2, AnsweredStays, EasedStays DEF WindowInv, Core, Controllers
<1>10. Core'
  BY <1>1, <1>6, <1>9, Ended DEF WindowInv
<1>11. Control'
  BY <1>1, <1>3, <1>6, <1>7, <1>9, EasedControl DEF WindowInv, tabVars, ioVars
<1> QED BY <1>7, <1>8, <1>10, <1>11 DEF WindowInv, FormsInv

\* New sets the shown tab's form aside.
LEMMA BeginNewKeeps ==
    ASSUME WindowInv, BeginNew
    PROVE  WindowInv'
<1>1. /\ Idle /\ ~Modal /\ CanLeave /\ newOpen' = TRUE /\ form' = None
      /\ aside' = IF form # None THEN [tab |-> active, form |-> form] ELSE None
      /\ UNCHANGED <<tabVars, slot, draft, closing, quit, awaited, reopen, switch, workers, turn,
                     history>>
  BY DEF BeginNew
<1>2. ~newOpen /\ awaited \in Awaiting /\ ~Busy(active) /\ ~Copying /\ IoIdle /\ reopen = None
  BY <1>1, Quiet DEF WindowInv, CanLeave, CanShow
<1>3. aside = None /\ closing = None /\ quit = None /\ closing' = None /\ quit' = None
  BY <1>1, <1>2 DEF WindowInv, FormsInv, PlacesInv, Modal
<1>4. form # None => active \in TabIds /\ form \in Forms /\ aside' # None
                       /\ aside' \in Asides /\ aside'.tab = active /\ aside'.form = form
  <2> SUFFICES ASSUME form # None
               PROVE  active \in TabIds /\ form \in Forms /\ aside' # None
                       /\ aside' \in Asides /\ aside'.tab = active /\ aside'.form = form
    OBVIOUS
  <2>1. active \in TabIds /\ form \in Forms
    BY DEF WindowInv, FormsInv, FormsTyped, FormOrNone, PlacesInv, HasSession, Core, TabsInv, OpenTabs
  <2>2. aside' \in Asides /\ aside'.tab = active /\ aside'.form = form
    BY <1>1, <2>1 DEF Asides
  <2> QED BY <2>1, <2>2, NothingIsNothing
<1>5. DocumentsStay /\ Same /\ active' = active /\ typed' = typed /\ agreed' = agreed
  BY <1>1, SameDocuments DEF DocumentsStay, tabVars, history
<1>6. FormsTyped' /\ PlacesInv' /\ Confirmed' /\ PassInv' /\ ~Modal'
  <2>1. form = None => aside' = None
    BY <1>1
  <2> QED BY <1>1, <1>3, <1>4, <1>5, <2>1
      DEF WindowInv, FormsInv, FormsTyped, FormOrNone, PlacesInv, Confirmed, PassInv, Modal, HasSession
<1>7. Kept'
  <2>1. ASSUME NEW t \in TabIds
        PROVE  Stays(t) \/ \E from, to \in Places : from # to /\ Goes(t, from, to)
    <3>1. Held(t)' = Held(t) /\ draft' = draft /\ closing' = closing
      BY <1>1 DEF Held
    <3>2. CASE t = active /\ form # None
      <4>1. Goes(t, "here", "aside")
        BY <1>1, <1>3, <1>4, <1>5, <3>1, <3>2, PlacesOf, PlacesNext DEF Goes, Places
      <4> QED BY <4>1 DEF Places
    <3>3. CASE ~ (t = active /\ form # None)
      <4>1. Stays(t)
        BY <1>1, <1>3, <1>4, <1>5, <3>1, <3>3, PlacesOf, PlacesNext DEF Stays, Places
      <4> QED BY <4>1
    <3> QED BY <3>2, <3>3
  <2> QED BY <1>5, <2>1, KeptMoves DEF WindowInv, FormsInv, Same, OpenTabs
<1>8. Answered /\ Eased
  <2>1. active \in Controllers
    BY DEF WindowInv, Core, TabsInv, OpenTabs, Controllers
  <2> QED BY <1>1, <2>1, AnsweredStays, EasedStays DEF WindowInv, Core
<1>9. Core'
  BY <1>1, <1>5, <1>8, Ended DEF WindowInv
<1>10. IoTyped' /\ TurnInv' /\ CloseInv' /\ ReopenInv'
  BY <1>1, <1>2, TurnStays DEF WindowInv, Control, IoTyped, ReopenInv
<1>11. MakingInv'
  <2>1. ~Busy(active)' /\ IoIdle' /\ turn' = Wait
    BY <1>1, <1>2, <1>5 DEF Busy, IoIdle, Idle
  <2> QED BY <1>1, <1>2, <1>6, <2>1 DEF WindowInv, Control, MakingInv
<1>12. Formless' /\ CopyInv'
  <2>1. ~Copying' /\ awaited' = awaited /\ workers' = workers
    BY <1>1, <1>2 DEF Copying
  <2> QED BY <1>1, <1>5, <2>1 DEF WindowInv, Control, Formless, CopyInv
<1> QED BY <1>6, <1>7, <1>9, <1>10, <1>11, <1>12 DEF WindowInv, FormsInv, Control

\* And gives it back.
LEMMA CancelNewKeeps ==
    ASSUME WindowInv, CancelNew
    PROVE  WindowInv'
<1>1. /\ Idle /\ newOpen /\ awaited.create = None /\ newOpen' = FALSE /\ aside' = None
      /\ form' = IF aside # None THEN aside.form ELSE form
      /\ UNCHANGED <<tabVars, slot, draft, closing, quit, awaited, reopen, switch, workers, turn,
                     history>>
  BY DEF CancelNew
<1>2. ~Modal /\ form = None /\ reopen = None
  BY <1>1 DEF WindowInv, Control, MakingInv
<1>3. closing = None /\ quit = None /\ closing' = None /\ quit' = None
  BY <1>1, <1>2 DEF Modal
<1>4. aside # None => aside.tab = active /\ aside.form \in Forms /\ active \in TabIds
                        /\ aside.form # None
  BY NothingIsNothing DEF WindowInv, FormsInv, FormsTyped, PlacesInv, Asides
<1>5. DocumentsStay /\ Same /\ active' = active /\ typed' = typed /\ agreed' = agreed
  BY <1>1, SameDocuments DEF DocumentsStay, tabVars, history
<1>6. FormsTyped' /\ PlacesInv' /\ Confirmed' /\ PassInv' /\ ~Modal'
  BY <1>1, <1>2, <1>3, <1>4, <1>5, WindowAssumption
  DEF WindowInv, FormsInv, FormsTyped, FormOrNone, PlacesInv, Confirmed, PassInv, Modal, HasSession
<1>7. Kept'
  <2>1. ASSUME NEW t \in TabIds
        PROVE  Stays(t) \/ \E from, to \in Places : from # to /\ Goes(t, from, to)
    <3>1. Held(t)' = Held(t) /\ draft' = draft /\ closing' = closing
      BY <1>1 DEF Held
    <3>2. CASE t = active /\ aside # None
      <4>1. Goes(t, "aside", "here")
        BY <1>1, <1>2, <1>4, <1>5, <3>1, <3>2, PlacesOf, PlacesNext DEF Goes, Places
      <4> QED BY <4>1 DEF Places
    <3>3. CASE ~ (t = active /\ aside # None)
      <4>1. Stays(t)
        BY <1>1, <1>2, <1>4, <1>5, <3>1, <3>3, PlacesOf, PlacesNext DEF Stays, Places
      <4> QED BY <4>1
    <3> QED BY <3>2, <3>3
  <2> QED BY <1>5, <2>1, KeptMoves DEF WindowInv, FormsInv, Same, OpenTabs
<1>8. Answered /\ Eased
  <2>1. active \in Controllers
    BY DEF WindowInv, Core, TabsInv, OpenTabs, Controllers
  <2> QED BY <1>1, <2>1, AnsweredStays, EasedStays DEF WindowInv, Core
<1>9. Core'
  BY <1>1, <1>5, <1>8, Ended DEF WindowInv
<1>10. IoTyped' /\ TurnInv' /\ CloseInv' /\ ReopenInv'
  BY <1>1, <1>2, TurnStays DEF WindowInv, Control, IoTyped, ReopenInv
<1>11. MakingInv'
  BY <1>1 DEF WindowInv, Control, MakingInv
<1>12. Formless' /\ CopyInv'
  BY <1>1, <1>5, <1>6 DEF WindowInv, Control, Formless, CopyInv, Copying
<1> QED BY <1>6, <1>7, <1>9, <1>10, <1>11, <1>12 DEF WindowInv, FormsInv, Control

-----------------------------------------------------------------------------
(* Questions                                                               *)

\* Nothing runs or is read anew: the handler only goes on, or ends.
LEMMA TurnsControl ==
    ASSUME Control, ~newOpen, UNCHANGED <<newOpen, awaited, slot, workers>>, typed' \subseteq typed,
           reopen' \in Reopens \cup {None}, ReopenInv', TurnInv', CloseInv',
           Copying => ~Modal' /\ reopen' = None
    PROVE  Control'
<1>1. IoTyped'
  BY DEF Control, IoTyped
<1>2. MakingInv'
  BY DEF Control, MakingInv
<1>3. Formless'
  BY DEF Control, Formless
<1>4. CopyInv'
  BY DEF Control, CopyInv, Copying
<1> QED BY <1>1, <1>2, <1>3, <1>4 DEF Control

\* While no question is open, nothing that was agreed to matters.
LEMMA UnaskedForms ==
    ASSUME FormsInv, Same, ~Modal, UNCHANGED <<active, form, draft, aside, closing, typed, quit>>,
           newOpen => newOpen'
    PROVE  FormsInv' /\ ~Modal'
<1>1. closing = None /\ quit = None /\ closing' = None /\ quit' = None
  BY DEF Modal
<1>2. FormsTyped' /\ PlacesInv' /\ Confirmed' /\ PassInv'
  BY <1>1 DEF FormsInv, FormsTyped, PlacesInv, Confirmed, PassInv, HasSession
<1>3. \A t : FormsOf(t)' = FormsOf(t)
  BY DEF FormsOf, Held
<1>4. Kept'
  BY <1>3 DEF FormsInv, Kept, Same
<1> QED BY <1>1, <1>2, <1>4 DEF FormsInv, Modal

\* A version that is current is on its line.
LEMMA CurrentOnLine ==
    ASSUME TabsInv, NEW t \in OpenTabs
    PROVE  Current(t) \in ToSet(SubSeq(docs[t].line, 1, docs[t].pos))
<1> DEFINE line == docs[t].line
           pos == docs[t].pos
<1>1. line \in Seq(Versions) /\ pos \in Nat \ {0} /\ pos <= Len(line)
  BY CurrentTyped DEF Docs, TabsInv
<1>2. SubSeq(line, 1, pos) \in Seq(Versions) /\ Len(SubSeq(line, 1, pos)) = pos
        /\ SubSeq(line, 1, pos)[pos] = line[pos]
  <2> HIDE DEF line, pos
  <2>1. 1 \in 1..(Len(line) + 1) /\ pos \in 0..Len(line)
    BY <1>1
  <2> QED BY <1>1, <2>1, SubSeqProperties
<1>3. pos \in DOMAIN SubSeq(line, 1, pos)
  <2> HIDE DEF line, pos
  <2> QED BY <1>1, <1>2
<1>4. Current(t) = SubSeq(line, 1, pos)[pos]
  BY <1>2 DEF Current
<1> QED BY <1>3, <1>4 DEF ToSet

\* The Quit pass goes on: a form or the shown version was answered for, or asked about.
LEMMA PassGoesOn ==
    ASSUME TabsInv, PassInv, quit # None, Same, active' = active,
           \A t \in TabIds : t \in typed' => t \in typed, agreed \subseteq agreed',
           \A t \in TabIds : Held(t)' # None /\ Held(t)'.confirmed => FormOf(t) \in agreed',
           \A t \in TabIds : \A v \in Versions : <<t, v>> \in quit'.answered =>
              <<t, v>> \in quit.answered
                 \/ (t = active /\ v = Current(active) /\ active \in OpenTabs /\ Agreed(active)'),
           quit'.model # None => draft'[quit'.model[1]] = None /\ (quit'.model[1] = active' => form' = None)
    PROVE  PassInv'
<1>1. \A t \in TabIds : Agreed(t) => Agreed(t)'
  BY DEF Agreed, Same, FormOf
<1>2. \A t \in OpenTabs' : t \in OpenTabs /\ t \in TabIds /\ Current(t) \in Versions /\ Current(t)' = Current(t)
  BY CurrentTyped DEF Same, OpenTabs
<1>3. ASSUME NEW t \in OpenTabs', <<t, Current(t)'>> \in quit'.answered PROVE Agreed(t)'
  <2>1. t \in OpenTabs /\ t \in TabIds /\ <<t, Current(t)>> \in quit'.answered
    BY <1>2, <1>3
  <2>2. CASE <<t, Current(t)>> \in quit.answered
    BY <1>1, <2>1, <2>2 DEF PassInv
  <2>3. CASE t = active /\ Agreed(active)'
    <3>1. active' = active
      OBVIOUS
    <3> QED BY <2>3, <3>1
  <2> QED BY <1>2, <2>1, <2>2, <2>3
<1>4. ASSUME NEW t \in TabIds, NEW v \in Versions, <<t, v>> \in quit'.answered
      PROVE  t \in OpenTabs' /\ v \in ToSet(SubSeq(docs'[t].line, 1, docs'[t].pos))
  <2>1. t \in OpenTabs /\ v \in ToSet(SubSeq(docs[t].line, 1, docs[t].pos))
    <3>1. CASE <<t, v>> \in quit.answered
      BY <3>1 DEF PassInv
    <3>2. CASE t = active /\ v = Current(active) /\ active \in OpenTabs
      BY <3>2, CurrentOnLine
    <3> QED BY <1>4, <3>1, <3>2
  <2>2. docs'[t].line = docs[t].line /\ docs'[t].pos = docs[t].pos /\ OpenTabs' = OpenTabs
    BY <2>1 DEF Same
  <2> QED BY <2>1, <2>2
<1> QED BY <1>3, <1>4 DEF PassInv, FormOf, ToSet

\* A Reopen begins with no file accounted for.
LEMMA BeginReopenKeeps ==
    ASSUME WindowInv, BeginReopen
    PROVE  WindowInv'
<1>0. PICK files \in Lists : \E shown \in ToSet(files) \cup {None} :
         reopen' = [files |-> files, shown |-> shown, next |-> 1, wait |-> None, open |-> {}]
  BY DEF BeginReopen
<1>1. PICK shown \in ToSet(files) \cup {None} :
         reopen' = [files |-> files, shown |-> shown, next |-> 1, wait |-> None, open |-> {}]
  BY <1>0
<1>2. /\ Idle /\ ~Modal /\ CanLeave /\ turn' = Go("reopen", None)
      /\ UNCHANGED <<tabVars, slot, formVars, quit, newOpen, awaited, switch, workers, history>>
  BY DEF BeginReopen
<1>3. FormsInv' /\ Modal' = Modal
  BY <1>2, Touchless DEF WindowInv, tabVars, formVars, history
<1>4. DocumentsStay
  BY <1>2 DEF DocumentsStay, tabVars, history
<1>5. Answered /\ Eased
  <2>1. active \in Controllers
    BY DEF WindowInv, Core, TabsInv, OpenTabs, Controllers
  <2> QED BY <1>2, <2>1, AnsweredStays, EasedStays DEF WindowInv, Core
<1>6. Core'
  BY <1>2, <1>4, <1>5, Ended DEF WindowInv
<1>7. files \in Seq(Paths) /\ Len(files) \in Nat /\ \A i, j \in DOMAIN files : files[i] = files[j] => i = j
  BY DEF Lists, SeqOf, IsInjective
<1>8. shown \in Paths \cup {None}
  BY <1>7 DEF ToSet
<1>9. reopen' \in Reopens
  BY <1>1, <1>7, <1>8 DEF Reopens
<1>10. reopen' # None /\ reopen'.files = files /\ reopen'.next = 1 /\ reopen'.open = {}
  BY <1>1, <1>9, NothingIsNothing
<1>11. ~newOpen /\ ~Busy(active) /\ ~Copying
  BY <1>2, Quiet DEF WindowInv, CanLeave, CanShow
<1>12. ~Idle' /\ turn'.do = "reopen"
  BY <1>2 DEF Idle, Wait, Go
<1>13. ReopenInv'
  <2>1. ~Busy(active)' /\ ~Modal'
    BY <1>2, <1>3, <1>11 DEF Busy, tabVars
  <2> QED BY <1>2, <1>7, <1>10, <1>12, <2>1 DEF ReopenInv
<1>14. TurnInv' /\ CloseInv'
  BY <1>2, <1>10, <1>12 DEF TurnInv, CloseInv, Go
<1>15. Control'
  BY <1>2, <1>9, <1>11, <1>13, <1>14, TurnsControl DEF WindowInv, history
<1> QED BY <1>3, <1>6, <1>15 DEF WindowInv

\* A Quit begins with nothing answered.
LEMMA RequestQuitKeeps ==
    ASSUME WindowInv, RequestQuit
    PROVE  WindowInv'
<1>1. /\ Idle /\ ~Modal /\ reopen = None /\ ~Making /\ ~Copying
      /\ quit' = [forms |-> [t \in TabIds |-> None], answered |-> {}, model |-> None]
      /\ turn' = Go("quit", None)
      /\ UNCHANGED <<tabVars, slot, formVars, ioVars, switch, workers, history>>
  BY DEF RequestQuit
<1>2. DocumentsStay /\ Same
  BY <1>1, SameDocuments DEF DocumentsStay, tabVars, history
<1>3. Answered /\ Eased
  <2>1. active \in Controllers
    BY DEF WindowInv, Core, TabsInv, OpenTabs, Controllers
  <2> QED BY <1>1, <2>1, AnsweredStays, EasedStays DEF WindowInv, Core
<1>4. Core'
  BY <1>1, <1>2, <1>3, Ended DEF WindowInv
<1>5. quit' \in Passes /\ quit'.answered = {} /\ quit'.model = None
        /\ \A t \in TabIds : quit'.forms[t] = None
  BY <1>1 DEF Passes
<1>6. quit = None /\ closing = None /\ closing' = None /\ \A t \in TabIds : Held(t) = None /\ Held(t)' = None
  BY <1>1, <1>5 DEF Modal, formVars, Held
<1>7. Kept'
  <2>1. \A t \in TabIds : Stays(t)
    BY <1>1, <1>6, PlacesOf, PlacesNext DEF Stays, Places, tabVars, formVars
  <2> QED BY <1>1, <1>2, <2>1, KeptMoves DEF WindowInv, FormsInv, Same, OpenTabs, history
<1>8. FormsTyped' /\ PlacesInv' /\ Confirmed' /\ PassInv'
  BY <1>1, <1>5, <1>6
  DEF WindowInv, FormsInv, FormsTyped, PlacesInv, Confirmed, PassInv, HasSession, tabVars, formVars, ioVars
<1>9. TurnInv' /\ CloseInv' /\ ReopenInv'
  BY <1>1 DEF TurnInv, CloseInv, ReopenInv, Go, ioVars
<1>10. Control'
  BY <1>1, <1>9, TurnsControl DEF WindowInv, ioVars, history, Making
<1> QED BY <1>4, <1>7, <1>8, <1>10 DEF WindowInv, FormsInv

\* An open question is left again: everything goes back.
LEMMA Back ==
    ASSUME WindowInv, Idle, Modal, GiveUp,
           UNCHANGED <<tabVars, slot, aside, ioVars, switch, workers, turn, typed, overrun>>
    PROVE  WindowInv'
<1>1. DocumentsStay /\ Same
  BY SameDocuments DEF DocumentsStay, tabVars
<1>2. active \in Controllers /\ active \in TabIds \cup {None}
  BY DEF WindowInv, Core, TabsInv, OpenTabs, Controllers
<1>3. Answered /\ Eased
  BY <1>2, AnsweredStays, EasedStays DEF WindowInv, Core
<1>4. Core'
  BY <1>1, <1>3, Ended DEF WindowInv
<1>5. ~newOpen /\ ~Modal' /\ awaited \in Awaiting
  BY DEF WindowInv, Control, MakingInv, IoTyped, GiveUp, Modal
<1>6. FormsInv'
  BY <1>1, <1>2, <1>5, GaveUp DEF WindowInv, tabVars, ioVars
<1>7. Control'
  BY <1>1, <1>3, <1>5, EasedControl DEF WindowInv, tabVars, ioVars
<1> QED BY <1>4, <1>6, <1>7 DEF WindowInv

\* Back from the question of a Close.
LEMMA BackToFormKeeps ==
    ASSUME WindowInv, BackToForm
    PROVE  WindowInv'
BY Back DEF BackToForm, Modal

\* Back from the question of a Quit.
LEMMA BackFromQuitKeeps ==
    ASSUME WindowInv, BackFromQuit
    PROVE  WindowInv'
BY Back DEF BackFromQuit, HeldIsAsked, Modal

\* A form is given up in a Quit: it was agreed to.
LEMMA DiscardInQuitKeeps ==
    ASSUME WindowInv, DiscardInQuit
    PROVE  WindowInv'
<1>1. /\ Idle /\ quit # None /\ HasSession /\ Held(active) # None /\ CanLeave
      /\ quit' = [quit EXCEPT !.forms[active].confirmed = TRUE]
      /\ agreed' = agreed \cup {FormOf(active)} /\ turn' = Go("quit", None)
      /\ UNCHANGED <<tabVars, slot, formVars, ioVars, switch, workers, typed, overrun>>
  BY DEF DiscardInQuit, HeldIsAsked
<1>2. DocumentsStay /\ Same
  BY <1>1, SameDocuments DEF DocumentsStay, tabVars
<1>3. active \in TabIds /\ active \in OpenTabs
  BY <1>1 DEF HasSession, WindowInv, Core, TabsInv, OpenTabs
<1>4. Answered /\ Eased
  BY <1>1, <1>3, AnsweredStays, EasedStays DEF WindowInv, Core, Controllers
<1>5. Core'
  BY <1>1, <1>2, <1>4, Ended DEF WindowInv
<1>6. quit \in Passes /\ quit.forms[active] \in HeldForms
  BY <1>1, <1>3 DEF WindowInv, FormsInv, FormsTyped, Passes, Held
<1>7. /\ quit' \in Passes /\ quit'.answered = quit.answered /\ quit'.model = quit.model
      /\ \A t \in TabIds : quit'.forms[t] = IF t = active THEN [quit.forms[t] EXCEPT !.confirmed = TRUE]
                                            ELSE quit.forms[t]
  <2> DEFINE h == [quit.forms[active] EXCEPT !.confirmed = TRUE]
  <2>1. h \in HeldForms
    BY <1>6 DEF HeldForms
  <2>2. quit' = [quit EXCEPT !.forms[active] = h]
    BY <1>1
  <2>3. h = [quit.forms[active] EXCEPT !.confirmed = TRUE]
    OBVIOUS
  <2> HIDE DEF h
  <2> QED BY <1>3, <1>6, <2>1, <2>2, <2>3 DEF Passes
<1>8. quit' # None
  BY <1>7, NothingIsNothing
<1>9. \A t \in TabIds : /\ Held(t)' # None <=> Held(t) # None
                        /\ Held(t) # None => Held(t)'.form = Held(t).form
                        /\ t # active => Held(t)' = Held(t)
  <2>1. \A t \in TabIds : quit.forms[t] \in HeldForms \cup {None}
    BY <1>6 DEF Passes
  <2>2. quit.forms[active] # None /\ quit'.forms[active] \in HeldForms
          /\ quit'.forms[active].form = quit.forms[active].form
    BY <1>3, <1>6, <1>7, NothingIsNothing DEF HeldForms
  <2> QED BY <1>1, <1>7, <1>8, <2>1, <2>2, NothingIsNothing DEF Held
<1>10. closing = None /\ closing' = None
  BY <1>1 DEF WindowInv, FormsInv, PlacesInv, formVars
<1>11. Kept'
  <2>1. \A t \in TabIds : Stays(t)
    BY <1>1, <1>9, PlacesOf, PlacesNext DEF Stays, Places, tabVars, formVars
  <2> QED BY <1>1, <1>2, <2>1, KeptMoves DEF WindowInv, FormsInv, Same, OpenTabs
<1>12. FormsTyped' /\ PlacesInv' /\ Confirmed'
  BY <1>1, <1>7, <1>10
  DEF WindowInv, FormsInv, FormsTyped, PlacesInv, Confirmed, HasSession, tabVars, formVars, ioVars
<1>13. PassInv'
  <2>1. \A t \in TabIds : Held(t)' # None /\ Held(t)'.confirmed => FormOf(t) \in agreed'
    BY <1>1, <1>9 DEF WindowInv, FormsInv, PassInv, FormOf
  <2>2. quit'.model # None => draft'[quit'.model[1]] = None /\ (quit'.model[1] = active' => form' = None)
    BY <1>1, <1>7 DEF WindowInv, FormsInv, PassInv, tabVars, formVars
  <2> QED BY <1>1, <1>2, <1>7, <2>1, <2>2, PassGoesOn DEF WindowInv, Core, FormsInv, DocumentsStay
<1>14. ~newOpen /\ ~Copying /\ reopen = None
  BY <1>1, Quiet DEF WindowInv, CanLeave, CanShow
<1>15. TurnInv' /\ CloseInv' /\ ReopenInv'
  BY <1>1, <1>14 DEF TurnInv, CloseInv, ReopenInv, Go, ioVars
<1>16. Control'
  BY <1>1, <1>14, <1>15, TurnsControl DEF WindowInv, ioVars
<1> QED BY <1>5, <1>11, <1>12, <1>13, <1>16 DEF WindowInv, FormsInv

\* The shown tab's form is held by a Close, or the Close goes on with it.
LEMMA CloseHolds ==
    ASSUME Core, FormsInv, Same, quit = None, quit' = None, HasSession, ~newOpen, newOpen' = newOpen,
           UNCHANGED <<active, draft, aside, typed>>,
           closing' \in Closings, closing'.tab = active,
           \/ /\ closing = None /\ form # None /\ closing'.form = form /\ form' = None
              /\ ~closing'.confirmed
           \/ /\ closing # None /\ closing'.form = closing.form /\ form' = form
              /\ FormOf(active) \in agreed'
    PROVE  FormsInv' /\ Modal'
<1>1. active \in TabIds /\ closing' # None
  BY NothingIsNothing DEF HasSession, Core, TabsInv, OpenTabs
<1>2. FormsTyped' /\ PassInv' /\ Modal'
  BY <1>1 DEF FormsInv, FormsTyped, FormOrNone, PassInv, Modal
<1>3. PlacesInv'
  BY <1>1 DEF FormsInv, PlacesInv, HasSession
<1>4. Confirmed'
  <2>1. closing'.confirmed => FormOf(active) \in agreed'
    BY DEF Closings
  <2> QED BY <2>1 DEF Confirmed, FormOf
<1>5. Kept'
  <2>0. closing # None => closing.tab = active
    BY DEF FormsInv, PlacesInv
  <2>1. ASSUME NEW t \in TabIds
        PROVE  Stays(t) \/ \E from, to \in Places : from # to /\ Goes(t, from, to)
    <3>1. Held(t)' = None /\ Held(t) = None
      BY DEF Held
    <3>2. CASE t = active /\ closing = None
      <4>1. Goes(t, "here", "close")
        BY <1>1, <3>1, <3>2, PlacesOf, PlacesNext DEF Goes, Places
      <4> QED BY <4>1 DEF Places
    <3>3. CASE ~ (t = active /\ closing = None)
      <4>1. Stays(t)
        BY <1>1, <2>0, <3>1, <3>3, PlacesOf, PlacesNext DEF Stays, Places
      <4> QED BY <4>1
    <3> QED BY <3>2, <3>3
  <2> QED BY <2>1, KeptMoves DEF FormsInv, Same, OpenTabs
<1> QED BY <1>2, <1>3, <1>4, <1>5 DEF FormsInv

\* A form is given up in a Close; what is unsaved is agreed to, saved or kept.
LEMMA DiscardFormKeeps ==
    ASSUME WindowInv, DiscardForm
    PROVE  WindowInv'
<1> DEFINE t == active
           confirmed == [closing EXCEPT !.confirmed = TRUE]
<1>1. /\ Idle /\ closing # None /\ closing.tab = t /\ CanLeave
      /\ UNCHANGED <<tabVars, aside, ioVars, switch, typed, overrun>>
  BY DEF DiscardForm
<1>2. closing \in Closings /\ quit = None /\ active \in TabIds /\ HasSession /\ active \in OpenTabs
  BY <1>1, WindowAssumption
  DEF WindowInv, FormsInv, FormsTyped, PlacesInv, Closings, HasSession, Core, TabsInv
<1>3. DocumentsStay /\ Same
  BY <1>1, SameDocuments DEF DocumentsStay, tabVars
<1>4. ~newOpen /\ ~Copying /\ reopen = None /\ active \in Controllers
  BY <1>1, <1>2, Quiet DEF WindowInv, CanLeave, CanShow, Controllers
<1>5. CASE /\ closing' = [confirmed EXCEPT !.decided = TRUE]
           /\ agreed' = {FormOf(t)} \cup (IF Dirty(t) THEN {<<t, Current(t)>>} ELSE {})
           /\ turn' = Go("close", t)
           /\ UNCHANGED <<slot, form, draft, quit, workers>>
  <2>1. closing' \in Closings /\ closing'.tab = active /\ closing'.form = closing.form
    BY <1>1, <1>2, <1>5 DEF Closings
  <2>2. FormsInv' /\ Modal'
    BY <1>1, <1>2, <1>3, <1>4, <1>5, <2>1, CloseHolds DEF WindowInv, tabVars, ioVars
  <2>3. Answered /\ Eased
    BY <1>4, <1>5, AnsweredStays, EasedStays DEF WindowInv, Core
  <2>4. Core'
    BY <1>1, <1>3, <2>3, Ended DEF WindowInv
  <2>5. Agreed(active)'
    <3>1. Current(active)' = Current(active) /\ (Dirty(active)' => Dirty(active)) /\ active' = active
      BY <1>1, <1>2, <1>3 DEF Same, tabVars
    <3> QED BY <1>5, <3>1 DEF Agreed, FormOf
  <2>6. turn'.tab = active' /\ turn'.do = "close" /\ active' = active /\ reopen' = None
    BY <1>1, <1>4, <1>5 DEF Go, tabVars, ioVars
  <2>7. CloseInv'
    BY <2>5, <2>6 DEF CloseInv
  <2>8. TurnInv' /\ ReopenInv'
    BY <1>2, <1>3, <1>5, <2>6 DEF TurnInv, ReopenInv, Go, Same
  <2>9. Control'
    BY <1>1, <1>4, <1>5, <2>6, <2>7, <2>8, TurnsControl DEF WindowInv, ioVars
  <2> QED BY <2>2, <2>4, <2>9 DEF WindowInv
<1>6. CASE /\ Dirty(t) /\ SaveThen("closeForm")
           /\ closing' = confirmed /\ agreed' = {FormOf(t)}
           /\ UNCHANGED <<form, draft, quit, turn>>
  <2>1. closing' \in Closings /\ closing'.tab = active /\ closing'.form = closing.form
    BY <1>1, <1>2, <1>6 DEF Closings
  <2>2. FormsInv' /\ Modal'
    BY <1>1, <1>2, <1>3, <1>4, <1>6, <2>1, CloseHolds DEF WindowInv, tabVars, ioVars
  <2>3. Core' /\ Control'
    <3>1. /\ newOpen' = newOpen /\ reopen' = None /\ turn' = Wait /\ awaited' = awaited
          /\ typed' = typed /\ switch' = switch
      BY <1>1, <1>4, <1>6 DEF ioVars, Idle
    <3>2. "closeForm" # "close"
      OBVIOUS
    <3> QED BY <1>2, <1>3, <1>4, <1>6, <3>1, <3>2, SaveThenBegins DEF WindowInv
  <2> QED BY <2>2, <2>3 DEF WindowInv
<1>7. CASE /\ Dirty(t) /\ GiveUp
           /\ UNCHANGED <<slot, workers, turn>>
  BY <1>1, <1>7, Back DEF Modal
<1> QED BY <1>5, <1>6, <1>7 DEF DiscardForm

-----------------------------------------------------------------------------
(* Closing                                                                 *)

\* A Close: what is asked, and that nothing is asked only where nothing is lost.
LEMMA CloseTabKeeps ==
    ASSUME WindowInv, NEW t \in TabIds, CloseTab(t)
    PROVE  WindowInv'
<1>1. /\ (Idle /\ t \in OpenTabs) \/ turn = Go("closeTab", t)
      /\ ~Modal /\ CanLeave
      /\ AskFormClose(t) \/ AskClose(t) \/ ShowToClose(t) \/ NothingToAsk(t)
      /\ UNCHANGED <<tabVars, draft, aside, quit, ioVars, typed, overrun>>
  BY DEF CloseTab
<1>2. t \in OpenTabs
  BY <1>1 DEF WindowInv, Control, TurnInv, Go
<1>3. DocumentsStay /\ Same
  BY <1>1, SameDocuments DEF DocumentsStay, tabVars
<1>4. ~newOpen /\ ~Copying /\ awaited \in Awaiting /\ active \in Controllers /\ quit = None /\ closing = None
  BY <1>1 DEF WindowInv, Control, IoTyped, CanLeave, CanShow, Making, Core, TabsInv, OpenTabs,
              Controllers, Modal
<1>5. reopen = None
  <2>1. CASE Idle
    BY <1>1, <2>1, NoReopen DEF WindowInv, Control, CanLeave, CanShow
  <2>2. CASE turn = Go("closeTab", t)
    BY <2>2 DEF WindowInv, Control, ReopenInv, Go, Wait
  <2> QED BY <1>1, <2>1, <2>2
<1>6. newOpen' = newOpen /\ reopen' = None /\ awaited' = awaited /\ typed' = typed /\ active' = active
        /\ docs' = docs /\ quit' = None
  BY <1>1, <1>4, <1>5 DEF ioVars, tabVars
<1>7. ReopenInv'
  BY <1>6 DEF ReopenInv
<1>8. ASSUME UNCHANGED <<slot, switch, workers>> PROVE Core'
  <2>1. Answered /\ Eased
    BY <1>4, <1>8, AnsweredStays, EasedStays DEF WindowInv, Core
  <2> QED BY <1>3, <1>8, <2>1, Ended DEF WindowInv
<1>9. ASSUME UNCHANGED <<form, closing>> PROVE FormsInv' /\ ~Modal'
  BY <1>1, <1>3, <1>6, <1>9, UnaskedForms DEF WindowInv
<1>10. ASSUME UNCHANGED <<slot, switch, workers, form, closing>>,
              turn' = Wait \/ (turn' = Go("close", t) /\ Agreed(t)')
       PROVE  WindowInv'
  <2>1. Core' /\ FormsInv'
    BY <1>8, <1>9, <1>10
  <2>2. CloseInv'
    BY <1>10 DEF CloseInv, Go, Wait
  <2>3. TurnInv'
    BY <1>2, <1>3, <1>10 DEF TurnInv, Go, Wait, Same
  <2>4. Control'
    BY <1>4, <1>6, <1>7, <1>10, <2>2, <2>3, TurnsControl DEF WindowInv
  <2> QED BY <2>1, <2>4 DEF WindowInv
<1>11. CASE AskFormClose(t)
  <2>1. /\ t = active /\ form # None
        /\ closing' = [tab |-> t, form |-> form, confirmed |-> FALSE, decided |-> FALSE]
        /\ form' = None /\ turn' = Wait /\ UNCHANGED <<slot, switch, workers, agreed>>
    BY <1>11 DEF AskFormClose
  <2>2. HasSession /\ form \in Forms
    BY <2>1 DEF WindowInv, FormsInv, FormsTyped, FormOrNone, PlacesInv
  <2>3. /\ closing' \in Closings /\ closing'.tab = active /\ closing'.form = form
        /\ ~closing'.confirmed
    BY <2>1, <2>2 DEF Closings
  <2>4. FormsInv' /\ Modal'
    BY <1>1, <1>3, <1>4, <1>6, <2>1, <2>2, <2>3, CloseHolds DEF WindowInv
  <2>5. TurnInv' /\ CloseInv'
    BY <2>1 DEF TurnInv, CloseInv, Wait
  <2>6. Control'
    BY <1>4, <1>6, <1>7, <2>1, <2>5, TurnsControl DEF WindowInv
  <2> QED BY <1>8, <2>1, <2>4, <2>6 DEF WindowInv
<1>12. CASE AskClose(t)
  <2>1. t = active /\ form = None /\ UNCHANGED <<form, closing, switch>>
    BY <1>12 DEF AskClose
  <2>2. t \notin typed
    BY <1>1, <1>4, <2>1, Formfree DEF WindowInv
  <2>3. CASE agreed' = {<<t, Current(t)>>} /\ turn' = Go("close", t) /\ UNCHANGED <<slot, workers>>
    <3>1. Agreed(t)'
      BY <1>2, <1>3, <1>6, <2>2, <2>3 DEF Agreed, Same
    <3> QED BY <1>10, <2>1, <2>3, <3>1
  <2>4. CASE SaveThen("close") /\ turn' = Wait /\ UNCHANGED agreed
    <3>1. HasSession
      BY <1>2, <2>1, WindowAssumption DEF HasSession, OpenTabs
    <3>2. Core' /\ Control'
      BY <1>3, <1>4, <1>6, <2>1, <2>2, <2>4, <3>1, SaveThenBegins DEF WindowInv
    <3> QED BY <1>9, <2>1, <3>2 DEF WindowInv
  <2>5. CASE turn' = Wait /\ UNCHANGED <<slot, workers, agreed>>
    BY <1>10, <2>1, <2>5
  <2> QED BY <1>12, <2>3, <2>4, <2>5 DEF AskClose
<1>13. CASE ShowToClose(t)
  <2>1. t \in Hidden /\ BeginSwitch(t, "close", workers) /\ turn' = Wait
          /\ UNCHANGED <<form, closing, agreed>>
    BY <1>13 DEF ShowToClose
  <2>2. Core' /\ Control'
    BY <1>3, <1>4, <1>6, <2>1, SwitchBegins DEF WindowInv
  <2> QED BY <1>9, <2>1, <2>2 DEF WindowInv
<1>14. CASE NothingToAsk(t)
  <2>1. /\ ~Dirty(t) /\ (IF t = active THEN form ELSE draft[t]) = None /\ turn' = Go("close", t)
        /\ UNCHANGED <<slot, form, closing, switch, workers, agreed>>
    BY <1>14 DEF NothingToAsk
  <2>2. t \notin typed
    BY <1>1, <1>4, <2>1, Formfree DEF WindowInv
  <2>3. Agreed(t)'
    BY <1>2, <1>3, <1>6, <2>1, <2>2 DEF Agreed, Same
  <2> QED BY <1>10, <2>1, <2>3
<1> QED BY <1>1, <1>11, <1>12, <1>13, <1>14

\* While a handler still has something to do, New and the copies are out of the way.
LEMMA Underway ==
    ASSUME Control, turn.do \notin {"wait", "reopen"}
    PROVE  ~newOpen /\ reopen = None /\ awaited \in Awaiting
BY DEF Control, IoTyped, MakingInv, ReopenInv, Wait, Go

\* A tab is closed with all that names it; the others keep theirs.
LEMMA CloseNowKeeps ==
    ASSUME WindowInv, NEW t \in TabIds, CloseNow(t)
    PROVE  WindowInv'
<1>1. /\ turn = Go("close", t) /\ MayClose(t)
      /\ draft' = [draft EXCEPT ![t] = None] /\ slot' = [slot EXCEPT ![t] = Free]
      /\ closing' = None /\ agreed' = {} /\ typed' = typed \ {t}
      /\ IF t = active THEN active' = None /\ form' = None
         ELSE UNCHANGED <<active, form>>
      /\ UNCHANGED <<aside, quit, ioVars, switch, workers>>
  BY DEF CloseNow
<1>2. turn.do = "close" /\ turn.tab = t /\ t \in OpenTabs
  BY <1>1 DEF WindowInv, Control, TurnInv, Go
<1>3. ~newOpen /\ reopen = None /\ awaited \in Awaiting
  BY <1>2, Underway DEF WindowInv
<1>4. /\ Core' /\ OpenTabs' = OpenTabs \ {t}
      /\ \A c \in TabIds : c # t => docs'[c] = docs[c] /\ Current(c)' = Current(c)
      /\ turn' = Wait \/ (turn'.do = "show" /\ turn'.tab \in OpenTabs' /\ active' = None
                            /\ turn' = Go("show", turn'.tab))
  BY <1>2, Closed DEF WindowInv
<1>5. quit = None /\ quit' = None /\ aside = None /\ (closing # None => closing.tab = t)
  BY <1>1, <1>3 DEF MayClose, WindowInv, FormsInv, PlacesInv
<1>6. None \notin TabIds /\ active \in TabIds \cup {None}
  BY WindowAssumption DEF WindowInv, Core, TabsInv, OpenTabs
<1>7. draft \in [TabIds -> FormOrNone] /\ form \in FormOrNone
  BY DEF WindowInv, FormsInv, FormsTyped
<1>8. FormsTyped'
  BY <1>1, <1>5, <1>7 DEF FormsTyped, FormOrNone
<1>9. PlacesInv'
  BY <1>1, <1>5, <1>6, <1>7 DEF WindowInv, FormsInv, PlacesInv, HasSession
<1>10. Confirmed' /\ PassInv' /\ ~Modal'
  BY <1>1, <1>5 DEF Confirmed, PassInv, Modal
<1>11. Kept'
  <2> SUFFICES ASSUME NEW c \in TabIds
               PROVE  /\ c \in typed' <=> \E place \in Places : FormsOf(c)'[place] # None
                      /\ \A one, two \in Places :
                            FormsOf(c)'[one] # None /\ FormsOf(c)'[two] # None => one = two
                      /\ \A place \in Places : FormsOf(c)'[place] # None =>
                            c \in OpenTabs' /\ FormsOf(c)'[place].base = Current(c)'
    BY DEF Kept
  <2>1. Held(c) = None /\ Held(c)' = None
    BY <1>5 DEF Held
  <2>2. CASE c = t
    <3>1. \A place \in Places : FormsOf(c)'[place] = None
      BY <1>1, <1>5, <1>6, <1>7, <2>1, <2>2, PlacesNext DEF Places
    <3>2. c \notin typed'
      BY <1>1, <2>2
    <3> QED BY <3>1, <3>2
  <2>3. CASE c # t
    <3>1. \A place \in Places : FormsOf(c)'[place] = FormsOf(c)[place]
      BY <1>1, <1>5, <1>6, <1>7, <2>1, <2>3, PlacesNext, PlacesOf DEF Places
    <3>2. c \in typed' <=> c \in typed
      BY <1>1, <2>3
    <3> QED BY <1>4, <2>3, <3>1, <3>2 DEF WindowInv, FormsInv, Kept
  <2> QED BY <2>2, <2>3
<1>12. newOpen' = newOpen /\ awaited' = awaited /\ reopen' = None
  BY <1>1, <1>3 DEF ioVars
<1>13. TurnInv'
  <2>1. OpenTabs' \subseteq TabIds
    BY <1>4 DEF OpenTabs
  <2> QED BY <1>4, <2>1 DEF TurnInv, Wait, Go
<1>14. CloseInv' /\ ReopenInv' /\ IoTyped'
  BY <1>3, <1>4, <1>12 DEF CloseInv, ReopenInv, IoTyped, Wait, WindowInv, Control
<1>15. MakingInv'
  BY <1>1, <1>3, <1>12 DEF WindowInv, Control, MakingInv
<1>16. Formless'
  <2>1. \A c \in TabIds : slot'[c] = IF c = t THEN Free ELSE slot[c]
    BY <1>1 DEF WindowInv, Core, SlotInv, Controllers
  <2> QED BY <1>1, <2>1 DEF WindowInv, Control, Formless, Free
<1>17. CopyInv'
  BY <1>1, <1>3, <1>10, <1>12 DEF WindowInv, Control, CopyInv
<1> QED BY <1>4, <1>8, <1>9, <1>10, <1>11, <1>13, <1>14, <1>15, <1>16, <1>17 DEF WindowInv, FormsInv, Control

\* A question is given up while a handler goes on.
LEMMA GivenUp ==
    ASSUME WindowInv, turn.do \notin {"wait", "reopen"}, GiveUp, turn' = Wait,
           UNCHANGED <<tabVars, slot, aside, ioVars, switch, workers, typed, overrun>>
    PROVE  WindowInv'
<1>1. DocumentsStay /\ Same /\ active' = active
  BY SameDocuments DEF DocumentsStay, tabVars
<1>2. active \in Controllers /\ active \in TabIds \cup {None}
  BY DEF WindowInv, Core, TabsInv, OpenTabs, Controllers
<1>3. Answered /\ Eased
  BY <1>2, AnsweredStays, EasedStays DEF WindowInv, Core
<1>4. Core'
  BY <1>1, <1>3, Ended DEF WindowInv
<1>5. ~newOpen /\ reopen = None /\ ~Modal' /\ newOpen' = newOpen /\ reopen' = None /\ awaited' = awaited
  BY Underway DEF WindowInv, GiveUp, Modal, ioVars
<1>6. FormsInv'
  BY <1>1, <1>2, <1>5, GaveUp DEF WindowInv
<1>7. TurnInv' /\ CloseInv' /\ ReopenInv'
  BY <1>5 DEF TurnInv, CloseInv, ReopenInv, Wait
<1>8. Control'
  BY <1>5, <1>7, TurnsControl DEF WindowInv
<1> QED BY <1>4, <1>6, <1>8 DEF WindowInv

\* A tab that may not be closed stays.
LEMMA StaysOpenKeeps ==
    ASSUME WindowInv, NEW t \in TabIds, StaysOpen(t)
    PROVE  WindowInv'
BY GivenUp DEF StaysOpen, Go

\* A handler ends, or goes on with something else than a close, and no form has moved.
LEMMA Rests ==
    ASSUME WindowInv, turn.do # "wait", TurnInv', turn'.do # "close", reopen' = None,
           UNCHANGED <<tabVars, slot, formVars, quit, newOpen, awaited, switch, workers, history>>
    PROVE  WindowInv'
<1>1. DocumentsStay /\ Same /\ active' = active
  BY SameDocuments DEF DocumentsStay, tabVars, history
<1>2. FormsInv' /\ Modal' = Modal
  BY Touchless DEF WindowInv, tabVars, formVars, history
<1>3. active \in Controllers
  BY DEF WindowInv, Core, TabsInv, OpenTabs, Controllers
<1>4. Answered /\ Eased
  BY <1>3, AnsweredStays, EasedStays DEF WindowInv, Core
<1>5. Core'
  BY <1>1, <1>4, Ended DEF WindowInv
<1>6. ~newOpen /\ (Copying => ~Modal)
  BY DEF WindowInv, Control, MakingInv, CopyInv, Wait
<1>7. CloseInv' /\ ReopenInv'
  BY DEF CloseInv, ReopenInv
<1>8. Control'
  BY <1>2, <1>6, <1>7, TurnsControl DEF WindowInv, history
<1> QED BY <1>2, <1>5, <1>8 DEF WindowInv

\* The tab beside the closed one is shown.
LEMMA ShowNeighbourKeeps ==
    ASSUME WindowInv, ShowNeighbour
    PROVE  WindowInv'
<1>1. /\ turn.do = "show" /\ turn' = Wait
      /\ UNCHANGED <<tabVars, formVars, quit, ioVars, history>>
  BY DEF ShowNeighbour
<1>2. turn.tab \in OpenTabs /\ active = None /\ turn.tab \in Hidden
  BY <1>1, WindowAssumption DEF WindowInv, Control, TurnInv, Hidden, OpenTabs
<1>3. ~newOpen /\ reopen = None /\ awaited \in Awaiting
  BY <1>1, Underway DEF WindowInv
<1>4. newOpen' = newOpen /\ reopen' = None /\ awaited' = awaited /\ typed' = typed
  BY <1>1, <1>3 DEF ioVars, history
<1>5. CASE BeginSwitch(turn.tab, "nothing", workers)
  <2>1. DocumentsStay
    BY <1>1 DEF DocumentsStay, tabVars, history
  <2>2. FormsInv' /\ Modal' = Modal
    BY <1>1, <1>4, Touchless DEF WindowInv, tabVars, formVars, history
  <2>3. Copying => ~Modal
    BY DEF WindowInv, Control, CopyInv
  <2>4. Core' /\ Control'
    BY <1>1, <1>2, <1>3, <1>4, <1>5, <2>1, <2>2, <2>3, SwitchBegins DEF WindowInv
  <2> QED BY <2>2, <2>4 DEF WindowInv
<1>6. CASE UNCHANGED <<slot, switch, workers>>
  <2>1. TurnInv'
    BY <1>1 DEF TurnInv, Wait
  <2> QED BY <1>1, <1>4, <1>6, <2>1, Rests DEF Wait, ioVars
<1> QED BY <1>5, <1>6 DEF ShowNeighbour

-----------------------------------------------------------------------------
(* The Reopen and the Quit go on                                           *)

\* The tab that a Reopen shows in the end is a hidden one.
LEMMA ToShowIsHidden ==
    ASSUME NEW t \in ToShow
    PROVE  t \in Hidden
<1> DEFINE listed == IF reopen.shown = None THEN reopen.files ELSE <<reopen.shown>> \o reopen.files
           open == SelectSeq(listed, LAMBDA p : Owners(p, {}) # {})
<1>1. ToShow = IF open = <<>> \/ active \in Owners(Head(open), {}) THEN {} ELSE Owners(Head(open), {})
  BY DEF ToShow
<1> HIDE DEF open
<1> QED BY <1>1 DEF Owners, Hidden

\* What is said of the files of a list stays true of a longer part of it.
LEMMA AccountGrows ==
    ASSUME NEW files \in Seq(Paths), NEW first \in Nat \ {0}, NEW i \in first..Len(files), NEW held,
           \A k, m \in DOMAIN files : files[k] = files[m] => k = m,
           NEW open, open \subseteq {files[k] : k \in 1..(first - 1)},
           \A k \in 1..(first - 1) : files[k] \in open <=> files[k] \in held,
           NEW more, \A p \in more : p \in held /\ \E j \in first..(i - 1) : p = files[j],
           \A j \in first..(i - 1) : files[j] \in held => files[j] \in more
    PROVE  /\ open \cup more \subseteq {files[k] : k \in 1..i} /\ open \cup more \subseteq Paths
           /\ \A k \in 1..(i - 1) : files[k] \in open \cup more <=> files[k] \in held
           /\ files[i] \notin open \cup more
<1>1. Len(files) \in Nat /\ DOMAIN files = 1..Len(files) /\ i \in Nat /\ i >= 1 /\ i \in DOMAIN files
  OBVIOUS
<1>2. \A p \in open \cup more : \E j \in 1..(i - 1) : p = files[j]
  BY <1>1
<1>3. \A j \in 1..(i - 1) : j \in 1..i /\ j \in DOMAIN files /\ j # i /\ files[j] \in Paths
  BY <1>1
<1>4. files[i] \notin open \cup more
  <2> SUFFICES ASSUME files[i] \in open \cup more PROVE FALSE
    OBVIOUS
  <2>1. PICK j \in 1..(i - 1) : files[i] = files[j]
    BY <1>2
  <2> QED BY <1>1, <1>3, <2>1
<1>5. ASSUME NEW k \in 1..(i - 1)
      PROVE  files[k] \in open \cup more <=> files[k] \in held
  <2>1. CASE k \in 1..(first - 1)
    BY <2>1
  <2>2. CASE k \in first..(i - 1)
    <3>1. files[k] \notin open
      <4> SUFFICES ASSUME files[k] \in open PROVE FALSE
        OBVIOUS
      <4>1. PICK m \in 1..(first - 1) : files[k] = files[m]
        OBVIOUS
      <4>2. k \in DOMAIN files /\ m \in DOMAIN files /\ m # k
        BY <1>1, <2>2
      <4> QED BY <4>1, <4>2
    <3> QED BY <2>2, <3>1
  <2>3. k \in 1..(first - 1) \/ k \in first..(i - 1)
    BY <1>1
  <2> QED BY <2>1, <2>2, <2>3
<1> QED BY <1>2, <1>3, <1>4, <1>5

\* It reads the first file that is still to be read, and keeps its account.
Reads(i) ==
    /\ turn.do = "reopen" /\ turn' = Wait /\ i \in ToRead
    /\ workers' = workers \cup {Worker("load", NewGen, None, None, reopen.files[i])}
    /\ awaited' = [awaited EXCEPT !.load = NewGen]
    /\ reopen' = [reopen EXCEPT !.next = i + 1, !.wait = NewGen,
                  !.open = @ \cup {p \in {reopen.files[j] : j \in reopen.next..(i - 1)} : Owners(p, {}) # {}}]
    /\ UNCHANGED <<slot, switch>> /\ UNCHANGED <<tabVars, formVars, quit, newOpen, history>>

\* The files passed over are those that a tab has.
LEMMA AccountKept ==
    ASSUME WindowInv, NEW i, Reads(i)
    PROVE  ReopenInv' /\ reopen' \in Reopens /\ reopen.files[i] \in Paths
<1> DEFINE files == reopen.files
           first == reopen.next
           held == {p \in Paths : Owners(p, {}) # {}}
           more == {p \in {files[j] : j \in first..(i - 1)} : Owners(p, {}) # {}}
           now == reopen.open \cup more
<1>1. /\ turn.do = "reopen" /\ turn' = Wait /\ i \in ToRead
      /\ UNCHANGED <<slot, tabVars, formVars, quit>> /\ awaited' = [awaited EXCEPT !.load = NewGen]
      /\ Worker("load", NewGen, None, None, files[i]) \in workers'
  BY DEF Reads
<1>2. reopen # None /\ reopen \in Reopens /\ ~Idle /\ Idle' /\ NewGen \in Nat /\ NewGen # None
  BY <1>1, GenIsNew, WindowAssumption DEF WindowInv, Core, Control, TurnInv, IoTyped, Idle, Wait
<1>3. /\ files \in Seq(Paths) /\ first \in Nat \ {0} /\ reopen.open \subseteq Paths
      /\ reopen.shown \in Paths \cup {None}
  BY <1>2 DEF Reopens
<1>4. /\ \A k, m \in DOMAIN files : files[k] = files[m] => k = m
      /\ reopen.open \subseteq {files[k] : k \in 1..(first - 1)}
      /\ \A k \in 1..(first - 1) : files[k] \in reopen.open <=> Owners(files[k], {}) # {}
      /\ ~Busy(active) /\ ~Modal
  BY <1>2 DEF WindowInv, Control, ReopenInv
<1>5. i \in first..Len(files) /\ Owners(files[i], {}) = {}
  BY <1>1 DEF ToRead
<1>6. Len(files) \in Nat /\ DOMAIN files = 1..Len(files) /\ i \in Nat /\ i >= 1 /\ i <= Len(files)
  BY <1>3, <1>5
<1>7. reopen' = [files |-> files, shown |-> reopen.shown, next |-> i + 1, wait |-> NewGen, open |-> now]
  <2> DEFINE n == i + 1
  <2>1. reopen' = [reopen EXCEPT !.next = n, !.wait = NewGen, !.open = now]
    BY DEF Reads
  <2> HIDE DEF now, n
  <2>2. reopen' = [files |-> files, shown |-> reopen.shown, next |-> n, wait |-> NewGen, open |-> now]
    BY <1>2, <2>1 DEF Reopens
  <2> QED BY <2>2 DEF n
<1> HIDE DEF files, first
<1>8. \A k \in 1..Len(files) : files[k] \in Paths /\ (Owners(files[k], {}) # {} <=> files[k] \in held)
  BY <1>3
<1>9. /\ \A p \in more : p \in held /\ \E j \in first..(i - 1) : p = files[j]
      /\ \A j \in first..(i - 1) : files[j] \in held => files[j] \in more
  <2>1. \A j \in first..(i - 1) : j \in 1..Len(files)
    BY <1>3, <1>6
  <2> QED BY <1>8, <2>1
<1> HIDE DEF held, more
<1>10. /\ now \subseteq {files[k] : k \in 1..i} /\ now \subseteq Paths
       /\ \A k \in 1..(i - 1) : files[k] \in now <=> files[k] \in held
       /\ files[i] \notin now
  <2>1. \A k \in 1..(first - 1) : k \in 1..Len(files)
    BY <1>3, <1>5, <1>6
  <2>2. \A k \in 1..(first - 1) : files[k] \in reopen.open <=> files[k] \in held
    BY <1>4, <1>8, <2>1
  <2> QED BY <1>3, <1>4, <1>5, <1>9, <2>2, AccountGrows
<1> HIDE DEF now
<1>11. reopen' \in Reopens
  <2>1. i + 1 \in Nat \ {0} /\ NewGen \in Nat \cup {None}
    BY <1>2, <1>6
  <2> QED BY <1>3, <1>7, <1>10, <2>1 DEF Reopens
<1> DEFINE owners(p) == {t \in OpenTabs' \ {} : docs'[t].path = p}
<1>12. \A p : owners(p) = Owners(p, {})
  BY <1>1 DEF Owners, OpenTabs, tabVars
<1> HIDE DEF owners
<1>13. ~Busy(active)' /\ ~Modal'
  BY <1>1, <1>4 DEF Busy, Modal, tabVars, formVars
<1>14. \E w \in workers' : w.what = "load" /\ w.gen = NewGen /\ w.path = files[i]
  BY <1>1 DEF Worker
<1>15. awaited'.load = NewGen
  BY <1>1 DEF WindowInv, Control, IoTyped, Awaiting
<1>16. /\ reopen'.files = files /\ reopen'.next = i + 1 /\ reopen'.wait = NewGen /\ reopen'.open = now
  BY <1>7
<1>17. (i + 1) - 2 = i - 1 /\ i + 1 >= 2 /\ (i + 1) - 1 = i /\ i + 1 <= Len(files) + 1
  BY <1>6
<1>18. files[i] \in Paths /\ \A k \in 1..(i - 1) : files[k] \in now <=> owners(files[k]) # {}
  <2>1. \A k \in 1..(i - 1) : k \in 1..Len(files)
    BY <1>6
  <2> QED BY <1>6, <1>8, <1>10, <1>12, <2>1
<1>19. ReopenInv'
  <2>1. /\ reopen'.next <= Len(reopen'.files) + 1
        /\ reopen'.open \subseteq {reopen'.files[k] : k \in 1..(reopen'.next - 1)}
    BY <1>10, <1>16, <1>17
  <2>2. \A k \in 1..(reopen'.next - 2) :
           reopen'.files[k] \in reopen'.open <=> owners(reopen'.files[k]) # {}
    BY <1>16, <1>17, <1>18
  <2>3. /\ reopen'.next >= 2 /\ reopen'.wait # None /\ awaited'.load = reopen'.wait
        /\ reopen'.files[reopen'.next - 1] \notin reopen'.open
        /\ owners(reopen'.files[reopen'.next - 1]) = {}
        /\ \E w \in workers' : /\ w.what = "load" /\ w.gen = reopen'.wait
                               /\ w.path = reopen'.files[reopen'.next - 1]
    BY <1>2, <1>5, <1>10, <1>12, <1>14, <1>15, <1>16, <1>17
  <2>4. \A k, m \in DOMAIN reopen'.files : reopen'.files[k] = reopen'.files[m] => k = m
    BY <1>4, <1>16
  <2> QED BY <1>1, <1>2, <1>13, <2>1, <2>2, <2>3, <2>4 DEF ReopenInv, Owners, owners
<1> QED BY <1>11, <1>18, <1>19 DEF files

\* A Reopen reads its next file, or is done.
LEMMA ContinueReopenKeeps ==
    ASSUME WindowInv, ContinueReopen
    PROVE  WindowInv'
<1>1. turn.do = "reopen" /\ turn' = Wait /\ UNCHANGED <<tabVars, formVars, quit, newOpen, history>>
  BY DEF ContinueReopen
<1>2. reopen # None /\ ~newOpen /\ ~Copying /\ awaited \in Awaiting
  BY <1>1 DEF WindowInv, Control, TurnInv, MakingInv, CopyInv, IoTyped, Wait
<1>3. DocumentsStay /\ newOpen' = newOpen /\ typed' = typed
  BY <1>1 DEF DocumentsStay, tabVars, history
<1>4. FormsInv' /\ Modal' = Modal
  BY <1>1, Touchless DEF WindowInv, tabVars, formVars, history
<1>5. TurnInv' /\ CloseInv'
  BY <1>1 DEF TurnInv, CloseInv, Wait
<1>6. CASE ToRead # {}
  <2> DEFINE i == Min(ToRead)
             j == Worker("load", NewGen, None, None, reopen.files[i])
  <2>1. i \in ToRead /\ \A k \in ToRead : i <= k
    <3>1. reopen \in Reopens
      BY <1>2 DEF WindowInv, Control, IoTyped
    <3>2. ToRead \subseteq Nat
      BY <3>1 DEF ToRead, Reopens
    <3> QED BY <1>6, <3>2, LeastIs
  <2>2. /\ workers' = workers \cup {j}
        /\ awaited' = [awaited EXCEPT !.load = NewGen]
        /\ reopen' = [reopen EXCEPT !.next = i + 1, !.wait = NewGen,
                      !.open = @ \cup {p \in {reopen.files[k] : k \in reopen.next..(i - 1)} : Owners(p, {}) # {}}]
        /\ UNCHANGED <<slot, switch>>
    BY <1>6 DEF ContinueReopen
  <2> HIDE DEF i
  <2>3. ReopenInv' /\ reopen' \in Reopens /\ reopen.files[i] \in Paths
    BY <1>1, <2>1, <2>2, AccountKept DEF Reads
  <2>4. NewGen \in Nat
    BY GenIsNew DEF WindowInv, Core
  <2>5. Proper(j) /\ j.gen = NewGen /\ j.what = "load"
    BY <2>3, <2>4 DEF Worker, Proper, Jobs, Saving
  <2> HIDE DEF j
  <2>6. Core'
    BY <1>3, <2>2, <2>5, Started DEF WindowInv
  <2>7. awaited' \in Awaiting /\ awaited'.create = awaited.create /\ awaited'.copy = awaited.copy
    BY <1>2, <2>2, <2>4 DEF Awaiting
  <2>8. IoTyped' /\ MakingInv' /\ Formless' /\ CopyInv'
    BY <1>2, <1>3, <1>4, <2>2, <2>3, <2>5, <2>7
    DEF WindowInv, Control, IoTyped, MakingInv, Formless, CopyInv, Copying
  <2> QED BY <1>4, <1>5, <2>3, <2>6, <2>8 DEF WindowInv, Control
<1>7. CASE ToRead = {}
  <2>1. reopen' = None /\ UNCHANGED awaited
    BY <1>7 DEF ContinueReopen
  <2>2. CASE \E t \in ToShow : BeginSwitch(t, "nothing", workers)
    <3>1. PICK t \in ToShow : BeginSwitch(t, "nothing", workers)
      BY <2>2
    <3>2. t \in Hidden
      BY ToShowIsHidden
    <3>3. Core' /\ Control'
      BY <1>1, <1>2, <1>3, <2>1, <3>1, <3>2, SwitchBegins DEF WindowInv
    <3> QED BY <1>4, <3>3 DEF WindowInv
  <2>3. CASE UNCHANGED <<slot, switch, workers>>
    BY <1>1, <1>5, <2>1, <2>3, Rests DEF Wait
  <2> QED BY <1>7, <2>2, <2>3 DEF ContinueReopen
<1> QED BY <1>6, <1>7

\* A form that the pass holds, and was confirmed, is all there is in its tab.
LEMMA FormAgreed ==
    ASSUME FormsInv, quit # None, HasSession, active \in TabIds, form = None, aside = None,
           Held(active) # None => Held(active).confirmed
    PROVE  active \in typed => FormOf(active) \in agreed
<1>1. closing = None /\ draft[active] = None
  BY DEF FormsInv, PlacesInv
<1>2. CASE Held(active) = None
  <2>1. \A place \in Places : FormsOf(active)[place] = None
    BY <1>1, <1>2, PlacesOf DEF Places
  <2> QED BY <2>1 DEF FormsInv, Kept
<1>3. CASE Held(active) # None
  BY <1>3 DEF FormsInv, PassInv
<1> QED BY <1>2, <1>3

\* The question about the shown version is answered.
LEMMA DecidedForms ==
    ASSUME TabsInv, FormsInv, Same, quit # None, HasSession, DecideQuit,
           UNCHANGED <<active, form, draft, aside, closing, typed>>,
           agreed \subseteq agreed', newOpen' = newOpen, Agreed(active)'
    PROVE  FormsInv' /\ Modal'
<1>1. active \in OpenTabs /\ active \in TabIds /\ Current(active) \in Versions
  BY CurrentTyped DEF TabsInv, HasSession
<1>2. quit \in Passes
  BY DEF FormsInv, FormsTyped
<1>3. /\ quit' \in Passes /\ quit'.forms = quit.forms /\ quit'.model = None
      /\ quit'.answered = quit.answered \cup {<<active, Current(active)>>}
  <2> DEFINE a == quit.answered \cup {<<active, Current(active)>>}
  <2>1. a \in SUBSET (TabIds \X Versions)
    BY <1>1, <1>2 DEF Passes
  <2>2. quit' = [quit EXCEPT !.answered = a, !.model = None]
    BY DEF DecideQuit
  <2> HIDE DEF a
  <2>3. quit' \in Passes /\ quit'.forms = quit.forms /\ quit'.model = None /\ quit'.answered = a
    BY <1>2, <2>1, <2>2 DEF Passes
  <2> QED BY <2>3 DEF a
<1>4. quit' # None
  BY <1>3, NothingIsNothing
<1>5. \A t : Held(t)' = Held(t)
  BY <1>3, <1>4 DEF Held
<1>6. FormsTyped' /\ Modal'
  BY <1>3, <1>4 DEF FormsInv, FormsTyped, Modal
<1>7. PlacesInv' /\ Confirmed'
  BY DEF FormsInv, PlacesInv, Confirmed, HasSession, FormOf
<1>8. Kept'
  <2>1. \A t \in TabIds : Stays(t)
    BY <1>5, PlacesOf, PlacesNext DEF Stays, Places
  <2> QED BY <2>1, KeptMoves DEF FormsInv, Same, OpenTabs
<1>9. PassInv'
  <2>1. \A t \in TabIds : Held(t)' # None /\ Held(t)'.confirmed => FormOf(t) \in agreed'
    BY <1>5 DEF FormsInv, PassInv, FormOf
  <2>2. \A t \in TabIds : \A v \in Versions : <<t, v>> \in quit'.answered =>
           <<t, v>> \in quit.answered \/ (t = active /\ v = Current(active) /\ active \in OpenTabs /\ Agreed(active)')
    BY <1>1, <1>3
  <2> QED BY <1>3, <2>1, <2>2, PassGoesOn DEF FormsInv
<1> QED BY <1>6, <1>7, <1>8, <1>9 DEF FormsInv

\* A Quit holds the shown tab's form while it asks about it.
LEMMA QuitAsksFormKeeps ==
    ASSUME WindowInv, turn.do = "quit", quit # None, QuitAsksForm,
           UNCHANGED <<tabVars, aside, ioVars, typed, overrun>>
    PROVE  WindowInv'
<1>1. /\ FormIsNext /\ turn' = Wait /\ UNCHANGED <<slot, draft, closing, switch, workers, agreed>>
  BY DEF QuitAsksForm
<1>2. ~newOpen /\ reopen = None /\ awaited \in Awaiting
  BY Underway DEF WindowInv
<1>3. TurnInv' /\ CloseInv'
  BY <1>1 DEF TurnInv, CloseInv, Wait
<1>4. newOpen' = newOpen /\ reopen' = None /\ awaited' = awaited /\ typed' = typed
  BY <1>2 DEF ioVars
<1>5. CASE UNCHANGED <<quit, form>>
  BY <1>1, <1>3, <1>4, <1>5, Rests DEF Wait, formVars, history
<1>6. CASE /\ quit' = [quit EXCEPT !.forms[active] = [form |-> form, confirmed |-> FALSE]]
           /\ form' = None /\ Held(active) = None
  <2>1. HasSession /\ form # None
    BY <1>1, <1>6 DEF FormIsNext
  <2>2. active \in TabIds /\ active \in OpenTabs /\ form \in Forms /\ active \in Controllers
    BY <2>1 DEF HasSession, WindowInv, Core, TabsInv, OpenTabs, FormsInv, FormsTyped, FormOrNone, Controllers
  <2>3. DocumentsStay /\ Same
    BY SameDocuments DEF DocumentsStay, tabVars
  <2>4. Answered /\ Eased
    BY <1>1, <2>2, AnsweredStays, EasedStays DEF WindowInv, Core
  <2>5. Core'
    BY <1>1, <2>3, <2>4, Ended DEF WindowInv
  <2> DEFINE h == [form |-> form, confirmed |-> FALSE]
  <2>6. h \in HeldForms /\ h # None /\ h.form = form /\ ~h.confirmed
    <3>1. h \in HeldForms /\ h.form = form /\ ~h.confirmed
      BY <2>2 DEF HeldForms
    <3> QED BY <3>1, NothingIsNothing
  <2>7. quit \in Passes
    BY DEF WindowInv, FormsInv, FormsTyped
  <2>8. quit' = [quit EXCEPT !.forms[active] = h]
    BY <1>6
  <2> HIDE DEF h
  <2>9. /\ quit' \in Passes /\ quit'.answered = quit.answered /\ quit'.model = quit.model
        /\ \A t \in TabIds : quit'.forms[t] = IF t = active THEN h ELSE quit.forms[t]
    BY <2>2, <2>6, <2>7, <2>8 DEF Passes
  <2>10. quit' # None /\ closing = None /\ closing' = None
    BY <1>1, <2>9, NothingIsNothing DEF WindowInv, FormsInv, PlacesInv
  <2>11. \A t \in TabIds : Held(t)' = IF t = active THEN h ELSE Held(t)
    BY <2>9, <2>10 DEF Held
  <2>12. active' = active /\ draft' = draft /\ aside' = aside
    BY <1>1 DEF tabVars
  <2>13. Kept'
    <3>1. ASSUME NEW t \in TabIds
          PROVE  Stays(t) \/ \E from, to \in Places : from # to /\ Goes(t, from, to)
      <4>1. CASE t = active
        <5>1. Goes(t, "here", "quit")
          BY <1>6, <2>1, <2>6, <2>10, <2>11, <2>12, <4>1, PlacesOf, PlacesNext DEF Goes, Places
        <5> QED BY <5>1 DEF Places
      <4>2. CASE t # active
        <5>1. Stays(t)
          BY <2>10, <2>11, <2>12, <4>2, PlacesOf, PlacesNext DEF Stays, Places
        <5> QED BY <5>1
      <4> QED BY <4>1, <4>2
    <3> QED BY <1>4, <2>3, <3>1, KeptMoves DEF WindowInv, FormsInv, Same, OpenTabs
  <2>14. FormsTyped' /\ PlacesInv' /\ Confirmed' /\ Modal'
    BY <1>1, <1>4, <1>6, <2>9, <2>10, <2>12
    DEF WindowInv, FormsInv, FormsTyped, FormOrNone, PlacesInv, Confirmed, HasSession, Modal
  <2>15. PassInv'
    <3>1. \A t \in TabIds : Held(t)' # None /\ Held(t)'.confirmed => FormOf(t) \in agreed'
      BY <1>1, <2>6, <2>11 DEF WindowInv, FormsInv, PassInv, FormOf
    <3>2. quit'.model # None => draft'[quit'.model[1]] = None /\ (quit'.model[1] = active' => form' = None)
      BY <1>6, <2>9, <2>12 DEF WindowInv, FormsInv, PassInv
    <3> QED BY <1>1, <1>4, <2>3, <2>9, <2>12, <3>1, <3>2, PassGoesOn DEF WindowInv, Core, FormsInv
  <2>16. ReopenInv'
    BY <1>4 DEF ReopenInv
  <2>17. ~Copying
    BY DEF WindowInv, Control, CopyInv, Modal
  <2>18. Control'
    BY <1>1, <1>2, <1>3, <1>4, <2>16, <2>17, TurnsControl DEF WindowInv
  <2> QED BY <2>5, <2>13, <2>14, <2>15, <2>18 DEF WindowInv, FormsInv
<1> QED BY <1>5, <1>6 DEF QuitAsksForm

\* It asks about what is unsaved, once a form of the tab was given up.
LEMMA QuitAsksModelKeeps ==
    ASSUME WindowInv, turn.do = "quit", quit # None, QuitAsksModel,
           UNCHANGED <<tabVars, aside, ioVars, typed, overrun>>
    PROVE  WindowInv'
<1>1. ~FormIsNext /\ ModelIsNext /\ HasSession /\ switch' = switch
  BY DEF QuitAsksModel, ModelIsNext
<1>2. ~newOpen /\ reopen = None /\ awaited \in Awaiting /\ ~Copying
  BY Underway DEF WindowInv, Control, CopyInv, Modal
<1>3. newOpen' = newOpen /\ reopen' = None /\ awaited' = awaited /\ typed' = typed /\ active' = active
  BY <1>2 DEF ioVars, tabVars
<1>4. DocumentsStay /\ Same /\ active \in TabIds /\ active \in OpenTabs /\ active \in Controllers
  BY <1>1, SameDocuments DEF DocumentsStay, tabVars, HasSession, WindowInv, Core, TabsInv, OpenTabs, Controllers
<1>5. form = None /\ aside = None /\ closing = None /\ (Held(active) # None => Held(active).confirmed)
        /\ draft[active] = None
  BY <1>1, <1>2 DEF FormIsNext, WindowInv, FormsInv, PlacesInv
<1>6. active \in typed => FormOf(active) \in agreed
  BY <1>1, <1>4, <1>5, FormAgreed DEF WindowInv
<1>7. CASE /\ DecideQuit
           /\ agreed' = IF Dirty(active) THEN agreed \cup {<<active, Current(active)>>} ELSE agreed
           /\ UNCHANGED <<slot, form, draft, closing, workers, turn>>
  <2>1. agreed \subseteq agreed' /\ Agreed(active)'
    <3>1. Current(active)' = Current(active) /\ (Dirty(active)' => Dirty(active))
      BY <1>3, <1>4 DEF Same, Current, Dirty
    <3> QED BY <1>3, <1>6, <1>7, <3>1 DEF Agreed, FormOf
  <2>2. FormsInv' /\ Modal'
    BY <1>1, <1>3, <1>4, <1>7, <2>1, DecidedForms DEF WindowInv, Core
  <2>3. Answered /\ Eased
    BY <1>4, <1>7, AnsweredStays, EasedStays DEF WindowInv, Core
  <2>4. Core'
    BY <1>1, <1>4, <2>3, Ended DEF WindowInv
  <2>5. TurnInv' /\ CloseInv' /\ ReopenInv'
    BY <1>3, <1>7 DEF WindowInv, Control, TurnInv, CloseInv, ReopenInv, Wait
  <2>6. Control'
    BY <1>2, <1>3, <1>7, <2>5, TurnsControl DEF WindowInv
  <2> QED BY <2>2, <2>4, <2>6 DEF WindowInv
<1>8. CASE /\ SaveThen("quit")
           /\ quit' = [quit EXCEPT !.model = <<active, Current(active)>>]
           /\ turn' = Wait /\ UNCHANGED <<form, draft, closing, agreed>>
  <2> DEFINE m == <<active, Current(active)>>
  <2>1. m \in TabIds \X Versions /\ m[1] = active
    BY <1>4, CurrentTyped DEF WindowInv, Core
  <2>2. quit \in Passes /\ quit' = [quit EXCEPT !.model = m]
    BY <1>8 DEF WindowInv, FormsInv, FormsTyped
  <2> HIDE DEF m
  <2>3. /\ quit' \in Passes /\ quit'.forms = quit.forms /\ quit'.model = m
        /\ quit'.answered = quit.answered
    BY <2>1, <2>2 DEF Passes
  <2>4. quit' # None /\ \A t : Held(t)' = Held(t)
    BY <2>3, NothingIsNothing DEF Held
  <2>5. FormsTyped' /\ PlacesInv' /\ Confirmed' /\ Modal'
    BY <1>3, <1>5, <1>8, <2>3, <2>4
    DEF WindowInv, FormsInv, FormsTyped, PlacesInv, Confirmed, Modal, HasSession
  <2>6. Kept'
    <3>1. \A t \in TabIds : Stays(t)
      BY <1>3, <1>8, <2>4, PlacesOf, PlacesNext DEF Stays, Places
    <3> QED BY <1>3, <1>4, <3>1, KeptMoves DEF WindowInv, FormsInv, Same, OpenTabs
  <2>7. PassInv'
    <3>1. \A t \in TabIds : Held(t)' # None /\ Held(t)'.confirmed => FormOf(t) \in agreed'
      BY <1>8, <2>4 DEF WindowInv, FormsInv, PassInv, FormOf
    <3>2. draft'[quit'.model[1]] = None /\ form' = None
      BY <1>5, <1>8, <2>1, <2>3
    <3> QED BY <1>3, <1>4, <1>8, <2>3, <3>1, <3>2, PassGoesOn DEF WindowInv, Core, FormsInv
  <2>8. "quit" # "close"
    OBVIOUS
  <2>9. Core' /\ Control'
    BY <1>1, <1>2, <1>3, <1>4, <1>8, <2>8, SaveThenBegins DEF WindowInv
  <2> QED BY <2>5, <2>6, <2>7, <2>9 DEF WindowInv, FormsInv
<1>9. CASE GiveUp /\ turn' = Wait /\ UNCHANGED <<slot, workers>>
  BY <1>1, <1>9, GivenUp
<1> QED BY <1>7, <1>8, <1>9 DEF QuitAsksModel

\* The tab a Quit shows next is a hidden one.
LEMMA UnaskedIsHidden ==
    ASSUME WindowInv, Unasked # {}
    PROVE  order[Min(Unasked)] \in Hidden
<1>1. order \in Seq(TabIds)
  BY DEF WindowInv, Core, TabsInv
<1>2. Unasked \subseteq Nat
  BY <1>1 DEF Unasked
<1>3. Min(Unasked) \in Unasked
  BY <1>2, LeastIs
<1> DEFINE i == Min(Unasked)
<1> HIDE DEF i
<1>4. i \in Unasked
  BY <1>3 DEF i
<1>5. order[i] \in Hidden
  BY <1>4 DEF Unasked
<1> QED BY <1>5 DEF i

\* And ends when there is none.
LEMMA ContinueQuitKeeps ==
    ASSUME WindowInv, ContinueQuit
    PROVE  WindowInv'
<1>1. /\ turn.do = "quit" /\ quit # None
      /\ QuitAsksForm \/ QuitAsksModel \/ QuitShows \/ QuitEnds
      /\ UNCHANGED <<tabVars, aside, ioVars, typed, overrun>>
  BY DEF ContinueQuit
<1>2. CASE QuitAsksForm
  BY <1>1, <1>2, QuitAsksFormKeeps
<1>3. CASE QuitAsksModel
  BY <1>1, <1>3, QuitAsksModelKeeps
<1>4. ~newOpen /\ reopen = None /\ awaited \in Awaiting /\ ~Copying
  BY <1>1, Underway DEF WindowInv, Control, CopyInv, Modal
<1>5. newOpen' = newOpen /\ reopen' = None /\ awaited' = awaited /\ typed' = typed
  BY <1>1, <1>4 DEF ioVars
<1>6. CASE QuitShows
  <2>1. Unasked # {} /\ turn' = Wait
    BY <1>6 DEF QuitShows
  <2>2. CASE BeginSwitch(order[Min(Unasked)], "quit", workers) /\ UNCHANGED <<quit, closing, draft, form, agreed>>
    <3> DEFINE t == order[Min(Unasked)]
    <3>1. t \in Hidden
      BY <2>1, UnaskedIsHidden
    <3>2. BeginSwitch(t, "quit", workers)
      BY <2>2
    <3> HIDE DEF t
    <3>3. DocumentsStay
      BY <1>1 DEF DocumentsStay, tabVars
    <3>4. FormsInv'
      BY <1>1, <1>5, <2>2, Touchless DEF WindowInv, tabVars
    <3>5. Core' /\ Control'
      BY <1>4, <1>5, <2>1, <3>1, <3>2, <3>3, SwitchBegins DEF WindowInv
    <3> QED BY <3>4, <3>5 DEF WindowInv
  <2>3. CASE GiveUp /\ UNCHANGED <<slot, switch, workers>>
    BY <1>1, <2>1, <2>3, GivenUp
  <2> QED BY <1>6, <2>2, <2>3 DEF QuitShows
<1>7. CASE QuitEnds
  <2>1. UNCHANGED <<slot, switch, workers>>
    BY <1>7 DEF QuitEnds
  <2>2. CASE turn' = Go("ended", None) /\ UNCHANGED <<quit, closing, draft, form, agreed>>
    <3>1. TurnInv' /\ turn'.do # "close"
      BY <2>2 DEF TurnInv, Go
    <3> QED BY <1>1, <1>5, <2>1, <2>2, <3>1, Rests DEF formVars, history
  <2>3. CASE GiveUp /\ turn' = Wait
    BY <1>1, <2>1, <2>3, GivenUp
  <2> QED BY <1>7, <2>2, <2>3 DEF QuitEnds
<1> QED BY <1>1, <1>2, <1>3, <1>6, <1>7

-----------------------------------------------------------------------------
(* Answers                                                                 *)

\* An answer that changes nothing, or only frees the shown tab's slot.
LEMMA AnswerEases ==
    ASSUME WindowInv, Idle, NEW w \in workers, w.what # "load", workers' = workers \ {w},
           slot' = slot \/ slot' = [slot EXCEPT ![active] = Free], switch' \in {switch, None},
           UNCHANGED <<tabVars, formVars, quit, newOpen, reopen, turn, history>>,
           awaited' \in Awaiting, awaited'.create = awaited.create, awaited'.load = awaited.load,
           awaited'.copy = awaited.copy
    PROVE  WindowInv'
<1>1. DocumentsStay /\ Same /\ docs' = docs /\ active' = active
  BY SameDocuments DEF DocumentsStay, tabVars, history
<1>2. active \in Controllers
  BY DEF WindowInv, Core, TabsInv, OpenTabs, Controllers
<1>3. Answered /\ Eased
  BY <1>2, AnsweredStays, EasedStays DEF WindowInv, Core
<1>4. Core'
  BY <1>1, <1>3, Ended DEF WindowInv
<1>5. FormsInv' /\ Modal' = Modal
  BY Touchless DEF WindowInv, tabVars, formVars, history
<1>6. newOpen => form' = None
  BY DEF WindowInv, Control, MakingInv, formVars
<1>7. Control'
  BY <1>1, <1>3, <1>5, <1>6, EasedControl DEF WindowInv, history
<1> QED BY <1>4, <1>5, <1>7 DEF WindowInv

\* Or with which a question is given up.
LEMMA AnswerGivesUp ==
    ASSUME WindowInv, Idle, NEW w \in workers, w.what # "load", workers' = workers \ {w},
           slot' = slot \/ slot' = [slot EXCEPT ![active] = Free], switch' \in {switch, None},
           GiveUp, UNCHANGED <<tabVars, aside, ioVars, turn, typed, overrun>>
    PROVE  WindowInv'
<1>1. DocumentsStay /\ Same /\ docs' = docs /\ active' = active
  BY SameDocuments DEF DocumentsStay, tabVars
<1>2. active \in Controllers /\ active \in TabIds \cup {None}
  BY DEF WindowInv, Core, TabsInv, OpenTabs, Controllers
<1>3. Answered /\ Eased
  BY <1>2, AnsweredStays, EasedStays DEF WindowInv, Core
<1>4. Core'
  BY <1>1, <1>3, Ended DEF WindowInv
<1>5. newOpen => ~Modal /\ form = None
  BY DEF WindowInv, Control, MakingInv
<1>6. FormsInv' /\ ~Modal'
  BY <1>1, <1>2, <1>5, GaveUp DEF WindowInv, ioVars, GiveUp, Modal
<1>7. newOpen => form' = None
  <2> SUFFICES ASSUME newOpen PROVE form' = None
    OBVIOUS
  <2>1. closing = None /\ Held(active) = None /\ form = None
    BY <1>5 DEF Modal, Held
  <2> QED BY <2>1 DEF GiveUp
<1>8. awaited \in Awaiting
  BY DEF WindowInv, Control, IoTyped
<1>9. Control'
  BY <1>1, <1>3, <1>6, <1>7, <1>8, EasedControl DEF WindowInv, ioVars
<1> QED BY <1>4, <1>6, <1>9 DEF WindowInv

\* While the shown tab is busy, no Reopen runs and nothing is made.
LEMMA BusyGoesOn ==
    ASSUME WindowInv, Busy(active), UNCHANGED <<newOpen, awaited, reopen>>, Modal' => Modal,
           \A w \in workers' : w.what \in {"create", "copy"} => w \in workers,
           Formless', TurnInv', CloseInv'
    PROVE  Control'
<1>1. ~newOpen /\ reopen = None
  BY DEF WindowInv, Control, MakingInv, ReopenInv
<1>2. IoTyped' /\ ReopenInv' /\ MakingInv' /\ CopyInv'
  BY <1>1 DEF WindowInv, Control, IoTyped, ReopenInv, MakingInv, CopyInv, Copying
<1> QED BY <1>2 DEF Control

\* The tab that was to be shown is: its form comes from its draft, the other's goes there.
LEMMA ActivateKeeps ==
    ASSUME WindowInv, Idle, NEW w \in workers, w.what = "picture", workers' = workers \ {w},
           Awaits(w), MayShow(w), Activate(w), slot' = [slot EXCEPT ![active] = Free], switch' = None,
           UNCHANGED <<order, docs, ioVars, typed, overrun>>
    PROVE  WindowInv'
<1> DEFINE target == switch.target
<1>1. /\ active' = target /\ picture' = <<w.tab, w.version>> /\ form' = draft[target]
      /\ draft' = [t \in TabIds |-> CASE t = target -> None
                                      [] t = active /\ t # target -> Leaving
                                      [] OTHER -> draft[t]]
      /\ aside' = IF HasSession /\ aside # None /\ aside.tab = active THEN None ELSE aside
      /\ UNCHANGED <<quit, agreed, closing>>
  BY DEF Activate
<1>2. HoldsSwitch /\ closing = None /\ target \in OpenTabs /\ target \in TabIds /\ target # active
        /\ Busy(active) /\ target # None
  BY WindowAssumption DEF MayShow, Awaits, Hidden, OpenTabs, HoldsSwitch, Busy
<1>3. Core' /\ OpenTabs' = OpenTabs /\ (\A t \in TabIds : Current(t)' = Current(t))
  BY <1>1, <1>2, Shown DEF WindowInv
<1>4. ~newOpen /\ reopen = None /\ aside = None
  BY <1>2 DEF WindowInv, Control, MakingInv, ReopenInv, FormsInv, PlacesInv
<1>5. aside' = None /\ Leaving = form /\ closing' = None /\ \A t : Held(t)' = Held(t)
  BY <1>1, <1>2, <1>4 DEF Leaving, Held
<1>6. \A t \in TabIds : draft'[t] = IF t = target THEN None ELSE IF t = active THEN form ELSE draft[t]
  BY <1>1, <1>5
<1> HIDE DEF target
<1>7. Same
  BY <1>3 DEF Same, Dirty
<1>8. FormsTyped'
  <2>1. draft' \in [TabIds -> FormOrNone]
    <3>1. \A t \in TabIds : draft'[t] \in FormOrNone
      BY <1>6 DEF WindowInv, FormsInv, FormsTyped, FormOrNone
    <3>2. draft' = [t \in TabIds |-> draft'[t]]
      BY <1>1
    <3> QED BY <3>1, <3>2
  <2> QED BY <1>1, <1>2, <1>5, <2>1 DEF WindowInv, FormsInv, FormsTyped
<1>9. PlacesInv' /\ Confirmed'
  BY <1>1, <1>2, <1>5, <1>6 DEF PlacesInv, Confirmed, HasSession
<1>10. draft[active] = None \/ ~HasSession
  BY DEF WindowInv, FormsInv, PlacesInv
<1>11. Kept'
  <2>1. ASSUME NEW t \in TabIds
        PROVE  Stays(t) \/ \E from, to \in Places : from # to /\ Goes(t, from, to)
    <3>0. /\ FormsOf(t)["here"] = (IF t = active THEN form ELSE None) /\ FormsOf(t)["draft"] = draft[t]
          /\ FormsOf(t)'["here"] = (IF t = target THEN draft[t] ELSE None)
          /\ FormsOf(t)'["draft"] = (IF t = target THEN None ELSE IF t = active THEN form ELSE draft[t])
          /\ \A place \in Places \ {"here", "draft"} : FormsOf(t)'[place] = FormsOf(t)[place]
      <4>1. FormsOf(t)["here"] = (IF t = active THEN form ELSE None) /\ FormsOf(t)["draft"] = draft[t]
        BY PlacesOf
      <4>2. FormsOf(t)'["here"] = (IF t = target THEN draft[t] ELSE None)
        BY <1>1, PlacesNext DEF target
      <4>3. FormsOf(t)'["draft"] = (IF t = target THEN None ELSE IF t = active THEN form ELSE draft[t])
        BY <1>6, PlacesNext
      <4>4. FormsOf(t)'["aside"] = None /\ FormsOf(t)["aside"] = None
        BY <1>4, <1>5, PlacesOf, PlacesNext
      <4>5. FormsOf(t)'["close"] = None /\ FormsOf(t)["close"] = None
        BY <1>2, <1>5, PlacesOf, PlacesNext
      <4>6. FormsOf(t)'["quit"] = FormsOf(t)["quit"]
        BY <1>5 DEF FormsOf
      <4> QED BY <4>1, <4>2, <4>3, <4>4, <4>5, <4>6 DEF Places
    <3>1. CASE t = target /\ draft[t] # None
      <4>1. Goes(t, "draft", "here")
        BY <3>0, <3>1, <1>2 DEF Goes
      <4> QED BY <4>1 DEF Places
    <3>2. CASE t = active /\ form # None
      <4>1. HasSession
        BY <3>2 DEF WindowInv, FormsInv, PlacesInv
      <4>2. Goes(t, "here", "draft")
        BY <1>2, <1>10, <3>0, <3>2, <4>1 DEF Goes
      <4> QED BY <4>2 DEF Places
    <3>3. CASE ~ (t = target /\ draft[t] # None) /\ ~ (t = active /\ form # None)
      <4>1. t = active => draft[t] = None
        BY <1>10, WindowAssumption DEF HasSession
      <4>2. Stays(t)
        BY <1>2, <3>0, <3>3, <4>1 DEF Stays, Places
      <4> QED BY <4>2
    <3> QED BY <3>1, <3>2, <3>3
  <2> QED BY <1>3, <2>1, KeptMoves DEF WindowInv, FormsInv, OpenTabs
<1>12. PassInv'
  <2> SUFFICES ASSUME quit # None PROVE PassInv'
    BY <1>1 DEF PassInv
  <2>1. \A t \in TabIds : Held(t)' # None /\ Held(t)'.confirmed => FormOf(t) \in agreed'
    BY <1>1, <1>5 DEF WindowInv, FormsInv, PassInv, FormOf
  <2>2. quit' = quit /\ (quit.model # None => quit.model \in TabIds \X Versions)
    BY <1>1 DEF WindowInv, FormsInv, FormsTyped, Passes
  <2>3. quit.model # None => draft[quit.model[1]] = None /\ (quit.model[1] = active => form = None)
    BY DEF WindowInv, FormsInv, PassInv
  <2>4. quit.model # None => draft'[quit.model[1]] = None /\ (quit.model[1] = target => form' = None)
    BY <1>1, <1>6, <2>2, <2>3 DEF target
  <2>5. \A t \in OpenTabs' : <<t, Current(t)'>> \in quit.answered => Agreed(t)'
    <3>1. \A t \in TabIds : Agreed(t)' <=> Agreed(t)
      BY <1>1, <1>3 DEF Agreed, Dirty, FormOf
    <3>2. OpenTabs \subseteq TabIds
      BY DEF OpenTabs
    <3> QED BY <1>3, <3>1, <3>2 DEF WindowInv, FormsInv, PassInv
  <2>6. \A t \in TabIds : \A v \in Versions : <<t, v>> \in quit.answered =>
           t \in OpenTabs' /\ v \in ToSet(SubSeq(docs'[t].line, 1, docs'[t].pos))
    BY <1>3 DEF WindowInv, FormsInv, PassInv
  <2> QED BY <1>1, <2>1, <2>2, <2>4, <2>5, <2>6 DEF PassInv, FormOf, ToSet
<1>13. Formless'
  <2>1. \A c \in TabIds : slot'[c] = slot[c] \/ slot'[c] = Free
    BY DEF WindowInv, Core, SlotInv, Controllers
  <2> QED BY <2>1, FormlessStays DEF WindowInv, Control, Free
<1>14. turn' \in {Go("quit", None), Go("closeTab", target), Wait}
  BY DEF Activate, target
<1>15. TurnInv' /\ CloseInv'
  BY <1>1, <1>2, <1>3, <1>14 DEF TurnInv, CloseInv, Go, Wait, target
<1>16. Modal' => Modal
  BY <1>1 DEF Modal
<1>17. Control'
  BY <1>2, <1>13, <1>15, <1>16, BusyGoesOn DEF ioVars
<1> QED BY <1>3, <1>8, <1>9, <1>11, <1>12, <1>17 DEF WindowInv, FormsInv

\* Each answer, in turn. A picture shows its tab only where the switch is still wanted.
LEMMA SwitchAnswerKeeps ==
    ASSUME WindowInv, NEW w \in workers, NEW ok, SwitchAnswer(w, ok)
    PROVE  WindowInv'
<1>1. /\ Idle /\ w.what = "picture" /\ workers' = workers \ {w}
      /\ UNCHANGED <<order, docs, ioVars, typed, overrun>>
  BY DEF SwitchAnswer
<1>2. awaited \in Awaiting /\ w.what # "load"
  BY <1>1 DEF WindowInv, Control, IoTyped
<1>3. CASE UNCHANGED <<active, picture, formVars, quit, agreed, turn, slot, switch>>
  BY <1>1, <1>2, <1>3, AnswerEases DEF tabVars, ioVars, history
<1>4. CASE /\ Awaits(w) /\ MayShow(w) /\ Activate(w) /\ switch' = None
           /\ slot' = [slot EXCEPT ![active] = Free]
  BY <1>1, <1>4, ActivateKeeps
<1>5. CASE StayHere /\ switch' = None /\ (slot' = slot \/ slot' = [slot EXCEPT ![active] = Free])
  <2>1. UNCHANGED <<active, picture, aside, turn>>
    BY <1>5 DEF StayHere
  <2>2. CASE GiveUp
    BY <1>1, <1>2, <1>5, <2>1, <2>2, AnswerGivesUp DEF tabVars
  <2>3. CASE UNCHANGED <<quit, agreed, draft, form, closing>>
    BY <1>1, <1>2, <1>5, <2>1, <2>3, AnswerEases DEF tabVars, formVars, ioVars, history
  <2> QED BY <1>5, <2>2, <2>3 DEF StayHere
<1>6. MayShow(w) => HoldsSwitch
  BY DEF MayShow
<1> QED BY <1>3, <1>4, <1>5, <1>6 DEF SwitchAnswer

-----------------------------------------------------------------------------
(* Changes are accepted, and saves end                                     *)

\* A version that is added to a line leaves those before it where they are.
LEMMA LineGrows ==
    ASSUME NEW line \in Seq(Versions), NEW pos \in 1..Len(line), NEW v \in Versions, v \notin ToSet(line),
           NEW u \in ToSet(SubSeq(line, 1, pos)), NEW longer, longer = Append(SubSeq(line, 1, pos), v)
    PROVE  u \in ToSet(line) /\ u \in ToSet(SubSeq(longer, 1, Place(longer, v)))
<1> DEFINE head == SubSeq(line, 1, pos)
           at == Place(longer, v)
<1>1. Len(line) \in Nat /\ DOMAIN line = 1..Len(line) /\ pos \in Nat /\ pos >= 1
  OBVIOUS
<1>2. head \in Seq(Versions) /\ Len(head) = pos /\ \A k \in 1..pos : head[k] = line[k]
  <2>1. 1 \in 1..(Len(line) + 1) /\ pos \in 0..Len(line)
    BY <1>1
  <2> QED BY <1>1, <2>1, SubSeqProperties
<1> HIDE DEF head
<1>3. u \in ToSet(head) /\ longer = Append(head, v)
  BY DEF head
<1>4. PICK k \in 1..pos : u = head[k]
  BY <1>1, <1>2, <1>3 DEF ToSet
<1>5. u \in ToSet(line) /\ \A m \in 1..pos : head[m] # v
  <2>1. \A m \in 1..pos : m \in DOMAIN line
    BY <1>1
  <2> QED BY <1>2, <1>4, <2>1 DEF ToSet
<1>6. /\ longer \in Seq(Versions) /\ Len(longer) = pos + 1 /\ longer[pos + 1] = v
      /\ \A m \in 1..pos : longer[m] = head[m]
  BY <1>1, <1>2, <1>3, AppendProperties
<1>7. DOMAIN longer = 1..(pos + 1) /\ pos + 1 \in 1..(pos + 1)
  BY <1>1, <1>6
<1>8. at = pos + 1
  <2>1. v \in ToSet(longer)
    BY <1>6, <1>7 DEF ToSet
  <2>2. at \in DOMAIN longer /\ longer[at] = v
    BY <1>6, <2>1, PlaceIs
  <2>3. at \in 1..pos \/ at = pos + 1
    BY <1>1, <1>7, <2>2
  <2> QED BY <1>5, <1>6, <2>2, <2>3
<1> HIDE DEF at
<1>9. /\ Len(SubSeq(longer, 1, at)) = pos + 1
      /\ \A m \in 1..(pos + 1) : SubSeq(longer, 1, at)[m] = longer[m]
      /\ SubSeq(longer, 1, at) \in Seq(Versions)
  <2>1. 1 \in 1..(Len(longer) + 1) /\ at \in 0..Len(longer)
    BY <1>1, <1>6, <1>8
  <2> QED BY <1>1, <1>6, <1>8, <2>1, SubSeqProperties
<1>10. DOMAIN SubSeq(longer, 1, at) = 1..(pos + 1) /\ k \in 1..(pos + 1)
  BY <1>1, <1>9
<1>11. SubSeq(longer, 1, at)[k] = u
  BY <1>4, <1>6, <1>9, <1>10
<1>12. u \in ToSet(SubSeq(longer, 1, at))
  BY <1>10, <1>11 DEF ToSet
<1> QED BY <1>5, <1>12 DEF at

\* The forms of a tab whose document changes described the version before it. Under a
\* question only a checkpoint is accepted, which found no form.
LEMMA AcceptedForms ==
    ASSUME WindowInv, active \in TabIds, Busy(active), NEW v \in Versions, Accept(v, v),
           OpenTabs' = OpenTabs, \A c \in TabIds : c # active => docs'[c] = docs[c],
           Current(active)' = v,
           docs'[active].line = (IF slot[active].kind = "move" THEN docs[active].line
                                 ELSE Append(SubSeq(docs[active].line, 1, docs[active].pos), v)),
           docs'[active].pos = Place(docs'[active].line, v),
           ~Modal \/ (active \notin typed /\ v \notin Named(active) /\ slot[active].kind # "move"),
           UNCHANGED <<active, draft, aside, closing, quit, agreed, newOpen>>
    PROVE  FormsInv' /\ Modal' = Modal
<1>1. form' = None /\ typed' = typed \ {active}
  BY DEF Accept
<1>2. aside = None /\ draft[active] = None /\ HasSession /\ active \in OpenTabs
  BY WindowAssumption
  DEF WindowInv, Control, MakingInv, FormsInv, PlacesInv, HasSession, Core, TabsInv
<1>3. closing = None /\ Held(active) = None
  <2>1. CASE ~Modal
    BY <2>1 DEF Modal, Held
  <2>2. CASE active \notin typed
    <3>1. \A place \in Places : FormsOf(active)[place] = None
      BY <2>2 DEF WindowInv, FormsInv, Kept
    <3>2. /\ (IF closing # None /\ closing.tab = active THEN closing.form ELSE None) = None
          /\ (IF Held(active) # None THEN Held(active).form ELSE None) = None
      BY <3>1, PlacesOf DEF Places
    <3>3. closing # None => closing.tab = active /\ closing.form \in Forms
      BY DEF WindowInv, FormsInv, FormsTyped, PlacesInv, Closings
    <3>4. Held(active) # None => Held(active).form \in Forms
      BY DEF WindowInv, FormsInv, FormsTyped, Passes, HeldForms, Held
    <3> QED BY <3>2, <3>3, <3>4, NothingIsNothing
  <2> QED BY <2>1, <2>2
<1>4. \A t : Held(t)' = Held(t)
  BY DEF Held
<1>5. FormsTyped' /\ PlacesInv' /\ Confirmed' /\ Modal' = Modal
  BY <1>1, <1>2, <1>3
  DEF WindowInv, FormsInv, FormsTyped, FormOrNone, PlacesInv, Confirmed, Modal, HasSession
<1>6. Kept'
  <2> SUFFICES ASSUME NEW t \in TabIds
               PROVE  /\ t \in typed' <=> \E place \in Places : FormsOf(t)'[place] # None
                      /\ \A one, two \in Places :
                            FormsOf(t)'[one] # None /\ FormsOf(t)'[two] # None => one = two
                      /\ \A place \in Places : FormsOf(t)'[place] # None =>
                            t \in OpenTabs' /\ FormsOf(t)'[place].base = Current(t)'
    BY DEF Kept
  <2>1. CASE t = active
    <3>1. \A place \in Places : FormsOf(t)'[place] = None
      BY <1>1, <1>2, <1>3, <1>4, <2>1, PlacesNext DEF Places
    <3> QED BY <1>1, <2>1, <3>1
  <2>2. CASE t # active
    <3>1. \A place \in Places : FormsOf(t)'[place] = FormsOf(t)[place]
      BY <1>4, <2>2, PlacesOf, PlacesNext DEF Places
    <3>2. Current(t)' = Current(t)
      BY <2>2 DEF Current
    <3>3. t \in typed' <=> t \in typed
      BY <1>1, <2>2
    <3> QED BY <3>1, <3>2, <3>3 DEF WindowInv, FormsInv, Kept
  <2> QED BY <2>1, <2>2
<1>7. PassInv'
  <2> SUFFICES ASSUME quit # None PROVE PassInv'
    BY DEF PassInv
  <2>1. active \notin typed /\ v \notin Named(active) /\ slot[active].kind # "move"
    BY DEF Modal
  <2> DEFINE line == docs[active].line
             pos == docs[active].pos
  <2>2. v \notin ToSet(line)
    BY <2>1 DEF Named
  <2>3. line \in Seq(Versions) /\ pos \in 1..Len(line)
    <3>1. docs[active] \in Docs /\ docs[active].pos \in DOMAIN docs[active].line
      BY <1>2, CurrentTyped DEF WindowInv, Core
    <3> QED BY <3>1 DEF Docs
  <2>4. docs'[active].line = Append(SubSeq(line, 1, pos), v) /\ docs'[active].pos = Place(docs'[active].line, v)
    BY <2>1
  <2> HIDE DEF line, pos
  <2>5. ASSUME NEW u \in Versions, <<active, u>> \in quit.answered
        PROVE  u # v /\ u \in ToSet(SubSeq(docs'[active].line, 1, docs'[active].pos))
    <3>1. u \in ToSet(SubSeq(line, 1, pos))
      BY <2>5 DEF WindowInv, FormsInv, PassInv, line, pos
    <3>2. u \in ToSet(line) /\ u \in ToSet(SubSeq(docs'[active].line, 1, Place(docs'[active].line, v)))
      BY <2>2, <2>3, <2>4, <3>1, LineGrows
    <3> QED BY <2>2, <2>4, <3>2
  <2>6. \A t \in TabIds : \A u \in Versions : <<t, u>> \in quit.answered =>
           t \in OpenTabs' /\ u \in ToSet(SubSeq(docs'[t].line, 1, docs'[t].pos))
    <3> SUFFICES ASSUME NEW t \in TabIds, NEW u \in Versions, <<t, u>> \in quit.answered
                 PROVE  t \in OpenTabs' /\ u \in ToSet(SubSeq(docs'[t].line, 1, docs'[t].pos))
      OBVIOUS
    <3>1. t \in OpenTabs /\ u \in ToSet(SubSeq(docs[t].line, 1, docs[t].pos))
      BY DEF WindowInv, FormsInv, PassInv
    <3>2. CASE t = active
      BY <2>5, <3>1, <3>2
    <3>3. CASE t # active
      BY <3>1, <3>3
    <3> QED BY <3>2, <3>3
  <2>7. ASSUME NEW t \in OpenTabs', <<t, Current(t)'>> \in quit.answered PROVE Agreed(t)'
    <3>1. t \in TabIds /\ t \in OpenTabs
      BY DEF OpenTabs
    <3>2. t # active
      BY <2>5, <2>7
    <3>3. Current(t)' = Current(t) /\ docs'[t] = docs[t]
      BY <3>1, <3>2 DEF Current
    <3>4. Agreed(t)
      BY <2>7, <3>1, <3>3 DEF WindowInv, FormsInv, PassInv
    <3> QED BY <1>1, <3>3, <3>4 DEF Agreed, Dirty, FormOf
  <2>8. \A t \in TabIds : Held(t)' # None /\ Held(t)'.confirmed => FormOf(t) \in agreed'
    BY <1>4 DEF WindowInv, FormsInv, PassInv, FormOf
  <2>9. quit.model # None => draft'[quit.model[1]] = None
    BY DEF WindowInv, FormsInv, PassInv
  <2> QED BY <1>1, <2>6, <2>7, <2>8, <2>9 DEF PassInv, FormOf, ToSet
<1> QED BY <1>5, <1>6, <1>7 DEF FormsInv

\* An accepted version needs nothing more from the rest of the window.
LEMMA AcceptKeeps ==
    ASSUME WindowInv, Idle, NEW w \in workers, workers' = workers \ {w}, active \in TabIds,
           slot[active].kind \in Changing, NEW v \in Versions, Accept(v, v),
           slot[active].kind = "move" => v = slot[active].version,
           ~Modal \/ (active \notin typed /\ v \notin Named(active) /\ slot[active].kind # "move"),
           slot' = [slot EXCEPT ![active] = Free],
           UNCHANGED <<order, active, draft, aside, closing, quit, ioVars, switch, turn, agreed, overrun>>
    PROVE  WindowInv'
<1>1. Busy(active) /\ Core
  BY DEF Changing, Busy, WindowInv
<1>2. /\ Core' /\ OpenTabs' = OpenTabs /\ Current(active)' = v
      /\ \A c \in TabIds : c # active => docs'[c] = docs[c]
      /\ docs'[active].line = (IF slot[active].kind = "move" THEN docs[active].line
                               ELSE Append(SubSeq(docs[active].line, 1, docs[active].pos), v))
      /\ docs'[active].pos = Place(docs'[active].line, v)
  BY <1>1, Accepted
<1>3. FormsInv' /\ Modal' = Modal
  BY <1>1, <1>2, AcceptedForms DEF ioVars
<1>4. Formless'
  <2>1. typed' \subseteq typed
    BY DEF Accept
  <2>2. \A c \in TabIds : slot'[c] = slot[c] \/ slot'[c] = Free
    BY DEF WindowInv, Core, SlotInv, Controllers
  <2> QED BY <2>1, <2>2, FormlessStays DEF WindowInv, Control, Free
<1>5. TurnInv' /\ CloseInv'
  BY TurnStays
<1>6. Control'
  BY <1>1, <1>3, <1>4, <1>5, BusyGoesOn DEF ioVars
<1> QED BY <1>2, <1>3, <1>6 DEF WindowInv

\* The picture of a staged version: it is accepted, or nothing is.
LEMMA SceneAnswerKeeps ==
    ASSUME WindowInv, NEW w \in workers, NEW ok, SceneAnswer(w, ok)
    PROVE  WindowInv'
<1>1. /\ Idle /\ w.what = "scene" /\ workers' = workers \ {w}
      /\ UNCHANGED <<order, active, draft, aside, closing, quit, ioVars, switch, turn, agreed, overrun>>
  BY DEF SceneAnswer
<1>2. awaited \in Awaiting /\ w.what # "load"
  BY <1>1 DEF WindowInv, Control, IoTyped
<1>3. CASE /\ UNCHANGED <<docs, picture, form, typed>>
           /\ slot' = slot \/ slot' = [slot EXCEPT ![active] = Free]
  BY <1>1, <1>2, <1>3, AnswerEases DEF tabVars, formVars, ioVars, history
<1>4. CASE /\ Addressed(w, {"apply", "checkpoint", "move"}) /\ ~Modal
           /\ slot' = [slot EXCEPT ![active] = Free]
           /\ Accept(slot[active].version, w.version)
  <2>1. active \in TabIds /\ w.version \in Versions
    BY <1>1, <1>4 DEF WindowInv, Core, WorkersInv, Addressed
  <2>2. slot[active].kind \in Changing /\ slot[active].version = w.version
    BY <1>1, <1>4 DEF WindowInv, Core, SceneInv, Addressed, Changing
  <2> QED BY <1>1, <1>4, <2>1, <2>2, AcceptKeeps
<1> QED BY <1>3, <1>4 DEF SceneAnswer

\* A change was made: it is staged, accepted or dropped.
LEMMA StepAnswerKeeps ==
    ASSUME WindowInv, NEW w \in workers, NEW made, StepAnswer(w, made)
    PROVE  WindowInv'
<1>1. /\ Idle /\ w.what = "step"
      /\ Addressed(w, {"apply", "checkpoint"}) => Unnamed(active) # {}
      /\ UNCHANGED <<order, active, draft, aside, closing, quit, ioVars, switch, turn, agreed, overrun>>
  BY DEF StepAnswer
<1>2. awaited \in Awaiting /\ w.what # "load"
  BY <1>1 DEF WindowInv, Control, IoTyped
<1>3. CASE /\ UNCHANGED <<docs, picture, form, typed>> /\ workers' = workers \ {w}
           /\ slot' = slot \/ slot' = [slot EXCEPT ![active] = Free]
  BY <1>1, <1>2, <1>3, AnswerEases DEF tabVars, formVars, ioVars, history
<1>4. ASSUME Addressed(w, {"apply", "checkpoint"})
      PROVE  /\ active \in TabIds /\ Fresh(active) \in Versions /\ Fresh(active) \notin Named(active)
             /\ slot[active].kind \in Changing /\ slot[active].kind # "move" /\ Busy(active)
  <2>1. active \in TabIds
    BY <1>1, <1>4 DEF WindowInv, Core, WorkersInv, Addressed
  <2> QED BY <1>1, <1>4, <2>1, FreshIs DEF Addressed, Changing, Busy
<1>5. CASE /\ Addressed(w, {"apply", "checkpoint"}) /\ slot[active].kind = "checkpoint"
           /\ workers' = workers \ {w} /\ slot' = [slot EXCEPT ![active] = Free]
           /\ Accept(Fresh(active), Fresh(active))
  <2>1. active \notin typed
    BY <1>4, <1>5 DEF WindowInv, Control, Formless
  <2> QED BY <1>1, <1>4, <1>5, <2>1, AcceptKeeps
<1>6. CASE /\ Addressed(w, {"apply", "checkpoint"}) /\ UNCHANGED <<docs, picture, form, typed>>
           /\ slot' = [slot EXCEPT ![active] = [@ EXCEPT !.version = Fresh(active)]]
           /\ workers' = (workers \ {w}) \cup {Worker("scene", w.gen, active, Fresh(active), None)}
  <2>1. DocumentsStay /\ switch' = switch
    BY <1>1, <1>6 DEF DocumentsStay
  <2>2. Core'
    <3>1. slot[active].kind \in {"apply", "checkpoint"} /\ slot[active].gen = w.gen
      BY <1>6 DEF Addressed
    <3> QED BY <1>1, <1>4, <1>6, <2>1, <3>1, Staged DEF WindowInv
  <2>3. FormsInv' /\ Modal' = Modal
    BY <1>1, <1>6, Touchless DEF WindowInv, ioVars
  <2>4. Formless'
    <3>1. \A c \in TabIds : slot'[c].kind = slot[c].kind /\ slot'[c].next = slot[c].next
      <4>1. slot[active] \in Operations
        BY <1>4, <1>6 DEF WindowInv, Core, SlotInv, Busy, Free, Controllers
      <4> QED BY <1>4, <1>6, <4>1 DEF WindowInv, Core, SlotInv, Controllers, Operations
    <3> QED BY <1>6, <3>1, FormlessStays DEF WindowInv, Control
  <2>5. TurnInv' /\ CloseInv'
    BY <1>1, TurnStays
  <2>6. \A x \in workers' : x.what \in {"create", "copy"} => x \in workers
    BY <1>6 DEF Worker
  <2>7. Control'
    BY <1>1, <1>4, <1>6, <2>3, <2>4, <2>5, <2>6, BusyGoesOn DEF ioVars
  <2> QED BY <2>2, <2>3, <2>7 DEF WindowInv
<1> QED BY <1>3, <1>5, <1>6 DEF StepAnswer

\* After a save that was published, the forms stay, or a question is decided or given up.
LEMMA SavedForms ==
    ASSUME WindowInv, Idle, active \in OpenTabs, Busy(active), slot[active].kind = "save", Same, ~Dirty(active)',
           ContinueWith(slot[active].next, Current(active)), UNCHANGED <<active, typed, newOpen>>
    PROVE  FormsInv' /\ (Modal' => Modal) /\ TurnInv' /\ CloseInv'
<1>1. ~newOpen /\ aside = None /\ HasSession /\ active \in TabIds
  BY WindowAssumption
  DEF WindowInv, Control, MakingInv, FormsInv, PlacesInv, HasSession, OpenTabs
<1>2. OpenTabs' = OpenTabs
  BY DEF Same
<1>3. CASE /\ quit # None /\ MayDecideQuit /\ DecideQuit /\ turn' = Go("quit", None)
           /\ UNCHANGED <<formVars, agreed>>
  <2>1. form = None /\ (Held(active) # None => Held(active).confirmed)
    <3>1. quit.model = <<active, Current(active)>> /\ Current(active) \in Versions
      BY <1>3, CurrentTyped DEF MayDecideQuit, WindowInv, Core
    <3>2. quit.model # None
      BY <1>1, <3>1, NothingIsNothing
    <3>3. quit.model[1] = active
      BY <3>1
    <3> QED BY <1>3, <3>2, <3>3 DEF WindowInv, FormsInv, PassInv, MayDecideQuit
  <2>2. active \in typed => FormOf(active) \in agreed
    BY <1>1, <1>3, <2>1, FormAgreed DEF WindowInv
  <2>3. Agreed(active)'
    BY <1>3, <2>2 DEF Agreed, FormOf
  <2>4. FormsInv' /\ Modal'
    <3>1. UNCHANGED <<active, form, draft, aside, closing, typed>> /\ agreed \subseteq agreed'
      BY <1>3 DEF formVars
    <3> QED BY <1>1, <1>3, <2>3, <3>1, DecidedForms DEF WindowInv, Core
  <2>5. TurnInv' /\ CloseInv'
    BY <1>3 DEF TurnInv, CloseInv, Go
  <2> QED BY <1>3, <2>4, <2>5 DEF Modal
<1>4. CASE /\ MayDecideClose /\ closing' = [closing EXCEPT !.decided = TRUE] /\ turn' = Go("close", active)
           /\ UNCHANGED <<quit, form, draft, aside, agreed>>
  <2>1. /\ closing # None /\ closing.tab = active /\ closing.confirmed /\ quit = None /\ closing \in Closings
        /\ FormOf(active) \in agreed
    BY <1>4 DEF MayDecideClose, WindowInv, FormsInv, FormsTyped, PlacesInv, Confirmed
  <2>2. closing' \in Closings /\ closing'.tab = active /\ closing'.form = closing.form
    BY <1>4, <2>1 DEF Closings
  <2>3. FormsInv' /\ Modal'
    BY <1>1, <1>4, <2>1, <2>2, CloseHolds DEF WindowInv
  <2>4. Agreed(active)'
    BY <1>4, <2>1 DEF Agreed, FormOf
  <2>5. TurnInv' /\ CloseInv'
    BY <1>1, <1>2, <1>4, <2>4 DEF TurnInv, CloseInv, Go
  <2> QED BY <2>1, <2>3, <2>5 DEF Modal
<1>5. CASE /\ UNCHANGED <<quit, formVars, agreed>>
           /\ turn' = turn \/ (slot[active].next = "close" /\ turn' = Go("close", active))
  <2>1. FormsInv' /\ Modal' = Modal
    BY <1>5, FormsStay DEF WindowInv, formVars, Modal
  <2>2. CASE turn' = turn
    BY <2>1, <2>2, TurnStays
  <2>3. CASE slot[active].next = "close" /\ turn' = Go("close", active)
    <3>1. active \notin typed
      BY <1>1, <2>3 DEF WindowInv, Control, Formless
    <3>2. Agreed(active)'
      BY <3>1 DEF Agreed
    <3> QED BY <1>1, <1>2, <2>1, <2>3, <3>2 DEF TurnInv, CloseInv, Go
  <2> QED BY <1>5, <2>2, <2>3
<1>6. CASE GiveUp /\ UNCHANGED <<aside, turn>>
  <2>1. FormsInv'
    BY <1>1, <1>6, GaveUp DEF WindowInv
  <2>2. ~Modal'
    BY <1>6 DEF GiveUp, Modal
  <2> QED BY <1>6, <2>1, <2>2, TurnStays
<1> QED BY <1>3, <1>4, <1>5, <1>6 DEF ContinueWith, formVars, MayDecideQuit

\* A file was published, or not.
LEMMA SaveAnswerKeeps ==
    ASSUME WindowInv, NEW w \in workers, NEW ok, SaveAnswer(w, ok)
    PROVE  WindowInv'
<1>1. /\ Idle /\ w.what \in Saving /\ workers' = workers \ {w}
      /\ UNCHANGED <<order, active, picture, ioVars, switch, typed, overrun>>
  BY DEF SaveAnswer, Saving
<1>2. awaited \in Awaiting /\ w.what # "load"
  BY <1>1 DEF WindowInv, Control, IoTyped, Saving
<1>3. CASE UNCHANGED <<docs, slot, formVars, quit, turn, agreed>>
  BY <1>1, <1>2, <1>3, AnswerEases DEF tabVars, ioVars, history
<1>4. CASE slot' = [slot EXCEPT ![active] = Free] /\ GiveUp /\ UNCHANGED <<docs, aside, turn>>
  BY <1>1, <1>2, <1>4, AnswerGivesUp DEF tabVars
<1>5. CASE /\ Addressed(w, {"save"}) /\ slot' = [slot EXCEPT ![active] = Free]
           /\ docs' = [docs EXCEPT ![active].saved = w.version, ![active].path = w.path]
           /\ ContinueWith(slot[active].next, w.version)
  <2>1. /\ Core' /\ OpenTabs' = OpenTabs /\ (\A t \in TabIds : Current(t)' = Current(t))
        /\ active \in OpenTabs /\ w.version = Current(active) /\ ~Dirty(active)'
        /\ \A c \in TabIds : c # active => docs'[c] = docs[c]
        /\ docs'[active].line = docs[active].line /\ docs'[active].pos = docs[active].pos
    BY <1>1, <1>5, Saved DEF WindowInv
  <2>2. Same
    <3>1. ASSUME NEW t \in TabIds
          PROVE  /\ Dirty(t)' => Dirty(t)
                 /\ t \in OpenTabs => docs'[t].line = docs[t].line /\ docs'[t].pos = docs[t].pos
      <4>1. CASE t = active
        BY <1>1, <2>1, <4>1 DEF Dirty, Current
      <4>2. CASE t # active
        BY <2>1, <4>2 DEF Dirty
      <4> QED BY <4>1, <4>2
    <3> QED BY <2>1, <3>1 DEF Same
  <2>3. Busy(active) /\ slot[active].kind = "save"
    BY <1>5 DEF Addressed, Busy
  <2>4. FormsInv' /\ (Modal' => Modal) /\ TurnInv' /\ CloseInv'
    BY <1>1, <1>5, <2>1, <2>2, <2>3, SavedForms DEF ioVars
  <2>5. Formless'
    <3>1. \A c \in TabIds : slot'[c] = slot[c] \/ slot'[c] = Free
      BY <1>5 DEF WindowInv, Core, SlotInv, Controllers
    <3> QED BY <1>1, <3>1, FormlessStays DEF WindowInv, Control, Free
  <2>6. Control'
    BY <1>1, <2>3, <2>4, <2>5, BusyGoesOn DEF ioVars
  <2> QED BY <2>1, <2>4, <2>6 DEF WindowInv
<1> QED BY <1>3, <1>4, <1>5 DEF SaveAnswer

-----------------------------------------------------------------------------
(* New documents                                                           *)

\* The shown tab's form is hidden with it; the new one has none.
LEMMA OpenedForms ==
    ASSUME WindowInv, NEW t \in NewTabs, NEW p, OpenTab(t, p), ~Modal,
           OpenTabs' = OpenTabs \cup {t}, \A c \in OpenTabs : Current(c)' = Current(c),
           UNCHANGED <<quit, typed>>
    PROVE  FormsInv' /\ ~Modal'
<1>1. /\ active' = t /\ form' = None /\ closing' = closing
      /\ draft' = IF HasSession THEN [draft EXCEPT ![active] = Leaving] ELSE draft
      /\ aside' = IF HasSession /\ aside # None /\ aside.tab = active THEN None ELSE aside
  BY DEF OpenTab
<1>2. t \in TabIds /\ t \notin OpenTabs /\ t # active /\ t # None
  BY WindowAssumption DEF NewTabs, WindowInv, Core, TabsInv
<1>3. closing = None /\ quit = None /\ closing' = None /\ quit' = None /\ ~Modal'
  BY <1>1 DEF Modal
<1>4. \A c : Held(c) = None /\ Held(c)' = None
  BY <1>3 DEF Held
<1>5. active = None => form = None /\ aside = None
  BY NothingIsNothing, WindowAssumption
  DEF WindowInv, FormsInv, FormsTyped, PlacesInv, HasSession, Asides
<1>6. aside # None => aside.tab = active /\ form = None /\ aside.form \in Forms
  BY DEF WindowInv, FormsInv, FormsTyped, PlacesInv, Control, MakingInv, Asides
<1>7. aside' = None
  BY <1>1, <1>5, <1>6 DEF HasSession
<1>8. active # None => active \in TabIds /\ draft[active] = None /\ active \in OpenTabs
  BY DEF WindowInv, Core, TabsInv, OpenTabs, FormsInv, PlacesInv, HasSession
<1>9. Leaving = IF aside # None THEN aside.form ELSE form
  BY <1>6 DEF Leaving
<1>10. draft \in [TabIds -> FormOrNone] /\ Leaving \in FormOrNone
  BY <1>6, <1>9 DEF WindowInv, FormsInv, FormsTyped, FormOrNone
<1>11. \A c \in TabIds : draft'[c] = IF c = active THEN Leaving ELSE draft[c]
  BY <1>1, <1>2, <1>5, <1>10, WindowAssumption DEF HasSession
<1>12. FormsTyped'
  BY <1>1, <1>3, <1>7, <1>8, <1>10 DEF FormsTyped, FormOrNone, HasSession
<1>13. draft[t] = None
  <2>1. \A place \in Places : FormsOf(t)[place] = None
    BY <1>2 DEF WindowInv, FormsInv, Kept
  <2> QED BY <2>1, PlacesOf DEF Places
<1>14. PlacesInv' /\ Confirmed' /\ PassInv'
  BY <1>1, <1>2, <1>3, <1>7, <1>11, <1>13 DEF PlacesInv, Confirmed, PassInv, HasSession
<1>15. Kept'
  <2>1. ASSUME NEW c \in TabIds
        PROVE  Stays(c) \/ \E from, to \in Places : from # to /\ Goes(c, from, to)
    <3>0. /\ FormsOf(c)["here"] = (IF c = active THEN form ELSE None)
          /\ FormsOf(c)["draft"] = draft[c]
          /\ FormsOf(c)["aside"] = (IF aside # None /\ c = active THEN aside.form ELSE None)
          /\ FormsOf(c)["close"] = None /\ FormsOf(c)["quit"] = None
          /\ FormsOf(c)'["here"] = None
          /\ FormsOf(c)'["draft"] = (IF c = active THEN Leaving ELSE draft[c])
          /\ FormsOf(c)'["aside"] = None /\ FormsOf(c)'["close"] = None /\ FormsOf(c)'["quit"] = None
      <4>1. /\ FormsOf(c)["here"] = (IF c = active THEN form ELSE None)
            /\ FormsOf(c)["draft"] = draft[c]
        BY PlacesOf
      <4>2. FormsOf(c)["aside"] = (IF aside # None /\ c = active THEN aside.form ELSE None)
        BY <1>6, PlacesOf
      <4>3. FormsOf(c)["close"] = None /\ FormsOf(c)["quit"] = None
        BY <1>3, <1>4, PlacesOf
      <4>4. FormsOf(c)'["here"] = None
        BY <1>1, PlacesNext
      <4>5. FormsOf(c)'["draft"] = (IF c = active THEN Leaving ELSE draft[c])
        BY <1>11, PlacesNext
      <4>6. FormsOf(c)'["aside"] = None /\ FormsOf(c)'["close"] = None /\ FormsOf(c)'["quit"] = None
        BY <1>3, <1>4, <1>7, PlacesNext
      <4> QED BY <4>1, <4>2, <4>3, <4>4, <4>5, <4>6
    <3> DEFINE was == FormsOf(c)
               is == FormsOf(c)'
    <3>1. CASE c # active \/ (form = None /\ aside = None)
      <4>1. draft[c] = (IF c = active THEN Leaving ELSE draft[c])
        BY <1>8, <1>9, <3>1, <1>2, WindowAssumption
      <4> QED BY <3>0, <3>1, <4>1 DEF Stays, Places
    <3>2. CASE c = active /\ aside # None
      <4>1. aside.form # None /\ form = None /\ draft[c] = None /\ Leaving = aside.form
        BY <1>6, <1>8, <1>9, <3>2, <1>2, NothingIsNothing, WindowAssumption
      <4>2. Goes(c, "aside", "draft")
        BY <3>0, <3>2, <4>1 DEF Goes, Places
      <4> QED BY <4>2 DEF Places
    <3>3. CASE c = active /\ aside = None /\ form # None
      <4>1. draft[c] = None /\ Leaving = form
        BY <1>8, <1>9, <3>3, WindowAssumption
      <4>2. Goes(c, "here", "draft")
        BY <3>0, <3>3, <4>1 DEF Goes, Places
      <4> QED BY <4>2 DEF Places
    <3> QED BY <3>1, <3>2, <3>3
  <2>2. OpenTabs \subseteq OpenTabs'
    OBVIOUS
  <2> QED BY <2>1, <2>2, KeptMoves DEF WindowInv, FormsInv
<1> QED BY <1>3, <1>12, <1>14, <1>15 DEF FormsInv

\* A new document, for an answer that is the last of what it was about.
LEMMA OpensNew ==
    ASSUME WindowInv, Idle, NEW w \in workers, workers' = workers \ {w},
           NEW t \in NewTabs, NEW p \in Paths \cup {None}, OpenTab(t, p), MayOpen(p),
           slot' = slot \/ slot' = [slot EXCEPT ![active] = Free] \/ slot' = [slot EXCEPT ![None] = Free],
           overrun \subseteq overrun', overrun' \subseteq overrun \cup {active},
           slot'[active].kind = "save" => active \in overrun',
           UNCHANGED <<quit, switch, typed, agreed>>
    PROVE  /\ Core' /\ FormsInv' /\ ~Modal' /\ Formless' /\ form' = None /\ ~Busy(active)'
           /\ active' = t /\ OpenTabs' = OpenTabs \cup {t} /\ t \notin OpenTabs
           /\ \A c \in TabIds : c # t => docs'[c] = docs[c]
           /\ docs'[t].path = p
<1>1. active \in Controllers /\ None \in Controllers
  BY DEF WindowInv, Core, TabsInv, OpenTabs, Controllers
<1>2. Answered /\ Eased
  BY <1>1, AnsweredStays, EasedStays DEF WindowInv, Core
<1>3. p # None => Owners(p, {}) = {}
  BY DEF MayOpen
<1>4. Core' /\ active' = t /\ OpenTabs' = OpenTabs \cup {t} /\ t \notin OpenTabs
  BY <1>2, <1>3, Opened DEF WindowInv
<1>5. \A c \in TabIds : c # t => docs'[c] = docs[c]
  BY DEF OpenTab
<1>6. docs'[t].path = p
  <2>1. t \in DOMAIN docs
    BY DEF NewTabs, WindowInv, Core, TabsInv
  <2> QED BY <2>1 DEF OpenTab
<1>7. \A c \in OpenTabs : Current(c)' = Current(c)
  BY <1>4, <1>5 DEF Current, OpenTabs
<1>8. FormsInv' /\ ~Modal'
  BY <1>4, <1>7, OpenedForms DEF MayOpen
<1>9. Formless'
  <2>1. \A c \in TabIds : slot'[c] = slot[c] \/ slot'[c] = Free
    BY DEF WindowInv, Core, SlotInv, Controllers
  <2> QED BY <2>1, FormlessStays DEF WindowInv, Control, Free
<1>10. form' = None
  BY DEF OpenTab
<1>11. ~Busy(active)'
  <2>1. t \in TabIds /\ slot[t] = Free
    BY <1>4 DEF NewTabs, WindowInv, Core, SlotInv, Busy, Controllers, Operations, Free, Kinds
  <2>2. slot'[t] = Free
    BY <2>1 DEF WindowInv, Core, SlotInv, Controllers
  <2> QED BY <1>4, <2>2 DEF Busy, Free
<1> QED BY <1>4, <1>5, <1>6, <1>8, <1>9, <1>10, <1>11

\* What stays as it was, where a new document is opened while nothing is made.
LEMMA OpenedControl ==
    ASSUME WindowInv, ~newOpen, newOpen' = newOpen, reopen' \in Reopens \cup {None}, ReopenInv',
           TurnInv', CloseInv', Formless', Modal' => Modal, Copying => reopen' = None,
           NEW w, workers' = workers \ {w}, awaited' \in Awaiting,
           awaited'.create = awaited.create, awaited'.copy = awaited.copy
    PROVE  Control'
<1>1. IoTyped' /\ MakingInv' /\ CopyInv'
  BY DEF WindowInv, Control, IoTyped, MakingInv, CopyInv, Copying
<1> QED BY <1>1 DEF Control

\* The new document is there, or what was asked for it is.
LEMMA MadeControl ==
    ASSUME WindowInv, Idle, turn' = turn, reopen = None, reopen' = None, ~Copying, IoIdle,
           NEW w \in workers, w.what = "create", workers' = workers \ {w},
           awaited' = [awaited EXCEPT !.create = None], newOpen' \in BOOLEAN, Formless',
           newOpen' => ~Modal' /\ ~Busy(active)' /\ form' = None
    PROVE  Control'
<1>1. awaited' \in Awaiting /\ awaited'.create = None /\ awaited'.load = None /\ awaited'.copy = None
  BY DEF WindowInv, Control, IoTyped, Awaiting, IoIdle, Copying
<1>2. \A x \in workers' : x.what # "create" /\ x.what # "copy"
  <2>1. \A x \in workers : x.what = "create" => x.gen = w.gen
    BY DEF WindowInv, Control, MakingInv
  <2>2. \A x \in workers : x.what # "copy"
    BY WindowAssumption DEF WindowInv, Core, WorkersInv, Control, CopyInv, Copying, Jobs
  <2> QED BY <2>1, <2>2 DEF WindowInv, Core, WorkersInv
<1>3. TurnInv' /\ CloseInv' /\ turn = Wait
  BY TurnStays DEF Idle
<1>4. IoTyped' /\ MakingInv' /\ CopyInv' /\ ReopenInv'
  BY <1>1, <1>2, <1>3 DEF IoTyped, MakingInv, CopyInv, ReopenInv, Copying, IoIdle
<1> QED BY <1>3, <1>4 DEF Control

\* New's document is there; the form it set aside stays with its tab.
LEMMA CreateAnswerKeeps ==
    ASSUME WindowInv, NEW w \in workers, NEW ok, CreateAnswer(w, ok)
    PROVE  WindowInv'
<1>1. /\ Idle /\ w.what = "create" /\ workers' = workers \ {w}
      /\ awaited' = [awaited EXCEPT !.create = None]
      /\ UNCHANGED <<slot, quit, reopen, switch, turn, history>>
  BY DEF CreateAnswer
<1>2. w.gen \in Nat /\ awaited.create = w.gen
  BY <1>1 DEF WindowInv, Core, WorkersInv, Jobs, Control, MakingInv
<1>3. newOpen
  BY <1>2, WindowAssumption DEF WindowInv, Control, MakingInv
<1>4. ~Modal /\ IoIdle /\ ~Busy(active) /\ form = None /\ reopen = None /\ ~Copying
  BY <1>3 DEF WindowInv, Control, MakingInv, CopyInv
<1>5. CASE UNCHANGED <<tabVars, formVars, newOpen>>
  <2>1. DocumentsStay /\ Answered /\ Eased
    BY <1>1, <1>5, AnsweredStays, EasedStays DEF DocumentsStay, tabVars, history, WindowInv, Core, Controllers
  <2>2. Core'
    BY <1>1, <2>1, Ended DEF WindowInv
  <2>3. FormsInv' /\ Modal' = Modal
    BY <1>1, <1>5, Touchless DEF WindowInv, tabVars, formVars, history
  <2>4. Formless'
    BY <1>1, FormlessStays DEF WindowInv, Control, history
  <2>5. ~Busy(active)' /\ form' = None /\ newOpen' \in BOOLEAN
    BY <1>1, <1>3, <1>4, <1>5 DEF Busy, tabVars, formVars
  <2>6. Control'
    BY <1>1, <1>4, <2>3, <2>4, <2>5, MadeControl
  <2> QED BY <2>2, <2>3, <2>6 DEF WindowInv
<1>6. CASE MayOpen(None) /\ newOpen' = FALSE /\ \E t \in NewTabs : OpenTab(t, None)
  <2>1. PICK t \in NewTabs : OpenTab(t, None)
    BY <1>6
  <2>2. slot'[active].kind # "save" /\ overrun' = overrun
    BY <1>1, <1>4 DEF Busy, history, WindowInv, Core, SavesShown, SlotInv
  <2>3. Core' /\ FormsInv' /\ Formless'
    BY <1>1, <1>6, <2>1, <2>2, OpensNew DEF history
  <2>4. Control'
    BY <1>1, <1>4, <1>6, <2>3, MadeControl
  <2> QED BY <2>3, <2>4 DEF WindowInv
<1> QED BY <1>5, <1>6 DEF CreateAnswer

\* A crash copy opens while its reservation is held.
LEMMA RecoverAnswerKeeps ==
    ASSUME WindowInv, NEW w \in workers, NEW ok, RecoverAnswer(w, ok)
    PROVE  WindowInv'
<1>1. /\ Idle /\ w.what = "recover" /\ workers' = workers \ {w}
      /\ awaited' = [awaited EXCEPT !.recover = None]
      /\ UNCHANGED <<quit, newOpen, reopen, switch, turn, history>>
  BY DEF RecoverAnswer
<1>2. /\ awaited' \in Awaiting /\ awaited'.create = awaited.create
      /\ awaited'.load = awaited.load /\ awaited'.copy = awaited.copy
  BY <1>1 DEF WindowInv, Control, IoTyped, Awaiting
<1>3. CASE /\ slot' = slot \/ slot' = [slot EXCEPT ![active] = Free]
           /\ UNCHANGED <<tabVars, formVars>>
  BY <1>1, <1>2, <1>3, AnswerEases
<1>4. CASE /\ slot[active].kind = "recover" /\ slot' = [slot EXCEPT ![active] = Free]
           /\ MayOpen(None) /\ \E t \in NewTabs : OpenTab(t, None)
  <2>1. PICK t \in NewTabs : OpenTab(t, None)
    BY <1>4
  <2>2. ~newOpen /\ reopen = None
    BY <1>4 DEF Busy, WindowInv, Control, MakingInv, ReopenInv
  <2>3. slot'[active].kind # "save" /\ overrun' = overrun
    <3>1. active \in DOMAIN slot
      BY DEF WindowInv, Core, TabsInv, SlotInv, OpenTabs, Controllers
    <3> QED BY <1>1, <1>4, <3>1 DEF Free, history
  <2>4. Core' /\ FormsInv' /\ Formless' /\ ~Modal'
    BY <1>1, <1>4, <2>1, <2>3, OpensNew DEF history
  <2>5. TurnInv' /\ CloseInv' /\ ReopenInv'
    BY <1>1, <2>2, TurnStays DEF ReopenInv
  <2>6. Control'
    BY <1>1, <1>2, <2>2, <2>4, <2>5, OpenedControl
  <2> QED BY <2>4, <2>6 DEF WindowInv
<1> QED BY <1>3, <1>4 DEF RecoverAnswer

\* A copy was made, and takes the form along.
LEMMA CopyAnswerKeeps ==
    ASSUME WindowInv, NEW w \in workers, NEW ok, CopyAnswer(w, ok)
    PROVE  WindowInv'
<1> DEFINE others == workers \ {w}
<1>1. /\ Idle /\ w.what = "copy"
      /\ form' = IF ok THEN None ELSE form
      /\ typed' = IF ok THEN typed \ {active} ELSE typed
      /\ UNCHANGED <<tabVars, draft, aside, closing, quit, newOpen, reopen, turn, agreed, overrun>>
  BY DEF CopyAnswer
<1>2. w.gen \in Nat /\ awaited.copy = w.gen /\ Copying
  BY <1>1, WindowAssumption
  DEF WindowInv, Core, WorkersInv, Jobs, Control, CopyInv, Copying
<1>3. ~Modal /\ ~newOpen /\ reopen = None /\ aside = None
  BY <1>2 DEF WindowInv, Control, CopyInv, FormsInv, PlacesInv
<1>4. closing = None /\ Held(active) = None
  BY <1>3 DEF Modal, Held
<1>5. DocumentsStay /\ Same /\ docs' = docs /\ active' = active
  BY <1>1, SameDocuments DEF DocumentsStay, tabVars
<1>6. FormsInv' /\ Modal' = Modal
  <2>1. CASE ok /\ active \in TabIds
    <3>1. FormsInv'
      BY <1>1, <1>3, <1>4, <1>5, <2>1, FormGoes DEF WindowInv
    <3> QED BY <1>1, <3>1 DEF Modal
  <2>2. CASE ~ (ok /\ active \in TabIds)
    <3>1. form' = form /\ \A t \in TabIds : t \in typed' <=> t \in typed
      BY <1>1, <2>2, WindowAssumption DEF WindowInv, Core, TabsInv, OpenTabs, FormsInv, PlacesInv, HasSession
    <3>2. FormsInv'
      BY <1>1, <1>5, <3>1, FormsStay DEF WindowInv
    <3> QED BY <1>1, <3>2 DEF Modal
  <2> QED BY <2>1, <2>2
<1>7. others \in SUBSET workers /\ \A x \in others : x.what # "copy"
  <2>1. \A x \in others : awaited.copy # x.gen
    BY <1>2 DEF WindowInv, Core, WorkersInv
  <2> QED BY <2>1, NoCopy DEF WindowInv
<1>8. typed' \subseteq typed
  BY <1>1
<1> HIDE DEF others
<1>9. CASE ReadDocument(w.path, others)
  <2>1. w.path \in Paths \cup {None}
    BY DEF WindowInv, Core, WorkersInv, Jobs
  <2>2. turn' = Wait /\ newOpen' = newOpen /\ reopen' = None
    BY <1>1, <1>3 DEF Idle
  <2>3. Core' /\ Control'
    BY <1>3, <1>5, <1>7, <1>8, <1>9, <2>1, <2>2, ReadingBegins DEF WindowInv
  <2> QED BY <1>6, <2>3 DEF WindowInv
<1>10. CASE workers' = others /\ awaited' = [awaited EXCEPT !.copy = None] /\ UNCHANGED <<slot, switch>>
  <2>1. Answered /\ Eased
    <3>1. None \in Controllers
      BY DEF Controllers
    <3> QED BY <1>10, <3>1, AnsweredStays, EasedStays DEF WindowInv, Core, others
  <2>2. Core'
    BY <1>5, <1>10, <2>1, Ended DEF WindowInv
  <2>3. /\ awaited' \in Awaiting /\ awaited'.create = awaited.create
        /\ awaited'.load = awaited.load /\ awaited'.copy = None
    BY <1>10 DEF WindowInv, Control, IoTyped, Awaiting
  <2>4. turn' = turn /\ newOpen' = newOpen /\ reopen' = None
    BY <1>1, <1>3
  <2>5. Control'
    BY <1>1, <1>3, <1>5, <1>6, <1>7, <1>8, <1>10, <2>1, <2>3, <2>4, EasedControl DEF WindowInv
  <2> QED BY <1>6, <2>2, <2>5 DEF WindowInv
<1> QED BY <1>9, <1>10 DEF CopyAnswer, others

\* A Reopen is told what became of its reading: its file is accounted for.
LEMMA ReopenTold ==
    ASSUME WindowInv, Idle, NEW w \in workers, reopen # None, reopen.wait = w.gen,
           NEW opened \in BOOLEAN, turn' = Go("reopen", None),
           reopen' = [reopen EXCEPT !.wait = None, !.open = IF opened THEN @ \cup {w.path} ELSE @],
           ~Busy(active)', ~Modal', opened <=> Owners(w.path, {})' # {},
           \A p : p # w.path => Owners(p, {})' = Owners(p, {})
    PROVE  ReopenInv' /\ reopen' \in Reopens \cup {None} /\ TurnInv' /\ CloseInv'
<1> DEFINE files == reopen.files
           n == reopen.next
<1>1. reopen \in Reopens
  BY DEF WindowInv, Control, IoTyped
<1>2. files \in Seq(Paths) /\ n \in Nat \ {0} /\ DOMAIN files = 1..Len(files) /\ Len(files) \in Nat
  BY <1>1 DEF Reopens
<1>3. /\ \A i, j \in DOMAIN files : files[i] = files[j] => i = j
      /\ n <= Len(files) + 1 /\ n >= 2
      /\ reopen.open \subseteq {files[i] : i \in 1..(n - 1)}
      /\ \A i \in 1..(n - 2) : files[i] \in reopen.open <=> Owners(files[i], {}) # {}
      /\ files[n - 1] \notin reopen.open
      /\ \E x \in workers : x.what = "load" /\ x.gen = reopen.wait /\ x.path = files[n - 1]
  BY DEF WindowInv, Control, ReopenInv
<1>4. w.path = files[n - 1] /\ n - 1 \in DOMAIN files /\ w.path \in Paths
  <2>1. w.path = files[n - 1]
    BY <1>3 DEF WindowInv, Core, WorkersInv
  <2>2. n - 1 \in DOMAIN files
    BY <1>2, <1>3
  <2> QED BY <1>2, <2>1, <2>2
<1>5. /\ reopen' \in Reopens /\ reopen'.files = files /\ reopen'.next = n
      /\ reopen'.open = IF opened THEN reopen.open \cup {w.path} ELSE reopen.open
  BY <1>1, <1>4 DEF Reopens
<1>6. reopen' # None /\ ~Idle' /\ turn'.do = "reopen"
  BY <1>5, NothingIsNothing DEF Idle, Go, Wait
<1> DEFINE has(p) == {t \in OpenTabs' : docs'[t].path = p}
<1>a. \A p : Owners(p, {})' = has(p)
  BY DEF Owners
<1>b. (opened <=> has(w.path) # {}) /\ \A p : p # w.path => has(p) = Owners(p, {})
  BY <1>a
<1> HIDE DEF has
<1>7. \A i \in 1..(n - 1) : files[i] \in reopen'.open <=> has(files[i]) # {}
  <2> SUFFICES ASSUME NEW i \in 1..(n - 1)
               PROVE  files[i] \in reopen'.open <=> has(files[i]) # {}
    OBVIOUS
  <2>1. CASE i = n - 1
    <3>1. files[i] = w.path
      BY <1>4, <2>1
    <3>2. files[i] \in reopen'.open <=> opened
      BY <1>3, <1>4, <1>5, <3>1, <2>1
    <3> QED BY <1>b, <3>1, <3>2
  <2>2. CASE i # n - 1
    <3>1. i \in 1..(n - 2) /\ i \in DOMAIN files
      BY <1>2, <1>3, <2>2
    <3>2. files[i] # w.path
      BY <1>3, <1>4, <2>2, <3>1
    <3>3. has(files[i]) = Owners(files[i], {})
      BY <1>b, <3>2
    <3>4. files[i] \in reopen'.open <=> files[i] \in reopen.open
      BY <1>5, <3>2
    <3>5. files[i] \in reopen.open <=> Owners(files[i], {}) # {}
      BY <1>3, <3>1
    <3> QED BY <3>3, <3>4, <3>5
  <2> QED BY <2>1, <2>2
<1>8. reopen'.open \subseteq {files[i] : i \in 1..(n - 1)}
  <2>1. n - 1 \in 1..(n - 1)
    BY <1>2, <1>3
  <2> QED BY <1>3, <1>4, <1>5, <2>1
<1> HIDE DEF files, n
<1>9. ReopenInv'
  <2>1. \A i : reopen'.files[i] = files[i]
    BY <1>5
  <2>2. \A i \in 1..(reopen'.next - 1) :
           reopen'.files[i] \in reopen'.open <=> {t \in OpenTabs' : docs'[t].path = reopen'.files[i]} # {}
    BY <1>5, <1>7 DEF has
  <2>3. turn' = Go("reopen", None)
    OBVIOUS
  <2>4. /\ \A i, j \in DOMAIN reopen'.files : reopen'.files[i] = reopen'.files[j] => i = j
        /\ reopen'.next <= Len(reopen'.files) + 1
        /\ reopen'.open \subseteq {reopen'.files[i] : i \in 1..(reopen'.next - 1)}
    BY <1>3, <1>5, <1>8
  <2> QED BY <1>6, <2>2, <2>3, <2>4 DEF ReopenInv, Owners
<1>10. TurnInv' /\ CloseInv'
  BY <1>6 DEF TurnInv, CloseInv, Go
<1> QED BY <1>5, <1>9, <1>10

\* A file was read, for the window or for its Reopen.
LEMMA LoadAnswerKeeps ==
    ASSUME WindowInv, NEW w \in workers, NEW ok, LoadAnswer(w, ok)
    PROVE  WindowInv'
<1> DEFINE opened == ok /\ MayOpen(w.path)
<1>1. /\ Idle /\ w.what = "load" /\ workers' = workers \ {w} /\ TellReopen(w, opened)
      /\ awaited' = [awaited EXCEPT !.load = IF @ = w.gen THEN None ELSE @]
      /\ UNCHANGED <<quit, newOpen, switch, typed, agreed>>
  BY DEF LoadAnswer
<1>2. /\ awaited' \in Awaiting /\ awaited'.create = awaited.create /\ awaited'.copy = awaited.copy
      /\ awaited'.load = (IF awaited.load = w.gen THEN None ELSE awaited.load)
  BY <1>1 DEF WindowInv, Control, IoTyped, Awaiting
<1>3. w.gen \in Nat /\ w.path \in Paths \cup {None}
  BY DEF WindowInv, Core, WorkersInv, Jobs
<1>4. reopen # None =>
        /\ ~Busy(active) /\ ~Modal /\ awaited.load = reopen.wait
        /\ Owners(reopen.files[reopen.next - 1], {}) = {}
        /\ reopen.wait = w.gen => w.path = reopen.files[reopen.next - 1]
  BY <1>1 DEF WindowInv, Core, WorkersInv, Control, ReopenInv
<1>5. awaited.load = w.gen => ~newOpen
  BY <1>3, WindowAssumption DEF WindowInv, Control, MakingInv, IoIdle
<1>6. \/ UNCHANGED <<reopen, turn>> /\ (reopen = None \/ reopen.wait # w.gen)
      \/ /\ reopen # None /\ reopen.wait = w.gen /\ awaited.load = w.gen
         /\ reopen' = [reopen EXCEPT !.wait = None, !.open = IF opened THEN @ \cup {w.path} ELSE @]
         /\ turn' = Go("reopen", None)
  BY <1>1, <1>4 DEF TellReopen
<1>7. CASE awaited.load = w.gen /\ opened
  <2>1. PICK t \in NewTabs :
           /\ OpenTab(t, w.path) /\ slot' = [slot EXCEPT ![None] = Free]
           /\ overrun' = overrun \cup IF HasSession /\ Busy(active) THEN {active} ELSE {}
    BY <1>7 DEF LoadAnswer
  <2>2. /\ overrun \subseteq overrun' /\ overrun' \subseteq overrun \cup {active}
        /\ slot'[active].kind = "save" => active \in overrun'
    <3>1. active \in DOMAIN slot /\ None \in DOMAIN slot
      BY DEF WindowInv, Core, TabsInv, SlotInv, OpenTabs, Controllers
    <3>2. CASE active = None
      BY <2>1, <3>1, <3>2 DEF Free
    <3>3. CASE active # None
      BY <2>1, <3>1, <3>3 DEF HasSession, Busy
    <3> QED BY <2>1, <3>2, <3>3
  <2>3. /\ Core' /\ FormsInv' /\ ~Modal' /\ Formless' /\ ~Busy(active)'
        /\ active' = t /\ OpenTabs' = OpenTabs \cup {t} /\ t \notin OpenTabs
        /\ \A c \in TabIds : c # t => docs'[c] = docs[c]
        /\ docs'[t].path = w.path
    BY <1>1, <1>3, <1>7, <2>1, <2>2, OpensNew
  <2>4. ReopenInv' /\ reopen' \in Reopens \cup {None} /\ TurnInv' /\ CloseInv'
    <3>1. CASE reopen = None /\ UNCHANGED <<reopen, turn>>
      BY <1>1, <3>1, TurnStays DEF ReopenInv
    <3>2. CASE /\ reopen # None /\ reopen.wait = w.gen /\ turn' = Go("reopen", None)
               /\ reopen' = [reopen EXCEPT !.wait = None, !.open = IF opened THEN @ \cup {w.path} ELSE @]
      <4>1. \A c \in OpenTabs : docs'[c] = docs[c]
        BY <2>3 DEF OpenTabs
      <4>2. Owners(w.path, {})' # {}
        BY <2>3 DEF Owners
      <4>3. \A p : p # w.path => Owners(p, {})' = Owners(p, {})
        BY <2>3, <4>1 DEF Owners
      <4>4. reopen' = [reopen EXCEPT !.wait = None, !.open = IF TRUE THEN @ \cup {w.path} ELSE @]
        BY <1>7, <3>2
      <4> QED BY <1>1, <2>3, <3>2, <4>2, <4>3, <4>4, ReopenTold
    <3>3. reopen = None \/ reopen.wait = w.gen
      BY <1>4, <1>7
    <3> QED BY <1>6, <3>1, <3>2, <3>3
  <2>5. Copying => reopen' = None
    <3>1. Copying => reopen = None
      BY DEF WindowInv, Control, CopyInv
    <3> QED BY <1>6, <3>1
  <2>6. Control'
    BY <1>1, <1>2, <1>5, <1>7, <2>3, <2>4, <2>5, OpenedControl
  <2> QED BY <2>3, <2>6 DEF WindowInv
<1>8. CASE UNCHANGED <<tabVars, formVars, slot, overrun>> /\ ~ (awaited.load = w.gen /\ opened)
  <2>1. DocumentsStay /\ Answered /\ Eased /\ Same /\ docs' = docs /\ active' = active
    <3>1. None \in Controllers
      BY DEF Controllers
    <3> QED BY <1>1, <1>8, <3>1, AnsweredStays, EasedStays, SameDocuments
        DEF DocumentsStay, tabVars, WindowInv, Core
  <2>2. Core'
    BY <1>1, <2>1, Ended DEF WindowInv
  <2>3. FormsInv' /\ Modal' = Modal
    BY <1>1, <1>8, Touchless DEF WindowInv, tabVars, formVars
  <2>4. Formless'
    BY <1>1, <1>8, FormlessStays DEF WindowInv, Control
  <2>5. CASE UNCHANGED <<reopen, turn>> /\ (reopen = None \/ reopen.wait # w.gen)
    <3>1. newOpen => form' = None
      BY <1>8 DEF WindowInv, Control, MakingInv, formVars
    <3>2. reopen # None => awaited'.load = awaited.load
      BY <1>2, <1>4, <2>5
    <3>3. reopen # None => \A x \in workers : x.what = "load" /\ x.gen = reopen.wait => x \in workers'
      BY <1>1, <2>5
    <3>4. awaited'.load \in {awaited.load, None}
      BY <1>2
    <3>5. Control'
      BY <1>1, <1>2, <2>1, <2>3, <2>5, <3>1, <3>2, <3>3, <3>4, EasedControl DEF WindowInv
    <3> QED BY <2>2, <2>3, <3>5 DEF WindowInv
  <2>6. CASE /\ reopen # None /\ reopen.wait = w.gen /\ awaited.load = w.gen
             /\ reopen' = [reopen EXCEPT !.wait = None, !.open = IF opened THEN @ \cup {w.path} ELSE @]
             /\ turn' = Go("reopen", None)
    <3>1. reopen' = [reopen EXCEPT !.wait = None, !.open = IF FALSE THEN @ \cup {w.path} ELSE @]
      BY <1>8, <2>6
    <3>2. \A p : Owners(p, {})' = Owners(p, {})
      BY <2>1 DEF Owners, OpenTabs
    <3>3. Owners(w.path, {})' = {}
      BY <1>4, <2>6, <3>2
    <3>4. ~Busy(active)' /\ ~Modal'
      BY <1>4, <1>8, <2>1, <2>3, <2>6 DEF Busy
    <3>5. ReopenInv' /\ reopen' \in Reopens \cup {None} /\ TurnInv' /\ CloseInv'
      BY <1>1, <2>6, <3>1, <3>2, <3>3, <3>4, ReopenTold
    <3>6. ~Copying
      BY <2>6 DEF WindowInv, Control, CopyInv
    <3>7. Control'
      BY <1>1, <1>2, <1>5, <2>3, <2>4, <2>6, <3>5, <3>6, OpenedControl
    <3> QED BY <2>2, <2>3, <3>7 DEF WindowInv
  <2> QED BY <1>6, <2>5, <2>6
<1> QED BY <1>7, <1>8 DEF LoadAnswer

-----------------------------------------------------------------------------
(* The window                                                              *)

\* All answers.
LEMMA AnswerKeeps ==
    ASSUME WindowInv, Answer
    PROVE  WindowInv'
<1>1. PICK w \in workers :
        \/ \E ok \in BOOLEAN :
            \/ LoadAnswer(w, ok) \/ SwitchAnswer(w, ok) \/ SceneAnswer(w, ok) \/ SaveAnswer(w, ok)
            \/ CreateAnswer(w, ok) \/ RecoverAnswer(w, ok) \/ CopyAnswer(w, ok)
        \/ \E made \in {"nothing", "shows", "keeps"} : StepAnswer(w, made)
  BY DEF Answer
<1>2. CASE \E made \in {"nothing", "shows", "keeps"} : StepAnswer(w, made)
  BY <1>2, StepAnswerKeeps
<1>3. CASE \E ok \in BOOLEAN :
            \/ LoadAnswer(w, ok) \/ SwitchAnswer(w, ok) \/ SceneAnswer(w, ok) \/ SaveAnswer(w, ok)
            \/ CreateAnswer(w, ok) \/ RecoverAnswer(w, ok) \/ CopyAnswer(w, ok)
  <2>1. PICK ok \in BOOLEAN :
            \/ LoadAnswer(w, ok) \/ SwitchAnswer(w, ok) \/ SceneAnswer(w, ok) \/ SaveAnswer(w, ok)
            \/ CreateAnswer(w, ok) \/ RecoverAnswer(w, ok) \/ CopyAnswer(w, ok)
    BY <1>3
  <2> QED BY <2>1, LoadAnswerKeeps, SwitchAnswerKeeps, SceneAnswerKeeps, SaveAnswerKeeps,
             CreateAnswerKeeps, RecoverAnswerKeeps, CopyAnswerKeeps
<1> QED BY <1>1, <1>2, <1>3

\* All a person does.
LEMMA PersonKeeps ==
    ASSUME WindowInv, Person
    PROVE  WindowInv'
<1>1. CASE CancelLoad \/ CancelOperation \/ CancelForm \/ CancelNew \/ CancelCreate
  BY <1>1, CancelLoadKeeps, CancelOperationKeeps, CancelFormKeeps, CancelNewKeeps, CancelCreateKeeps
<1>2. CASE \E kind \in {"height", "editor"} : BeginForm(kind)
  BY <1>2, BeginFormKeeps
<1>3. CASE Apply \/ Checkpoint \/ Save \/ BeginNew \/ CreateNew \/ Recover \/ BeginReopen
  BY <1>3, ApplyKeeps, CheckpointKeeps, SaveKeeps, BeginNewKeeps, CreateNewKeeps, RecoverKeeps,
     BeginReopenKeeps
<1>4. CASE BackToForm \/ DiscardForm \/ RequestQuit \/ BackFromQuit \/ DiscardInQuit
  BY <1>4, BackToFormKeeps, DiscardFormKeeps, RequestQuitKeeps, BackFromQuitKeeps, DiscardInQuitKeeps
<1>5. CASE \E to \in 1..MaxLine : Undo(to)
  BY <1>5, UndoKeeps
<1>6. CASE \E p \in Paths : Open(p) \/ SaveAs(p) \/ StartCopy(p)
  BY <1>6, OpenKeeps, SaveKeeps, StartCopyKeeps
<1>7. CASE \E t \in TabIds : SwitchTo(t)
  BY <1>7, SwitchToKeeps
<1> QED BY <1>1, <1>2, <1>3, <1>4, <1>5, <1>6, <1>7 DEF Person

\* Every step keeps the invariant.
LEMMA NextKeeps ==
    ASSUME WindowInv, Next
    PROVE  WindowInv'
<1>1. CASE Continue
  BY <1>1, ContinueQuitKeeps, ShowNeighbourKeeps, ContinueReopenKeeps, CloseNowKeeps, StaysOpenKeeps
  DEF Continue
<1>2. CASE \E t \in TabIds : CloseTab(t)
  BY <1>2, CloseTabKeeps
<1> QED BY <1>1, <1>2, AnswerKeeps, PersonKeeps DEF Next

\* So does a step of nothing.
LEMMA StutterKeeps ==
    ASSUME WindowInv, UNCHANGED vars
    PROVE  WindowInv'
<1>1. DocumentsStay /\ Answered /\ Eased /\ switch' = switch
  <2>1. None \in Controllers
    BY DEF Controllers
  <2> QED BY <2>1, AnsweredStays, EasedStays DEF vars, DocumentsStay, WindowInv, Core
<1>2. Core'
  BY <1>1, Ended DEF WindowInv
<1>3. FormsInv' /\ Modal' = Modal
  BY Touchless DEF vars, WindowInv
<1>4. Control'
  <2>1. IoTyped' /\ TurnInv' /\ MakingInv' /\ Formless' /\ CopyInv'
    BY DEF vars, WindowInv, Control, IoTyped, TurnInv, MakingInv, Formless, CopyInv, OpenTabs,
           Modal, IoIdle, Busy, Copying
  <2>2. CloseInv'
    <3>1. MayClose(turn.tab)' <=> MayClose(turn.tab)
      BY DEF vars, MayClose, Busy, Current
    <3>2. Agreed(turn.tab)' <=> Agreed(turn.tab)
      BY DEF vars, Agreed, Dirty, Current, FormOf
    <3> QED BY <3>1, <3>2 DEF vars, WindowInv, Control, CloseInv
  <2>3. ReopenInv'
    BY <1>3 DEF vars, WindowInv, Control, ReopenInv, Busy, Idle, Owners, OpenTabs
  <2> QED BY <2>1, <2>2, <2>3 DEF Control
<1> QED BY <1>2, <1>3, <1>4 DEF WindowInv

\* A window that shows nothing has it.
LEMMA InitHolds ==
    ASSUME WindowInit
    PROVE  WindowInv
<1>1. OpenTabs = {} /\ \A c \in Controllers : ~Busy(c)
  BY DEF WindowInit, OpenTabs, Busy, Free, Controllers
<1>2. TabsInv
  <2>1. order = <<>> /\ <<>> \in Seq(TabIds) /\ DOMAIN <<>> = {}
    BY EmptySeq DEF WindowInit
  <2> QED BY <1>1, <2>1 DEF WindowInit, TabsInv, ToSet
<1>3. SlotInv
  BY <1>1 DEF WindowInit, SlotInv, Controllers, Free
<1>4. WorkersInv /\ SceneInv /\ SwitchInv /\ SaverInv
  BY FS_EmptySet DEF WindowInit, WorkersInv, SceneInv, SwitchInv, SaverInv
<1>5. SavesShown /\ ShownIsCurrent /\ OneWriter
  BY <1>1 DEF WindowInit, SavesShown, ShownIsCurrent, OneWriter, HasSession, Free
<1>6. FormsTyped /\ PlacesInv /\ Confirmed /\ PassInv
  BY DEF WindowInit, FormsTyped, PlacesInv, Confirmed, PassInv, FormOrNone, HasSession
<1>7. Kept
  <2>1. \A t \in TabIds : \A place \in Places : FormsOf(t)[place] = None
    BY PlacesOf DEF WindowInit, Places, Held
  <2> QED BY <2>1 DEF WindowInit, Kept
<1>8. IoTyped /\ TurnInv /\ MakingInv /\ Formless /\ CopyInv /\ CloseInv /\ ReopenInv
  BY WindowAssumption DEF WindowInit, IoTyped, Awaiting, TurnInv, Wait, MakingInv, Formless, Free, CopyInv, Copying,
     CloseInv, ReopenInv
<1> QED BY <1>2, <1>3, <1>4, <1>5, <1>6, <1>7, <1>8 DEF WindowInv, Core, FormsInv, Control

(* The inductive invariant of a window: for any tabs, files, versions and  *)
(* workers, whatever order people and late answers come in.                *)
THEOREM WindowHolds == Spec => []WindowInv
<1>1. WindowInv /\ [Next]_vars => WindowInv'
  BY NextKeeps, StutterKeeps
<1> QED BY <1>1, InitHolds, PTL DEF Spec

(* The screen shows the current version of the shown tab, the one Save     *)
(* would write.                                                            *)
THEOREM WindowShowsTheCurrent == Spec => []ShownIsCurrent
<1>1. WindowInv => ShownIsCurrent
  BY DEF WindowInv, Core
<1> QED BY <1>1, WindowHolds, PTL

(* No two open tabs have the same file, except through a tab that a new    *)
(* document hid while it was saving.                                       *)
THEOREM OneFileOneWriter == Spec => []OneWriter
<1>1. WindowInv => OneWriter
  BY DEF WindowInv, Core
<1> QED BY <1>1, WindowHolds, PTL

\* A form in at most one place.
LEMMA AtMostOne ==
    ASSUME NEW S, \A x, y \in S : x = y
    PROVE  Cardinality(S) = IF S = {} THEN 0 ELSE 1
<1>1. CASE S = {}
  BY <1>1, FS_EmptySet
<1>2. CASE S # {}
  <2>1. PICK x \in S : TRUE
    BY <1>2
  <2>2. S = {x}
    BY <2>1
  <2> QED BY <1>2, <2>2, FS_Singleton
<1> QED BY <1>1, <1>2

(* A form that was typed is in exactly one place and about the version     *)
(* that is current in its tab.                                             *)
THEOREM TypedFormsAreKept == Spec => []FormsAreKept
<1>1. ASSUME WindowInv PROVE FormsAreKept
  <2> SUFFICES ASSUME NEW t \in TabIds
               PROVE  LET held == {place \in DOMAIN FormsOf(t) : FormsOf(t)[place] # None}
                      IN  /\ Cardinality(held) = IF t \in typed THEN 1 ELSE 0
                          /\ \A place \in held : t \in OpenTabs /\ FormsOf(t)[place].base = Current(t)
    BY DEF FormsAreKept
  <2> DEFINE held == {place \in DOMAIN FormsOf(t) : FormsOf(t)[place] # None}
  <2>1. DOMAIN FormsOf(t) = Places
    BY DEF FormsOf, Places
  <2>2. /\ t \in typed <=> held # {}
        /\ \A one, two \in held : one = two
        /\ \A place \in held : t \in OpenTabs /\ FormsOf(t)[place].base = Current(t)
    BY <1>1, <2>1 DEF WindowInv, FormsInv, Kept
  <2> HIDE DEF held
  <2>3. Cardinality(held) = IF t \in typed THEN 1 ELSE 0
    BY <2>2, AtMostOne
  <2> QED BY <2>2, <2>3 DEF held
<1> QED BY <1>1, WindowHolds, PTL

(* A Reopen waits for its own reading, and accounts for every file before  *)
(* it.                                                                     *)
THEOREM AReopenAccountsForAll == Spec => []ReopenAccountsForAll
<1>1. ASSUME WindowInv PROVE ReopenAccountsForAll
  BY <1>1 DEF ReopenAccountsForAll, WindowInv, Control, ReopenInv
<1> QED BY <1>1, WindowHolds, PTL

-----------------------------------------------------------------------------
(* What is lost, and that the window is in order                           *)

\* A step after which every tab is still open, beside at most one new one.
Steady ==
    /\ turn'.do # "ended"
    /\ \/ OpenTabs' = OpenTabs
       \/ Cardinality(OpenTabs) < MaxTabs /\ \E t \in NewTabs : OpenTabs' = OpenTabs \cup {t}

\* A step that leaves the documents.
LEMMA SteadyDocuments ==
    ASSUME docs' = docs, turn'.do # "ended"
    PROVE  Steady
BY DEF Steady, OpenTabs

\* The shown tab is open after every step, whatever became of its document.
LEMMA SteadyActive ==
    ASSUME WindowInv', turn'.do # "ended", active' = active, active \in OpenTabs,
           \A c \in TabIds : c # active => docs'[c] = docs[c]
    PROVE  Steady
<1>1. active \in OpenTabs'
  BY WindowAssumption DEF WindowInv, Core, TabsInv, OpenTabs
<1>2. OpenTabs' = OpenTabs
  BY <1>1 DEF OpenTabs
<1> QED BY <1>2 DEF Steady

\* A new tab is opened within the limit.
LEMMA SteadyOpening ==
    ASSUME WindowInv, WindowInv', turn'.do # "ended", NEW p, MayOpen(p), NEW t \in NewTabs, OpenTab(t, p)
    PROVE  Steady
<1>1. active' = t /\ t \in TabIds /\ \A c \in TabIds : c # t => docs'[c] = docs[c]
  BY DEF OpenTab, NewTabs, WindowInv, Core, TabsInv
<1>2. t \in OpenTabs'
  BY <1>1, WindowAssumption DEF WindowInv, Core, TabsInv
<1>3. OpenTabs' = OpenTabs \cup {t}
  BY <1>1, <1>2 DEF OpenTabs
<1> QED BY <1>3 DEF Steady, MayOpen

\* No answer closes a tab.
LEMMA AnswersAreSteady ==
    ASSUME WindowInv, WindowInv', Answer
    PROVE  Steady
<1>1. PICK w \in workers :
        \/ \E ok \in BOOLEAN :
            \/ LoadAnswer(w, ok) \/ SwitchAnswer(w, ok) \/ SceneAnswer(w, ok) \/ SaveAnswer(w, ok)
            \/ CreateAnswer(w, ok) \/ RecoverAnswer(w, ok) \/ CopyAnswer(w, ok)
        \/ \E made \in {"nothing", "shows", "keeps"} : StepAnswer(w, made)
  BY DEF Answer
<1>2. \A kinds : Addressed(w, kinds) /\ w.tab \in TabIds => active \in OpenTabs
  BY WindowAssumption DEF Addressed, WindowInv, Core, TabsInv
<1>3. Idle => turn.do = "wait"
  BY DEF Idle, Wait
<1>4. \A v, shown : Accept(v, shown) => \A c \in TabIds : c # active => docs'[c] = docs[c]
  BY DEF Accept, WindowInv, Core, TabsInv
<1>5. ASSUME NEW made, StepAnswer(w, made)
      PROVE  Steady
  <2>1. Idle /\ turn' = turn /\ active' = active /\ w.tab \in TabIds
    BY <1>5 DEF StepAnswer, WindowInv, Core, WorkersInv
  <2>2. CASE docs' = docs
    BY <1>3, <2>1, <2>2, SteadyDocuments
  <2>3. CASE Addressed(w, {"apply", "checkpoint"}) /\ \E v : Accept(v, v)
    BY <1>2, <1>3, <1>4, <2>1, <2>3, SteadyActive
  <2> QED BY <1>5, <2>2, <2>3 DEF StepAnswer
<1>6. ASSUME NEW ok, SceneAnswer(w, ok)
      PROVE  Steady
  <2>1. Idle /\ turn' = turn /\ active' = active /\ w.tab \in TabIds
    BY <1>6 DEF SceneAnswer, WindowInv, Core, WorkersInv
  <2>2. CASE docs' = docs
    BY <1>3, <2>1, <2>2, SteadyDocuments
  <2>3. CASE Addressed(w, {"apply", "checkpoint", "move"}) /\ \E v, shown : Accept(v, shown)
    BY <1>2, <1>3, <1>4, <2>1, <2>3, SteadyActive
  <2> QED BY <1>6, <2>2, <2>3 DEF SceneAnswer
<1>7. ASSUME NEW ok, SaveAnswer(w, ok)
      PROVE  Steady
  <2>1. Idle /\ active' = active /\ w.tab \in TabIds
    BY <1>7 DEF SaveAnswer, WindowInv, Core, WorkersInv, Saving
  <2>2. turn'.do # "ended"
    BY <1>3, <1>7, <2>1 DEF SaveAnswer, ContinueWith, Go
  <2>3. CASE docs' = docs
    BY <2>2, <2>3, SteadyDocuments
  <2>4. CASE /\ Addressed(w, {"save"})
             /\ docs' = [docs EXCEPT ![active].saved = w.version, ![active].path = w.path]
    <3>1. \A c \in TabIds : c # active => docs'[c] = docs[c]
      BY <2>4 DEF WindowInv, Core, TabsInv
    <3> QED BY <1>2, <2>1, <2>2, <2>4, <3>1, SteadyActive
  <2> QED BY <1>7, <2>3, <2>4 DEF SaveAnswer
<1>8. ASSUME NEW ok, LoadAnswer(w, ok) \/ CreateAnswer(w, ok) \/ RecoverAnswer(w, ok)
      PROVE  Steady
  <2>1. turn'.do # "ended"
    BY <1>3, <1>8 DEF LoadAnswer, CreateAnswer, RecoverAnswer, TellReopen, Go
  <2>2. docs' = docs \/ \E p : MayOpen(p) /\ \E t \in NewTabs : OpenTab(t, p)
    BY <1>8 DEF LoadAnswer, CreateAnswer, RecoverAnswer, tabVars
  <2> QED BY <2>1, <2>2, SteadyDocuments, SteadyOpening
<1>9. ASSUME NEW ok, SwitchAnswer(w, ok) \/ CopyAnswer(w, ok)
      PROVE  Steady
  <2>1. turn'.do # "ended"
    BY <1>3, <1>9 DEF SwitchAnswer, CopyAnswer, Activate, StayHere, Go, Wait
  <2>2. docs' = docs
    BY <1>9 DEF SwitchAnswer, CopyAnswer, tabVars
  <2> QED BY <2>1, <2>2, SteadyDocuments
<1> QED BY <1>1, <1>5, <1>6, <1>7, <1>8, <1>9

\* Neither does what a person does: a Close goes on before it closes.
LEMMA PersonIsSteady ==
    ASSUME Person \/ \E t \in TabIds : CloseTab(t)
    PROVE  Steady
<1>1. Idle => turn.do = "wait"
  BY DEF Idle, Wait
<1>2. CASE CancelLoad \/ CancelOperation \/ CancelForm \/ CancelNew \/ CancelCreate
  <2>1. Idle /\ docs' = docs /\ turn' = turn
    BY <1>2 DEF CancelLoad, CancelOperation, CancelForm, CancelNew, CancelCreate, tabVars
  <2> QED BY <1>1, <2>1, SteadyDocuments
<1>3. CASE \E kind \in {"height", "editor"} : BeginForm(kind)
  <2>1. Idle /\ docs' = docs /\ turn' = turn
    BY <1>3 DEF BeginForm, tabVars
  <2> QED BY <1>1, <2>1, SteadyDocuments
<1>4. CASE Apply \/ Checkpoint \/ Save \/ BeginNew \/ CreateNew \/ Recover
  <2>1. Idle /\ docs' = docs /\ turn' = turn
    BY <1>4 DEF Apply, Checkpoint, BeginStep, Save, BeginNew, CreateNew, Recover, tabVars
  <2> QED BY <1>1, <2>1, SteadyDocuments
<1>5. CASE BackToForm \/ DiscardForm \/ RequestQuit \/ BackFromQuit \/ DiscardInQuit \/ BeginReopen
  <2>1. docs' = docs /\ turn'.do # "ended"
    BY <1>1, <1>5 DEF BackToForm, DiscardForm, RequestQuit, BackFromQuit, DiscardInQuit, BeginReopen,
                 HeldIsAsked, tabVars, Go
  <2> QED BY <2>1, SteadyDocuments
<1>6. CASE \E to \in 1..MaxLine : Undo(to)
  <2>1. Idle /\ docs' = docs /\ turn' = turn
    BY <1>6 DEF Undo, tabVars
  <2> QED BY <1>1, <2>1, SteadyDocuments
<1>7. CASE \E p \in Paths : Open(p) \/ SaveAs(p) \/ StartCopy(p)
  <2>1. Idle /\ docs' = docs /\ turn' = turn
    BY <1>7 DEF Open, SaveAs, StartCopy, tabVars
  <2> QED BY <1>1, <2>1, SteadyDocuments
<1>8. CASE \E t \in TabIds : SwitchTo(t)
  <2>1. Idle /\ docs' = docs /\ turn' = turn
    BY <1>8 DEF SwitchTo, tabVars
  <2> QED BY <1>1, <2>1, SteadyDocuments
<1>9. CASE \E t \in TabIds : CloseTab(t)
  <2>1. docs' = docs /\ turn'.do # "ended"
    BY <1>9 DEF CloseTab, AskFormClose, AskClose, ShowToClose, NothingToAsk, tabVars, Go, Wait
  <2> QED BY <2>1, SteadyDocuments
<1> QED BY <1>2, <1>3, <1>4, <1>5, <1>6, <1>7, <1>8, <1>9 DEF Person

\* The last step of a Quit: there was nothing left to ask.
LEMMA AllAgreed ==
    ASSUME WindowInv, quit # None, ~FormIsNext, ~ModelIsNext, Unasked = {}, NEW t \in OpenTabs
    PROVE  Agreed(t)
<1>1. t \in TabIds /\ (<<t, Current(t)>> \in quit.answered => Agreed(t))
  BY DEF OpenTabs, WindowInv, FormsInv, PassInv
<1>2. closing = None /\ aside = None
  BY DEF WindowInv, FormsInv, PlacesInv, Control, MakingInv, Modal
<1>3. CASE t = active
  <2>1. HasSession /\ form = None /\ (Held(active) # None => Held(active).confirmed)
    BY <1>1, <1>3, WindowAssumption DEF HasSession, FormIsNext
  <2>2. active \in typed => FormOf(active) \in agreed
    BY <1>1, <1>2, <1>3, <2>1, FormAgreed DEF WindowInv
  <2>3. CASE <<t, Current(t)>> \notin quit.answered
    BY <1>3, <2>1, <2>2, <2>3 DEF ModelIsNext, Agreed
  <2> QED BY <1>1, <2>3
<1>4. CASE t # active
  <2>1. t \in Hidden
    BY <1>4 DEF Hidden
  <2>2. PICK i \in DOMAIN order : order[i] = t
    BY DEF WindowInv, Core, TabsInv, ToSet
  <2>3. CASE <<t, Current(t)>> \notin quit.answered
    <3>1. ~ (Dirty(t) \/ draft[t] # None \/ Held(t) # None)
      BY <2>1, <2>2, <2>3 DEF Unasked
    <3>2. \A place \in Places : FormsOf(t)[place] = None
      BY <1>2, <1>4, <3>1, PlacesOf DEF Places
    <3>3. t \notin typed
      BY <1>1, <3>2 DEF WindowInv, FormsInv, Kept
    <3> QED BY <3>1, <3>3 DEF Agreed
  <2> QED BY <1>1, <2>3
<1> QED BY <1>3, <1>4

(* A tab that closes, or a window that ends, loses nothing its user did    *)
(* not agree to lose.                                                      *)
THEOREM LosesNothingUnasked == Spec => NothingLostUnasked
<1> DEFINE lost == /\ \A t \in OpenTabs : docs'[t] = None => Agreed(t)
                   /\ turn'.do = "ended" => \A t \in OpenTabs : Agreed(t)
<1>1. Steady => lost
  <2> SUFFICES ASSUME Steady PROVE lost
    OBVIOUS
  <2>1. OpenTabs \subseteq OpenTabs'
    BY DEF Steady
  <2> QED BY <2>1 DEF Steady, OpenTabs
<1>2. ASSUME WindowInv, WindowInv', Continue PROVE lost
  <2>1. CASE ContinueQuit
    <3>1. quit # None /\ docs' = docs
      BY <2>1 DEF ContinueQuit, tabVars
    <3>2. CASE turn' = Go("ended", None) /\ QuitEnds
      <4>1. \A t \in OpenTabs : Agreed(t)
        BY <1>2, <3>1, <3>2, AllAgreed DEF QuitEnds
      <4> QED BY <4>1
    <3>3. turn.do = "quit"
      BY <2>1 DEF ContinueQuit
    <3>4. turn'.do # "ended" \/ (turn' = Go("ended", None) /\ QuitEnds)
      BY <2>1, <3>3 DEF ContinueQuit, QuitAsksForm, QuitAsksModel, QuitShows, QuitEnds, Go, Wait
    <3> QED BY <1>1, <3>1, <3>2, <3>4, SteadyDocuments
  <2>2. CASE ShowNeighbour \/ ContinueReopen \/ \E t \in TabIds : StaysOpen(t)
    <3>1. docs' = docs /\ turn' = Wait
      BY <2>2 DEF ShowNeighbour, ContinueReopen, StaysOpen, tabVars
    <3>2. Steady
      BY <3>1, SteadyDocuments DEF Wait
    <3> QED BY <1>1, <3>2
  <2>3. CASE \E t \in TabIds : CloseNow(t)
    <3>1. PICK t \in TabIds : CloseNow(t)
      BY <2>3
    <3>2. turn = Go("close", t) /\ MayClose(t) /\ docs' = [docs EXCEPT ![t] = None]
      BY <3>1 DEF CloseNow
    <3>3. turn.do = "close" /\ turn.tab = t
      BY <3>2 DEF Go
    <3>4. Agreed(t)
      BY <1>2, <3>2, <3>3 DEF WindowInv, Control, CloseInv
    <3>5. turn'.do # "ended"
      BY <3>1 DEF CloseNow, Go, Wait
    <3>6. \A c \in OpenTabs : docs'[c] = None => c = t
      BY <1>2, <3>2 DEF WindowInv, Core, TabsInv, OpenTabs
    <3> QED BY <3>4, <3>5, <3>6
  <2> QED BY <1>2, <2>1, <2>2, <2>3 DEF Continue
<1>3. ASSUME WindowInv, WindowInv', [Next]_vars PROVE [lost]_vars
  <2>1. CASE Answer
    BY <1>1, <1>3, <2>1, AnswersAreSteady
  <2>2. CASE Person \/ \E t \in TabIds : CloseTab(t)
    BY <1>1, <2>2, PersonIsSteady
  <2>3. CASE Continue
    BY <1>2, <1>3, <2>3
  <2>4. CASE UNCHANGED vars
    BY <2>4
  <2> QED BY <1>3, <2>1, <2>2, <2>3, <2>4 DEF Next
<1> QED BY <1>3, WindowHolds, PTL DEF Spec, NothingLostUnasked

\* As many tabs are open as the row has, and no more than the window may have.
Sized == Cardinality(OpenTabs) <= MaxTabs

\* The limit of open tabs is kept.
LEMMA SizedKeeps ==
    ASSUME WindowInv, WindowInv', [Next]_vars, Sized
    PROVE  Sized'
<1>1. IsFiniteSet(OpenTabs) /\ Cardinality(OpenTabs) \in Nat
  BY WindowAssumption, FS_Subset, FS_CardinalityType DEF OpenTabs
<1>2. ASSUME OpenTabs' \subseteq OpenTabs PROVE Sized'
  <2>1. Cardinality(OpenTabs') <= Cardinality(OpenTabs) /\ Cardinality(OpenTabs') \in Nat
    BY <1>1, <1>2, FS_Subset, FS_CardinalityType
  <2> QED BY <1>1, <2>1, WindowAssumption DEF Sized
<1>3. ASSUME Steady PROVE Sized'
  <2>1. CASE OpenTabs' = OpenTabs
    BY <1>2, <2>1
  <2>2. CASE Cardinality(OpenTabs) < MaxTabs /\ \E t \in NewTabs : OpenTabs' = OpenTabs \cup {t}
    <3>1. PICK t \in NewTabs : OpenTabs' = OpenTabs \cup {t}
      BY <2>2
    <3>2. Cardinality(OpenTabs \cup {t}) <= Cardinality(OpenTabs) + 1
      BY <1>1, FS_AddElement
    <3>3. Cardinality(OpenTabs \cup {t}) \in Nat
      <4>1. IsFiniteSet(OpenTabs \cup {t})
        BY <1>1, FS_AddElement
      <4> QED BY <4>1, FS_CardinalityType
    <3>4. Cardinality(OpenTabs \cup {t}) <= MaxTabs
      BY <1>1, <2>2, <3>2, <3>3, WindowAssumption
    <3> QED BY <3>1, <3>4 DEF Sized
  <2> QED BY <1>3, <2>1, <2>2 DEF Steady
<1>4. CASE Answer
  BY <1>3, <1>4, AnswersAreSteady
<1>5. CASE Person \/ \E t \in TabIds : CloseTab(t)
  BY <1>3, <1>5, PersonIsSteady
<1>6. CASE Continue
  <2>1. CASE \E t \in TabIds : CloseNow(t)
    <3>1. OpenTabs' \subseteq OpenTabs
      BY <2>1 DEF CloseNow, OpenTabs, WindowInv, Core, TabsInv
    <3> QED BY <1>2, <3>1
  <2>2. CASE ~ \E t \in TabIds : CloseNow(t)
    <3>1. docs' = docs
      BY <1>6, <2>2 DEF Continue, ContinueQuit, ShowNeighbour, ContinueReopen, StaysOpen, tabVars
    <3> QED BY <1>2, <3>1 DEF OpenTabs
  <2> QED BY <2>1, <2>2
<1>7. CASE UNCHANGED vars
  BY <1>2, <1>7 DEF vars, OpenTabs
<1> QED BY <1>4, <1>5, <1>6, <1>7 DEF Next

\* A row without repetitions is as long as the set of its tabs.
LEMMA RowIsAsLong ==
    ASSUME NEW S, NEW s \in Seq(S), Distinct(s)
    PROVE  Len(s) = Cardinality(ToSet(s))
<1>1. Len(s) \in Nat /\ DOMAIN s = 1..Len(s) /\ s = [i \in 1..Len(s) |-> s[i]]
  OBVIOUS
<1>2. s \in Bijection(1..Len(s), ToSet(s))
  BY <1>1 DEF Bijection, Injection, Surjection, IsInjective, ToSet, Distinct
<1> QED BY <1>1, <1>2, FS_CountingElements DEF ExistsBijection

(* The type invariant: the row of tabs is the open documents, each once,   *)
(* and no more than the window may have.                                   *)
THEOREM WindowTyped == Spec => []TypeOK
<1>1. ASSUME WindowInv, Sized PROVE TypeOK
  <2>1. TabsInv
    BY <1>1 DEF WindowInv, Core
  <2>2. Len(order) = Cardinality(OpenTabs) /\ ToSet(order) = OpenTabs
    BY <2>1, RowIsAsLong DEF TabsInv, Distinct
  <2>3. Len(order) <= MaxTabs
    BY <1>1, <2>2 DEF Sized
  <2>4. \A t \in OpenTabs : docs[t].pos \in DOMAIN docs[t].line
    BY <2>1, CurrentTyped
  <2>5. aside = None \/ (aside.tab = active /\ aside.form \in Forms /\ newOpen)
    BY <1>1 DEF WindowInv, FormsInv, FormsTyped, PlacesInv, Asides
  <2>6. form \in FormOrNone /\ \A t \in TabIds : docs[t] \in Docs \cup {None} /\ draft[t] \in FormOrNone
    BY <1>1, <2>1 DEF WindowInv, FormsInv, FormsTyped, TabsInv
  <2>7. active \in OpenTabs \cup {None}
    BY <2>1 DEF TabsInv
  <2> QED BY <2>2, <2>3, <2>4, <2>5, <2>6, <2>7 DEF TypeOK
<1>2. WindowInit => Sized
  <2> SUFFICES ASSUME WindowInit PROVE Sized
    OBVIOUS
  <2>1. OpenTabs = {}
    BY DEF WindowInit, OpenTabs
  <2> QED BY <2>1, FS_EmptySet, WindowAssumption DEF Sized
<1> QED BY <1>1, <1>2, SizedKeeps, WindowHolds, PTL DEF Spec

=============================================================================
