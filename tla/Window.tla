------------------------------- MODULE Window -------------------------------
(***************************************************************************)
(* One window over several documents: the tabs (tabs.rs), the one          *)
(* operation slot of each document's controller (sessions.rs) and the      *)
(* handlers of the event loop that use them (main.rs).                     *)
(*                                                                         *)
(* The event loop handles one thing at a time, so an action is one         *)
(* handler. Workers run beside it: `workers` holds those whose answer is   *)
(* still to come, and an answer may come at any time, in any order, also   *)
(* after the thing it answers was cancelled, replaced or closed. A handler *)
(* that goes on with another one (the next step of a Quit, the close after *)
(* a Save) leaves that in `turn`, and nothing else happens before it.      *)
(*                                                                         *)
(* A document is what the window can tell of it: the line of its accepted  *)
(* versions, the version its file holds, and its file's name. A form is    *)
(* the version it was made on. Left out: exports, choosing a file or       *)
(* quitting while New is unfinished, gestures.                             *)
(***************************************************************************)
EXTENDS Naturals, FiniteSets, SequencesExt

CONSTANTS
    TabIds,     \* identities of tabs; one that anything still names is not reused
    Paths,      \* names of the users' files
    None,       \* no file, no version, no form; also the controller of an empty window
    MaxTabs,    \* documents one window keeps open
    MaxVersion, \* bound: versions of one document in use at one time
    MaxLine,    \* bound: accepted versions on one line
    MaxWorkers  \* bound: workers whose answers are still to come

ASSUME WindowAssumption ==
    /\ None \notin TabIds \cup Paths \cup Nat
    /\ IsFiniteSet(TabIds)
    /\ MaxTabs \in Nat \ {0} /\ MaxVersion \in Nat \ {0}
    /\ MaxLine \in Nat \ {0} /\ MaxWorkers \in Nat \ {0}

VARIABLES
    order,    \* the row of tabs
    active,   \* the shown tab, None in an empty window
    docs,     \* each open tab's document
    slot,     \* each controller's operation or reservation
    form,     \* the shown tab's open form
    draft,    \* each hidden tab's form
    aside,    \* the shown tab's form while New uses the window's forms
    closing,  \* the form held by an attempt to close the shown tab
    quit,     \* the Quit pass
    newOpen,  \* New's own form is open
    awaited,  \* the reading, creation, recovery and copy whose answers are wanted
    reopen,   \* the Reopen of the last window's files in progress
    switch,   \* the tab about to be shown
    workers,  \* workers that have not answered
    turn,     \* what the running handler does next
    picture,  \* the tab and version on the screen
    typed,    \* history: the tabs whose user has an unfinished form
    agreed,   \* history: what the user agreed to lose in this Close or Quit
    overrun   \* history: the tabs hidden by a new document while an operation ran

tabVars == <<order, active, docs, picture>>
formVars == <<form, draft, aside, closing>>
ioVars == <<newOpen, awaited, reopen>>
history == <<typed, agreed, overrun>>
vars == <<order, active, docs, slot, form, draft, aside, closing, quit, newOpen,
          awaited, reopen, switch, workers, turn, picture, typed, agreed, overrun>>

-----------------------------------------------------------------------------
(* What the state is made of.                                              *)

Versions == 1..MaxVersion
Forms == [kind : {"height", "editor"}, base : Versions]
Asides == [tab : TabIds, form : Forms]
Closings == [tab : TabIds, form : Forms, confirmed : BOOLEAN, decided : BOOLEAN]
HeldForms == [form : Forms, confirmed : BOOLEAN]
Passes == [forms : [TabIds -> HeldForms \cup {None}], answered : SUBSET (TabIds \X Versions),
           model : (TabIds \X Versions) \cup {None}]
Reopens == [files : Seq(Paths), shown : Paths \cup {None}, next : Nat \ {0},
            wait : Nat \cup {None}, open : SUBSET Paths]
Docs == [line : Seq(Versions), pos : Nat \ {0},
         saved : Versions \cup {None}, path : Paths \cup {None}]

(* None is no record, no version of a tab and no continuation of a Save.   *)
ASSUME NothingIsNothing ==
    None \notin Docs \cup Forms \cup Asides \cup Closings \cup HeldForms \cup Passes \cup Reopens
               \cup (TabIds \X Versions) \cup {"quit", "closeForm", "close"}

Free == [kind |-> "free"]

(* An operation in flight, or a reservation of the slot.                   *)
Operation(kind, g) ==
    [kind |-> kind, gen |-> g, cancelled |-> FALSE, version |-> None, next |-> None]

Worker(what, g, t, v, p) ==
    [what |-> what, gen |-> g, tab |-> t, version |-> v, path |-> p, wanted |-> TRUE]

Wait == [do |-> "wait", tab |-> None]
Go(what, t) == [do |-> what, tab |-> t]

Idle == turn = Wait
OpenTabs == {t \in TabIds : docs[t] # None}
Hidden == OpenTabs \ {active}
HasSession == active # None
Current(t) == docs[t].line[docs[t].pos]
Dirty(t) == docs[t].saved # Current(t)
Busy(c) == slot[c].kind # "free"

Making == newOpen \/ awaited.create # None
EditorOpen == form # None /\ form.kind = "editor"
IoIdle == awaited.load = None
Copying == awaited.copy # None
Modal == closing # None \/ quit # None

(* No operation, New, copy or reading holds the window: the shown tab may  *)
(* be left. An idle form does not hold it, it stays with its tab.          *)
CanShow == ~Making /\ ~Busy(active) /\ IoIdle
CanLeave == CanShow /\ ~Copying

(* Nothing that reads or replaces the document is running or waiting.      *)
Settled == ~Making /\ ~EditorOpen /\ IoIdle /\ ~Busy(active)

DocumentIdle == ~Modal /\ Settled /\ form = None /\ ~Copying

(* A version of a tab is <<tab, version>>; its form, when it is agreed to *)
(* lose it, has no version.                                                *)
FormOf(t) == <<t, None>>

\* Where an element of a sequence first is.
Place(s, e) == SelectInSeq(s, LAMBDA x : x = e)

Owners(p, other) == {t \in OpenTabs \ other : docs[t].path = p}

(* Identities are drawn from a counter and never reused; here one is new   *)
(* when nothing names it.                                                  *)
NewTabs == {t \in TabIds \ OpenTabs : \A w \in workers : w.tab # t}
UsedGens == {w.gen : w \in workers} \cup {slot[c].gen : c \in {x \in DOMAIN slot : Busy(x)}}
NewGen == CHOOSE g \in 1..(Cardinality(UsedGens) + 1) : g \notin UsedGens
CanStart == Cardinality(workers) < MaxWorkers

Named(t) ==
    ToSet(docs[t].line) \cup {docs[t].saved}
    \cup {w.version : w \in {x \in workers : x.tab = t}}
    \cup {f.base : f \in {form, draft[t]} \ {None}}
    \cup (IF Busy(t) THEN {slot[t].version} ELSE {})
Unnamed(t) == Versions \ Named(t)
Fresh(t) == CHOOSE v \in Unnamed(t) : \A u \in Unnamed(t) : v <= u

-----------------------------------------------------------------------------
(* A window that has just started, and shows nothing.                      *)

WindowInit ==
    /\ order = <<>> /\ active = None /\ picture = None
    /\ docs = [t \in TabIds |-> None]
    /\ slot = [c \in TabIds \cup {None} |-> Free]
    /\ form = None /\ draft = [t \in TabIds |-> None]
    /\ aside = None /\ closing = None /\ quit = None
    /\ newOpen = FALSE /\ reopen = None
    /\ awaited = [load |-> None, create |-> None, recover |-> None, copy |-> None]
    /\ switch = None /\ workers = {} /\ turn = Wait
    /\ typed = {} /\ agreed = {} /\ overrun = {}

-----------------------------------------------------------------------------
(* Showing a new document, and going to another tab.                       *)

(* Mutant: the forms set aside for New are forgotten.                      *)
Leaving_IgnoresAside == form

(* The forms that go with the shown tab as it is hidden: those set aside   *)
(* for New, or else the ones the window shows.                             *)
Leaving == IF aside # None /\ aside.tab = active THEN aside.form ELSE form

(* Tabs::bind refuses while a question is open, a full window, and a file  *)
(* that another tab writes.                                                *)
MayOpen(p) ==
    /\ ~Modal
    /\ Cardinality(OpenTabs) < MaxTabs
    /\ p # None => Owners(p, {}) = {}

(* A new tab beside the shown one, which is hidden with its forms.         *)
OpenTab(t, p) ==
    LET at == IF HasSession THEN Place(order, active) ELSE Len(order)
    IN  /\ docs' = [docs EXCEPT ![t] =
                [line |-> <<1>>, pos |-> 1, path |-> p, saved |-> IF p = None THEN None ELSE 1]]
        /\ order' = InsertAt(order, at + 1, t)
        /\ active' = t /\ picture' = <<t, 1>>
        /\ draft' = IF HasSession THEN [draft EXCEPT ![active] = Leaving] ELSE draft
        /\ aside' = IF HasSession /\ aside # None /\ aside.tab = active THEN None ELSE aside
        /\ form' = None
        /\ UNCHANGED closing

(* The worker of a tab that was going to be shown is given up on with its  *)
(* switch: its answer finds no one.                                        *)
BeginSwitch(t, after, others) ==
    /\ slot' = [slot EXCEPT ![active] = Operation("switch", NewGen)]
    /\ switch' = [gen |-> NewGen, target |-> t, after |-> after, base |-> Current(t)]
    /\ workers' = others \cup {Worker("picture", NewGen, t, Current(t), None)}

(* Reads a file, unless a tab already has it: then that tab is shown.      *)
(* A newer reading replaces the one that is awaited.                       *)
ReadDocument(p, others) ==
    \/ /\ Owners(p, {}) = {} /\ Cardinality(OpenTabs) < MaxTabs
       /\ workers' = others \cup {Worker("load", NewGen, None, None, p)}
       /\ awaited' = [awaited EXCEPT !.load = NewGen, !.copy = None]
       /\ UNCHANGED <<slot, switch>>
    \/ \E t \in Owners(p, {active}) :
          /\ ~Modal /\ CanShow
          /\ BeginSwitch(t, "nothing", others)
          /\ awaited' = [awaited EXCEPT !.copy = None]

MayRead(p) ==
    \/ Owners(p, {}) = {} /\ Cardinality(OpenTabs) < MaxTabs
    \/ Owners(p, {active}) # {} /\ ~Modal /\ CanShow

(* Mutant: a Reopen that is reading is not asked about.                    *)
Open_WhileReopening(p) ==
    /\ Idle /\ ~Modal /\ CanStart
    /\ ~Copying /\ ~Busy(active) /\ ~Making
    /\ ReadDocument(p, workers)
    /\ UNCHANGED <<tabVars, formVars, quit, newOpen, reopen, turn, history>>

(* The person's Open. It waits for a Reopen, whose reading it would replace. *)
Open(p) ==
    /\ Idle /\ ~Modal /\ CanStart
    /\ ~Copying /\ ~Busy(active) /\ ~Making /\ reopen = None
    /\ ReadDocument(p, workers)
    /\ UNCHANGED <<tabVars, formVars, quit, newOpen, reopen, turn, history>>

(* A Reopen goes on after its own reading, and stops with it when that was *)
(* cancelled or replaced.                                                  *)
TellReopen(w, opened) ==
    IF reopen = None \/ reopen.wait # w.gen THEN UNCHANGED <<reopen, turn>>
    ELSE IF awaited.load # w.gen THEN reopen' = None /\ UNCHANGED turn
    ELSE /\ reopen' = [reopen EXCEPT !.wait = None, !.open = IF opened THEN @ \cup {w.path} ELSE @]
         /\ turn' = Go("reopen", None)

LoadAnswer(w, ok) ==
    /\ Idle /\ w.what = "load"
    /\ workers' = workers \ {w}
    /\ TellReopen(w, ok /\ MayOpen(w.path))
    /\ awaited' = [awaited EXCEPT !.load = IF @ = w.gen THEN None ELSE @]
    /\ IF awaited.load = w.gen /\ ok /\ MayOpen(w.path)
       THEN \E t \in NewTabs :
                /\ OpenTab(t, w.path)
                /\ slot' = [slot EXCEPT ![None] = Free]
                /\ overrun' = overrun \cup IF HasSession /\ Busy(active) THEN {active} ELSE {}
       ELSE UNCHANGED <<tabVars, formVars, slot, overrun>>
    /\ UNCHANGED <<quit, newOpen, switch, typed, agreed>>

(* Also the end of the Reopen whose reading it was.                        *)
CancelLoad ==
    /\ Idle /\ ~Modal /\ awaited.load # None
    /\ awaited' = [awaited EXCEPT !.load = None] /\ reopen' = None
    /\ UNCHANGED <<tabVars, slot, formVars, quit, newOpen, switch, workers, turn, history>>

-----------------------------------------------------------------------------
(* Reopening the files of the last window: one ordinary reading at a time. *)

(* Any list that a window kept: its files, each once, and the shown one.   *)
Lists == {s \in SeqOf(Paths, MaxTabs) \ {<<>>} : IsInjective(s)}

BeginReopen ==
    /\ Idle /\ ~Modal /\ CanLeave /\ CanStart /\ awaited.recover = None /\ reopen = None
    /\ \E files \in Lists : \E shown \in ToSet(files) \cup {None} :
          reopen' = [files |-> files, shown |-> shown, next |-> 1, wait |-> None, open |-> {}]
    /\ turn' = Go("reopen", None)
    /\ UNCHANGED <<tabVars, slot, formVars, quit, newOpen, awaited, switch, workers, history>>

(* The first file that is still to be read: a file that a tab has is not   *)
(* read again, and a full window reads none.                               *)
ToRead ==
    {i \in reopen.next..Len(reopen.files) :
        Owners(reopen.files[i], {}) = {} /\ Cardinality(OpenTabs) < MaxTabs}

(* The tab of the file that was shown, or else of the first that is open.  *)
ToShow ==
    LET listed == IF reopen.shown = None THEN reopen.files ELSE <<reopen.shown>> \o reopen.files
        open == SelectSeq(listed, LAMBDA p : Owners(p, {}) # {})
    IN  IF open = <<>> \/ active \in Owners(Head(open), {}) THEN {} ELSE Owners(Head(open), {})

ContinueReopen ==
    /\ turn.do = "reopen" /\ turn' = Wait
    /\ IF ToRead # {}
       THEN LET i == Min(ToRead)
                passed == {reopen.files[j] : j \in reopen.next..(i - 1)}
            IN  /\ workers' = workers \cup {Worker("load", NewGen, None, None, reopen.files[i])}
                /\ awaited' = [awaited EXCEPT !.load = NewGen]
                /\ reopen' = [reopen EXCEPT !.next = i + 1, !.wait = NewGen,
                                             !.open = @ \cup {p \in passed : Owners(p, {}) # {}}]
                /\ UNCHANGED <<slot, switch>>
       ELSE /\ reopen' = None /\ UNCHANGED awaited
            /\ IF ToShow # {} /\ CanLeave
               THEN \E t \in ToShow : BeginSwitch(t, "nothing", workers)
               ELSE UNCHANGED <<slot, switch, workers>>
    /\ UNCHANGED <<tabVars, formVars, quit, newOpen, history>>

(* A press on a tab of the row.                                            *)
SwitchTo(t) ==
    /\ Idle /\ ~Modal /\ CanLeave /\ CanStart /\ t \in Hidden
    /\ BeginSwitch(t, "nothing", workers)
    /\ UNCHANGED <<tabVars, formVars, quit, ioVars, turn, history>>

-----------------------------------------------------------------------------
(* A Quit or a Close stops: every form it held goes back to its tab, and   *)
(* nothing that was agreed to is acted on.                                 *)

Held(t) == IF quit = None THEN None ELSE quit.forms[t]
GiveUp ==
    /\ quit' = None /\ closing' = None /\ agreed' = {}
    /\ draft' = [t \in TabIds |->
                    IF t # active /\ Held(t) # None THEN Held(t).form ELSE draft[t]]
    /\ form' = CASE closing # None -> closing.form
                 [] HasSession /\ Held(active) # None -> Held(active).form
                 [] OTHER -> form

(* Mutant: the answer's generation is not compared.                        *)
Awaits_Any(w) == switch # None /\ switch.target \in Hidden

(* The picture of the tab to show. Only the awaited switch, whose slot is  *)
(* still held, changes the shown tab, and in a Quit only to the version    *)
(* that was asked for.                                                     *)
Awaits(w) == switch # None /\ switch.gen = w.gen /\ switch.target \in Hidden
HoldsSwitch == slot[active].kind = "switch" /\ slot[active].gen = switch.gen
MayShow(w) ==
    /\ closing = None /\ HoldsSwitch
    /\ switch.after = "quit" => quit # None /\ Current(switch.target) = switch.base

Activate(w) ==
    /\ active' = switch.target /\ picture' = <<w.tab, w.version>>
    /\ form' = draft[switch.target]
    /\ draft' = [t \in TabIds |-> CASE t = switch.target -> None
                                    [] t = active /\ t # switch.target -> Leaving
                                    [] OTHER -> draft[t]]
    /\ aside' = IF HasSession /\ aside # None /\ aside.tab = active THEN None ELSE aside
    /\ turn' = CASE switch.after = "quit" -> Go("quit", None)
                 [] switch.after = "close" -> Go("closeTab", switch.target)
                 [] OTHER -> Wait
    /\ UNCHANGED <<quit, agreed, closing>>

StayHere ==
    /\ IF switch.after = "quit" THEN GiveUp ELSE UNCHANGED <<quit, agreed, draft, form, closing>>
    /\ UNCHANGED <<active, picture, aside, turn>>

SwitchAnswer(w, ok) ==
    /\ Idle /\ w.what = "picture"
    /\ workers' = workers \ {w}
    /\ IF ~Awaits(w)
       THEN UNCHANGED <<active, picture, formVars, quit, agreed, turn, slot, switch>>
       ELSE /\ IF ok /\ MayShow(w) THEN Activate(w) ELSE StayHere
            /\ slot' = IF HoldsSwitch THEN [slot EXCEPT ![active] = Free] ELSE slot
            /\ switch' = None
    /\ UNCHANGED <<order, docs, ioVars, typed, overrun>>

-----------------------------------------------------------------------------
(* Cancel operation: a reservation is given back at once, an operation is  *)
(* only told; its answer is still to come.                                 *)

CancelOperation ==
    /\ Idle /\ Busy(active)
    /\ slot' = [slot EXCEPT ![active] =
                    IF @.kind \in {"switch", "recover"} THEN Free ELSE [@ EXCEPT !.cancelled = TRUE]]
    /\ slot' # slot \/ switch # None
    /\ switch' = None
    /\ IF switch # None /\ switch.after = "quit"
       THEN GiveUp ELSE UNCHANGED <<quit, agreed, draft, form, closing>>
    /\ UNCHANGED <<tabVars, aside, ioVars, workers, turn, typed, overrun>>

-----------------------------------------------------------------------------
(* Forms, and what changes a document: Apply, checkpoints, Undo and Redo.  *)

BeginForm(kind) ==
    /\ Idle /\ ~Modal /\ CanLeave /\ HasSession /\ form = None
    /\ form' = [kind |-> kind, base |-> Current(active)]
    /\ typed' = typed \cup {active}
    /\ UNCHANGED <<tabVars, slot, draft, aside, closing, quit, ioVars, switch, workers, turn, agreed, overrun>>

(* Closing a form also gives up the copy that is being made from it.       *)
CancelForm ==
    /\ Idle /\ ~Modal /\ form # None
    /\ form' = None /\ typed' = typed \ {active}
    /\ workers' = {IF w.what = "copy" THEN [w EXCEPT !.wanted = FALSE] ELSE w : w \in workers}
    /\ UNCHANGED <<tabVars, slot, draft, aside, closing, quit, ioVars, switch, turn, agreed, overrun>>

RoomOnLine == docs[active].pos < MaxLine /\ Unnamed(active) # {}

BeginStep(kind) ==
    /\ slot' = [slot EXCEPT ![active] = Operation(kind, NewGen)]
    /\ workers' = workers \cup {Worker("step", NewGen, active, None, None)}
    /\ UNCHANGED <<tabVars, formVars, quit, ioVars, switch, turn, history>>

(* A form made on another version than the current one is never applied.   *)
Apply ==
    /\ Idle /\ ~Modal /\ CanLeave /\ CanStart
    /\ HasSession /\ form # None /\ form.base = Current(active) /\ RoomOnLine
    /\ BeginStep("apply")

Checkpoint ==
    /\ Idle /\ DocumentIdle /\ CanStart /\ HasSession /\ RoomOnLine
    /\ BeginStep("checkpoint")

Undo(to) ==
    /\ Idle /\ DocumentIdle /\ CanStart /\ HasSession
    /\ to \in {docs[active].pos - 1, docs[active].pos + 1} \cap DOMAIN docs[active].line
    /\ slot' = [slot EXCEPT ![active] =
                    [Operation("move", NewGen) EXCEPT !.version = docs[active].line[to]]]
    /\ workers' = workers \cup {Worker("scene", NewGen, active, docs[active].line[to], None)}
    /\ UNCHANGED <<tabVars, formVars, quit, ioVars, switch, turn, history>>

(* An answer is for the operation in flight in the shown tab, or for no    *)
(* one.                                                                    *)
Addressed(w, kinds) ==
    /\ w.tab = active /\ slot[active].kind \in kinds /\ slot[active].gen = w.gen

(* A version is current from the statement that shows its picture. Forms   *)
(* described the version before it.                                        *)
Accept(v, shown) ==
    LET d == docs[active]
        line == IF slot[active].kind = "move" THEN d.line ELSE Append(SubSeq(d.line, 1, d.pos), v)
    IN  /\ docs' = [docs EXCEPT ![active].line = line,
                                ![active].pos = Place(line, v)]
        /\ picture' = <<active, shown>>
        /\ form' = None /\ typed' = typed \ {active}

(* What the worker of a change made. Nothing is kept of a change that was  *)
(* cancelled, failed or changes nothing; one that only concerns            *)
(* checkpoints is accepted with the picture on the screen. The answer      *)
(* waits for a version that nothing names (bound: MaxVersion).             *)
StepAnswer(w, made) ==
    /\ Idle /\ w.what = "step"
    /\ Addressed(w, {"apply", "checkpoint"}) => Unnamed(active) # {}
    /\ IF ~Addressed(w, {"apply", "checkpoint"})
       THEN /\ workers' = workers \ {w}
            /\ UNCHANGED <<docs, picture, form, typed, slot>>
       ELSE LET v == Fresh(active)
                done == made = "nothing" \/ slot[active].cancelled
                kept == made = "keeps" /\ slot[active].kind = "checkpoint"
            IN  /\ slot' = [slot EXCEPT ![active] =
                                IF done \/ kept THEN Free ELSE [@ EXCEPT !.version = v]]
                /\ workers' = (workers \ {w}) \cup
                        (IF done \/ kept THEN {} ELSE {Worker("scene", w.gen, active, v, None)})
                /\ IF kept /\ ~done THEN Accept(v, v) ELSE UNCHANGED <<docs, picture, form, typed>>
    /\ UNCHANGED <<order, active, draft, aside, closing, quit, ioVars, switch, turn, agreed, overrun>>

(* The picture of a staged version. One that was ready when Cancel was     *)
(* pressed is not shown.                                                   *)
SceneAnswer(w, ok) ==
    /\ Idle /\ w.what = "scene"
    /\ workers' = workers \ {w}
    /\ IF ~Addressed(w, {"apply", "checkpoint", "move"})
       THEN UNCHANGED <<docs, picture, form, typed, slot>>
       ELSE /\ slot' = [slot EXCEPT ![active] = Free]
            /\ IF ok /\ ~Modal /\ ~slot[active].cancelled
               THEN Accept(slot[active].version, w.version)
               ELSE UNCHANGED <<docs, picture, form, typed>>
    /\ UNCHANGED <<order, active, draft, aside, closing, quit, ioVars, switch, turn, agreed, overrun>>

-----------------------------------------------------------------------------
(* Save and Save As, and what follows a Save.                              *)

(* Mutant: Save As to any file.                                            *)
BeginSave_AnyFile(what, p, next) ==
    /\ slot' = [slot EXCEPT ![active] = [Operation("save", NewGen) EXCEPT !.next = next]]
    /\ workers' = workers \cup {Worker(what, NewGen, active, Current(active), p)}

(* One file, one writer: the file of another tab is refused.               *)
BeginSave(what, p, next) ==
    /\ what = "saveAs" => Owners(p, {active}) = {}
    /\ slot' = [slot EXCEPT ![active] = [Operation("save", NewGen) EXCEPT !.next = next]]
    /\ workers' = workers \cup {Worker(what, NewGen, active, Current(active), p)}

SaveThen(next) ==
    \/ docs[active].path # None /\ BeginSave("save", docs[active].path, next)
    \/ docs[active].path = None /\ \E p \in Paths : BeginSave("saveAs", p, next)

Save ==
    /\ Idle /\ ~Modal /\ Settled /\ CanStart /\ HasSession /\ Dirty(active)
    /\ SaveThen(None)
    /\ UNCHANGED <<tabVars, formVars, quit, ioVars, switch, turn, history>>

SaveAs(p) ==
    /\ Idle /\ ~Modal /\ Settled /\ CanStart /\ HasSession
    /\ BeginSave("saveAs", p, None)
    /\ UNCHANGED <<tabVars, formVars, quit, ioVars, switch, turn, history>>

(* The model question of this pass about this tab's current version is     *)
(* answered; a form the pass holds for it was given up before.             *)
MayDecideQuit ==
    /\ quit # None /\ quit.model = <<active, Current(active)>>
    /\ Held(active) # None => Held(active).confirmed
DecideQuit ==
    quit' = [quit EXCEPT !.answered = @ \cup {<<active, Current(active)>>}, !.model = None]

MayDecideClose ==
    /\ closing # None /\ closing.tab = active /\ closing.form.base = Current(active)
    /\ closing.confirmed /\ ~closing.decided

(* What the user was on the way to when Save was chosen, if version v,     *)
(* which was saved, is still the current one and the question still open.  *)
ContinueWith(next, v) ==
    \/ /\ next = "quit"
       /\ IF v = Current(active) /\ MayDecideQuit
          THEN DecideQuit /\ turn' = Go("quit", None)
          ELSE UNCHANGED <<quit, turn>>
       /\ UNCHANGED <<formVars, agreed>>
    \/ /\ next = "closeForm"
       /\ IF v = Current(active) /\ MayDecideClose
          THEN closing' = [closing EXCEPT !.decided = TRUE] /\ turn' = Go("close", active)
          ELSE UNCHANGED <<closing, turn>>
       /\ UNCHANGED <<quit, form, draft, aside, agreed>>
    \/ /\ next = "close" /\ turn' = Go("close", active)
       /\ UNCHANGED <<quit, formVars, agreed>>
    \/ /\ next = None /\ GiveUp
       /\ UNCHANGED <<aside, turn>>

(* ok: the file was published. Save As writes one that is not there, and   *)
(* the folders are everybody's: any name may be free, or taken, by then.   *)
SaveAnswer(w, ok) ==
    /\ Idle /\ w.what \in {"save", "saveAs"}
    /\ workers' = workers \ {w}
    /\ IF ~Addressed(w, {"save"})
       THEN UNCHANGED <<docs, slot, formVars, quit, turn, agreed>>
       ELSE /\ slot' = [slot EXCEPT ![active] = Free]
            /\ IF ok
               THEN /\ docs' = [docs EXCEPT ![active].saved = w.version, ![active].path = w.path]
                    /\ ContinueWith(slot[active].next, w.version)
               ELSE GiveUp /\ UNCHANGED <<docs, aside, turn>>
    /\ UNCHANGED <<order, active, picture, ioVars, switch, typed, overrun>>

-----------------------------------------------------------------------------
(* New, Recover and the copy of a height form.                             *)

(* New uses the window's forms: the tab's own one is set aside.            *)
BeginNew ==
    /\ Idle /\ ~Modal /\ CanLeave
    /\ newOpen' = TRUE
    /\ aside' = IF form # None THEN [tab |-> active, form |-> form] ELSE None
    /\ form' = None
    /\ UNCHANGED <<tabVars, slot, draft, closing, quit, awaited, reopen, switch, workers, turn, history>>

CancelNew ==
    /\ Idle /\ newOpen /\ awaited.create = None
    /\ newOpen' = FALSE
    /\ form' = IF aside # None THEN aside.form ELSE form
    /\ aside' = None
    /\ UNCHANGED <<tabVars, slot, draft, closing, quit, awaited, reopen, switch, workers, turn, history>>

CreateNew ==
    /\ Idle /\ ~Modal /\ CanStart
    /\ newOpen /\ awaited.create = None /\ IoIdle /\ form = None /\ ~Copying /\ ~Busy(active)
    /\ Cardinality(OpenTabs) < MaxTabs
    /\ awaited' = [awaited EXCEPT !.create = NewGen]
    /\ workers' = workers \cup {Worker("create", NewGen, None, None, None)}
    /\ UNCHANGED <<tabVars, slot, formVars, quit, newOpen, reopen, switch, turn, history>>

(* The worker is told; its answer is waited for.                           *)
CancelCreate ==
    /\ Idle /\ awaited.create # None
    /\ workers' = {IF w.what = "create" THEN [w EXCEPT !.wanted = FALSE] ELSE w : w \in workers}
    /\ UNCHANGED <<tabVars, slot, formVars, quit, ioVars, switch, turn, history>>

CreateAnswer(w, ok) ==
    /\ Idle /\ w.what = "create"
    /\ workers' = workers \ {w}
    /\ awaited' = [awaited EXCEPT !.create = None]
    /\ IF ok /\ w.wanted /\ MayOpen(None)
       THEN /\ \E t \in NewTabs : OpenTab(t, None)
            /\ newOpen' = FALSE
       ELSE UNCHANGED <<tabVars, formVars, newOpen>>
    /\ UNCHANGED <<slot, quit, reopen, switch, turn, history>>

(* A crash copy is recovered while the shown tab's slot is reserved for it. *)
Recover ==
    /\ Idle /\ ~Modal /\ CanLeave /\ CanStart
    /\ awaited.recover = None /\ Cardinality(OpenTabs) < MaxTabs
    /\ awaited' = [awaited EXCEPT !.recover = NewGen]
    /\ slot' = [slot EXCEPT ![active] = Operation("recover", NewGen)]
    /\ workers' = workers \cup {Worker("recover", NewGen, None, None, None)}
    /\ UNCHANGED <<tabVars, formVars, quit, newOpen, reopen, switch, turn, history>>

RecoverAnswer(w, ok) ==
    LET held == slot[active].kind = "recover" /\ slot[active].gen = w.gen
    IN  /\ Idle /\ w.what = "recover"
        /\ workers' = workers \ {w}
        /\ awaited' = [awaited EXCEPT !.recover = None]
        /\ slot' = IF held THEN [slot EXCEPT ![active] = Free] ELSE slot
        /\ IF held /\ ok /\ MayOpen(None)
           THEN \E t \in NewTabs : OpenTab(t, None)
           ELSE UNCHANGED <<tabVars, formVars>>
        /\ UNCHANGED <<quit, newOpen, reopen, switch, turn, history>>

(* An edited copy of a saved document, made from its height form.          *)
StartCopy(p) ==
    /\ Idle /\ ~Modal /\ CanStart
    /\ form # None /\ form.kind = "height"
    /\ ~Dirty(active) /\ ~Busy(active) /\ ~Copying /\ IoIdle
    /\ awaited' = [awaited EXCEPT !.copy = NewGen]
    /\ workers' = workers \cup {Worker("copy", NewGen, active, form.base, p)}
    /\ UNCHANGED <<tabVars, slot, formVars, quit, newOpen, reopen, switch, turn, history>>

(* The copy, once published, is opened, and the form is gone with it. The  *)
(* shown tab's own operation is not asked about.                           *)
CopyAnswer(w, ok) ==
    LET others == workers \ {w}
    IN  /\ Idle /\ w.what = "copy"
        /\ form' = IF ok THEN None ELSE form
        /\ typed' = IF ok THEN typed \ {active} ELSE typed
        /\ IF ok /\ w.wanted /\ ~Making /\ MayRead(w.path)
           THEN ReadDocument(w.path, others)
           ELSE /\ workers' = others
                /\ awaited' = [awaited EXCEPT !.copy = None]
                /\ UNCHANGED <<slot, switch>>
        /\ UNCHANGED <<tabVars, draft, aside, closing, quit, newOpen, reopen, turn, agreed, overrun>>

-----------------------------------------------------------------------------
(* Closing a tab. An open form is given up first, then what is unsaved;    *)
(* each is held until the tab is really closed.                            *)

AskFormClose(t) ==
    /\ t = active /\ form # None
    /\ closing' = [tab |-> t, form |-> form, confirmed |-> FALSE, decided |-> FALSE]
    /\ form' = None /\ turn' = Wait
    /\ UNCHANGED <<slot, switch, workers, agreed>>

AskClose(t) ==
    /\ t = active /\ form = None /\ Dirty(t)
    /\ \/ /\ agreed' = {<<t, Current(t)>>} /\ turn' = Go("close", t)
          /\ UNCHANGED <<slot, workers>>
       \/ SaveThen("close") /\ turn' = Wait /\ UNCHANGED agreed
       \/ turn' = Wait /\ UNCHANGED <<slot, workers, agreed>>
    /\ UNCHANGED <<form, closing, switch>>

ShowToClose(t) ==
    /\ t \in Hidden /\ (Dirty(t) \/ draft[t] # None)
    /\ BeginSwitch(t, "close", workers) /\ turn' = Wait
    /\ UNCHANGED <<form, closing, agreed>>

NothingToAsk(t) ==
    /\ ~Dirty(t) /\ (IF t = active THEN form ELSE draft[t]) = None
    /\ turn' = Go("close", t)
    /\ UNCHANGED <<slot, form, closing, switch, workers, agreed>>

CloseTab(t) ==
    /\ \/ Idle /\ t \in OpenTabs
       \/ turn = Go("closeTab", t)
    /\ ~Modal /\ CanLeave /\ CanStart
    /\ \/ AskFormClose(t) \/ AskClose(t) \/ ShowToClose(t) \/ NothingToAsk(t)
    /\ UNCHANGED <<tabVars, draft, aside, quit, ioVars, typed, overrun>>

(* Back, to the question about the form.                                   *)
BackToForm ==
    /\ Idle /\ closing # None /\ ~closing.confirmed /\ ~Busy(active)
    /\ GiveUp
    /\ UNCHANGED <<tabVars, slot, aside, ioVars, switch, workers, turn, typed, overrun>>

(* Discard, and then the question about what is unsaved, if anything is.   *)
DiscardForm ==
    LET t == active
        confirmed == [closing EXCEPT !.confirmed = TRUE]
    IN  /\ Idle /\ closing # None /\ closing.tab = t /\ closing.form.base = Current(t)
        /\ ~closing.confirmed /\ CanLeave /\ CanStart
        /\ \/ /\ closing' = [confirmed EXCEPT !.decided = TRUE]
              /\ agreed' = {FormOf(t)} \cup (IF Dirty(t) THEN {<<t, Current(t)>>} ELSE {})
              /\ turn' = Go("close", t)
              /\ UNCHANGED <<slot, form, draft, quit, workers>>
           \/ /\ Dirty(t) /\ SaveThen("closeForm")
              /\ closing' = confirmed /\ agreed' = {FormOf(t)}
              /\ UNCHANGED <<form, draft, quit, turn>>
           \/ /\ Dirty(t) /\ GiveUp
              /\ UNCHANGED <<slot, workers, turn>>
        /\ UNCHANGED <<tabVars, aside, ioVars, switch, typed, overrun>>

(* Tabs::close refuses while a Quit runs, for another tab than the one     *)
(* that is asked about, and for a shown tab with an operation.             *)
MayClose(t) ==
    /\ quit = None
    /\ closing # None =>
        /\ closing.tab = t /\ t = active /\ closing.form.base = Current(t)
        /\ closing.confirmed /\ closing.decided
    /\ t = active => ~Busy(t)

CloseNow(t) ==
    LET at == Place(order, t)
        rest == RemoveAt(order, at)
    IN  /\ turn = Go("close", t) /\ MayClose(t)
        /\ order' = rest
        /\ docs' = [docs EXCEPT ![t] = None]
        /\ draft' = [draft EXCEPT ![t] = None]
        /\ slot' = [slot EXCEPT ![t] = Free]
        /\ closing' = None /\ agreed' = {} /\ typed' = typed \ {t} /\ overrun' = overrun \ {t}
        /\ IF t = active
           THEN /\ active' = None /\ picture' = None /\ form' = None
                /\ turn' = IF rest = <<>> THEN Wait
                           ELSE Go("show", IF at <= Len(rest) THEN rest[at] ELSE Last(rest))
           ELSE turn' = Wait /\ UNCHANGED <<active, picture, form>>
        /\ UNCHANGED <<aside, quit, ioVars, switch, workers>>

(* The tab stays when it may not be closed, or when the empty picture      *)
(* that would replace its own cannot be prepared.                          *)
StaysOpen(t) ==
    /\ turn = Go("close", t) /\ (MayClose(t) => t = active)
    /\ GiveUp /\ turn' = Wait
    /\ UNCHANGED <<tabVars, slot, aside, ioVars, switch, workers, typed, overrun>>

ShowNeighbour ==
    /\ turn.do = "show" /\ turn' = Wait
    /\ IF CanLeave
       THEN BeginSwitch(turn.tab, "nothing", workers)
       ELSE UNCHANGED <<slot, switch, workers>>
    /\ UNCHANGED <<tabVars, formVars, quit, ioVars, history>>

-----------------------------------------------------------------------------
(* Quit: every form and every unsaved document is shown and asked about    *)
(* before anything is given up, and then the window ends.                  *)

RequestQuit ==
    /\ Idle /\ ~Modal /\ aside = None /\ reopen = None
    /\ ~Making /\ ~Copying /\ ~Busy(active) /\ IoIdle /\ awaited.recover = None /\ CanStart
    /\ quit' = [forms |-> [t \in TabIds |-> None], answered |-> {}, model |-> None]
    /\ turn' = Go("quit", None)
    /\ UNCHANGED <<tabVars, slot, formVars, ioVars, switch, workers, history>>

FormIsNext == HasSession /\ (form # None \/ (Held(active) # None /\ ~Held(active).confirmed))
ModelIsNext ==
    /\ HasSession /\ <<active, Current(active)>> \notin quit.answered
    /\ Dirty(active) \/ Held(active) # None \/ (quit.model # None /\ quit.model[1] = active)
(* Mutant: only unsaved documents are asked about, forms are not.          *)
Unasked_DirtyOnly ==
    {i \in DOMAIN order : /\ order[i] \in Hidden
                          /\ <<order[i], Current(order[i])>> \notin quit.answered
                          /\ Dirty(order[i])}

(* Where the hidden tabs are that are still to be asked about.             *)
Unasked ==
    {i \in DOMAIN order : /\ order[i] \in Hidden
                          /\ <<order[i], Current(order[i])>> \notin quit.answered
                          /\ Dirty(order[i]) \/ draft[order[i]] # None \/ Held(order[i]) # None}

QuitAsksForm ==
    /\ FormIsNext /\ turn' = Wait
    /\ IF Held(active) # None
       THEN UNCHANGED <<quit, form>>
       ELSE /\ quit' = [quit EXCEPT !.forms[active] = [form |-> form, confirmed |-> FALSE]]
            /\ form' = None
    /\ UNCHANGED <<slot, draft, closing, switch, workers, agreed>>

(* The answer Discard lets the pass go on; Save does once it is published. *)
QuitAsksModel ==
    /\ ~FormIsNext /\ ModelIsNext
    /\ \/ /\ DecideQuit
          /\ agreed' = IF Dirty(active) THEN agreed \cup {<<active, Current(active)>>} ELSE agreed
          /\ UNCHANGED <<slot, form, draft, closing, workers, turn>>
       \/ /\ Dirty(active) /\ Settled /\ SaveThen("quit")
          /\ quit' = [quit EXCEPT !.model = <<active, Current(active)>>]
          /\ turn' = Wait
          /\ UNCHANGED <<form, draft, closing, agreed>>
       \/ /\ Dirty(active) /\ GiveUp /\ turn' = Wait
          /\ UNCHANGED <<slot, workers>>
    /\ UNCHANGED switch

QuitShows ==
    /\ ~FormIsNext /\ ~ModelIsNext /\ Unasked # {}
    /\ turn' = Wait
    /\ IF CanLeave
       THEN BeginSwitch(order[Min(Unasked)], "quit", workers) /\ UNCHANGED <<quit, closing, draft, form, agreed>>
       ELSE GiveUp /\ UNCHANGED <<slot, switch, workers>>

(* The window ends, unless the list of its files could not be kept.        *)
QuitEnds ==
    /\ ~FormIsNext /\ ~ModelIsNext /\ Unasked = {}
    /\ \/ turn' = Go("ended", None) /\ UNCHANGED <<quit, closing, draft, form, agreed>>
       \/ GiveUp /\ turn' = Wait
    /\ UNCHANGED <<slot, switch, workers>>

ContinueQuit ==
    /\ turn.do = "quit" /\ quit # None
    /\ \/ QuitAsksForm \/ QuitAsksModel \/ QuitShows \/ QuitEnds
    /\ UNCHANGED <<tabVars, aside, ioVars, typed, overrun>>

HeldIsAsked ==
    /\ Idle /\ quit # None /\ HasSession /\ Held(active) # None
    /\ ~Held(active).confirmed /\ Held(active).form.base = Current(active)

BackFromQuit ==
    /\ HeldIsAsked /\ ~Busy(active)
    /\ GiveUp
    /\ UNCHANGED <<tabVars, slot, aside, ioVars, switch, workers, turn, typed, overrun>>

DiscardInQuit ==
    /\ HeldIsAsked /\ CanLeave /\ CanStart
    /\ quit' = [quit EXCEPT !.forms[active].confirmed = TRUE]
    /\ agreed' = agreed \cup {FormOf(active)}
    /\ turn' = Go("quit", None)
    /\ UNCHANGED <<tabVars, slot, formVars, ioVars, switch, workers, typed, overrun>>

-----------------------------------------------------------------------------
(* The window.                                                             *)

Answer ==
    \E w \in workers :
        \/ \E ok \in BOOLEAN :
            \/ LoadAnswer(w, ok) \/ SwitchAnswer(w, ok) \/ SceneAnswer(w, ok) \/ SaveAnswer(w, ok)
            \/ CreateAnswer(w, ok) \/ RecoverAnswer(w, ok) \/ CopyAnswer(w, ok)
        \/ \E made \in {"nothing", "shows", "keeps"} : StepAnswer(w, made)

Person ==
    \/ CancelLoad \/ CancelOperation \/ CancelForm \/ CancelNew \/ CancelCreate
    \/ \E kind \in {"height", "editor"} : BeginForm(kind)
    \/ Apply \/ Checkpoint \/ Save \/ BeginNew \/ CreateNew \/ Recover \/ BeginReopen
    \/ BackToForm \/ DiscardForm \/ RequestQuit \/ BackFromQuit \/ DiscardInQuit
    \/ \E to \in 1..MaxLine : Undo(to)
    \/ \E p \in Paths : Open(p) \/ SaveAs(p) \/ StartCopy(p)
    \/ \E t \in TabIds : SwitchTo(t)

Continue ==
    \/ ContinueQuit \/ ShowNeighbour \/ ContinueReopen
    \/ \E t \in TabIds : CloseNow(t) \/ StaysOpen(t)

Next == Answer \/ Person \/ Continue \/ (\E t \in TabIds : CloseTab(t))

Spec == WindowInit /\ [][Next]_vars

-----------------------------------------------------------------------------
(* Properties.                                                             *)

FormOrNone == Forms \cup {None}

(* The type invariant: every part of the window has a value of its kind,   *)
(* and the row of tabs is the open documents, each once.                   *)
TypeOK ==
    /\ ToSet(order) = OpenTabs /\ Len(order) = Cardinality(OpenTabs)
    /\ Len(order) <= MaxTabs /\ active \in OpenTabs \cup {None}
    /\ \A t \in TabIds : docs[t] \in Docs \cup {None} /\ draft[t] \in FormOrNone
    /\ \A t \in OpenTabs : docs[t].pos \in DOMAIN docs[t].line
    /\ form \in FormOrNone
    /\ aside = None \/ (aside.tab = active /\ aside.form \in Forms /\ newOpen)

(* What is on the screen is the current version of the shown tab, the one  *)
(* Save would write ("the version a person is looking at is the version    *)
(* Save would write", present), however late answers come.                 *)
ShownIsCurrent == picture = IF HasSession THEN <<active, Current(active)>> ELSE None

(* One file, one writer: no two open tabs have the same file ("one file,   *)
(* one writer", start_save), except through a tab that a new document hid  *)
(* while it was saving: Settled does not ask about a copy being made.      *)
OneWriter ==
    \A t \in OpenTabs \ overrun :
        docs[t].path # None => Owners(docs[t].path, {t} \cup overrun) = {}

(* A form that was typed is in exactly one place, and about the version    *)
(* that is current in its tab, through switches, New, Close and Quit.      *)
FormsOf(t) ==
    [here |-> IF t = active THEN form ELSE None,
     draft |-> draft[t],
     aside |-> IF aside # None /\ aside.tab = t THEN aside.form ELSE None,
     close |-> IF closing # None /\ closing.tab = t THEN closing.form ELSE None,
     quit |-> IF Held(t) # None THEN Held(t).form ELSE None]
FormsAreKept ==
    \A t \in TabIds :
        LET held == {place \in DOMAIN FormsOf(t) : FormsOf(t)[place] # None}
        IN  /\ Cardinality(held) = IF t \in typed THEN 1 ELSE 0
            /\ \A place \in held : t \in OpenTabs /\ FormsOf(t)[place].base = Current(t)

(* While the last files are being reopened no question is open, and the    *)
(* reading the Reopen waits for is the one the window waits for, of the    *)
(* file it is at: nothing may replace it. Of each file before, the account *)
(* says that it is open exactly when a tab has it ("A file that opens      *)
(* never hides one that did not", restores.rs).                            *)
ReopenAccountsForAll ==
    reopen # None /\ Idle =>
        /\ ~Modal /\ awaited.load = reopen.wait
        /\ \E w \in workers : /\ w.what = "load" /\ w.gen = reopen.wait
                              /\ w.path = reopen.files[reopen.next - 1]
        /\ \A i \in 1..(reopen.next - 2) :
              reopen.files[i] \in reopen.open <=> Owners(reopen.files[i], {}) # {}

(* A tab that closes, or a window that ends, loses no unsaved version and  *)
(* no form that the user did not agree to lose, however many questions     *)
(* and saves came between.                                                 *)
Agreed(t) ==
    /\ Dirty(t) => <<t, Current(t)>> \in agreed
    /\ t \in typed => FormOf(t) \in agreed
NothingLostUnasked ==
    [][/\ \A t \in OpenTabs : docs'[t] = None => Agreed(t)
       /\ turn'.do = "ended" => \A t \in OpenTabs : Agreed(t)]_vars

=============================================================================
