-------------------------------- MODULE Studio --------------------------------
(***************************************************************************)
(* The Workflow Studio: one browser that edits the draft of a workflow on  *)
(* its canvas and in the dialogs of its nodes, loads drafts and saves them *)
(* (WorkflowStudio.tsx, StudioDialogs.tsx).  The answers to loads and      *)
(* saves arrive while the user goes on.  How the server saves is           *)
(* StudioFiles; here a save replaces what is stored at one moment.         *)
(***************************************************************************)
EXTENDS StudioModel, Naturals

CONSTANTS
    Workflow,      \* names of workflows
    NoDoc,         \* a workflow that is not there
    Bare,          \* a draft that is stored without any states
    Packages,      \* the contents a workflow may have before
    Work           \* the bounds of a behaviour, one of which it starts with:
                   \* how often the user acts, saves and creates a workflow

\* Edges that lead to no node of the content.
Dangling(content) ==
    (UNION {Targets(content.states[s]) : s \in NodeId(content)}) \ NodeId(content)

\* What is there before was accepted by the linter, and each of its texts is empty,
\* of the user's own or derived from the id of its node.
ASSUME StudioAssumption ==
    /\ Workflow # {} /\ None \notin Workflow
    /\ NoDoc \notin Packages /\ Bare \notin Packages /\ Bare # NoDoc
    /\ \A content \in Packages :
          /\ content = Doc(content.states, content.initial, content.placed, FALSE)
          /\ content.states = [s \in DOMAIN content.states |-> content.states[s]]
          /\ \A s \in NodeId(content) :
                content.states[s] = WithLinks(content.states[s], content.states[s].next,
                                              content.states[s].transitions)
          /\ \A s \in NodeId(content) : Derived(content.states[s])
          /\ Dangling(content) = {}
          /\ content.initial \in NodeId(content) \cup {None}

VARIABLES
    stored,        \* workflow -> what a load of it gets
    name,          \* the workflow that is open
    doc,           \* the document, NoDoc before the first load
    modal,         \* the dialog of a node, with its form and autoRef, and of
                   \* which fields it holds what the user wrote
    composing,     \* saves of composed prompts that this dialog waits for
    connect,       \* connectFrom and connectTarget
    drag,          \* the node that is dragged
    saving,        \* the save that is on its way
    loads,         \* loads that are on their way
    strayed,       \* targets that were submitted when no node had their id
    overtaken,     \* paths set by a composer after the id or path was changed
    left           \* the acts that are left of the bounds

dialogs == <<modal, composing, connect, drag>>
traffic == <<stored, name, saving, loads>>
noted == <<strayed, overtaken>>
studioVars == <<traffic, doc, dialogs, noted, left>>

NoText == [title |-> None, path |-> None]
NoModal == [kind |-> "none", of |-> None, form |-> EmptyForm("terminal"),
            auto |-> NoText, own |-> NoText]
NoConnect == [from |-> None, to |-> None]
NoSave == [stage |-> "none", of |-> None, content |-> NoDoc]
Asked(w) == [of |-> w, stage |-> "asked", content |-> NoDoc]

StudioInit ==
    /\ stored \in [Workflow -> Packages \cup {NoDoc, Bare}]
    /\ name \in Workflow \cup {None}
    /\ doc = NoDoc
    /\ modal = NoModal /\ composing = {} /\ connect = NoConnect /\ drag = None
    /\ saving = NoSave
    /\ loads = IF name = None THEN {} ELSE {Asked(name)}
    /\ strayed = {} /\ overtaken = {}
    /\ left \in Work

UserMay(kind) == left[kind] > 0 /\ left' = [left EXCEPT ![kind] = @ - 1]

\* The dialog of a node is there as long as the node is.
FormOpen == /\ doc # NoDoc
            /\ \/ modal.kind = "add"
               \/ modal.kind = "edit" /\ modal.of \in NodeId(doc)
OnCanvas == doc # NoDoc /\ ~FormOpen /\ connect.to = None

OwnOf(text) == IF text = Own THEN Own ELSE None

\* The dialog as it opens for a node of the content.
EditModal(id, content) ==
    LET form == FormFromNode(content.states[id]) IN
    [kind |-> "edit", of |-> id,
     form |-> IF form.id = Missing THEN form ELSE Filled(form),
     auto |-> AutoSnapshot(form.id, form.type),
     own |-> [title |-> OwnOf(form.title), path |-> OwnOf(form.path)]]

----------------------------------------------------------------------------
(* Loading and creating.                                                   *)

ReadLoad(l) ==
    /\ l \in loads /\ l.stage = "asked"
    /\ loads' = (loads \ {l}) \cup
           {[of |-> l.of, stage |-> "read", content |-> stored[l.of]]}
    /\ UNCHANGED <<stored, name, doc, dialogs, saving, noted, left>>

\* Answers arrive in any order; each one replaces the document.  A load that
\* fails, or finds nothing, shows an empty draft.  A dialog whose node is gone
\* goes with what it waits for, and opens anew when a load brings the node.
LoadDone(l) ==
    /\ l \in loads /\ l.stage = "read"
    /\ loads' = loads \ {l}
    /\ \E content \in {l.content, EmptyDoc} \ {NoDoc, Bare} : doc' = Loaded(content)
    /\ modal' = IF modal.kind = "edit" /\ ~FormOpen /\ modal.of \in NodeId(doc')
                THEN EditModal(modal.of, doc') ELSE modal
    /\ composing' = IF modal.kind = "edit" /\ modal.of \notin NodeId(doc')
                    THEN {} ELSE composing
    /\ UNCHANGED <<stored, name, connect, drag, saving, noted, left>>

\* The view cannot draw a draft without states, and the page is gone.
ViewThrows(l) ==
    /\ l \in loads /\ l.stage = "read" /\ l.content = Bare
    /\ loads' = {} /\ name' = None /\ doc' = NoDoc
    /\ modal' = NoModal /\ composing' = {} /\ connect' = NoConnect /\ drag' = None
    /\ left' = [kind \in DOMAIN left |-> 0]
    /\ UNCHANGED <<stored, saving, noted>>

\* The create dialog takes the place of a dialog that is not there any more; a
\* name that is taken is refused.
CreateWorkflow(w) ==
    /\ ~FormOpen /\ connect.to = None /\ UserMay("creates")
    /\ stored[w] = NoDoc
    /\ stored' = [stored EXCEPT ![w] = EmptyDoc]
    /\ name' = w
    /\ loads' = IF name = w THEN loads ELSE loads \cup {Asked(w)}
    /\ modal' = NoModal
    /\ UNCHANGED <<doc, composing, connect, drag, saving, noted>>

----------------------------------------------------------------------------
(* The dialog of a node.                                                   *)

Refilled(form, auto, own) ==
    [kind |-> modal.kind, of |-> modal.of, form |-> form, auto |-> auto, own |-> own]
SetModal(form, auto, own) == modal' = Refilled(form, auto, own) /\ UNCHANGED composing
SetForm(form) == SetModal(form, modal.auto, modal.own)
Dialog == /\ FormOpen /\ UserMay("acts")
          /\ UNCHANGED <<traffic, doc, connect, drag, noted>>
Opens == /\ OnCanvas /\ UserMay("acts")
         /\ UNCHANGED <<traffic, doc, composing, connect, drag, noted>>

OpenAdd ==
    /\ Opens
    /\ modal' = [NoModal EXCEPT !.kind = "add", !.form = EmptyForm("deterministic")]

OpenEdit(id) == Opens /\ id \in NodeId(doc) /\ modal' = EditModal(id, doc)

\* Mutant of SetId: the values that are derived for the new id are not noted.
SetIdUnnoted(id) ==
    /\ Dialog /\ id # modal.form.id
    /\ SetForm(WithId(modal.form, modal.auto, id))

\* The id is typed, or cleared.
SetId(id) ==
    /\ Dialog /\ id # modal.form.id
    /\ SetModal(WithId(modal.form, modal.auto, id), AutoSnapshot(id, modal.form.type),
                modal.own)

\* A text is typed, or cleared.
TypeText(field, text) ==
    /\ Dialog /\ text # modal.form[field]
    /\ field = "path" => HasPath(modal.form.type)
    /\ SetModal([modal.form EXCEPT ![field] = text], modal.auto,
                [modal.own EXCEPT ![field] = OwnOf(text)])

SetType(type) ==
    /\ Dialog /\ type # modal.form.type
    /\ SetModal(WithType(modal.form, type), AutoSnapshot(modal.form.id, type), NoText)

\* A prompt that was composed is saved where the form says, else by the id, and
\* without one under a name of the composer's.
ResolvedPath(form) ==
    IF form.path # None THEN form.path ELSE IF form.id \in Id THEN form.id ELSE Own
ComposeSave ==
    /\ Dialog /\ modal.form.type = "agent"
    /\ composing' = composing \cup
           {[path |-> ResolvedPath(modal.form), id |-> modal.form.id,
             was |-> modal.form.path]}
    /\ UNCHANGED modal

\* The composer may be closed before the answer, and the form changed: the path
\* is set over what is there by then.  A form of another type does not show it.
ComposeDone(s) ==
    /\ s \in composing /\ composing' = composing \ {s}
    /\ \/ UNCHANGED <<modal, overtaken>>
       \/ /\ modal.form.type = "agent"
          /\ LET late == s.id # modal.form.id \/ s.was # modal.form.path IN
             /\ modal' = Refilled([modal.form EXCEPT !.path = s.path], modal.auto,
                             IF late THEN [modal.own EXCEPT !.path = OwnOf(s.path)]
                             ELSE modal.own)
             /\ overtaken' = IF late THEN overtaken \cup {s.path} ELSE overtaken
    /\ UNCHANGED <<traffic, doc, connect, drag, strayed, left>>

\* What the selects for a next state offer.
OtherIds == IF modal.kind = "edit" THEN NodeId(doc) \ {modal.of} ELSE NodeId(doc)

SetNext(id) ==
    /\ Dialog /\ HasNext(modal.form.type) /\ id # modal.form.next
    /\ id \in OtherIds \cup {None}
    /\ SetForm([modal.form EXCEPT !.next = id])

\* A new transition leads to the first of the others, to none if there is none.
AddFormTransition ==
    /\ Dialog /\ HasTransitions(modal.form.type)
    /\ \E id \in IF OtherIds = {} THEN {None} ELSE OtherIds :
          SetForm([modal.form EXCEPT !.transitions =
                       @ \cup {[when |-> NoWhen, next |-> id]}])

SetFormTransition(t) ==
    /\ Dialog /\ HasTransitions(modal.form.type) /\ t \in modal.form.transitions
    /\ \E when \in When, id \in OtherIds \cup {t.next} :
          SetForm([modal.form EXCEPT !.transitions =
                       (@ \ {t}) \cup {[when |-> when, next |-> id]}])

RemoveFormTransition(t) ==
    /\ Dialog /\ HasTransitions(modal.form.type) /\ t \in modal.form.transitions
    /\ SetForm([modal.form EXCEPT !.transitions = @ \ {t}])

CloseModal ==
    /\ FormOpen /\ UserMay("acts")
    /\ modal' = NoModal /\ composing' = {}
    /\ UNCHANGED <<traffic, doc, connect, drag, noted>>

\* addNodeFromForm and editNodeFromForm.  An empty id does not pass the test of
\* ids, but one that is missing does, which is tested as "undefined".
Submit ==
    /\ FormOpen /\ UserMay("acts")
    /\ modal.form.id # None
    /\ doc' = IF modal.kind = "add" THEN AddNode(doc, modal.form)
              ELSE EditNode(doc, modal.of, modal.form)
    /\ strayed' = strayed \cup (Targets(NodeOf(modal.form)) \ NodeId(doc'))
                  \cup ({Ref(modal.form.id)} \cap {None})
    /\ modal' = NoModal /\ composing' = {}
    /\ UNCHANGED <<traffic, connect, drag, overtaken>>

----------------------------------------------------------------------------
(* The canvas.                                                             *)

Canvas == OnCanvas /\ UserMay("acts")
          /\ UNCHANGED <<traffic, modal, composing, overtaken>>

DeleteNode(id) ==
    /\ Canvas /\ id \in NodeId(doc)
    /\ doc' = RemoveNode(doc, id)
    /\ UNCHANGED <<connect, drag, strayed>>

DeleteEdge(from, edge) ==
    /\ Canvas /\ from \in NodeId(doc) /\ edge \in EdgesFrom(doc.states[from])
    /\ doc' = RemoveEdge(doc, from, edge.to, edge.when)
    /\ UNCHANGED <<connect, drag, strayed>>

EditWhen(from, edge, when) ==
    /\ Canvas /\ from \in NodeId(doc) /\ edge \in EdgesFrom(doc.states[from])
    /\ doc' = EditEdge(doc, from, edge.to, edge.when, when)
    /\ UNCHANGED <<connect, drag, strayed>>

StartConnect(id) ==
    /\ Canvas /\ id \in NodeId(doc)
    /\ connect' = [from |-> id, to |-> None]
    /\ UNCHANGED <<doc, drag, strayed>>

\* The node itself, a click beside the nodes and the Cancel above the canvas
\* end the connection before it has a target.
PickTarget(id) ==
    /\ Canvas /\ connect.from # None /\ id \in NodeId(doc) \cup {None}
    /\ connect' = IF id \in {connect.from, None} THEN NoConnect
                  ELSE [from |-> connect.from, to |-> id]
    /\ UNCHANGED <<doc, drag, strayed>>

\* The dialog of the connection, which is open whatever is loaded meanwhile,
\* until it is cancelled ...
CancelConnect ==
    /\ doc # NoDoc /\ connect.to # None /\ UserMay("acts")
    /\ connect' = NoConnect
    /\ UNCHANGED <<traffic, doc, modal, composing, drag, noted>>

\* ... or the transition is added.
Connect(when) ==
    /\ doc # NoDoc /\ connect.to # None /\ UserMay("acts")
    /\ doc' = AddTransition(doc, connect.from, connect.to, when)
    /\ strayed' = strayed \cup ({connect.to} \ NodeId(doc'))
    /\ connect' = NoConnect
    /\ UNCHANGED <<traffic, modal, composing, drag, overtaken>>

\* A drag that ends outside the canvas goes on.
Grab(id) ==
    /\ Canvas /\ connect.from = None /\ id \in NodeId(doc) /\ drag # id
    /\ drag' = id
    /\ UNCHANGED <<doc, connect, strayed>>

Move ==
    /\ OnCanvas /\ drag # None
    /\ \E stop \in BOOLEAN : drag' = IF stop THEN None ELSE drag
    /\ doc' = MoveNode(doc, drag)
    /\ UNCHANGED <<traffic, modal, composing, connect, noted, left>>

ClearCanvas ==
    /\ Canvas
    /\ doc' = Clear(doc)
    /\ UNCHANGED <<connect, drag, strayed>>

----------------------------------------------------------------------------
(* Saving: the draft that is on display, under the name that is open.      *)

Save ==
    /\ OnCanvas /\ name # None /\ saving = NoSave /\ UserMay("saves")
    /\ saving' = [stage |-> "sent", of |-> name, content |-> Saved(doc)]
    /\ UNCHANGED <<stored, name, loads, doc, dialogs, noted>>

\* cleanDraft drops what is empty, a map of states as well.
Cleaned(content) == IF NodeId(content) = {} THEN Bare ELSE content

\* Refused: a completed save that the linter blocks, or an error.
ServeSave ==
    /\ saving.stage = "sent"
    /\ \/ /\ stored' = [stored EXCEPT ![saving.of] = Cleaned(saving.content)]
          /\ saving' = [saving EXCEPT !.stage = "saved"]
       \/ saving' = [saving EXCEPT !.stage = "refused"] /\ UNCHANGED stored
    /\ UNCHANGED <<name, loads, doc, dialogs, noted, left>>

\* The document counts as saved, also if it was edited meanwhile.
SaveDone ==
    /\ saving.stage \in {"saved", "refused"}
    /\ doc' = IF saving.stage = "saved" /\ doc # NoDoc THEN Saved(doc) ELSE doc
    /\ saving' = NoSave
    /\ UNCHANGED <<stored, name, loads, dialogs, noted, left>>

----------------------------------------------------------------------------

Forms ==
    \/ OpenAdd \/ Submit \/ CloseModal \/ AddFormTransition
    \/ ComposeSave
    \/ \E s \in composing : ComposeDone(s)
    \/ \E id \in Id \cup {None} : OpenEdit(id) \/ SetId(id) \/ SetNext(id)
    \/ \E field \in {"title", "path"}, text \in {None, Own} : TypeText(field, text)
    \/ \E type \in NodeType : SetType(type)
    \/ \E t \in modal.form.transitions :
          SetFormTransition(t) \/ RemoveFormTransition(t)

Drawing ==
    \/ \E id \in Id :
          \/ DeleteNode(id) \/ StartConnect(id) \/ PickTarget(id) \/ Grab(id)
          \/ \E edge \in [to : Id \cup {None}, when : When] :
                DeleteEdge(id, edge) \/ \E when \in When : EditWhen(id, edge, when)
    \/ PickTarget(None)
    \/ CancelConnect
    \/ \E when \in When : Connect(when)
    \/ Move \/ ClearCanvas

StudioNext ==
    \/ Forms \/ Drawing
    \/ Save \/ ServeSave \/ SaveDone
    \/ \E l \in loads : ReadLoad(l) \/ LoadDone(l) \/ ViewThrows(l)
    \/ \E w \in Workflow : CreateWorkflow(w)

StudioSpec == StudioInit /\ [][StudioNext]_studioVars

----------------------------------------------------------------------------
(* Properties.                                                             *)

\* However nodes are added, renamed, removed and connected and whatever loads
\* replace the draft meanwhile: every edge leads to a node, and the initial
\* state is one.  Excepted are targets that a dialog submitted when no node had
\* their id: of a node that a load took meanwhile, or the old id of the node
\* itself, which a rename leaves in its own transitions.
Resolved(content) ==
    /\ Dangling(content) \subseteq strayed
    /\ content.initial \in NodeId(content) \cup {None}
EdgesResolve == doc # NoDoc => Resolved(doc)

\* A node's dialog never replaces what the user wrote by what it derives from
\* an id, and never leaves a text that is derived from an id given up.  Excepted
\* is the path that a composer sets late, after the id or the path was changed:
\* it replaces what is there, and the node may be saved with it.
FormFollowsId ==
    \A field \in {"title", "path"} :
       LET text == modal.form[field] IN
       /\ modal.own[field] # None => text = Own
       /\ text \in Id => \/ text = modal.form.id
                        \/ (field = "path" /\ text \in overtaken)
===============================================================================
