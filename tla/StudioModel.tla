----------------------------- MODULE StudioModel -----------------------------
(***************************************************************************)
(* The draft of a workflow as the Studio of the Web console edits it, and  *)
(* the forms of its nodes (features/studio/model.ts): the operators that   *)
(* the reducer and the dialogs are made of.                                *)
(***************************************************************************)
CONSTANTS
    Id,        \* ids of nodes
    None,      \* an empty text, an absent field, null
    Missing,   \* the id of a node that has none, as it is undefined
    Undefined, \* and the id "undefined" that it becomes as a key
    Own,       \* a text of the user's own, which is derived from no id
    When,      \* conditions of transitions
    NoWhen,    \* the empty condition, of a plain connection
    NodeType   \* the types the capabilities offer

ASSUME ModelAssumption ==
    /\ Undefined \in Id
    /\ {None, Missing, Own} \cap Id = {}
    /\ None # Missing /\ None # Own /\ Missing # Own
    /\ NoWhen \in When
    /\ NodeType \subseteq {"agent", "deterministic", "process", "timer",
                           "approval", "router", "terminal"}

\* A text is empty, the user's own, or the one that is derived from an id: its
\* title, or the paths, command or message that defaultPathsFor makes of it.
Text == Id \cup {None, Own}

HasTransitions(type) == type \in {"agent", "approval", "router"}
HasNext(type) == type \in {"deterministic", "process", "timer"}
HasPath(type) == type \in {"agent", "process", "approval"}

----------------------------------------------------------------------------
(* Forms.  The fields that a type does not have are kept empty; those that *)
(* defaultPathsFor derives are one, path.  Transitions are a set: their    *)
(* order is the runtime's concern.                                         *)

EmptyForm(type) == [id |-> None, type |-> type, title |-> None, path |-> None,
                    next |-> None, transitions |-> {}]

Ref(id) == IF id = Missing THEN None ELSE id
Key(id) == IF id = Missing THEN Undefined ELSE id

AutoSnapshot(id, type) ==
    [title |-> Ref(id), path |-> IF HasPath(type) THEN Ref(id) ELSE None]

\* A form or a node whose texts are empty, the user's own or derived from its id.
Derived(form) ==
    /\ form.id \in Id \cup {None, Missing}
    /\ form.title \in {None, Own, AutoSnapshot(form.id, form.type).title}
    /\ form.path \in {None, Own, AutoSnapshot(form.id, form.type).path}

\* The key of a node of the draft is its id; in a workflow that was not made
\* in the Studio the node itself has none, and neither has its form.
FormFromNode(node) == node

\* What a field becomes when the id does: a field that is empty or derived
\* from the id before is derived again.
Rederived(text, before, now) == IF text \in {None, before} THEN now ELSE text

\* setFormTracked, for a new id.
WithId(form, auto, id) ==
    LET now == AutoSnapshot(id, form.type) IN
    [id |-> id, type |-> form.type, next |-> form.next, transitions |-> form.transitions,
     title |-> Rederived(form.title, auto.title, now.title),
     path |-> Rederived(form.path, auto.path, now.path)]

\* rederive with force, for an id that is set: only what is empty is derived.
Filled(form) ==
    LET auto == AutoSnapshot(form.id, form.type) IN
    [form EXCEPT !.title = Rederived(@, None, auto.title),
                 !.path = Rederived(@, None, auto.path)]

\* The select of the type: all but the id and its title is reset.
WithType(form, type) ==
    Filled([EmptyForm(type) EXCEPT !.id = form.id, !.title = Ref(form.id)])

\* buildNodeFields: a form of another kind drops a next or transitions that
\* the node was given by a connection.
NodeOf(form) ==
    [id |-> form.id, type |-> form.type, title |-> form.title,
     path |-> IF HasPath(form.type) THEN form.path ELSE None,
     next |-> IF HasNext(form.type) THEN form.next ELSE None,
     transitions |-> IF HasTransitions(form.type) THEN form.transitions ELSE {}]

----------------------------------------------------------------------------
(* The reducer.  Of positions, the nodes that have one are kept.           *)

Doc(states, initial, placed, dirty) ==
    [states |-> states, initial |-> initial, placed |-> placed, dirty |-> dirty]
EmptyDoc == Doc([s \in {} |-> None], None, {}, FALSE)
NodeId(doc) == DOMAIN doc.states
WithNode(states, id, node) ==
    [s \in DOMAIN states \cup {id} |-> IF s = id THEN node ELSE states[s]]
WithLinks(node, next, transitions) ==
    [id |-> node.id, type |-> node.type, title |-> node.title, path |-> node.path,
     next |-> next, transitions |-> transitions]

Loaded(content) == Doc(content.states, content.initial, content.placed, FALSE)
Saved(doc) == Doc(doc.states, doc.initial, doc.placed, FALSE)

Unlinked(node, id) ==
    WithLinks(node, IF node.next = id THEN None ELSE node.next,
              {t \in node.transitions : t.next # id})

\* Mutant of RemoveNode: transitions to the node are not looked for.
RemoveNodeOnly(doc, id) ==
    Doc([s \in NodeId(doc) \ {id} |->
            WithLinks(doc.states[s],
                      IF doc.states[s].next = id THEN None ELSE doc.states[s].next,
                      doc.states[s].transitions)],
        IF doc.initial = id THEN None ELSE doc.initial,
        doc.placed \ {id}, TRUE)

RemoveNode(doc, id) ==
    Doc([s \in NodeId(doc) \ {id} |-> Unlinked(doc.states[s], id)],
        IF doc.initial = id THEN None ELSE doc.initial,
        doc.placed \ {id}, TRUE)

\* A node that has the id already is replaced.
AddNode(doc, form) ==
    Doc(WithNode(doc.states, form.id, NodeOf(form)),
        IF doc.initial = None THEN form.id ELSE doc.initial,
        doc.placed \cup {form.id}, TRUE)

Retargeted(node, old, new) ==
    WithLinks(node, IF node.next = old THEN new ELSE node.next,
              {[when |-> t.when, next |-> IF t.next = old THEN new ELSE t.next] :
                  t \in node.transitions})

\* Other nodes follow a rename; the form may still lead to the old id.  A node
\* that has the new id already is replaced.
EditNode(doc, id, form) ==
    IF id = form.id
    THEN Doc(WithNode(doc.states, id, NodeOf(form)), doc.initial, doc.placed, TRUE)
    ELSE Doc(WithNode([s \in NodeId(doc) \ {id} |->
                          Retargeted(doc.states[s], id, Ref(form.id))],
                      Key(form.id), NodeOf(form)),
             IF doc.initial = id THEN Ref(form.id) ELSE doc.initial,
             (doc.placed \ {id}) \cup {Key(form.id)}, TRUE)

Relinked(doc, from, next, transitions) ==
    Doc(WithNode(doc.states, from, WithLinks(doc.states[from], next, transitions)),
        doc.initial, doc.placed, TRUE)

AddTransition(doc, from, to, when) ==
    IF from \notin NodeId(doc) THEN doc
    ELSE IF when = NoWhen THEN Relinked(doc, from, to, {})
    ELSE Relinked(doc, from, None,
                  {t \in doc.states[from].transitions : t.next # to}
                  \cup {[when |-> when, next |-> to]})

RemoveEdge(doc, from, to, when) ==
    LET node == doc.states[from] IN
    IF from \notin NodeId(doc) THEN doc
    ELSE IF node.transitions # {}
    THEN Relinked(doc, from, node.next,
                  node.transitions \ {[when |-> when, next |-> to]})
    ELSE Relinked(doc, from, IF node.next = to THEN None ELSE node.next, {})

EditEdge(doc, from, to, old, when) ==
    LET node == doc.states[from] IN
    IF from \notin NodeId(doc) THEN doc
    ELSE IF node.transitions # {}
    THEN Relinked(doc, from, node.next,
                  {IF t = [when |-> old, next |-> to]
                   THEN [when |-> when, next |-> to] ELSE t : t \in node.transitions})
    ELSE IF node.next = to
    THEN Relinked(doc, from, None, {[when |-> when, next |-> to]})
    ELSE Relinked(doc, from, node.next, {})

\* A node that is gone may still be dragged.
MoveNode(doc, id) == Doc(doc.states, doc.initial, doc.placed \cup {id}, TRUE)

Clear(doc) == Doc([s \in {} |-> None], None, {}, TRUE)

----------------------------------------------------------------------------
(* What the canvas draws.                                                  *)

\* toGraphEdges, as pairs of a target and a condition.
EdgesFrom(node) ==
    IF node.transitions # {}
    THEN {[to |-> t.next, when |-> t.when] : t \in node.transitions}
    ELSE {[to |-> n, when |-> NoWhen] : n \in {node.next} \ {None}}

Targets(node) == {t.next : t \in node.transitions} \cup ({node.next} \ {None})
===============================================================================
