----------------------------- MODULE StudioProofs -----------------------------
(***************************************************************************)
(* What the Studio guarantees: first of its drafts (Studio), then of its   *)
(* files (StudioFiles).                                                    *)
(*                                                                         *)
(* No edge of a draft of the Studio leads nowhere, but to a target that a  *)
(* dialog submitted when no node had its id (strayed): for every set of    *)
(* ids and workflows, and for any number of acts.  The invariant is not    *)
(* inductive on the document alone, as loads replace it by what earlier    *)
(* saves stored: it has to hold of every draft that is anywhere.           *)
(* And the dialogs of nodes keep what the user wrote and follow the id,    *)
(* but for paths that a composer set late (overtaken).  What makes them is *)
(* again said of the nodes of every draft, as a dialog may open on any.    *)
(***************************************************************************)
EXTENDS Studio, StudioFiles, TLAPS, FiniteSetTheorems

\* Resolved, of a content and a set of targets that may have no node.
Sound(content, stray) ==
    /\ \A s \in NodeId(content) :
          Targets(content.states[s]) \subseteq NodeId(content) \cup stray
    /\ content.initial \in NodeId(content) \cup {None}

\* What is stored or on its way is not there, has no states or is sound.
Kept(content) == content \notin {NoDoc, Bare} => Sound(content, strayed)

\* The inductive invariant: the drafts on display, in the store, in a save and
\* in the answers to loads, and what tells where the latter two belong.
DraftsSound ==
    /\ doc # NoDoc => Sound(doc, strayed)
    /\ \A w \in Workflow : w \in DOMAIN stored /\ Kept(stored[w])
    /\ \A l \in loads : Kept(l.content) /\ l.of \in Workflow
    /\ Kept(saving.content) /\ "content" \in DOMAIN saving
    /\ name \in Workflow \cup {None}

----------------------------------------------------------------------------
(* Facts about documents.                                                  *)

\* Soundness is the property Resolved of the runs, for the targets that strayed.
LEMMA SoundResolves ==
    ASSUME NEW content, NEW stray, Sound(content, stray)
    PROVE  /\ Dangling(content) \subseteq stray
           /\ content.initial \in NodeId(content) \cup {None}
<1>1. ASSUME NEW t, t \in Dangling(content)
      PROVE  t \in stray
  <2>1. PICK s \in NodeId(content) : t \in Targets(content.states[s])
    BY <1>1 DEF Dangling
  <2>2. t \notin NodeId(content)
    BY <1>1 DEF Dangling
  <2> QED BY <2>1, <2>2 DEF Sound
<1> QED BY <1>1 DEF Sound

\* The contents that are there before are sound.
LEMMA PackageSound ==
    ASSUME NEW content, content \in Packages, NEW stray
    PROVE  Sound(content, stray)
<1>1. Dangling(content) = {} /\ content.initial \in NodeId(content) \cup {None}
  BY StudioAssumption
<1>2. ASSUME NEW s, s \in NodeId(content), NEW t, t \in Targets(content.states[s])
      PROVE  t \in NodeId(content)
  BY <1>1, <1>2 DEF Dangling
<1> QED BY <1>1, <1>2 DEF Sound

\* More targets may stray, and none has to be looked at again.
LEMMA SoundGrows ==
    ASSUME NEW content, NEW stray, NEW more, Sound(content, stray), stray \subseteq more
    PROVE  Sound(content, more)
BY DEF Sound

\* An empty draft has no edges.
LEMMA EmptySound ==
    ASSUME NEW stray
    PROVE  Sound(EmptyDoc, stray)
BY DEF Sound, EmptyDoc, Doc, NodeId

\* What a load shows and a save sends is the draft it was given.
LEMMA SameDraftSound ==
    ASSUME NEW content, NEW stray, Sound(content, stray)
    PROVE  Sound(Loaded(content), stray) /\ Sound(Saved(content), stray)
BY DEF Sound, Loaded, Saved, Doc, NodeId

\* The states of a content with one node entered or replaced.
LEMMA WithNodeDomain ==
    ASSUME NEW states, NEW id, NEW node
    PROVE  DOMAIN WithNode(states, id, node) = DOMAIN states \cup {id}
BY DEF WithNode

\* The node that is entered.
LEMMA WithNodeAt ==
    ASSUME NEW states, NEW id, NEW node
    PROVE  WithNode(states, id, node)[id] = node
BY DEF WithNode

\* The other nodes stay as they are.
LEMMA WithNodeElsewhere ==
    ASSUME NEW states, NEW id, NEW node, NEW s, s \in DOMAIN states, s # id
    PROVE  WithNode(states, id, node)[s] = states[s]
BY DEF WithNode

\* Targets of a node whose links are given.
LEMMA LinkTargets ==
    ASSUME NEW node, NEW next, NEW transitions
    PROVE  Targets(WithLinks(node, next, transitions)) =
               {t.next : t \in transitions} \cup ({next} \ {None})
BY DEF Targets, WithLinks

----------------------------------------------------------------------------
(* The reducer.                                                            *)

\* A removal: no other node keeps a link to the node.
LEMMA RemoveNodeSound ==
    ASSUME NEW content, NEW stray, NEW id, Sound(content, stray)
    PROVE  Sound(RemoveNode(content, id), stray)
<1> DEFINE new == RemoveNode(content, id)
<1>1. NodeId(new) = NodeId(content) \ {id}
  BY DEF RemoveNode, Doc, NodeId
<1>2. new.initial \in NodeId(new) \cup {None}
  BY <1>1 DEF RemoveNode, Doc, Sound
<1>3. ASSUME NEW s, s \in NodeId(new)
      PROVE  Targets(new.states[s]) \subseteq NodeId(new) \cup stray
  <2>1. new.states[s] = Unlinked(content.states[s], id)
    BY <1>1, <1>3 DEF RemoveNode, Doc
  <2>2. Targets(new.states[s]) \subseteq Targets(content.states[s]) \ {id}
    BY <2>1 DEF Unlinked, Targets, WithLinks
  <2>3. Targets(content.states[s]) \subseteq NodeId(content) \cup stray
    BY <1>1, <1>3 DEF Sound
  <2> QED BY <2>2, <2>3, <1>1
<1> QED BY <1>2, <1>3 DEF Sound

\* A node is entered: only its own targets may be new.
LEMMA AddNodeSound ==
    ASSUME NEW content, NEW stray, NEW form, Sound(content, stray)
    PROVE  LET new == AddNode(content, form)
           IN  Sound(new, stray \cup (Targets(NodeOf(form)) \ NodeId(new)))
<1> DEFINE new == AddNode(content, form)
           more == stray \cup (Targets(NodeOf(form)) \ NodeId(new))
<1>1. new.states = WithNode(content.states, form.id, NodeOf(form))
  BY DEF AddNode, Doc
<1>2. NodeId(new) = NodeId(content) \cup {form.id}
  <2> DEFINE states == content.states
             node == NodeOf(form)
  <2>1. new.states = WithNode(states, form.id, node)
    BY <1>1
  <2> HIDE DEF new, states, node
  <2>2. DOMAIN new.states = DOMAIN states \cup {form.id}
    BY <2>1, WithNodeDomain
  <2> QED BY <2>2 DEF NodeId, states
<1>3. new.initial \in NodeId(new) \cup {None}
  BY <1>2 DEF AddNode, Doc, Sound
<1>4. ASSUME NEW s, s \in NodeId(new)
      PROVE  Targets(new.states[s]) \subseteq NodeId(new) \cup more
  <2>1. CASE s = form.id
    BY <2>1, <1>1, WithNodeAt
  <2>2. CASE s # form.id
    <3>1. s \in NodeId(content) /\ new.states[s] = content.states[s]
      BY <1>4, <2>2, <1>1, <1>2, WithNodeElsewhere DEF NodeId
    <3> QED BY <3>1, <1>2 DEF Sound
  <2> QED BY <2>1, <2>2
<1> HIDE DEF new, more
<1>5. Sound(new, more)
  BY <1>3, <1>4 DEF Sound
<1> QED BY <1>5 DEF new, more

\* A node is edited.  If it is renamed, what led to its old id leads to the new
\* one, or to none if its id is still missing.
LEMMA EditNodeSound ==
    ASSUME NEW content, NEW stray, NEW id, NEW form, Sound(content, stray)
    PROVE  LET new == EditNode(content, id, form)
           IN  Sound(new, stray \cup (Targets(NodeOf(form)) \ NodeId(new))
                          \cup ({Ref(form.id)} \cap {None}))
<1> DEFINE new == EditNode(content, id, form)
           more == stray \cup (Targets(NodeOf(form)) \ NodeId(new))
                   \cup ({Ref(form.id)} \cap {None})
<1>1. CASE id = form.id
  <2>1. new.states = WithNode(content.states, id, NodeOf(form)) /\ new.initial = content.initial
    BY <1>1 DEF EditNode, Doc
  <2>2. NodeId(new) = NodeId(content) \cup {id}
    <3> DEFINE states == content.states
               node == NodeOf(form)
    <3>1. new.states = WithNode(states, id, node)
      BY <2>1
    <3> HIDE DEF new, states, node
    <3>2. DOMAIN new.states = DOMAIN states \cup {id}
      BY <3>1, WithNodeDomain
    <3> QED BY <3>2 DEF NodeId, states
  <2>3. ASSUME NEW s, s \in NodeId(new)
        PROVE  Targets(new.states[s]) \subseteq NodeId(new) \cup more
    <3>1. CASE s = id
      BY <3>1, <2>1, WithNodeAt
    <3>2. CASE s # id
      <4>1. s \in NodeId(content) /\ new.states[s] = content.states[s]
        BY <2>3, <3>2, <2>1, <2>2, WithNodeElsewhere DEF NodeId
      <4> QED BY <4>1, <2>2 DEF Sound
    <3> QED BY <3>1, <3>2
  <2>4. new.initial \in NodeId(new) \cup {None}
    BY <2>1, <2>2 DEF Sound
  <2> HIDE DEF new, more
  <2>5. Sound(new, more)
    BY <2>3, <2>4 DEF Sound
  <2> QED BY <2>5 DEF new, more
<1>2. CASE id # form.id
  <2> DEFINE others == [s \in NodeId(content) \ {id} |->
                           Retargeted(content.states[s], id, Ref(form.id))]
  <2>1. /\ new.states = WithNode(others, Key(form.id), NodeOf(form))
        /\ new.initial = IF content.initial = id THEN Ref(form.id) ELSE content.initial
    BY <1>2 DEF EditNode, Doc
  <2>2. NodeId(new) = (NodeId(content) \ {id}) \cup {Key(form.id)}
    <3> DEFINE key == Key(form.id)
               node == NodeOf(form)
    <3>1. new.states = WithNode(others, key, node)
      BY <2>1
    <3>2. DOMAIN others = NodeId(content) \ {id}
      OBVIOUS
    <3> HIDE DEF new, others, key, node
    <3>3. DOMAIN new.states = DOMAIN others \cup {key}
      BY <3>1, WithNodeDomain
    <3> QED BY <3>2, <3>3 DEF NodeId, key
  <2>3. Ref(form.id) \in NodeId(new) \cup ({Ref(form.id)} \cap {None})
    BY <2>2 DEF Ref, Key
  <2>4. new.initial \in NodeId(new) \cup {None}
    BY <2>1, <2>2, <2>3 DEF Sound
  <2>5. ASSUME NEW s, s \in NodeId(new)
        PROVE  Targets(new.states[s]) \subseteq NodeId(new) \cup more
    <3>1. CASE s = Key(form.id)
      BY <3>1, <2>1, WithNodeAt
    <3>2. CASE s # Key(form.id)
      <4>1. s \in NodeId(content) \ {id}
        BY <2>5, <3>2, <2>2
      <4>2. new.states[s] = Retargeted(content.states[s], id, Ref(form.id))
        BY <3>2, <4>1, <2>1, WithNodeElsewhere
      <4>3. Targets(new.states[s]) \subseteq
                (Targets(content.states[s]) \ {id}) \cup {Ref(form.id)}
        BY <4>2 DEF Retargeted, Targets, WithLinks
      <4>4. Targets(content.states[s]) \subseteq NodeId(content) \cup stray
        BY <4>1 DEF Sound
      <4>5. Targets(content.states[s]) \ {id} \subseteq NodeId(new) \cup stray
        BY <4>4, <2>2
      <4> QED BY <4>3, <4>5, <2>3
    <3> QED BY <3>1, <3>2
  <2> HIDE DEF new, more
  <2>6. Sound(new, more)
    BY <2>4, <2>5 DEF Sound
  <2> QED BY <2>6 DEF new, more
<1> QED BY <1>1, <1>2

\* The links of a node are replaced by links that lead somewhere.
LEMMA RelinkedSound ==
    ASSUME NEW content, NEW stray, NEW from, from \in NodeId(content), NEW next, NEW transitions,
           Sound(content, stray),
           {t.next : t \in transitions} \cup ({next} \ {None})
               \subseteq NodeId(content) \cup stray
    PROVE  /\ Sound(Relinked(content, from, next, transitions), stray)
           /\ NodeId(Relinked(content, from, next, transitions)) = NodeId(content)
<1> DEFINE new == Relinked(content, from, next, transitions)
           node == WithLinks(content.states[from], next, transitions)
<1>1. new.states = WithNode(content.states, from, node) /\ new.initial = content.initial
  BY DEF Relinked, Doc
<1>2. NodeId(new) = NodeId(content)
  <2> DEFINE states == content.states
  <2>1. new.states = WithNode(states, from, node)
    BY <1>1
  <2> HIDE DEF new, states, node
  <2>2. DOMAIN new.states = DOMAIN states \cup {from}
    BY <2>1, WithNodeDomain
  <2> QED BY <2>2 DEF NodeId, states
<1>3. ASSUME NEW s, s \in NodeId(new)
      PROVE  Targets(new.states[s]) \subseteq NodeId(new) \cup stray
  <2>1. CASE s = from
    <3>1. new.states[s] = node
      BY <2>1, <1>1, WithNodeAt
    <3> QED BY <3>1, <1>2, LinkTargets
  <2>2. CASE s # from
    <3>1. s \in NodeId(content) /\ new.states[s] = content.states[s]
      BY <1>3, <2>2, <1>1, <1>2, WithNodeElsewhere DEF NodeId
    <3> QED BY <3>1, <1>2 DEF Sound
  <2> QED BY <2>1, <2>2
<1>4. new.initial \in NodeId(new) \cup {None}
  BY <1>1, <1>2 DEF Sound
<1> HIDE DEF new
<1>5. Sound(new, stray)
  BY <1>3, <1>4 DEF Sound
<1> QED BY <1>2, <1>5 DEF new

\* A node's own links lead somewhere, each kind of them.
LEMMA LinksSound ==
    ASSUME NEW content, NEW stray, NEW from, from \in NodeId(content), Sound(content, stray)
    PROVE  /\ {t.next : t \in content.states[from].transitions}
                   \subseteq NodeId(content) \cup stray
           /\ {content.states[from].next} \ {None} \subseteq NodeId(content) \cup stray
BY DEF Sound, Targets

\* A connection on the canvas: only its own target may be new.
LEMMA AddTransitionSound ==
    ASSUME NEW content, NEW stray, NEW from, NEW to, NEW when, Sound(content, stray)
    PROVE  LET new == AddTransition(content, from, to, when)
           IN  Sound(new, stray \cup ({to} \ NodeId(new)))
<1> DEFINE new == AddTransition(content, from, to, when)
           more == stray \cup ({to} \ NodeId(content))
           node == content.states[from]
           others == {t \in node.transitions : t.next # to}
<1>0. Sound(content, more)
  BY SoundGrows
<1>1. CASE from \notin NodeId(content)
  BY <1>1, <1>0 DEF AddTransition
<1>2. CASE from \in NodeId(content) /\ when = NoWhen
  <2>1. {t.next : t \in {}} \cup ({to} \ {None}) \subseteq NodeId(content) \cup more
    OBVIOUS
  <2>2. new = Relinked(content, from, to, {})
    BY <1>2 DEF AddTransition
  <2> HIDE DEF new, more
  <2>3. Sound(new, more) /\ NodeId(new) = NodeId(content)
    BY <1>0, <1>2, <2>1, <2>2, RelinkedSound
  <2> QED BY <2>3 DEF new, more
<1>3. CASE from \in NodeId(content) /\ when # NoWhen
  <2> DEFINE all == others \cup {[when |-> when, next |-> to]}
  <2>1. {t.next : t \in node.transitions} \subseteq NodeId(content) \cup more
    BY <1>0, <1>3, LinksSound
  <2>2. {t.next : t \in all} \cup ({None} \ {None}) \subseteq NodeId(content) \cup more
    BY <2>1
  <2>3. new = Relinked(content, from, None, all)
    BY <1>3 DEF AddTransition
  <2> HIDE DEF new, more, all
  <2>4. Sound(new, more) /\ NodeId(new) = NodeId(content)
    BY <1>0, <1>3, <2>2, <2>3, RelinkedSound
  <2> QED BY <2>4 DEF new, more
<1> QED BY <1>1, <1>2, <1>3

\* An edge is taken away.
LEMMA RemoveEdgeSound ==
    ASSUME NEW content, NEW stray, NEW from, NEW to, NEW when, Sound(content, stray)
    PROVE  Sound(RemoveEdge(content, from, to, when), stray)
<1> DEFINE node == content.states[from]
           fewer == node.transitions \ {[when |-> when, next |-> to]}
           next == IF node.next = to THEN None ELSE node.next
<1>1. CASE from \notin NodeId(content)
  BY <1>1 DEF RemoveEdge
<1>2. CASE from \in NodeId(content)
  <2>1. /\ {t.next : t \in node.transitions} \subseteq NodeId(content) \cup stray
        /\ {node.next} \ {None} \subseteq NodeId(content) \cup stray
    BY <1>2, LinksSound
  <2>2. {t.next : t \in fewer} \cup ({node.next} \ {None}) \subseteq NodeId(content) \cup stray
    BY <2>1
  <2>3. {t.next : t \in {}} \cup ({next} \ {None}) \subseteq NodeId(content) \cup stray
    BY <2>1
  <2>4. CASE node.transitions # {}
    <3>1. RemoveEdge(content, from, to, when) = Relinked(content, from, node.next, fewer)
      BY <1>2, <2>4 DEF RemoveEdge
    <3> HIDE DEF fewer
    <3> QED BY <3>1, <1>2, <2>2, RelinkedSound
  <2>5. CASE node.transitions = {}
    <3>1. RemoveEdge(content, from, to, when) = Relinked(content, from, next, {})
      BY <1>2, <2>5 DEF RemoveEdge
    <3> HIDE DEF next
    <3> QED BY <3>1, <1>2, <2>3, RelinkedSound
  <2> QED BY <2>4, <2>5
<1> QED BY <1>1, <1>2

\* The condition of an edge is edited, which keeps its target.
LEMMA EditEdgeSound ==
    ASSUME NEW content, NEW stray, NEW from, NEW to, NEW old, NEW when,
           Sound(content, stray), content.states[from].transitions = {} => to # None
    PROVE  Sound(EditEdge(content, from, to, old, when), stray)
<1> DEFINE node == content.states[from]
           edit(t) == IF t = [when |-> old, next |-> to]
                      THEN [when |-> when, next |-> to] ELSE t
           edited == {edit(t) : t \in node.transitions}
           one == {[when |-> when, next |-> to]}
<1>1. CASE from \notin NodeId(content)
  BY <1>1 DEF EditEdge
<1>2. CASE from \in NodeId(content)
  <2>1. /\ {t.next : t \in node.transitions} \subseteq NodeId(content) \cup stray
        /\ {node.next} \ {None} \subseteq NodeId(content) \cup stray
    BY <1>2, LinksSound
  <2>2. CASE node.transitions # {}
    <3>1. ASSUME NEW t, t \in node.transitions
          PROVE  edit(t).next = t.next
      OBVIOUS
    <3>2. {t.next : t \in edited} \cup ({node.next} \ {None}) \subseteq NodeId(content) \cup stray
      BY <2>1, <3>1
    <3>3. EditEdge(content, from, to, old, when) = Relinked(content, from, node.next, edited)
      BY <1>2, <2>2 DEF EditEdge
    <3> HIDE DEF edited
    <3> QED BY <3>2, <3>3, <1>2, RelinkedSound
  <2>3. CASE node.transitions = {} /\ node.next = to
    <3>1. {t.next : t \in one} \cup ({None} \ {None}) \subseteq NodeId(content) \cup stray
      BY <2>1, <2>3
    <3>2. EditEdge(content, from, to, old, when) = Relinked(content, from, None, one)
      BY <1>2, <2>3 DEF EditEdge
    <3> HIDE DEF one
    <3> QED BY <3>1, <3>2, <1>2, RelinkedSound
  <2>4. CASE node.transitions = {} /\ node.next # to
    <3>1. {t.next : t \in {}} \cup ({node.next} \ {None}) \subseteq NodeId(content) \cup stray
      BY <2>1
    <3>2. EditEdge(content, from, to, old, when) = Relinked(content, from, node.next, {})
      BY <1>2, <2>4 DEF EditEdge
    <3> QED BY <3>1, <3>2, <1>2, RelinkedSound
  <2> QED BY <2>2, <2>3, <2>4
<1> QED BY <1>1, <1>2

\* Neither a drag nor the end of all nodes makes an edge.
LEMMA MoveAndClearSound ==
    ASSUME NEW content, NEW stray, NEW id, Sound(content, stray)
    PROVE  Sound(MoveNode(content, id), stray) /\ Sound(Clear(content), stray)
BY DEF Sound, MoveNode, Clear, Doc, NodeId

----------------------------------------------------------------------------
(* The specification.                                                      *)

\* Whatever was loaded or stored when more targets had strayed is still sound.
LEMMA KeptGrows ==
    ASSUME NEW content, NEW stray, NEW more, stray \subseteq more,
           content \notin {NoDoc, Bare} => Sound(content, stray)
    PROVE  content \notin {NoDoc, Bare} => Sound(content, more)
BY SoundGrows

\* A step that touches neither drafts on the way nor the name keeps the
\* invariant if it leaves the document sound.
LEMMA DocumentStep ==
    ASSUME DraftsSound, UNCHANGED traffic, strayed \subseteq strayed',
           Sound(doc', strayed') \/ doc' = doc
    PROVE  DraftsSound'
<1>1. /\ stored' = stored /\ name' = name /\ saving' = saving /\ loads' = loads
  BY DEF traffic
<1>2. \A w \in Workflow : w \in DOMAIN stored
               /\ (stored[w] \notin {NoDoc, Bare} => Sound(stored[w], strayed'))
  BY KeptGrows DEF DraftsSound, Kept
<1>3. \A l \in loads : l.content \notin {NoDoc, Bare} => Sound(l.content, strayed')
  BY KeptGrows DEF DraftsSound, Kept
<1>4. /\ saving.content \notin {NoDoc, Bare} => Sound(saving.content, strayed')
      /\ "content" \in DOMAIN saving
  BY KeptGrows DEF DraftsSound, Kept
<1>5. (\A l \in loads : l.of \in Workflow) /\ name \in Workflow \cup {None}
  BY DEF DraftsSound
<1>6. doc' # NoDoc => Sound(doc', strayed')
  <2>1. CASE doc' = doc
    BY <2>1, SoundGrows DEF DraftsSound
  <2> QED BY <2>1
<1> QED BY <1>1, <1>2, <1>3, <1>4, <1>5, <1>6 DEF DraftsSound, Kept

\* The invariant holds of a Studio that is opened.
LEMMA InitDraftsSound == StudioInit => DraftsSound
<1> SUFFICES ASSUME StudioInit PROVE DraftsSound
  OBVIOUS
<1>1. \A w \in Workflow : w \in DOMAIN stored /\ stored[w] \in Packages \cup {NoDoc, Bare}
  BY DEF StudioInit
<1>2. \A w \in Workflow : w \in DOMAIN stored /\ Kept(stored[w])
  BY <1>1, PackageSound DEF Kept
<1>3. doc = NoDoc /\ Kept(saving.content) /\ "content" \in DOMAIN saving
  BY DEF StudioInit, Kept, NoSave
<1>4. \A l \in loads : Kept(l.content) /\ l.of \in Workflow
  BY DEF StudioInit, Kept, Asked
<1>5. name \in Workflow \cup {None}
  BY DEF StudioInit
<1> QED BY <1>2, <1>3, <1>4, <1>5 DEF DraftsSound

\* The dialog of a node changes the document when it is submitted, and then
\* what it leads to without a node has strayed.
LEMMA FormsKeep == DraftsSound /\ Forms => DraftsSound'
<1> SUFFICES ASSUME DraftsSound, Forms PROVE DraftsSound'
  OBVIOUS
<1>1. CASE Submit
  <2>1. doc # NoDoc /\ Sound(doc, strayed)
    BY <1>1 DEF Submit, FormOpen, DraftsSound, Kept
  <2>2. UNCHANGED traffic /\ strayed \subseteq strayed'
    BY <1>1 DEF Submit
  <2>3. CASE modal.kind = "add"
    <3>1. doc' = AddNode(doc, modal.form)
      BY <1>1, <2>3 DEF Submit
    <3>2. Sound(doc', strayed \cup (Targets(NodeOf(modal.form)) \ NodeId(doc')))
      BY <2>1, <3>1, AddNodeSound
    <3>3. strayed \cup (Targets(NodeOf(modal.form)) \ NodeId(doc')) \subseteq strayed'
      BY <1>1 DEF Submit
    <3>4. Sound(doc', strayed')
      BY <3>2, <3>3, SoundGrows
    <3> QED BY <2>2, <3>4, DocumentStep
  <2>4. CASE modal.kind # "add"
    <3> DEFINE more == strayed \cup (Targets(NodeOf(modal.form)) \ NodeId(doc'))
                       \cup ({Ref(modal.form.id)} \cap {None})
    <3>1. doc' = EditNode(doc, modal.of, modal.form)
      BY <1>1, <2>4 DEF Submit
    <3>2. Sound(doc', more)
      BY <2>1, <3>1, EditNodeSound
    <3>3. strayed' = more
      BY <1>1 DEF Submit
    <3>4. Sound(doc', strayed')
      BY <3>2, <3>3
    <3> QED BY <2>2, <3>4, DocumentStep
  <2> QED BY <2>3, <2>4
<1>2. CASE UNCHANGED <<traffic, doc, strayed>>
  BY <1>2, DocumentStep
<1>3. ASSUME NEW s, ComposeDone(s) PROVE UNCHANGED <<traffic, doc, strayed>>
  BY <1>3 DEF ComposeDone
<1>4. Submit \/ UNCHANGED <<traffic, doc, noted>> \/ \E s : ComposeDone(s)
  BY DEF Forms, OpenAdd, CloseModal, ComposeSave, AddFormTransition, OpenEdit, SetId,
         SetNext, TypeText, SetType, SetFormTransition, RemoveFormTransition, Dialog, Opens
<1> QED BY <1>1, <1>2, <1>3, <1>4 DEF noted

\* The canvas: nothing it does makes an edge that leads nowhere, but for a
\* connection whose target was removed by a load.
LEMMA DrawingKeeps == DraftsSound /\ Drawing => DraftsSound'
<1> SUFFICES ASSUME DraftsSound, Drawing PROVE DraftsSound'
  OBVIOUS
<1>1. ASSUME NEW id, DeleteNode(id) PROVE DraftsSound'
  <2>1. Sound(doc, strayed)
    BY <1>1 DEF DeleteNode, Canvas, OnCanvas, DraftsSound, Kept
  <2>2. UNCHANGED traffic /\ strayed' = strayed /\ doc' = RemoveNode(doc, id)
    BY <1>1 DEF DeleteNode, Canvas
  <2>3. Sound(doc', strayed')
    BY <2>1, <2>2, RemoveNodeSound
  <2> QED BY <2>2, <2>3, DocumentStep
<1>2. ASSUME NEW id, NEW edge, DeleteEdge(id, edge) PROVE DraftsSound'
  <2>1. Sound(doc, strayed)
    BY <1>2 DEF DeleteEdge, Canvas, OnCanvas, DraftsSound, Kept
  <2>2. UNCHANGED traffic /\ strayed' = strayed
        /\ doc' = RemoveEdge(doc, id, edge.to, edge.when)
    BY <1>2 DEF DeleteEdge, Canvas
  <2>3. Sound(doc', strayed')
    BY <2>1, <2>2, RemoveEdgeSound
  <2> QED BY <2>2, <2>3, DocumentStep
<1>3. ASSUME NEW id, NEW edge, NEW when, EditWhen(id, edge, when) PROVE DraftsSound'
  <2>1. Sound(doc, strayed)
    BY <1>3 DEF EditWhen, Canvas, OnCanvas, DraftsSound, Kept
  <2>2. UNCHANGED traffic /\ strayed' = strayed
        /\ doc' = EditEdge(doc, id, edge.to, edge.when, when)
    BY <1>3 DEF EditWhen, Canvas
  <2>3. doc.states[id].transitions = {} => edge.to # None
    BY <1>3 DEF EditWhen, EdgesFrom
  <2>4. Sound(doc', strayed')
    BY <2>1, <2>2, <2>3, EditEdgeSound
  <2> QED BY <2>2, <2>4, DocumentStep
<1>4. ASSUME NEW when, Connect(when) PROVE DraftsSound'
  <2>1. Sound(doc, strayed)
    BY <1>4 DEF Connect, DraftsSound, Kept
  <2>2. UNCHANGED traffic /\ doc' = AddTransition(doc, connect.from, connect.to, when)
    BY <1>4 DEF Connect
  <2>3. strayed' = strayed \cup ({connect.to} \ NodeId(doc'))
    BY <1>4 DEF Connect
  <2>4. Sound(doc', strayed')
    BY <2>1, <2>2, <2>3, AddTransitionSound
  <2> QED BY <2>2, <2>3, <2>4, DocumentStep
<1>5. CASE Move
  <2>1. Sound(doc, strayed)
    BY <1>5 DEF Move, OnCanvas, DraftsSound, Kept
  <2>2. UNCHANGED traffic /\ strayed' = strayed /\ doc' = MoveNode(doc, drag)
    BY <1>5 DEF Move, noted
  <2>3. Sound(doc', strayed')
    BY <2>1, <2>2, MoveAndClearSound
  <2> QED BY <2>2, <2>3, DocumentStep
<1>6. CASE ClearCanvas
  <2>1. Sound(doc, strayed)
    BY <1>6 DEF ClearCanvas, Canvas, OnCanvas, DraftsSound, Kept
  <2>2. UNCHANGED traffic /\ strayed' = strayed /\ doc' = Clear(doc)
    BY <1>6 DEF ClearCanvas, Canvas
  <2>3. Sound(doc', strayed')
    BY <2>1, <2>2, MoveAndClearSound
  <2> QED BY <2>2, <2>3, DocumentStep
<1>7. ASSUME UNCHANGED <<traffic, doc, strayed>> PROVE DraftsSound'
  BY <1>7, DocumentStep
<1>8. ASSUME NEW id, StartConnect(id) \/ PickTarget(id) \/ Grab(id) \/ CancelConnect
      PROVE  UNCHANGED <<traffic, doc, strayed>>
  BY <1>8 DEF StartConnect, PickTarget, Grab, Canvas, CancelConnect, noted
<1> QED BY <1>1, <1>2, <1>3, <1>4, <1>5, <1>6, <1>7, <1>8 DEF Drawing

\* Loads and saves carry sound drafts to and fro.
LEMMA TrafficKeeps ==
    ASSUME DraftsSound,
           \/ Save \/ ServeSave \/ SaveDone
           \/ \E l \in loads : ReadLoad(l) \/ LoadDone(l) \/ ViewThrows(l)
           \/ \E w \in Workflow : CreateWorkflow(w)
    PROVE  DraftsSound'
<1>1. CASE Save
  <2>1. Sound(doc, strayed)
    BY <1>1 DEF Save, OnCanvas, DraftsSound, Kept
  <2>2. Sound(saving'.content, strayed) /\ "content" \in DOMAIN saving'
    BY <1>1, <2>1, SameDraftSound DEF Save
  <2>3. /\ stored' = stored /\ name' = name /\ loads' = loads /\ doc' = doc
        /\ strayed' = strayed
    BY <1>1 DEF Save, noted
  <2> QED BY <2>1, <2>2, <2>3 DEF DraftsSound, Kept
<1>2. CASE ServeSave
  <2>1. /\ name' = name /\ loads' = loads /\ doc' = doc /\ strayed' = strayed
    BY <1>2 DEF ServeSave, noted
  <2>0. saving'.content = saving.content /\ "content" \in DOMAIN saving'
    <3>1. "content" \in DOMAIN saving
      BY DEF DraftsSound
    <3>2. PICK stage \in {"saved", "refused"} : saving' = [saving EXCEPT !.stage = stage]
      BY <1>2 DEF ServeSave
    <3> QED BY <3>1, <3>2
  <2>2. ASSUME NEW w, w \in Workflow
        PROVE  stored'[w] \in {stored[w], saving.content, Bare}
    <3>1. CASE stored' = stored
      BY <3>1
    <3>2. CASE stored' = [stored EXCEPT ![saving.of] = Cleaned(saving.content)]
      <4>1. w \in DOMAIN stored
        BY <2>2 DEF DraftsSound
      <4> QED BY <3>2, <4>1 DEF Cleaned
    <3> QED BY <1>2, <3>1, <3>2 DEF ServeSave
  <2>3. \A w \in Workflow : (w \in DOMAIN stored /\ Kept(stored[w]))'
    BY <1>2, <2>1, <2>2 DEF ServeSave, DraftsSound, Kept
  <2> QED BY <2>0, <2>1, <2>3 DEF DraftsSound, Kept
<1>3. CASE SaveDone
  <2>1. doc # NoDoc => Sound(doc, strayed) /\ Sound(Saved(doc), strayed)
    BY SameDraftSound DEF DraftsSound
  <2>2. (doc # NoDoc /\ doc' = Saved(doc)) \/ doc' = doc
    BY <1>3 DEF SaveDone
  <2>3. doc' # NoDoc => Sound(doc', strayed)
    BY <2>1, <2>2
  <2>4. /\ stored' = stored /\ name' = name /\ loads' = loads /\ strayed' = strayed
        /\ saving'.content = NoDoc /\ "content" \in DOMAIN saving'
    BY <1>3 DEF SaveDone, NoSave, noted
  <2> QED BY <2>3, <2>4 DEF DraftsSound, Kept
<1>4. ASSUME NEW l, l \in loads, ReadLoad(l)
      PROVE  DraftsSound'
  <2> DEFINE read == [of |-> l.of, stage |-> "read", content |-> stored[l.of]]
  <2>1. l.of \in Workflow /\ Kept(stored[l.of])
    BY <1>4 DEF DraftsSound
  <2>2. loads' = (loads \ {l}) \cup {read}
    BY <1>4 DEF ReadLoad
  <2>3. read.of = l.of /\ read.content = stored[l.of]
    OBVIOUS
  <2>4. /\ stored' = stored /\ name' = name /\ doc' = doc /\ saving' = saving
        /\ strayed' = strayed
    BY <1>4 DEF ReadLoad, noted
  <2> HIDE DEF read
  <2>5. \A k \in loads' : Kept(k.content) /\ k.of \in Workflow
    BY <2>1, <2>2, <2>3 DEF DraftsSound, Kept
  <2> QED BY <2>4, <2>5 DEF DraftsSound, Kept
<1>5. ASSUME NEW l, l \in loads, LoadDone(l)
      PROVE  DraftsSound'
  <2>1. PICK content \in {l.content, EmptyDoc} \ {NoDoc, Bare} : doc' = Loaded(content)
    BY <1>5 DEF LoadDone
  <2>2. Sound(content, strayed)
    BY <1>5, <2>1, EmptySound DEF DraftsSound, Kept
  <2>3. Sound(doc', strayed)
    BY <2>1, <2>2, SameDraftSound
  <2>4. /\ stored' = stored /\ name' = name /\ saving' = saving /\ strayed' = strayed
        /\ loads' = loads \ {l}
    BY <1>5 DEF LoadDone, noted
  <2> QED BY <2>3, <2>4 DEF DraftsSound, Kept
<1>6. ASSUME NEW w, w \in Workflow, CreateWorkflow(w)
      PROVE  DraftsSound'
  <2>1. /\ stored' = [stored EXCEPT ![w] = EmptyDoc] /\ name' = w
        /\ doc' = doc /\ saving' = saving /\ strayed' = strayed
    BY <1>6 DEF CreateWorkflow, noted
  <2>2. loads' \subseteq loads \cup {Asked(w)}
    BY <1>6 DEF CreateWorkflow
  <2>3. ASSUME NEW v, v \in Workflow
        PROVE  stored'[v] \in {stored[v], EmptyDoc}
    <3>1. v \in DOMAIN stored
      BY <2>3 DEF DraftsSound
    <3> QED BY <2>1, <3>1
  <2>4. \A v \in Workflow : (v \in DOMAIN stored /\ Kept(stored[v]))'
    BY <2>1, <2>3, EmptySound DEF DraftsSound, Kept
  <2>5. Asked(w).content = NoDoc /\ Asked(w).of = w
    BY DEF Asked
  <2>6. \A k \in loads' : Kept(k.content) /\ k.of \in Workflow
    BY <1>6, <2>2, <2>5 DEF DraftsSound, Kept
  <2> QED BY <1>6, <2>1, <2>4, <2>6 DEF DraftsSound, Kept
<1>7. ASSUME NEW l, ViewThrows(l)
      PROVE  DraftsSound'
  <2>1. /\ stored' = stored /\ saving' = saving /\ strayed' = strayed
        /\ doc' = NoDoc /\ loads' = {} /\ name' = None
    BY <1>7 DEF ViewThrows, noted
  <2> QED BY <2>1 DEF DraftsSound, Kept
<1> QED BY <1>1, <1>2, <1>3, <1>4, <1>5, <1>6, <1>7

\* The invariant is inductive.
LEMMA NextDraftsSound == DraftsSound /\ [StudioNext]_studioVars => DraftsSound'
<1>1. ASSUME DraftsSound, UNCHANGED studioVars PROVE DraftsSound'
  BY <1>1 DEF studioVars, traffic, noted, DraftsSound, Kept
<1> QED BY <1>1, FormsKeep, DrawingKeeps, TrafficKeeps DEF StudioNext

\* However nodes are added, renamed, removed and connected and whatever loads
\* replace the draft meanwhile, no operation of the reducer leaves an edge of
\* another node behind.  An edge may lead nowhere only if a dialog submitted its
\* target when no node had that id: a connection or a form over a draft that a
\* load has replaced, or a node that leads to itself and is renamed, whose own
\* links keep the old id (model.ts).  The initial state is always a node.
THEOREM EdgesAlwaysResolve == StudioSpec => []EdgesResolve
<1>1. DraftsSound => EdgesResolve
  BY SoundResolves DEF DraftsSound, EdgesResolve, Resolved
<1> QED BY <1>1, InitDraftsSound, NextDraftsSound, PTL DEF StudioSpec

\* The same of every draft that is stored: what is loaded after a save is as
\* sound as what was on display.  A draft may be saved with an edge that leads
\* nowhere if a dialog submitted it so, as the server refuses only completed ones.
StoreResolves == \A w \in Workflow : stored[w] \notin {NoDoc, Bare} => Resolved(stored[w])
THEOREM StoreAlwaysResolves == StudioSpec => []StoreResolves
<1>1. DraftsSound => StoreResolves
  BY SoundResolves DEF DraftsSound, Kept, StoreResolves, Resolved
<1> QED BY <1>1, InitDraftsSound, NextDraftsSound, PTL DEF StudioSpec

----------------------------------------------------------------------------
(* Forms.  A dialog tells a derived text from the user's own by what it     *)
(* noted when it derived it, so that note has to fit the form after every   *)
(* act; and a dialog opens on the texts that some draft carries, so those   *)
(* have to be derived from the id of their node wherever the draft is.      *)

FormFields == {"id", "type", "title", "path", "next", "transitions"}
TextFields == {"title", "path"}

\* A form or node that has its fields, each text of which is empty, the user's
\* own, derived from its id or, of paths, one that a composer set late.
WellFormed(form, late) ==
    /\ FormFields \subseteq DOMAIN form
    /\ form.id \in Id \cup {None, Missing}
    /\ form.title \in {None, Own, AutoSnapshot(form.id, form.type).title}
    /\ form.path \in {None, Own, AutoSnapshot(form.id, form.type).path} \cup late

\* All nodes of a draft are, if it is there.
AllFormed(content, late) == \A s \in NodeId(content) : WellFormed(content.states[s], late)
Formed(content) == content \notin {NoDoc, Bare} => AllFormed(content, overtaken)

\* The drafts on display, in the store, in a save and in the answers to loads.
DraftsFormed ==
    /\ doc # NoDoc => AllFormed(doc, overtaken)
    /\ Formed(saving.content)
    /\ \A w \in Workflow : Formed(stored[w])
    /\ \A l \in loads : Formed(l.content)

\* A dialog, with the note of what is derived and of what is the user's own.
DialogFormed(m, late) ==
    /\ WellFormed(m.form, late)
    /\ m.auto = AutoSnapshot(m.form.id, m.form.type)
    /\ TextFields \subseteq DOMAIN m.own
    /\ \A field \in TextFields : m.own[field] # None => m.form[field] = Own

\* A save of a prompt is where the form of that moment said, or its id.
Composed(s) == s.path = IF s.was # None THEN s.was ELSE IF s.id \in Id THEN s.id ELSE Own

\* The dialog there is, and what it waits for.
ModalFormed ==
    /\ DialogFormed(modal, overtaken)
    /\ \A s \in composing : Composed(s)

\* The inductive invariant of the dialogs.
FormsInv == DraftsSound /\ DraftsFormed /\ ModalFormed

\* More paths may be set late, and no node has to be looked at again.
LEMMA FormedGrows ==
    ASSUME NEW content, NEW late, NEW more, AllFormed(content, late), late \subseteq more
    PROVE  AllFormed(content, more)
BY DEF AllFormed, WellFormed

\* A new id: what was derived follows it, what is the user's own stays.
LEMMA WithIdFormed ==
    ASSUME NEW late, NEW form, WellFormed(form, late), NEW id, id \in Id \cup {None, Missing}
    PROVE  LET new == WithId(form, AutoSnapshot(form.id, form.type), id) IN
           /\ WellFormed(new, late) /\ new.id = id /\ new.type = form.type
           /\ \A field \in TextFields : form[field] = Own => new[field] = Own
BY ModelAssumption
   DEF WellFormed, FormFields, TextFields, WithId, AutoSnapshot, Rederived, Ref

\* Deriving what is empty.
LEMMA FilledFormed ==
    ASSUME NEW late, NEW form, WellFormed(form, late)
    PROVE  /\ WellFormed(Filled(form), late)
           /\ Filled(form).id = form.id /\ Filled(form).type = form.type
           /\ \A field \in TextFields : form[field] = Own => Filled(form)[field] = Own
BY ModelAssumption
   DEF WellFormed, FormFields, TextFields, Filled, AutoSnapshot, Rederived, Ref

\* Another type: only the id and its title are kept.
LEMMA WithTypeFormed ==
    ASSUME NEW late, NEW form, WellFormed(form, late), NEW type
    PROVE  /\ WellFormed(WithType(form, type), late)
           /\ WithType(form, type).id = form.id /\ WithType(form, type).type = type
<1> DEFINE bare == [EmptyForm(type) EXCEPT !.id = form.id, !.title = Ref(form.id)]
<1>1. /\ bare.id = form.id /\ bare.type = type /\ bare.title = Ref(form.id)
      /\ bare.path = None /\ FormFields \subseteq DOMAIN bare
  BY DEF EmptyForm, FormFields
<1>2. WithType(form, type) = Filled(bare)
  BY DEF WithType
<1> HIDE DEF bare
<1>3. WellFormed(bare, late)
  BY <1>1 DEF WellFormed, AutoSnapshot
<1> QED BY <1>1, <1>2, <1>3, FilledFormed

\* An empty form.
LEMMA EmptyFormFormed ==
    ASSUME NEW late, NEW type
    PROVE  /\ WellFormed(EmptyForm(type), late) /\ NoText = AutoSnapshot(None, type)
           /\ EmptyForm(type).id = None /\ EmptyForm(type).type = type
BY DEF WellFormed, FormFields, EmptyForm, AutoSnapshot, Ref, NoText

\* A node that is made of a form, and one whose links are changed.
LEMMA NodeFormed ==
    ASSUME NEW late, NEW form, WellFormed(form, late), NEW next, NEW transitions
    PROVE  WellFormed(NodeOf(form), late) /\ WellFormed(WithLinks(form, next, transitions), late)
BY DEF WellFormed, FormFields, NodeOf, WithLinks, AutoSnapshot

\* A node is entered in a draft.
LEMMA WithNodeFormed ==
    ASSUME NEW late, NEW states, NEW id, NEW node, WellFormed(node, late),
           \A s \in DOMAIN states : WellFormed(states[s], late)
    PROVE  \A s \in DOMAIN WithNode(states, id, node) : WellFormed(WithNode(states, id, node)[s], late)
<1> SUFFICES ASSUME NEW s, s \in DOMAIN states \cup {id}
             PROVE  WellFormed(WithNode(states, id, node)[s], late)
  BY WithNodeDomain
<1>1. CASE s = id
  BY <1>1, WithNodeAt
<1>2. CASE s # id
  BY <1>2, WithNodeElsewhere
<1> QED BY <1>1, <1>2

\* A draft whose states are well formed is.
LEMMA StatesFormed ==
    ASSUME NEW late, NEW content, NEW states, content.states = states,
           \A s \in DOMAIN states : WellFormed(states[s], late)
    PROVE  AllFormed(content, late)
BY DEF AllFormed, NodeId

\* Loads and saves leave nodes as they are.
LEMMA SameNodesFormed ==
    ASSUME NEW late, NEW content, AllFormed(content, late)
    PROVE  AllFormed(Loaded(content), late) /\ AllFormed(Saved(content), late)
BY DEF AllFormed, Loaded, Saved, Doc, NodeId

\* So does a drag.
LEMMA MoveFormed ==
    ASSUME NEW late, NEW content, AllFormed(content, late), NEW id
    PROVE  AllFormed(MoveNode(content, id), late)
BY DEF AllFormed, MoveNode, Doc, NodeId

\* A draft without nodes.
LEMMA NoNodesFormed ==
    ASSUME NEW late
    PROVE  AllFormed(EmptyDoc, late) /\ \A content : AllFormed(Clear(content), late)
BY DEF AllFormed, EmptyDoc, Clear, Doc, NodeId

\* A node is removed.
LEMMA RemoveNodeFormed ==
    ASSUME NEW late, NEW content, AllFormed(content, late), NEW id
    PROVE  AllFormed(RemoveNode(content, id), late)
<1> DEFINE states == [s \in NodeId(content) \ {id} |-> Unlinked(content.states[s], id)]
<1>1. ASSUME NEW s, s \in NodeId(content)
      PROVE  WellFormed(Unlinked(content.states[s], id), late)
  BY <1>1, NodeFormed DEF AllFormed, Unlinked
<1>2. \A s \in DOMAIN states : WellFormed(states[s], late)
  BY <1>1
<1>3. RemoveNode(content, id).states = states
  BY DEF RemoveNode, Doc
<1> HIDE DEF states
<1> QED BY <1>2, <1>3, StatesFormed

\* A node is entered from a form.
LEMMA AddNodeFormed ==
    ASSUME NEW late, NEW content, AllFormed(content, late), NEW form, WellFormed(form, late)
    PROVE  AllFormed(AddNode(content, form), late)
<1> DEFINE old == content.states
           node == NodeOf(form)
           id == form.id
           states == WithNode(old, id, node)
<1>1. WellFormed(node, late) /\ \A s \in DOMAIN old : WellFormed(old[s], late)
  BY NodeFormed DEF AllFormed, NodeId
<1>2. AddNode(content, form).states = states
  BY DEF AddNode, Doc
<1> HIDE DEF old, node, id
<1>3. \A s \in DOMAIN states : WellFormed(states[s], late)
  BY <1>1, WithNodeFormed
<1> HIDE DEF states
<1> QED BY <1>2, <1>3, StatesFormed

\* A node is edited.
LEMMA EditNodeFormed ==
    ASSUME NEW late, NEW content, AllFormed(content, late), NEW id, NEW form, WellFormed(form, late)
    PROVE  AllFormed(EditNode(content, id, form), late)
<1> DEFINE old == IF id = form.id THEN content.states
                  ELSE [s \in NodeId(content) \ {id} |->
                           Retargeted(content.states[s], id, Ref(form.id))]
           node == NodeOf(form)
           key == IF id = form.id THEN id ELSE Key(form.id)
           states == WithNode(old, key, node)
<1>1. ASSUME NEW s, s \in NodeId(content)
      PROVE  WellFormed(Retargeted(content.states[s], id, Ref(form.id)), late)
  BY <1>1, NodeFormed DEF AllFormed, Retargeted
<1>2. \A s \in DOMAIN old : WellFormed(old[s], late)
  BY <1>1 DEF AllFormed, NodeId
<1>3. WellFormed(node, late)
  BY NodeFormed
<1>4. EditNode(content, id, form).states = states
  BY DEF EditNode, Doc
<1> HIDE DEF old, node, key
<1>5. \A s \in DOMAIN states : WellFormed(states[s], late)
  BY <1>2, <1>3, WithNodeFormed
<1> HIDE DEF states
<1> QED BY <1>4, <1>5, StatesFormed

\* The links of a node are changed.
LEMMA RelinkedFormed ==
    ASSUME NEW late, NEW content, AllFormed(content, late), NEW from, from \in NodeId(content),
           NEW next, NEW transitions
    PROVE  AllFormed(Relinked(content, from, next, transitions), late)
<1> DEFINE old == content.states
           node == WithLinks(old[from], next, transitions)
           states == WithNode(old, from, node)
<1>1. WellFormed(node, late) /\ \A s \in DOMAIN old : WellFormed(old[s], late)
  BY NodeFormed DEF AllFormed, NodeId
<1>2. Relinked(content, from, next, transitions).states = states
  BY DEF Relinked, Doc
<1> HIDE DEF old, node
<1>3. \A s \in DOMAIN states : WellFormed(states[s], late)
  BY <1>1, WithNodeFormed
<1> HIDE DEF states
<1> QED BY <1>2, <1>3, StatesFormed

\* Edges are drawn, edited and removed by links of one node.
LEMMA EdgesFormed ==
    ASSUME NEW late, NEW content, AllFormed(content, late), NEW from, NEW to, NEW old, NEW when
    PROVE  /\ AllFormed(AddTransition(content, from, to, when), late)
           /\ AllFormed(RemoveEdge(content, from, to, when), late)
           /\ AllFormed(EditEdge(content, from, to, old, when), late)
<1>1. CASE from \notin NodeId(content)
  BY <1>1 DEF AddTransition, RemoveEdge, EditEdge
<1>2. CASE from \in NodeId(content)
  <2>1. \A next, transitions : AllFormed(Relinked(content, from, next, transitions), late)
    BY <1>2, RelinkedFormed
  <2>2. AllFormed(AddTransition(content, from, to, when), late)
    BY <1>2, <2>1, Zenon DEF AddTransition
  <2>3. AllFormed(RemoveEdge(content, from, to, when), late)
    BY <1>2, <2>1, Zenon DEF RemoveEdge
  <2>4. AllFormed(EditEdge(content, from, to, old, when), late)
    BY <1>2, <2>1, Zenon DEF EditEdge
  <2> QED BY <2>2, <2>3, <2>4
<1> QED BY <1>1, <1>2

\* No dialog, and one that opens on a node.
LEMMA NoModalFormed == ASSUME NEW late PROVE DialogFormed(NoModal, late)
<1>1. /\ NoModal.form = EmptyForm("terminal") /\ NoModal.auto = NoText
      /\ NoModal.own = NoText
  BY DEF NoModal
<1>2. TextFields \subseteq DOMAIN NoText /\ \A field \in TextFields : NoText[field] = None
  BY DEF NoText, TextFields
<1>3. /\ WellFormed(EmptyForm("terminal"), late)
      /\ NoText = AutoSnapshot(EmptyForm("terminal").id, EmptyForm("terminal").type)
  BY EmptyFormFormed
<1> HIDE DEF NoModal
<1> QED BY <1>1, <1>2, <1>3 DEF DialogFormed

LEMMA EditModalFormed ==
    ASSUME NEW late, NEW content, AllFormed(content, late), NEW id, id \in NodeId(content)
    PROVE  DialogFormed(EditModal(id, content), late)
<1> DEFINE node == content.states[id]
           form == IF node.id = Missing THEN node ELSE Filled(node)
           old == [title |-> OwnOf(node.title), path |-> OwnOf(node.path)]
           opened == EditModal(id, content)
<1>1. WellFormed(node, late)
  BY DEF AllFormed
<1>2. /\ opened.form = form /\ opened.auto = AutoSnapshot(node.id, node.type)
      /\ opened.own = old
  BY DEF EditModal, FormFromNode
<1> HIDE DEF node, opened
<1>3. /\ WellFormed(form, late) /\ form.id = node.id /\ form.type = node.type
      /\ \A field \in TextFields : node[field] = Own => form[field] = Own
  BY <1>1, FilledFormed
<1>4. /\ TextFields \subseteq DOMAIN old
      /\ \A field \in TextFields : old[field] # None => node[field] = Own
  BY DEF OwnOf, TextFields
<1> HIDE DEF form, old
<1> QED BY <1>2, <1>3, <1>4 DEF DialogFormed, opened

\* The invariant holds of a Studio that is opened.
LEMMA InitForms == StudioInit => FormsInv
<1> SUFFICES ASSUME StudioInit PROVE FormsInv
  OBVIOUS
<1>1. ASSUME NEW content, content \in Packages
      PROVE  Formed(content)
  <2>1. ASSUME NEW s, s \in NodeId(content)
        PROVE  WellFormed(content.states[s], overtaken)
    <3>1. content.states[s] = WithLinks(content.states[s], content.states[s].next,
                                        content.states[s].transitions)
          /\ Derived(content.states[s])
      BY <1>1, <2>1, StudioAssumption
    <3>2. FormFields \subseteq DOMAIN WithLinks(content.states[s], content.states[s].next,
                                        content.states[s].transitions)
      BY DEF WithLinks, FormFields
    <3> QED BY <3>1, <3>2 DEF WellFormed, Derived
  <2> QED BY <2>1 DEF Formed, AllFormed
<1>2. \A w \in Workflow : Formed(stored[w])
  BY <1>1 DEF StudioInit, Formed
<1>3. /\ doc = NoDoc /\ Formed(saving.content)
      /\ \A l \in loads : Formed(l.content)
  BY DEF StudioInit, Formed, NoSave, Asked
<1>4. ModalFormed
  BY NoModalFormed DEF StudioInit, ModalFormed
<1> QED BY <1>2, <1>3, <1>4, InitDraftsSound DEF FormsInv, DraftsFormed

\* A step that leaves the drafts on the way as they are, and whose document is
\* well formed or the one before, does not disturb them.
LEMMA DraftsStay ==
    ASSUME DraftsFormed, UNCHANGED traffic, overtaken \subseteq overtaken',
           AllFormed(doc', overtaken) \/ doc' = doc
    PROVE  DraftsFormed'
<1>1. stored' = stored /\ saving' = saving /\ loads' = loads
  BY DEF traffic
<1>2. ASSUME NEW content, Formed(content)
      PROVE  content \notin {NoDoc, Bare} => AllFormed(content, overtaken')
  BY <1>2, FormedGrows DEF Formed
<1>3. doc' # NoDoc => AllFormed(doc', overtaken')
  BY FormedGrows DEF DraftsFormed
<1>4. /\ Formed(saving.content) /\ \A w \in Workflow : Formed(stored[w])
      /\ \A l \in loads : Formed(l.content)
  BY DEF DraftsFormed
<1> QED BY <1>1, <1>2, <1>3, <1>4 DEF DraftsFormed, Formed

\* A dialog that is opened, filled in and closed, and paths that are set late.
LEMMA ModalKeeps == FormsInv /\ Forms => ModalFormed'
<1> SUFFICES ASSUME FormsInv, Forms PROVE ModalFormed'
  OBVIOUS
<1> DEFINE old == modal.form
<1>0. /\ WellFormed(old, overtaken) /\ modal.auto = AutoSnapshot(old.id, old.type)
      /\ TextFields \subseteq DOMAIN modal.own
      /\ \A field \in TextFields : modal.own[field] # None => old[field] = Own
      /\ \A s \in composing : Composed(s)
  BY DEF FormsInv, ModalFormed, DialogFormed
<1>1. ASSUME NEW form, NEW auto, NEW own, SetModal(form, auto, own), overtaken' = overtaken,
             WellFormed(form, overtaken), auto = AutoSnapshot(form.id, form.type),
             TextFields \subseteq DOMAIN own,
             \A field \in TextFields : own[field] # None => form[field] = Own
      PROVE  ModalFormed'
  <2>1. modal'.form = form /\ modal'.auto = auto /\ modal'.own = own
        /\ composing' = composing
    BY <1>1 DEF SetModal, Refilled
  <2> QED BY <1>0, <1>1, <2>1 DEF ModalFormed, DialogFormed
<1>2. ASSUME NEW form, SetForm(form), overtaken' = overtaken, WellFormed(form, overtaken),
             form.id = old.id, form.type = old.type,
             \A field \in TextFields : old[field] = Own => form[field] = Own
      PROVE  ModalFormed'
  <2>1. \A field \in TextFields : modal.own[field] # None => form[field] = Own
    BY <1>0, <1>2
  <2>2. SetModal(form, modal.auto, modal.own)
    BY <1>2 DEF SetForm
  <2> HIDE DEF old
  <2> QED BY <1>0, <1>1, <1>2, <2>1, <2>2
<1>3. ASSUME Dialog \/ Opens PROVE overtaken' = overtaken
  BY <1>3 DEF Dialog, Opens, noted
<1>4. CASE OpenAdd
  <2> DEFINE form == EmptyForm("deterministic")
  <2>1. modal'.form = form /\ modal'.auto = NoText /\ modal'.own = NoText
        /\ composing' = composing /\ overtaken' = overtaken
    BY <1>4, <1>3 DEF OpenAdd, Opens, NoModal
  <2>2. TextFields \subseteq DOMAIN NoText /\ \A field \in TextFields : NoText[field] = None
    BY DEF NoText, TextFields
  <2>3. WellFormed(form, overtaken) /\ NoText = AutoSnapshot(form.id, form.type)
    BY EmptyFormFormed
  <2> HIDE DEF form
  <2> QED BY <1>0, <2>1, <2>2, <2>3 DEF ModalFormed, DialogFormed
<1>5. ASSUME NEW id, OpenEdit(id) PROVE ModalFormed'
  <2>1. modal' = EditModal(id, doc) /\ composing' = composing /\ overtaken' = overtaken
    BY <1>5, <1>3 DEF OpenEdit, Opens
  <2>2. AllFormed(doc, overtaken) /\ id \in NodeId(doc)
    BY <1>5 DEF OpenEdit, Opens, OnCanvas, FormsInv, DraftsFormed
  <2>3. DialogFormed(EditModal(id, doc), overtaken)
    BY <2>2, EditModalFormed
  <2> QED BY <1>0, <2>1, <2>3 DEF ModalFormed
<1>6. ASSUME NEW id, id \in Id \cup {None}, SetId(id) PROVE ModalFormed'
  <2> DEFINE form == WithId(old, AutoSnapshot(old.id, old.type), id)
             own == modal.own
  <2>1. SetModal(form, AutoSnapshot(id, old.type), own) /\ overtaken' = overtaken
    BY <1>6, <1>0, <1>3 DEF SetId
  <2>2. id \in Id \cup {None, Missing}
    BY <1>6
  <2>3. TextFields \subseteq DOMAIN own
        /\ \A field \in TextFields : own[field] # None => old[field] = Own
    BY <1>0
  <2> HIDE DEF old, own
  <2>4. /\ WellFormed(form, overtaken) /\ form.id = id /\ form.type = old.type
        /\ \A field \in TextFields : old[field] = Own => form[field] = Own
    BY <1>0, <2>2, WithIdFormed
  <2> HIDE DEF form
  <2> QED BY <2>1, <2>3, <2>4, <1>1
<1>7. ASSUME NEW field, field \in TextFields, NEW text, text \in {None, Own},
             TypeText(field, text)
      PROVE  ModalFormed'
  <2> DEFINE form == [old EXCEPT ![field] = text]
             own == [modal.own EXCEPT ![field] = OwnOf(text)]
  <2>1. SetModal(form, modal.auto, own) /\ overtaken' = overtaken
    BY <1>7, <1>3 DEF TypeText
  <2>2. /\ FormFields \subseteq DOMAIN form /\ form.id = old.id /\ form.type = old.type
        /\ form[field] = text /\ \A f \in TextFields \ {field} : form[f] = old[f]
    BY <1>7, <1>0 DEF WellFormed, FormFields, TextFields
  <2>3. /\ TextFields \subseteq DOMAIN own /\ own[field] = OwnOf(text)
        /\ \A f \in TextFields \ {field} : own[f] = modal.own[f]
    BY <1>7, <1>0 DEF TextFields
  <2>4. WellFormed(form, overtaken)
    <3> HIDE DEF old, form, own
    <3> QED BY <1>7, <1>0, <2>2 DEF WellFormed, TextFields
  <2>5. \A f \in TextFields : own[f] # None => form[f] = Own
    BY <1>7, <1>0, <2>2, <2>3 DEF OwnOf
  <2> HIDE DEF old, form, own
  <2> QED BY <1>0, <2>1, <2>2, <2>3, <2>4, <2>5, <1>1
<1>8. ASSUME NEW type, SetType(type) PROVE ModalFormed'
  <2> DEFINE form == WithType(old, type)
  <2>1. SetModal(form, AutoSnapshot(old.id, type), NoText) /\ overtaken' = overtaken
    BY <1>8, <1>3 DEF SetType
  <2> HIDE DEF old
  <2>2. WellFormed(form, overtaken) /\ form.id = old.id /\ form.type = type
    BY <1>0, WithTypeFormed
  <2>3. TextFields \subseteq DOMAIN NoText /\ \A field \in TextFields : NoText[field] = None
    BY DEF NoText, TextFields
  <2> HIDE DEF form
  <2> QED BY <2>1, <2>2, <2>3, <1>1
<1>9. CASE ComposeSave
  <2> DEFINE new == [path |-> ResolvedPath(old), id |-> old.id, was |-> old.path]
  <2>1. modal' = modal /\ overtaken' = overtaken /\ composing' = composing \cup {new}
    BY <1>9, <1>3 DEF ComposeSave
  <2>2. Composed(new)
    BY DEF Composed, ResolvedPath
  <2> HIDE DEF new
  <2>3. \A s \in composing' : Composed(s)
    BY <1>0, <2>1, <2>2
  <2>4. DialogFormed(modal, overtaken)
    BY DEF FormsInv, ModalFormed
  <2> QED BY <2>1, <2>3, <2>4 DEF ModalFormed
<1>10. ASSUME NEW s, ComposeDone(s) PROVE ModalFormed'
  <2> DEFINE late == s.id # old.id \/ s.was # old.path
  <2>1. Composed(s) /\ composing' \subseteq composing
    BY <1>10, <1>0 DEF ComposeDone
  <2>2. CASE UNCHANGED <<modal, overtaken>>
    BY <1>0, <2>1, <2>2 DEF FormsInv, ModalFormed
  <2>3. CASE ~UNCHANGED <<modal, overtaken>>
    <3>1. /\ old.type = "agent"
          /\ modal' = Refilled([old EXCEPT !.path = s.path], modal.auto,
                          IF late THEN [modal.own EXCEPT !.path = OwnOf(s.path)]
                          ELSE modal.own)
          /\ overtaken' = IF late THEN overtaken \cup {s.path} ELSE overtaken
      BY <1>10, <2>3 DEF ComposeDone
    <3> DEFINE form == [old EXCEPT !.path = s.path]
               own == IF late THEN [modal.own EXCEPT !.path = OwnOf(s.path)] ELSE modal.own
               more == IF late THEN overtaken \cup {s.path} ELSE overtaken
    <3>2. modal'.form = form /\ modal'.auto = modal.auto /\ modal'.own = own
      BY <3>1 DEF Refilled
    <3>3. /\ FormFields \subseteq DOMAIN form /\ form.id = old.id /\ form.type = old.type
          /\ form.title = old.title /\ form.path = s.path
      BY <1>0 DEF WellFormed, FormFields
    <3>4. /\ TextFields \subseteq DOMAIN own /\ own["title"] = modal.own["title"]
          /\ own["path"] = IF late THEN OwnOf(s.path) ELSE modal.own["path"]
      BY <1>0 DEF TextFields
    <3> HIDE DEF form, own
    <3>5. form.path \in {None, Own, AutoSnapshot(form.id, form.type).path} \cup more
      <4>1. CASE late
        BY <4>1, <3>3
      <4>2. CASE ~late
        <5>1. form.path \in {old.path, Own} \cup ({old.id} \cap Id)
          BY <2>1, <3>3, <4>2 DEF Composed
        <5>2. old.path \in {None, Own, AutoSnapshot(old.id, old.type).path} \cup overtaken
          BY <1>0 DEF WellFormed
        <5>3. old.id \in Id => AutoSnapshot(old.id, old.type).path = old.id
          BY <3>1, ModelAssumption DEF AutoSnapshot, HasPath, Ref
        <5> QED BY <3>3, <4>2, <5>1, <5>2, <5>3
      <4> QED BY <4>1, <4>2
    <3>6. WellFormed(form, more)
      BY <1>0, <3>3, <3>5 DEF WellFormed
    <3>7. \A field \in TextFields : own[field] # None => form[field] = Own
      <4>1. own["title"] # None => form.title = Own
        BY <1>0, <3>3, <3>4 DEF TextFields
      <4>2. own["path"] # None => form.path = Own
        <5>1. CASE late
          BY <5>1, <3>3, <3>4 DEF OwnOf
        <5>2. CASE ~late
          <6>1. own["path"] # None => old.path = Own
            BY <1>0, <3>4, <5>2 DEF TextFields
          <6>2. old.path = Own => s.path = Own
            BY <2>1, <5>2, ModelAssumption DEF Composed
          <6> QED BY <3>3, <6>1, <6>2
        <5> QED BY <5>1, <5>2
      <4> QED BY <4>1, <4>2 DEF TextFields
    <3> HIDE DEF more
    <3>8. DialogFormed(modal', more)
      BY <1>0, <3>2, <3>3, <3>4, <3>6, <3>7 DEF DialogFormed
    <3> QED BY <1>0, <2>1, <3>1, <3>8 DEF ModalFormed, more
  <2> QED BY <2>2, <2>3
<1>11. ASSUME NEW next, SetForm([old EXCEPT !.next = next]), overtaken' = overtaken
      PROVE  ModalFormed'
  <2> DEFINE form == [old EXCEPT !.next = next]
  <2>1. /\ FormFields \subseteq DOMAIN form /\ form.id = old.id /\ form.type = old.type
        /\ form.title = old.title /\ form.path = old.path
    BY <1>0 DEF WellFormed, FormFields
  <2>2. SetForm(form)
    BY <1>11
  <2>3. \A field \in TextFields : old[field] = Own => form[field] = Own
    BY <2>1 DEF TextFields
  <2> HIDE DEF form, old
  <2>4. WellFormed(form, overtaken)
    BY <1>0, <2>1 DEF WellFormed
  <2> QED BY <1>11, <2>1, <2>2, <2>3, <2>4, <1>2
<1>12. ASSUME NEW transitions, SetForm([old EXCEPT !.transitions = transitions]),
              overtaken' = overtaken
       PROVE  ModalFormed'
  <2> DEFINE form == [old EXCEPT !.transitions = transitions]
  <2>1. /\ FormFields \subseteq DOMAIN form /\ form.id = old.id /\ form.type = old.type
        /\ form.title = old.title /\ form.path = old.path
    BY <1>0 DEF WellFormed, FormFields
  <2>2. SetForm(form)
    BY <1>12
  <2>3. \A field \in TextFields : old[field] = Own => form[field] = Own
    BY <2>1 DEF TextFields
  <2> HIDE DEF form, old
  <2>4. WellFormed(form, overtaken)
    BY <1>0, <2>1 DEF WellFormed
  <2> QED BY <1>12, <2>1, <2>2, <2>3, <2>4, <1>2
<1>13. CASE AddFormTransition
  BY <1>13, <1>3, <1>12 DEF AddFormTransition
<1>14. ASSUME NEW t, SetFormTransition(t) \/ RemoveFormTransition(t)
       PROVE  ModalFormed'
  BY <1>14, <1>3, <1>12 DEF SetFormTransition, RemoveFormTransition
<1>15. ASSUME NEW id, SetNext(id) PROVE ModalFormed'
  BY <1>15, <1>3, <1>11 DEF SetNext
<1>16. CASE Submit \/ CloseModal
  <2>1. modal' = NoModal /\ composing' = {}
    BY <1>16 DEF Submit, CloseModal
  <2>2. DialogFormed(NoModal, overtaken')
    BY NoModalFormed
  <2> QED BY <2>1, <2>2 DEF ModalFormed
<1> QED BY <1>4, <1>5, <1>6, <1>7, <1>8, <1>9, <1>10, <1>13, <1>14, <1>15, <1>16
        DEF Forms, TextFields

\* What the dialogs do to drafts: a node is made of the form that is submitted.
LEMMA SubmitKeeps == FormsInv /\ Forms => DraftsFormed'
<1> SUFFICES ASSUME FormsInv, Forms PROVE DraftsFormed'
  OBVIOUS
<1> USE DEF FormsInv
<1>1. CASE Submit
  <2>1. /\ AllFormed(doc, overtaken) /\ WellFormed(modal.form, overtaken)
        /\ UNCHANGED traffic /\ overtaken' = overtaken
    BY <1>1 DEF Submit, FormOpen, DraftsFormed, ModalFormed, DialogFormed
  <2>2. \/ doc' = AddNode(doc, modal.form) \/ doc' = EditNode(doc, modal.of, modal.form)
    BY <1>1 DEF Submit
  <2>3. AllFormed(doc', overtaken)
    BY <2>1, <2>2, AddNodeFormed, EditNodeFormed
  <2> QED BY <2>1, <2>3, DraftsStay
<1>2. CASE UNCHANGED <<traffic, doc>> /\ overtaken \subseteq overtaken'
  BY <1>2, DraftsStay
<1>3. ASSUME NEW s, ComposeDone(s)
      PROVE  UNCHANGED <<traffic, doc>> /\ overtaken \subseteq overtaken'
  BY <1>3 DEF ComposeDone
<1>4. Submit \/ UNCHANGED <<traffic, doc, noted>> \/ \E s : ComposeDone(s)
  BY DEF Forms, OpenAdd, CloseModal, ComposeSave, AddFormTransition, OpenEdit, SetId,
         SetNext, TypeText, SetType, SetFormTransition, RemoveFormTransition, Dialog, Opens
<1> QED BY <1>1, <1>2, <1>3, <1>4 DEF noted

\* What the canvas does to them: no text of a node.
LEMMA DrawingKeepsForms == FormsInv /\ Drawing => DraftsFormed' /\ ModalFormed'
<1> SUFFICES ASSUME FormsInv, Drawing PROVE DraftsFormed' /\ ModalFormed'
  OBVIOUS
<1> USE DEF FormsInv
<1>1. UNCHANGED <<traffic, modal, composing, overtaken>>
  BY DEF Drawing, DeleteNode, StartConnect, PickTarget, Grab, DeleteEdge, EditWhen, Connect,
         CancelConnect, Move, ClearCanvas, Canvas, noted
<1>2. ModalFormed'
  BY <1>1 DEF ModalFormed, Composed
<1>3. doc # NoDoc => AllFormed(doc, overtaken)
  BY DEF DraftsFormed
<1>4. ASSUME NEW id, DeleteNode(id) PROVE AllFormed(doc', overtaken)
  BY <1>3, <1>4, RemoveNodeFormed DEF DeleteNode, Canvas, OnCanvas
<1>5. ASSUME NEW id, NEW edge, DeleteEdge(id, edge) PROVE AllFormed(doc', overtaken)
  <2>1. AllFormed(doc, overtaken) /\ doc' = RemoveEdge(doc, id, edge.to, edge.when)
    BY <1>3, <1>5 DEF DeleteEdge, Canvas, OnCanvas
  <2> QED BY <2>1, EdgesFormed
<1>6. ASSUME NEW id, NEW edge, NEW when, EditWhen(id, edge, when)
      PROVE  AllFormed(doc', overtaken)
  <2>1. /\ AllFormed(doc, overtaken)
        /\ doc' = EditEdge(doc, id, edge.to, edge.when, when)
    BY <1>3, <1>6 DEF EditWhen, Canvas, OnCanvas
  <2> QED BY <2>1, EdgesFormed
<1>7. ASSUME NEW when, Connect(when) PROVE AllFormed(doc', overtaken)
  <2>1. /\ AllFormed(doc, overtaken)
        /\ doc' = AddTransition(doc, connect.from, connect.to, when)
    BY <1>3, <1>7 DEF Connect
  <2> QED BY <2>1, EdgesFormed
<1>8. ASSUME Move PROVE AllFormed(doc', overtaken)
  <2>1. AllFormed(doc, overtaken) /\ doc' = MoveNode(doc, drag)
    BY <1>3, <1>8 DEF Move, OnCanvas
  <2> QED BY <2>1, MoveFormed
<1>9. ASSUME ClearCanvas PROVE AllFormed(doc', overtaken)
  BY <1>9, NoNodesFormed DEF ClearCanvas
<1>10. ASSUME NEW id, StartConnect(id) \/ PickTarget(id) \/ Grab(id) \/ CancelConnect
       PROVE  doc' = doc
  BY <1>10 DEF StartConnect, PickTarget, Grab, CancelConnect
<1>11. AllFormed(doc', overtaken) \/ doc' = doc
  BY <1>4, <1>5, <1>6, <1>7, <1>8, <1>9, <1>10 DEF Drawing
<1> QED BY <1>1, <1>2, <1>11, DraftsStay

\* What loads and saves do to them: nothing.  A dialog may open anew on what is loaded.
LEMMA TrafficKeepsForms ==
    ASSUME FormsInv,
           \/ Save \/ ServeSave \/ SaveDone
           \/ \E l \in loads : ReadLoad(l) \/ LoadDone(l) \/ ViewThrows(l)
           \/ \E w \in Workflow : CreateWorkflow(w)
    PROVE  DraftsFormed' /\ ModalFormed'
<1> USE DEF FormsInv
<1>1. overtaken' = overtaken
  BY DEF Save, ServeSave, SaveDone, ReadLoad, LoadDone, ViewThrows, CreateWorkflow, noted
<1>2. /\ doc # NoDoc => AllFormed(doc, overtaken)
      /\ Formed(saving.content) /\ \A w \in Workflow : Formed(stored[w])
      /\ \A l \in loads : Formed(l.content)
  BY DEF DraftsFormed
<1>3. ASSUME modal' = modal \/ DialogFormed(modal', overtaken), composing' \subseteq composing
      PROVE  ModalFormed'
  <2>1. DialogFormed(modal', overtaken')
    BY <1>1, <1>3 DEF ModalFormed
  <2>2. \A s \in composing' : Composed(s)
    BY <1>3 DEF ModalFormed
  <2> QED BY <2>1, <2>2 DEF ModalFormed
<1>4. CASE Save
  <2>1. Formed(saving'.content)
    BY <1>2, <1>4, SameNodesFormed DEF Save, OnCanvas, Formed
  <2>2. /\ stored' = stored /\ loads' = loads /\ doc' = doc
        /\ modal' = modal /\ composing' = composing
    BY <1>4 DEF Save, dialogs
  <2> QED BY <1>1, <1>2, <1>3, <2>1, <2>2 DEF DraftsFormed, Formed
<1>5. CASE ServeSave
  <2>1. /\ loads' = loads /\ doc' = doc /\ saving'.content = saving.content
        /\ modal' = modal /\ composing' = composing
    BY <1>5 DEF ServeSave, DraftsSound, dialogs
  <2>2. ASSUME NEW w, w \in Workflow PROVE Formed(stored'[w])
    <3>1. w \in DOMAIN stored /\ Formed(stored[w])
      BY <1>2, <2>2 DEF DraftsSound
    <3>2. \/ stored' = stored
          \/ stored' = [stored EXCEPT ![saving.of] = Cleaned(saving.content)]
      BY <1>5 DEF ServeSave
    <3>3. stored'[w] \in {stored[w], saving.content, Bare}
      BY <3>1, <3>2 DEF Cleaned
    <3> QED BY <3>1, <3>3, <1>2 DEF Formed
  <2> QED BY <1>1, <1>2, <1>3, <2>1, <2>2 DEF DraftsFormed, Formed
<1>6. CASE SaveDone
  <2>1. doc' # NoDoc => AllFormed(doc', overtaken)
    BY <1>2, <1>6, SameNodesFormed DEF SaveDone
  <2>2. /\ stored' = stored /\ loads' = loads /\ saving'.content = NoDoc
        /\ modal' = modal /\ composing' = composing
    BY <1>6 DEF SaveDone, NoSave, dialogs
  <2> QED BY <1>1, <1>2, <1>3, <2>1, <2>2 DEF DraftsFormed, Formed
<1>7. ASSUME NEW l, l \in loads, ReadLoad(l) PROVE DraftsFormed' /\ ModalFormed'
  <2> DEFINE read == [of |-> l.of, stage |-> "read", content |-> stored[l.of]]
  <2>1. Formed(stored[l.of])
    BY <1>2, <1>7 DEF DraftsSound
  <2>2. read.content = stored[l.of] /\ loads' = (loads \ {l}) \cup {read}
    BY <1>7 DEF ReadLoad
  <2>3. /\ stored' = stored /\ doc' = doc /\ saving' = saving
        /\ modal' = modal /\ composing' = composing
    BY <1>7 DEF ReadLoad, dialogs
  <2> HIDE DEF read
  <2>4. \A k \in loads' : Formed(k.content)
    BY <1>2, <2>1, <2>2
  <2> QED BY <1>1, <1>2, <1>3, <2>3, <2>4 DEF DraftsFormed, Formed
<1>8. ASSUME NEW l, l \in loads, LoadDone(l) PROVE DraftsFormed' /\ ModalFormed'
  <2>1. PICK content \in {l.content, EmptyDoc} \ {NoDoc, Bare} : doc' = Loaded(content)
    BY <1>8 DEF LoadDone
  <2>2. AllFormed(content, overtaken)
    BY <1>2, <1>8, <2>1, NoNodesFormed DEF Formed
  <2>3. AllFormed(doc', overtaken)
    BY <2>1, <2>2, SameNodesFormed
  <2>4. stored' = stored /\ saving' = saving /\ loads' = loads \ {l}
    BY <1>8 DEF LoadDone
  <2>5. \/ modal' = modal
        \/ modal' = EditModal(modal.of, doc') /\ modal.of \in NodeId(doc')
    BY <1>8 DEF LoadDone
  <2>6. modal' = modal \/ DialogFormed(modal', overtaken)
    BY <2>3, <2>5, EditModalFormed
  <2>7. composing' \subseteq composing
    BY <1>8 DEF LoadDone
  <2>8. ModalFormed'
    BY <1>3, <2>6, <2>7
  <2> QED BY <1>1, <1>2, <2>3, <2>4, <2>8 DEF DraftsFormed, Formed
<1>9. ASSUME NEW w, w \in Workflow, CreateWorkflow(w) PROVE DraftsFormed' /\ ModalFormed'
  <2>1. /\ doc' = doc /\ saving' = saving /\ stored' = [stored EXCEPT ![w] = EmptyDoc]
        /\ loads' \subseteq loads \cup {Asked(w)}
        /\ modal' = NoModal /\ composing' = composing
    BY <1>9 DEF CreateWorkflow
  <2>2. Formed(EmptyDoc) /\ Formed(Asked(w).content)
    BY NoNodesFormed DEF Formed, Asked
  <2>3. ASSUME NEW v, v \in Workflow PROVE Formed(stored'[v])
    <3>1. v \in DOMAIN stored /\ Formed(stored[v])
      BY <1>2, <2>3 DEF DraftsSound
    <3>2. stored'[v] \in {stored[v], EmptyDoc}
      BY <2>1, <3>1
    <3> QED BY <2>2, <3>1, <3>2
  <2>4. \A k \in loads' : Formed(k.content)
    BY <1>2, <2>1, <2>2
  <2>5. ModalFormed'
    BY <1>3, <2>1, NoModalFormed
  <2> QED BY <1>1, <1>2, <2>1, <2>3, <2>4, <2>5 DEF DraftsFormed, Formed
<1>10. ASSUME NEW l, ViewThrows(l) PROVE DraftsFormed' /\ ModalFormed'
  <2>1. /\ stored' = stored /\ saving' = saving /\ doc' = NoDoc /\ loads' = {}
        /\ modal' = NoModal /\ composing' = {}
    BY <1>10 DEF ViewThrows
  <2>2. ModalFormed'
    BY <1>3, <2>1, NoModalFormed
  <2> QED BY <1>1, <1>2, <2>1, <2>2 DEF DraftsFormed, Formed
<1> QED BY <1>4, <1>5, <1>6, <1>7, <1>8, <1>9, <1>10

\* The invariant is inductive.
LEMMA NextForms == FormsInv /\ [StudioNext]_studioVars => FormsInv'
<1> SUFFICES ASSUME FormsInv, [StudioNext]_studioVars PROVE FormsInv'
  OBVIOUS
<1>1. DraftsSound'
  BY NextDraftsSound DEF FormsInv
<1>2. CASE UNCHANGED studioVars
  <2>1. /\ doc' = doc /\ stored' = stored /\ saving' = saving /\ loads' = loads
        /\ modal' = modal /\ composing' = composing /\ overtaken' = overtaken
    BY <1>2 DEF studioVars, traffic, dialogs, noted
  <2> QED BY <1>1, <2>1 DEF FormsInv, DraftsFormed, ModalFormed, Formed, Composed
<1>3. CASE StudioNext
  BY <1>1, <1>3, ModalKeeps, SubmitKeeps, DrawingKeepsForms, TrafficKeepsForms
     DEF StudioNext, FormsInv
<1> QED BY <1>2, <1>3

\* However a node's dialog is opened, filled in, retyped and renamed, on whatever
\* draft a load has put under it: it never replaces what the user wrote, and no
\* text in it is derived from an id that was given up; but for a path that a
\* composer set late, after the id or the path of the form was changed.
THEOREM FormsFollowIds == StudioSpec => []FormFollowsId
<1>1. FormsInv => FormFollowsId
  <2> SUFFICES ASSUME FormsInv, NEW field, field \in TextFields
               PROVE  /\ modal.own[field] # None => modal.form[field] = Own
                      /\ modal.form[field] \in Id =>
                            \/ modal.form[field] = modal.form.id
                            \/ (field = "path" /\ modal.form[field] \in overtaken)
    BY DEF FormFollowsId, TextFields
  <2>1. modal.own[field] # None => modal.form[field] = Own
    BY DEF FormsInv, ModalFormed, DialogFormed
  <2>2. \/ modal.form[field] \in {None, Own, Ref(modal.form.id)}
        \/ (field = "path" /\ modal.form[field] \in overtaken)
    BY DEF FormsInv, ModalFormed, DialogFormed, WellFormed, AutoSnapshot, TextFields
  <2>3. modal.form[field] \in {None, Own, Ref(modal.form.id)} /\ modal.form[field] \in Id
            => modal.form[field] = modal.form.id
    BY ModelAssumption DEF Ref
  <2> QED BY <2>1, <2>2, <2>3
<1> QED BY <1>1, InitForms, NextForms, PTL DEF StudioSpec

-------------------------------------------------------------------------------
(***************************************************************************)
(* Saves of the Studio that were answered are not undone, and drafts       *)
(* that count as completed were published: for any number of browsers,     *)
(* requests, kills and losses of power.  What a load gets cannot be        *)
(* reasoned about alone: the invariant has to hold of every content a loss *)
(* of power may bring back, and to tell which saves have reached which of  *)
(* them.                                                                   *)
(***************************************************************************)

Stages == {"none", "publish", "open", "written", "rename", "sync directory",
           "done", "failed"}
Ops == {"none", "create", "draft", "completed"}
Request == [op : Ops, stage : Stages, draft : Nat, synced : BOOLEAN]
File == [draft : Nat, status : {"absent", "draft", "completed", "torn"},
         synced : BOOLEAN]

\* What is read, and what a loss of power may leave.
Contents == {sidecar, certain} \cup since

FilesTypeOK ==
    /\ request \in [Browser -> Request]
    /\ Contents \subseteq File
    /\ package \in Nat /\ remains \subseteq Nat

\* Drafts are numbered by request; what is on its way was not answered.
Numbered ==
    /\ \E n \in Nat : DOMAIN before = 1..n
    /\ \A d \in DOMAIN before : before[d] \subseteq acked
    /\ acked \subseteq DOMAIN before /\ covered \subseteq DOMAIN before
    /\ \A b \in Browser : request[b].stage # "none" =>
          request[b].draft \in DOMAIN before \ acked
    /\ \A b, c \in Browser :
          request[b].stage # "none" /\ request[c].stage # "none"
          /\ request[b].draft = request[c].draft => b = c

\* Nothing is renamed into place before its content is on disk, ...
Synced ==
    /\ \A c \in Contents : c.synced
    /\ \A b \in Browser : request[b].stage = "rename" => request[b].synced

\* ... nor, when it completes the workflow, before workflow.edn was written.
PublishedFirst ==
    /\ \A c \in Contents : c.status = "completed" => c.draft \in published
    /\ \A b \in Browser :
          request[b].op = "completed" /\ request[b].stage \in {"open", "written", "rename"}
          => request[b].draft \in published

\* Saves that are in place; and that a content does not undo a set of saves.
Drafts(stages) == {request[b].draft : b \in {x \in Browser : request[x].stage \in stages}}
InPlace == acked \cup Drafts({"sync directory", "done"})
Keeps(c, saves) == \A d \in saves : c.draft # 0 /\ c.draft \notin before[d]

Lasting ==
    /\ sidecar \in {certain} \cup since
    /\ Keeps(sidecar, InPlace \ exposed)
    /\ \A c \in {certain} \cup since : Keeps(c, covered \ exposed)

FilesInv == FilesTypeOK /\ Numbered /\ Synced /\ PublishedFirst /\ Lasting

----------------------------------------------------------------------------
(* What a step leaves behind.                                              *)

\* One request gets to another stage, and the others stay where they are.
Moved(b, stage) ==
    /\ request' \in [Browser -> Request]
    /\ \A x \in Browser :
          /\ request'[x].stage = IF x = b THEN stage ELSE request[x].stage
          /\ request'[x].op = request[x].op /\ request'[x].draft = request[x].draft

\* A field of a request is replaced by itself.
LEMMA RestageGives ==
    ASSUME NEW r \in Request, NEW stage \in Stages
    PROVE  /\ [r EXCEPT !.stage = stage] \in Request
           /\ [r EXCEPT !.stage = stage].stage = stage
           /\ [r EXCEPT !.stage = stage].op = r.op
           /\ [r EXCEPT !.stage = stage].draft = r.draft
           /\ [r EXCEPT !.stage = stage].synced = r.synced
    BY DEF Request

\* And the mark that its content is on disk.
LEMMA ResyncGives ==
    ASSUME NEW r \in Request
    PROVE  /\ [r EXCEPT !.synced = TRUE] \in Request
           /\ [r EXCEPT !.synced = TRUE].stage = r.stage
           /\ [r EXCEPT !.synced = TRUE].op = r.op
           /\ [r EXCEPT !.synced = TRUE].draft = r.draft
           /\ [r EXCEPT !.synced = TRUE].synced = TRUE
    BY DEF Request

\* A step of one request.
LEMMA StageGives ==
    ASSUME FilesTypeOK, NEW b \in Browser, NEW stage \in Stages, Stage(b, stage)
    PROVE  Moved(b, stage) /\ \A x \in Browser : request'[x].synced = request[x].synced
<1>1. request[b] \in Request
    BY DEF FilesTypeOK
<1> DEFINE r == [request[b] EXCEPT !.stage = stage]
<1>2. /\ r \in Request /\ r.stage = stage /\ r.op = request[b].op
      /\ r.draft = request[b].draft /\ r.synced = request[b].synced
    BY <1>1 DEF Request
<1>3. request' = [request EXCEPT ![b] = r]
    BY DEF Stage, FilesTypeOK
<1> HIDE DEF r
<1>4. QED
    BY <1>2, <1>3 DEF FilesTypeOK, Moved

\* A request that was on its way and still is keeps its number.
LEMMA MovedNumbered ==
    ASSUME Numbered, NEW b \in Browser, NEW stage, Moved(b, stage),
           request[b].stage # "none", UNCHANGED <<acked, before, covered>>
    PROVE  Numbered'
    BY DEF Numbered, Moved

\* A request moves to a stage where nothing has been renamed.
LEMMA MovedLasting ==
    ASSUME Lasting, NEW b \in Browser, NEW stage, Moved(b, stage),
           stage \notin {"sync directory", "done"},
           UNCHANGED <<sidecar, certain, since, acked, before, covered, exposed>>
    PROVE  Lasting'
<1>1. Drafts({"sync directory", "done"})' \subseteq Drafts({"sync directory", "done"})
    BY DEF Drafts, Moved
<1>2. InPlace' \subseteq InPlace
    BY <1>1 DEF InPlace
<1>3. QED
    BY <1>2 DEF Lasting, Keeps

\* No request is on its way any more.
LEMMA EmptyRequests ==
    ASSUME Numbered, request' = [b \in Browser |-> NoRequest],
           UNCHANGED <<acked, before, covered>>
    PROVE  /\ request' \in [Browser -> Request] /\ Numbered' /\ InPlace' = acked
           /\ \A b \in Browser : request'[b].stage = "none"
<1>1. /\ NoRequest \in Request /\ NoRequest.stage = "none"
    BY DEF NoRequest, Request, Ops, Stages
<1>2. \A b \in Browser : request'[b].stage = "none"
    BY <1>1
<1>3. Drafts({"sync directory", "done"})' = {}
    BY <1>2 DEF Drafts
<1>4. QED
    BY <1>1, <1>2, <1>3 DEF Numbered, InPlace

----------------------------------------------------------------------------
(* The routes.                                                             *)

\* A request gets the next number, which no other has.
LEMMA ReceiveKeeps ==
    ASSUME FilesInv, NEW b \in Browser, NEW op \in {"create", "draft", "completed"},
           Receive(b, op)
    PROVE  FilesInv'
<1> USE DEF FilesInv
<1> DEFINE draft == Cardinality(DOMAIN before) + 1
           r == [op |-> op, stage |-> FirstStage(op), draft |-> draft, synced |-> FALSE]
<1>1. /\ request[b] = NoRequest /\ request' = [request EXCEPT ![b] = r]
      /\ before' = [d \in DOMAIN before \cup {draft} |->
                       IF d = draft THEN acked ELSE before[d]]
      /\ UNCHANGED <<files, acked, published, covered, exposed>>
    BY DEF Receive
<1>2. PICK n \in Nat : DOMAIN before = 1..n
    BY DEF Numbered
<1>3. Cardinality(DOMAIN before) = n
    BY <1>2, FS_Interval
<1>4. draft = n + 1 /\ draft \notin DOMAIN before /\ draft \in Nat
    BY <1>2, <1>3
<1>5. r \in Request /\ r.stage \in {"publish", "open"} /\ r.draft = draft
      /\ (r.op = "completed" => r.stage = "publish")
    BY <1>4 DEF Request, Ops, Stages, FirstStage
<1> HIDE DEF r, draft
<1>6. /\ request' \in [Browser -> Request] /\ request'[b] = r
      /\ \A x \in Browser \ {b} : request'[x] = request[x]
    BY <1>1, <1>5 DEF FilesTypeOK
<1>7. Contents' = Contents
    BY <1>1 DEF Contents, files
<1>8. FilesTypeOK'
    BY <1>1, <1>6, <1>7 DEF FilesTypeOK, files
<1>9. DOMAIN before' = 1..(n + 1) /\ (\A d \in DOMAIN before : before'[d] = before[d])
      /\ before'[draft] = acked
    BY <1>1, <1>2, <1>4
<1>10. Numbered'
    <2>1. \E m \in Nat : DOMAIN before' = 1..m
        BY <1>9
    <2>2. DOMAIN before' = DOMAIN before \cup {draft}
        BY <1>1
    <2>3. \A d \in DOMAIN before' : before'[d] \subseteq acked
        BY <1>9, <2>2 DEF Numbered
    <2>4. \A x \in Browser : request'[x].stage # "none" =>
              request'[x].draft \in DOMAIN before' \ acked
        BY <1>4, <1>5, <1>6, <2>2 DEF Numbered
    <2>5. \A x, y \in Browser :
              request'[x].stage # "none" /\ request'[y].stage # "none"
              /\ request'[x].draft = request'[y].draft => x = y
        BY <1>4, <1>5, <1>6 DEF Numbered
    <2>6. QED
        BY <1>1, <2>1, <2>2, <2>3, <2>4, <2>5 DEF Numbered
<1>11. Synced'
    BY <1>5, <1>6, <1>7 DEF Synced
<1>12. PublishedFirst'
    BY <1>1, <1>5, <1>6, <1>7 DEF PublishedFirst
<1>13. Lasting'
    <2>1. Drafts({"sync directory", "done"})' \subseteq Drafts({"sync directory", "done"})
        BY <1>5, <1>6 DEF Drafts
    <2>2. InPlace' \subseteq InPlace
        BY <1>1, <2>1 DEF InPlace
    <2>3. InPlace \subseteq DOMAIN before /\ covered \subseteq DOMAIN before
        BY DEF InPlace, Drafts, Numbered
    <2>4. QED
        BY <1>1, <1>9, <2>2, <2>3 DEF Lasting, Keeps, files
<1>14. QED
    BY <1>8, <1>10, <1>11, <1>12, <1>13

\* The control plane writes workflow.edn before the sidecar is opened.
LEMMA PublishKeeps ==
    ASSUME FilesInv, NEW b \in Browser, Publish(b)
    PROVE  FilesInv'
<1> USE DEF FilesInv
<1>1. /\ request[b].stage = "publish" /\ published \subseteq published'
      /\ UNCHANGED <<sidecar, certain, since, acked, before, covered, exposed>>
    BY DEF Publish
<1>2. PICK stage \in {"open", "failed"} : Stage(b, stage)
    BY DEF Publish
<1>3. /\ stage = "open" => request[b].draft \in published'
      /\ package' = package \/ package' = request[b].draft
      /\ remains' \subseteq remains \cup {package'}
    <2>1. CASE Stage(b, "failed") /\ UNCHANGED <<package, remains, folder, published>>
        <3>1. stage = "failed"
            <4>1. Moved(b, "failed") /\ Moved(b, stage)
                BY <1>2, <2>1, StageGives DEF Stages
            <4>2. QED
                BY <4>1 DEF Moved
        <3>2. QED
            BY <2>1, <3>1
    <2>2. CASE /\ package' = request[b].draft /\ remains' = remains \cup {package'}
               /\ published' = published \cup {request[b].draft}
        BY <2>2
    <2>3. QED
        BY <2>1, <2>2 DEF Publish
<1>4. Moved(b, stage) /\ \A x \in Browser : request'[x].synced = request[x].synced
    BY <1>2, StageGives DEF Stages
<1>5. Contents' = Contents
    BY <1>1 DEF Contents
<1>6. FilesTypeOK'
    BY <1>3, <1>4, <1>5 DEF FilesTypeOK, Moved, Request
<1>7. Numbered'
    BY <1>1, <1>4, MovedNumbered
<1>8. Synced'
    BY <1>4, <1>5 DEF Synced, Moved
<1>9. PublishedFirst'
    BY <1>1, <1>3, <1>4, <1>5 DEF PublishedFirst, Moved
<1>10. Lasting'
    BY <1>1, <1>4, MovedLasting
<1>11. QED
    BY <1>6, <1>7, <1>8, <1>9, <1>10

\* What was answered was on its way until then, and nothing else has its number.
LEMMA AnswerKeeps ==
    ASSUME FilesInv, NEW b \in Browser, Answer(b)
    PROVE  FilesInv'
<1> USE DEF FilesInv
<1>1. /\ request[b].stage \in {"done", "failed"}
      /\ acked' = IF request[b].stage = "done" THEN acked \cup {request[b].draft} ELSE acked
      /\ request' = [request EXCEPT ![b] = NoRequest]
      /\ UNCHANGED <<files, before, published, covered, exposed>>
    BY DEF Answer
<1>2. NoRequest \in Request /\ NoRequest.stage = "none"
    BY DEF NoRequest, Request, Ops, Stages
<1>3. /\ request' \in [Browser -> Request] /\ request'[b].stage = "none"
      /\ \A x \in Browser \ {b} : request'[x] = request[x]
    BY <1>1, <1>2 DEF FilesTypeOK
<1>4. Contents' = Contents
    BY <1>1 DEF Contents, files
<1>5. FilesTypeOK' /\ Synced' /\ PublishedFirst'
    BY <1>1, <1>3, <1>4 DEF FilesTypeOK, Synced, PublishedFirst, files
<1>6. Numbered'
    BY <1>1, <1>3 DEF Numbered
<1>7. InPlace' \subseteq InPlace
    BY <1>1, <1>3 DEF InPlace, Drafts
<1>8. Lasting'
    BY <1>1, <1>7 DEF Lasting, Keeps, files
<1>9. QED
    BY <1>5, <1>6, <1>8

----------------------------------------------------------------------------
(* safeWriteText.                                                          *)

\* Opening and writing the temporary file touches no file that is read.
LEMMA OpenAndWriteKeeps ==
    ASSUME FilesInv, NEW b \in Browser, OpenAndWrite(b)
    PROVE  FilesInv'
<1> USE DEF FilesInv
<1>1. /\ request[b].stage = "open"
      /\ UNCHANGED <<sidecar, certain, since, package, remains, history>>
    BY DEF OpenAndWrite
<1>2. PICK stage \in {"written", "failed"} : Stage(b, stage)
    BY DEF OpenAndWrite
<1>3. Moved(b, stage) /\ \A x \in Browser : request'[x].synced = request[x].synced
    BY <1>2, StageGives DEF Stages
<1>4. Contents' = Contents
    BY <1>1 DEF Contents, files
<1>5. FilesTypeOK' /\ Synced' /\ PublishedFirst'
    BY <1>1, <1>3, <1>4 DEF FilesTypeOK, Synced, PublishedFirst, Moved, files, history
<1>6. Numbered' /\ Lasting'
    BY <1>1, <1>3, MovedNumbered, MovedLasting DEF files, history
<1>7. QED
    BY <1>5, <1>6

\* The content is on disk before it is renamed.
LEMMA SyncFileKeeps ==
    ASSUME FilesInv, NEW b \in Browser, SyncFile(b)
    PROVE  FilesInv'
<1> USE DEF FilesInv
<1>1. request[b].stage = "written" /\ UNCHANGED <<files, history>>
    BY DEF SyncFile
<1>2. Contents' = Contents
    BY <1>1 DEF Contents, files
<1>3. \E stage \in {"rename", "failed"} :
          /\ Moved(b, stage)
          /\ \A x \in Browser : request'[x].synced =
                IF x = b /\ stage = "rename" THEN TRUE ELSE request[x].synced
    <2>1. CASE Stage(b, "failed")
        BY <2>1, StageGives DEF Stages
    <2>2. CASE request' = [request EXCEPT ![b].stage = "rename", ![b].synced = TRUE]
        <3> DEFINE q == [request EXCEPT ![b].stage = "rename"]
                   r == [request[b] EXCEPT !.stage = "rename"]
                   t == [r EXCEPT !.synced = TRUE]
        <3>1. request[b] \in Request /\ "rename" \in Stages
            BY DEF FilesTypeOK, Stages
        <3>2. q[b] = r
            BY DEF FilesTypeOK
        <3>3. request' = [q EXCEPT ![b].synced = TRUE]
            BY <2>2
        <3>4. request' = [request EXCEPT ![b] = [q[b] EXCEPT !.synced = TRUE]]
            BY <3>3 DEF FilesTypeOK
        <3>5. request' = [request EXCEPT ![b] = t]
            BY <3>2, <3>4, Zenon
        <3>6. /\ r \in Request /\ r.stage = "rename"
              /\ r.op = request[b].op /\ r.draft = request[b].draft
            BY <3>1, RestageGives
        <3> HIDE DEF q, r
        <3>7. /\ t \in Request /\ t.stage = "rename" /\ t.op = request[b].op
              /\ t.draft = request[b].draft /\ t.synced = TRUE
            BY <3>6, ResyncGives
        <3> HIDE DEF t
        <3>8. Moved(b, "rename") /\ request'[b].synced = TRUE
              /\ \A x \in Browser \ {b} : request'[x].synced = request[x].synced
            BY <3>5, <3>7 DEF FilesTypeOK, Moved
        <3>9. QED
            BY <3>8
    <2>3. QED
        BY <2>1, <2>2 DEF SyncFile
<1>4. PICK stage \in {"rename", "failed"} :
          /\ Moved(b, stage)
          /\ \A x \in Browser : request'[x].synced =
                IF x = b /\ stage = "rename" THEN TRUE ELSE request[x].synced
    BY <1>3
<1>5. FilesTypeOK' /\ Synced' /\ PublishedFirst'
    BY <1>1, <1>2, <1>4 DEF FilesTypeOK, Synced, PublishedFirst, Moved, files, history
<1>6. Numbered' /\ Lasting'
    BY <1>1, <1>4, MovedNumbered, MovedLasting DEF files, history
<1>7. QED
    BY <1>5, <1>6

\* What is renamed into place was not answered yet, so it undoes no save that
\* was asked for after its answer.
LEMMA RenameKeeps ==
    ASSUME FilesInv, NEW b \in Browser, Rename(b)
    PROVE  FilesInv'
<1> USE DEF FilesInv
<1>1. request[b].stage = "rename" /\ UNCHANGED <<certain, package, remains, history>>
    BY DEF Rename
<1>2. CASE Stage(b, "failed") /\ UNCHANGED <<sidecar, since>>
    <2>1. Moved(b, "failed") /\ \A x \in Browser : request'[x].synced = request[x].synced
        BY <1>2, StageGives DEF Stages
    <2>2. Contents' = Contents
        BY <1>1, <1>2 DEF Contents
    <2>3. FilesTypeOK' /\ Synced' /\ PublishedFirst'
        BY <1>1, <2>1, <2>2 DEF FilesTypeOK, Synced, PublishedFirst, Moved, history
    <2>4. Numbered' /\ Lasting'
        BY <1>1, <1>2, <2>1, MovedNumbered, MovedLasting DEF history
    <2>5. QED
        BY <2>3, <2>4
<1>3. CASE /\ sidecar' = Content(request[b]) /\ since' = since \cup {sidecar'}
           /\ Stage(b, "sync directory")
    <2>1. Moved(b, "sync directory") /\ \A x \in Browser : request'[x].synced = request[x].synced
        BY <1>3, StageGives DEF Stages
    <2>2. request[b] \in Request
        BY DEF FilesTypeOK
    <2>3. /\ sidecar' \in File /\ sidecar'.draft = request[b].draft /\ sidecar'.synced
          /\ sidecar'.status = "completed" => sidecar'.draft \in published
        BY <1>1, <1>3, <2>2 DEF Content, File, Request, Synced, PublishedFirst
    <2>4. Contents' \subseteq Contents \cup {sidecar'}
        BY <1>1, <1>3 DEF Contents
    <2>5. FilesTypeOK' /\ Synced' /\ PublishedFirst'
        BY <1>1, <2>1, <2>3, <2>4 DEF FilesTypeOK, Synced, PublishedFirst, Moved, history
    <2>6. Numbered'
        BY <1>1, <2>1, MovedNumbered DEF history
    <2>7. sidecar'.draft # 0 /\ sidecar'.draft \notin acked
        BY <1>1, <2>3 DEF Numbered
    <2>8. InPlace' \subseteq DOMAIN before /\ covered \subseteq DOMAIN before
        <3>1. ASSUME NEW d, d \in InPlace' PROVE d \in DOMAIN before'
            <4>1. CASE d \in acked'
                BY <2>6, <4>1 DEF Numbered
            <4>2. CASE d \in Drafts({"sync directory", "done"})'
                <5>1. PICK x \in Browser : /\ request'[x].stage \in {"sync directory", "done"}
                                           /\ d = request'[x].draft
                    BY <4>2 DEF Drafts
                <5>2. QED
                    BY <2>6, <5>1 DEF Numbered
            <4>3. QED
                BY <3>1, <4>1, <4>2 DEF InPlace
        <3>2. QED
            BY <1>1, <3>1 DEF history, Numbered
    <2>9. \A d \in DOMAIN before : sidecar'.draft \notin before[d]
        BY <2>7 DEF Numbered
    <2>10. Keeps(sidecar, InPlace \ exposed)'
        BY <1>1, <2>7, <2>8, <2>9 DEF Keeps, history
    <2>11. \A c \in {certain} \cup since' : Keeps(c, covered \ exposed)'
        BY <1>1, <1>3, <2>7, <2>8, <2>9 DEF Lasting, Keeps, history
    <2>12. Lasting'
        BY <1>1, <1>3, <2>10, <2>11 DEF Lasting, Keeps
    <2>13. QED
        BY <2>5, <2>6, <2>12
<1>4. QED
    BY <1>2, <1>3 DEF Rename

\* The directory is synced: nothing but what is read can come back.
LEMMA SyncDirectoryKeeps ==
    ASSUME FilesInv, NEW b \in Browser, SyncDirectory(b)
    PROVE  FilesInv'
<1> USE DEF FilesInv
<1>1. /\ request[b].stage = "sync directory" /\ Stage(b, "done")
      /\ UNCHANGED <<sidecar, package, acked, before, published, exposed>>
    BY DEF SyncDirectory
<1>2. Moved(b, "done") /\ \A x \in Browser : request'[x].synced = request[x].synced
    BY <1>1, StageGives DEF Stages
<1>3. \/ /\ certain' = sidecar /\ since' = {} /\ remains' = {package}
         /\ covered' = covered \cup {request[b].draft}
      \/ UNCHANGED <<certain, since, remains, covered>>
    BY DEF SyncDirectory
<1>4. Contents' \subseteq Contents
    BY <1>1, <1>3 DEF Contents
<1>5. FilesTypeOK' /\ Synced' /\ PublishedFirst'
    BY <1>1, <1>2, <1>3, <1>4 DEF FilesTypeOK, Synced, PublishedFirst, Moved
<1>6. Numbered'
    <2>1. request[b].draft \in DOMAIN before
        BY <1>1 DEF Numbered
    <2>2. covered' \subseteq DOMAIN before
        BY <1>3, <2>1 DEF Numbered
    <2>3. \A x \in Browser : /\ request'[x].stage # "none" => request[x].stage # "none"
                             /\ request'[x].draft = request[x].draft
        BY <1>1, <1>2 DEF Moved
    <2>4. QED
        BY <1>1, <2>2, <2>3 DEF Numbered
<1>7. InPlace' \subseteq InPlace /\ request[b].draft \in InPlace
    <2>1. ASSUME NEW d, d \in Drafts({"sync directory", "done"})'
          PROVE  d \in Drafts({"sync directory", "done"})
        <3>1. PICK x \in Browser : /\ request'[x].stage \in {"sync directory", "done"}
                                   /\ d = request'[x].draft
            BY <2>1 DEF Drafts
        <3>2. d = request[x].draft /\ request[x].stage \in {"sync directory", "done"}
            BY <1>1, <1>2, <3>1 DEF Moved
        <3>3. QED
            BY <3>2 DEF Drafts
    <2>2. QED
        BY <1>1, <2>1 DEF InPlace, Drafts
<1>8. Lasting'
    <2>1. Keeps(sidecar, InPlace \ exposed)'
        BY <1>1, <1>7 DEF Lasting, Keeps
    <2>2. CASE UNCHANGED <<certain, since, remains, covered>>
        BY <1>1, <2>1, <2>2 DEF Lasting, Keeps
    <2>3. CASE /\ certain' = sidecar /\ since' = {}
               /\ covered' = covered \cup {request[b].draft}
        <3>1. Keeps(sidecar, covered \ exposed) /\ Keeps(sidecar, InPlace \ exposed)
            BY DEF Lasting
        <3>2. Keeps(sidecar, covered' \ exposed)
            BY <1>7, <2>3, <3>1 DEF Keeps
        <3>3. QED
            BY <1>1, <2>1, <2>3, <3>2 DEF Lasting, Keeps
    <2>4. QED
        BY <1>3, <2>2, <2>3
<1>9. QED
    BY <1>5, <1>6, <1>8

----------------------------------------------------------------------------
(* Failures.                                                               *)

\* A kill loses the requests, and no file.
LEMMA KillKeeps ==
    ASSUME FilesInv, Kill
    PROVE  FilesInv'
<1> USE DEF FilesInv
<1>1. /\ request' = [b \in Browser |-> NoRequest]
      /\ UNCHANGED <<sidecar, certain, since, acked, before, covered, exposed>>
      /\ published \subseteq published'
    BY DEF Kill
<1>2. package' \in Nat /\ remains' = remains \cup {package'}
    BY DEF Kill, FilesTypeOK, Request
<1>3. Contents' = Contents
    BY <1>1 DEF Contents
<1>4. /\ request' \in [Browser -> Request] /\ Numbered' /\ InPlace' = acked
      /\ \A b \in Browser : request'[b].stage = "none"
    BY <1>1, EmptyRequests
<1>5. FilesTypeOK' /\ Synced' /\ PublishedFirst'
    BY <1>1, <1>2, <1>3, <1>4 DEF FilesTypeOK, Synced, PublishedFirst
<1>6. InPlace' \subseteq InPlace
    BY <1>4 DEF InPlace
<1>7. Lasting'
    BY <1>1, <1>6 DEF Lasting, Keeps
<1>8. QED
    BY <1>4, <1>5, <1>7

\* Every content is on disk, so none is torn, and none undoes a save after
\* which the directory was synced; if the directory is gone, every save was
\* exposed.
LEMMA LosePowerKeeps ==
    ASSUME FilesInv, LosePower
    PROVE  FilesInv'
<1> USE DEF FilesInv
<1>1. /\ request' = [b \in Browser |-> NoRequest]
      /\ certain' = sidecar' /\ since' = {} /\ remains' = {package'}
      /\ UNCHANGED <<acked, before, published, covered>>
    BY DEF LosePower
<1>2. /\ request' \in [Browser -> Request] /\ Numbered' /\ InPlace' = acked
      /\ \A b \in Browser : request'[b].stage = "none"
    BY <1>1, EmptyRequests
<1>3. Contents' = {sidecar'}
    BY <1>1 DEF Contents
<1>4. CASE LeftOver
    <2>1. PICK content \in {certain} \cup since :
              sidecar' \in {content} \cup (IF content.synced THEN {} ELSE {Torn(content)})
        BY <1>4 DEF LeftOver
    <2>2. content \in Contents /\ sidecar' = content
        BY <2>1 DEF Contents, Synced
    <2>3. package' \in Nat
        BY <1>4 DEF LeftOver, FilesTypeOK
    <2>4. FilesTypeOK' /\ Synced' /\ PublishedFirst'
        BY <1>1, <1>2, <1>3, <2>2, <2>3 DEF FilesTypeOK, Synced, PublishedFirst
    <2>5. /\ exposed \subseteq exposed' /\ acked \ exposed' \subseteq covered \ exposed
        BY <1>4 DEF LeftOver, Numbered
    <2>6. Keeps(sidecar', covered \ exposed)
        BY <2>1, <2>2 DEF Lasting
    <2>7. Lasting'
        BY <1>1, <1>2, <2>5, <2>6 DEF Lasting, Keeps
    <2>8. QED
        BY <1>2, <2>4, <2>7
<1>5. CASE Vanished
    <2>1. sidecar' = Absent /\ package' = 0 /\ exposed' = DOMAIN before
        BY <1>5 DEF Vanished
    <2>2. Absent \in File /\ Absent.synced /\ Absent.status # "completed"
        BY DEF Absent, File
    <2>3. FilesTypeOK' /\ Synced' /\ PublishedFirst'
        BY <1>1, <1>2, <1>3, <2>1, <2>2 DEF FilesTypeOK, Synced, PublishedFirst
    <2>4. acked \ exposed' = {} /\ covered \ exposed' = {}
        BY <2>1 DEF Numbered
    <2>5. Lasting'
        BY <1>1, <1>2, <2>4 DEF Lasting, Keeps
    <2>6. QED
        BY <1>2, <2>3, <2>5
<1>6. QED
    BY <1>4, <1>5 DEF LosePower

----------------------------------------------------------------------------
(* The theorems.                                                           *)

\* Nothing has been saved when the server starts.
LEMMA InitFilesInv == FilesInit => FilesInv
<1> SUFFICES ASSUME FilesInit PROVE FilesInv
    OBVIOUS
<1>1. Absent \in File /\ Absent.synced /\ Absent.status # "completed"
    BY DEF Absent, File
<1>2. NoRequest \in Request /\ NoRequest.stage = "none"
    BY DEF NoRequest, Request, Ops, Stages
<1>3. Contents = {Absent}
    BY DEF FilesInit, Contents
<1>4. \A b \in Browser : request[b].stage = "none"
    BY <1>2 DEF FilesInit
<1>5. FilesTypeOK /\ Synced /\ PublishedFirst
    BY <1>1, <1>2, <1>3, <1>4 DEF FilesInit, FilesTypeOK, Synced, PublishedFirst
<1>6. DOMAIN before = {} /\ {} = 1..0 /\ acked = {} /\ covered = {}
    BY DEF FilesInit
<1>7. Numbered
    BY <1>4, <1>6 DEF Numbered
<1>8. InPlace = {}
    BY <1>4, <1>6 DEF InPlace, Drafts
<1>9. Lasting
    BY <1>6, <1>8 DEF FilesInit, Lasting, Keeps
<1>10. QED
    BY <1>5, <1>7, <1>9 DEF FilesInv

\* Every step of a request and every failure keeps the invariant.
LEMMA NextFilesInv == FilesInv /\ [FilesNext]_filesVars => FilesInv'
<1> SUFFICES ASSUME FilesInv, [FilesNext]_filesVars PROVE FilesInv'
    OBVIOUS
<1>1. CASE UNCHANGED filesVars
    <2>1. UNCHANGED <<Contents, InPlace>>
        BY <1>1 DEF filesVars, files, history, Contents, InPlace, Drafts
    <2>2. FilesTypeOK' /\ Numbered' /\ Synced' /\ PublishedFirst'
        BY <1>1, <2>1 DEF filesVars, files, history, FilesInv, FilesTypeOK, Numbered,
           Synced, PublishedFirst
    <2>3. Lasting'
        BY <1>1, <2>1 DEF filesVars, files, history, FilesInv, Lasting, Keeps
    <2>4. QED
        BY <2>2, <2>3 DEF FilesInv
<1>2. CASE FilesNext
    BY <1>2, ReceiveKeeps, PublishKeeps, AnswerKeeps, OpenAndWriteKeeps, SyncFileKeeps,
       RenameKeeps, SyncDirectoryKeeps, KillKeeps, LosePowerKeeps DEF FilesNext, SafeWrite
<1>3. QED
    BY <1>1, <1>2

\* So it always holds.
LEMMA FilesInvHolds == FilesSpec => []FilesInv
BY InitFilesInv, NextFilesInv, PTL DEF FilesSpec

\* A save that was answered is never undone by another that was answered
\* before it was asked for, nor by a kill; and by a loss of power only if the
\* sync of the directory had failed, or if the directory itself was new and
\* its entry went with the power.
THEOREM AckedSavesLast == FilesSpec => []NoAckedSaveLost
<1>1. FilesInv => NoAckedSaveLost
    BY DEF FilesInv, Lasting, Keeps, InPlace, NoAckedSaveLost, LoadGets
<1> QED BY <1>1, FilesInvHolds, PTL

\* A draft that counts as completed was written as workflow.edn first,
\* whatever was killed on the way.
THEOREM CompletedWerePublished == FilesSpec => []CompletedWasPublished
<1>1. FilesInv => CompletedWasPublished
    BY DEF FilesInv, PublishedFirst, Contents, CompletedWasPublished
<1> QED BY <1>1, FilesInvHolds, PTL
===============================================================================
