---------------------------- MODULE ApprovalInbox ----------------------------
(***************************************************************************)
(* The approvals view of the Web console and the route that takes its      *)
(* decisions (decideApproval of runs.ts).  The view reloads the list of    *)
(* pending approvals, previews the artifacts of the selected one, collects *)
(* drafts for its decision and posts them; meanwhile approvals are asked   *)
(* for, and decided elsewhere.                                             *)
(***************************************************************************)
EXTENDS Naturals, Sequences, FiniteSets, SequencesExt

CONSTANTS
    Approval,     \* approvals: a run and an approval id, which runs may share
    NoApproval,
    ArtifactsOf,  \* approval -> the artifacts shown with it, a sequence
    NoArtifact,
    Others,       \* other clients that decide
    Habits        \* the bounds of a behaviour, one of which it starts with:
                  \* which approvals come up, who else decides them, how many
                  \* annotations are written, whether artifacts but the first
                  \* are opened, and how many lists are on their way at once

ASSUME InboxAssumption ==
    /\ \A a \in Approval : {"run", "id"} \subseteq DOMAIN a
    /\ NoApproval \notin Approval
    /\ \A h \in Habits : IsFiniteSet(h.about)
    /\ Habits \subseteq [about : SUBSET Approval, others : SUBSET Others, drafts : Nat,
                         browses : BOOLEAN, reloads : Nat \ {0}]

VARIABLES
    habit,        \* the bounds of this behaviour
    pending,      \* approvals that wait for a decision, as they are listed
    asked,        \* approvals that were asked for
    resumed,      \* approval -> background resumes its decisions started
    approvals, selectedKey,       \* the list on display, and what is selected
    seen,         \* the selection the effects ran for last
    artifact, preview, previews,  \* selectedArtifact, preview, and answers
                                  \* to previews on their way
    anchor, annotations, message, \* drafts; of a message, for which
                                  \* approvals it was written
    reloads,      \* lists on their way
    posts         \* client -> the decision it has posted

inboxVars == <<habit, pending, asked, resumed, approvals, selectedKey, seen, artifact,
               preview, previews, anchor, annotations, message, reloads, posts>>
queue == <<habit, pending, asked, resumed>>
shownList == <<approvals, selectedKey>>
evidence == <<seen, artifact, preview, previews>>
drafts == <<anchor, annotations, message>>

Me == "inbox"
Client == Others \cup {Me}
NoPost == [of |-> NoApproval, drafts |-> {}, resume |-> FALSE, stage |-> "none"]
Nothing == [of |-> NoApproval, path |-> NoArtifact]
Artifact == UNION {ToSet(ArtifactsOf[a]) : a \in Approval}
NoAnchor == NoArtifact

\* A list on its way, and what it was asked for by.
Listed(by) == [list |-> pending, by |-> by]

InboxInit ==
    /\ habit \in Habits
    /\ asked \in SUBSET habit.about
    /\ pending \in SetToSeqs(asked)
    /\ resumed = [a \in Approval |-> 0]
    /\ approvals = <<>> /\ selectedKey = NoApproval
    /\ seen = NoApproval /\ artifact = NoArtifact
    /\ preview = Nothing /\ previews = {}
    /\ anchor = NoAnchor /\ annotations = {} /\ message = {}
    /\ reloads = <<Listed("refresh")>>
    /\ posts = [c \in Client |-> NoPost]

----------------------------------------------------------------------------
(* decideApproval.                                                         *)

\* A gate is reached; where its approval is listed does not matter.
AskApproval(a) ==
    /\ a \in habit.about \ asked
    /\ asked' = asked \cup {a}
    /\ pending' \in {Append(pending, a), <<a>> \o pending}
    /\ UNCHANGED <<habit, resumed, shownList, evidence, drafts, reloads, posts>>

Post(c, stage) == posts' = [posts EXCEPT ![c].stage = stage]

\* A list that an approval is taken out of.
Without(list, a) == RemoveAt(list, CHOOSE i \in DOMAIN list : list[i] = a)

\* run.decide takes a decision of a pending approval and refuses others; its
\* run may be over with it, or resumed only later.
RecordDecision(c) ==
    /\ posts[c].stage = "sent"
    /\ LET a == posts[c].of IN
       IF a \in ToSet(pending)
       THEN /\ pending' = Without(pending, a)
            /\ \/ posts[c].resume /\ Post(c, "decided")
               \/ Post(c, "answered")
       ELSE Post(c, "refused") /\ UNCHANGED pending
    /\ UNCHANGED <<habit, asked, resumed, shownList, evidence, drafts, reloads>>

\* Mutant of ResumeDecided: the answer of run.decide is not looked at.
ResumeRegardless(c) ==
    /\ posts[c].stage \in {"decided", "refused"} /\ posts[c].resume
    /\ resumed' = [resumed EXCEPT ![posts[c].of] = @ + 1]
    /\ Post(c, "answered")
    /\ UNCHANGED <<habit, pending, asked, shownList, evidence, drafts, reloads>>

\* startRuntimeOperation, after the decision was recorded.
ResumeDecided(c) ==
    /\ posts[c].stage = "decided"
    /\ resumed' = [resumed EXCEPT ![posts[c].of] = @ + 1]
    /\ Post(c, "answered")
    /\ UNCHANGED <<habit, pending, asked, shownList, evidence, drafts, reloads>>

\* Another browser decides what is pending, or was a moment ago.
OtherDecides(c) ==
    /\ c \in habit.others /\ posts[c].stage = "none"
    /\ \E a \in asked, resume \in BOOLEAN :
          posts' = [posts EXCEPT ![c] = [of |-> a, drafts |-> {}, resume |-> resume,
                                         stage |-> "sent"]]
    /\ UNCHANGED <<queue, shownList, evidence, drafts, reloads>>

----------------------------------------------------------------------------
(* The list: reload.                                                       *)

\* The selection is what the key names, or else the first of the list.
Selected ==
    IF selectedKey \in ToSet(approvals) THEN selectedKey
    ELSE IF approvals = <<>> THEN NoApproval ELSE Head(approvals)

Reload(by) ==
    /\ Len(reloads) < habit.reloads
    /\ reloads' = Append(reloads, Listed(by))

RefreshList ==
    /\ reloads = <<>>      \* the button is disabled while loading
    /\ Reload("refresh")
    /\ UNCHANGED <<queue, shownList, evidence, drafts, posts>>

\* A decision is submitted until the list has been reloaded after it.
Reloaded(i) ==
    /\ i \in DOMAIN reloads
    /\ reloads' = RemoveAt(reloads, i)
    /\ posts' = IF reloads[i].by = "refresh" THEN posts
                ELSE [posts EXCEPT ![Me] = NoPost]

\* Lists arrive in any order.
ListLoaded(i) ==
    /\ Reloaded(i)
    /\ LET list == reloads[i].list IN
       /\ approvals' = list
       /\ selectedKey' = IF selectedKey \in ToSet(list) THEN selectedKey
                         ELSE IF list = <<>> THEN NoApproval ELSE Head(list)
    /\ UNCHANGED <<queue, evidence, drafts>>

ListFailed(i) ==
    /\ Reloaded(i)
    /\ approvals' = <<>>
    /\ UNCHANGED <<queue, selectedKey, evidence, drafts>>

----------------------------------------------------------------------------
(* The evidence: the effects on the selection and on the artifact.         *)

Rendered == seen = Selected    \* the effects run before the user acts again

SelectApproval(a) ==
    /\ Rendered /\ a \in ToSet(approvals)
    /\ selectedKey' = a
    /\ UNCHANGED <<queue, approvals, evidence, drafts, reloads, posts>>

First(a) == IF a = NoApproval \/ ArtifactsOf[a] = <<>> THEN NoArtifact
            ELSE Head(ArtifactsOf[a])

\* The second effect: what was asked for before is no longer live.
Preview(a, path) ==
    /\ artifact' = path /\ preview' = Nothing
    /\ previews' = {[p EXCEPT !.live = FALSE] : p \in previews} \cup
                   (IF path = NoArtifact THEN {}
                    ELSE {[of |-> a, path |-> path, live |-> TRUE]})

\* Mutant of SelectionEffects: approvals are told apart by their id only.
SelectionEffectsById ==
    /\ ~Rendered
    /\ seen' = Selected
    /\ IF Selected # NoApproval /\ seen # NoApproval /\ Selected.id = seen.id
       THEN Preview(Selected, artifact) /\ UNCHANGED drafts
       ELSE /\ anchor' = NoAnchor /\ annotations' = {} /\ message' = {}
            /\ Preview(Selected, First(Selected))
    /\ UNCHANGED <<queue, shownList, reloads, posts>>

SelectionEffects ==
    /\ ~Rendered
    /\ seen' = Selected
    /\ anchor' = NoAnchor /\ annotations' = {} /\ message' = {}
    /\ Preview(Selected, First(Selected))
    /\ UNCHANGED <<queue, shownList, reloads, posts>>

SelectArtifact(path) ==
    /\ Rendered /\ habit.browses /\ Selected # NoApproval
    /\ path \in ToSet(ArtifactsOf[Selected]) /\ path # artifact
    /\ Preview(Selected, path)
    /\ UNCHANGED <<queue, shownList, seen, drafts, reloads, posts>>

\* Mutant of PreviewLoaded: an answer is shown even if it is no longer live.
PreviewLoadedLate(p) ==
    /\ p \in previews
    /\ previews' = previews \ {p}
    /\ preview' = [of |-> p.of, path |-> p.path]
    /\ UNCHANGED <<queue, shownList, seen, artifact, drafts, reloads, posts>>

PreviewLoaded(p) ==
    /\ p \in previews
    /\ previews' = previews \ {p}
    /\ preview' = IF p.live THEN [of |-> p.of, path |-> p.path] ELSE preview
    /\ UNCHANGED <<queue, shownList, seen, artifact, drafts, reloads, posts>>

----------------------------------------------------------------------------
(* The drafts and the decision.                                            *)

\* A line of the preview is clicked: the anchor of the next annotation.
SelectLine ==
    /\ Rendered /\ preview # Nothing
    /\ anchor' = preview.path
    /\ UNCHANGED <<queue, shownList, evidence, annotations, message, reloads, posts>>

\* addAnnotation.  The artifact may have been changed since the line was
\* clicked: the anchor is kept.
AddAnnotation ==
    /\ Rendered /\ anchor # NoAnchor /\ artifact # NoArtifact
    /\ Cardinality(annotations) < habit.drafts
    /\ annotations' = annotations \cup
           {[of |-> Selected, path |-> artifact, anchor |-> anchor]}
    /\ anchor' = NoAnchor
    /\ UNCHANGED <<queue, shownList, evidence, message, reloads, posts>>

RemoveAnnotation(draft) ==
    /\ Rendered /\ draft \in annotations
    /\ annotations' = annotations \ {draft}
    /\ UNCHANGED <<queue, shownList, evidence, anchor, message, reloads, posts>>

Write ==
    /\ Rendered /\ Selected # NoApproval /\ habit.drafts > 0
    /\ message' = message \cup {Selected}
    /\ UNCHANGED <<queue, shownList, evidence, anchor, annotations, reloads, posts>>

\* A decision is posted with everything drafted; the buttons are disabled
\* while one is submitted.
Decide ==
    /\ Rendered /\ Selected # NoApproval /\ posts[Me].stage = "none"
    /\ \E resume \in BOOLEAN, needsMessage \in BOOLEAN :
          /\ needsMessage => message # {}
          /\ posts' = [posts EXCEPT ![Me] =
                 [of |-> Selected, resume |-> resume, stage |-> "sent",
                  drafts |-> message \cup {draft.of : draft \in annotations}]]
    /\ UNCHANGED <<queue, shownList, evidence, drafts, reloads>>

Decided ==
    /\ posts[Me].stage = "answered"
    /\ Reload("decision")
    /\ Post(Me, "reloading")
    /\ UNCHANGED <<queue, shownList, evidence, drafts>>

DecisionRefused(c) ==
    /\ \/ posts[c].stage = "refused"
       \/ c # Me /\ posts[c].stage = "answered"
    /\ posts' = [posts EXCEPT ![c] = NoPost]
    /\ UNCHANGED <<queue, shownList, evidence, drafts, reloads>>

----------------------------------------------------------------------------

InboxNext ==
    \/ \E a \in Approval : AskApproval(a) \/ SelectApproval(a)
    \/ \E c \in Client : \/ RecordDecision(c) \/ ResumeDecided(c)
                         \/ OtherDecides(c) \/ DecisionRefused(c)
    \/ RefreshList
    \/ \E i \in DOMAIN reloads : ListLoaded(i) \/ ListFailed(i)
    \/ SelectionEffects
    \/ \E path \in Artifact : SelectArtifact(path)
    \/ \E p \in previews : PreviewLoaded(p)
    \/ SelectLine \/ AddAnnotation \/ Write
    \/ \E draft \in annotations : RemoveAnnotation(draft)
    \/ Decide \/ Decided

InboxSpec == InboxInit /\ [][InboxNext]_inboxVars

----------------------------------------------------------------------------
(* Properties.                                                             *)

\* A decision is posted with what was written for the approval it decides,
\* although lists that arrive may select another approval at any time, and
\* approvals of two runs may have the same id.
DraftsStayWithApproval ==
    \A c \in Client : posts[c].drafts \subseteq {posts[c].of}

\* What is previewed is the selected artifact of the selected approval, in
\* whatever order the answers to previews arrive.
PreviewIsOfSelection ==
    Rendered => preview \in {Nothing, [of |-> seen, path |-> artifact]}

\* However many clients decide an approval at once, one background resume is
\* started for it at most.  It rests on decide! accepting one decision of an
\* approval (RecordDecision), which the run lock gives as long as no process
\* was killed inside it (RunEngine, DecisionIsFinal).
DecisionResumesOnce == \A a \in Approval : resumed[a] <= 1
===============================================================================
