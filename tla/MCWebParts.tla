------------------------------ MODULE MCWebParts ------------------------------
(***************************************************************************)
(* Small instances of parts of the Web console that share no state: the    *)
(* approvals view, the dialog that starts runs, the Studio's editor and    *)
(* its files, and the layout of graphs.  A behaviour is about one of them; *)
(* the others stay as they are opened, with bounds under which nothing     *)
(* happens in them.                                                        *)
(***************************************************************************)
EXTENDS ApprovalInbox, StartWizard, Studio, StudioFiles, GraphLayout

VARIABLE part

\* Two runs whose approvals have the same id.
Gate1 == [run |-> "r1", id |-> "gate-1"]
Gate2 == [run |-> "r2", id |-> "gate-1"]
MCApproval == {Gate1, Gate2}
MCArtifactsOf == Gate1 :> <<"plan", "diff">> @@ Gate2 :> <<"plan">>
Habit(about, others, writes, browses, lists) ==
    [about |-> about, others |-> others, drafts |-> writes, browses |-> browses,
     reloads |-> lists]
NoHabit == Habit({}, {}, 0, FALSE, 1)
MCHabits == {NoHabit, Habit(MCApproval, {}, 1, FALSE, 1),
             Habit(MCApproval, {}, 0, TRUE, 1), Habit({Gate1}, {"tab"}, 0, FALSE, 2)}

\* Two workflows that each have an input "mode", required by one of them only.
Field(required, default) == [required |-> required, default |-> default]
MCFields ==
    "f" :> ("prompt" :> Field(TRUE, FALSE) @@ "mode" :> Field(FALSE, TRUE))
    @@ "g" :> ("mode" :> Field(TRUE, FALSE) @@ "path" :> Field(FALSE, TRUE))
Errand(opened, wanted, posted, edited) ==
    [opens |-> opened, loads |-> wanted, starts |-> posted, edits |-> edited]
NoErrand == Errand(0, 0, 0, 0)
MCErrands == {NoErrand, Errand(2, 2, 2, 2), Errand(1, 3, 1, 2)}

\* Graphs of up to four nodes; two columns to a band, so that bands wrap.
MCGraphNodes == {<<>>, <<"i", "j", "k">>, <<"i", "j", "k", "l">>}

\* A workflow made in the Studio, with a loop on itself, and one that was not,
\* whose nodes have no id of their own.
Node(id, type, title, path, next, transitions) ==
    [id |-> id, type |-> type, title |-> title, path |-> path, next |-> next,
     transitions |-> transitions]
To(when, next) == [when |-> when, next |-> next]
Made == Doc("a" :> Node("a", "agent", "a", "a", None, {To("pass", "b"), To("fail", "a")})
            @@ "b" :> Node("b", "deterministic", Own, None, None, {}),
            "a", {"a"}, FALSE)
ByHand == Doc("a" :> Node(Missing, "deterministic", Own, None, "b", {})
               @@ "b" :> Node(Missing, "router", Own, None, None, {To("pass", "a")}),
               "a", {}, FALSE)
MCPackages == {Made, ByHand}
Works(acts, saves, creates) == [acts |-> acts, saves |-> saves, creates |-> creates]
NoWork == Works(0, 0, 0)
MCWork == {NoWork, Works(4, 0, 0), Works(2, 1, 1)}

Plan(creates, saves, completions, kills, losses) ==
    [create |-> creates, draft |-> saves, completed |-> completions,
     kill |-> kills, power |-> losses]
NoPlan == Plan(0, 0, 0, 0, 0)
MCTasks == {NoPlan, Plan(1, 1, 1, 0, 1), Plan(0, 2, 1, 1, 1), Plan(2, 1, 0, 0, 0),
            Plan(0, 1, 2, 1, 0)}

\* A part a behaviour is not about has nothing to do.  Where no workflow is
\* created the Studio never opens another one than its first.
Init ==
    /\ part \in {"approvals", "wizard", "studio", "files", "layout"}
    /\ InboxInit /\ WizardInit /\ StudioInit /\ FilesInit /\ LayoutInit
    /\ (part = "approvals") = (habit # NoHabit)
    /\ (part = "wizard") = (errand # NoErrand)
    /\ (part = "studio") = (left # NoWork)
    /\ part # "studio" => name = None /\ stored = [w \in Workflow |-> NoDoc]
    /\ left.creates = 0 => name # "w2" /\ stored["w2"] = NoDoc
    /\ (part = "files") = (tasks # NoPlan)
    /\ part # "files" => folder = "absent"
    /\ (part = "layout") = (nodes # <<>>)

Next ==
    /\ UNCHANGED part
    /\ \/ /\ part = "approvals" /\ InboxNext
          /\ UNCHANGED <<wizardVars, studioVars, filesVars, layoutVars>>
       \/ /\ part = "wizard" /\ WizardNext
          /\ UNCHANGED <<inboxVars, studioVars, filesVars, layoutVars>>
       \/ /\ part = "studio" /\ StudioNext
          /\ UNCHANGED <<inboxVars, wizardVars, filesVars, layoutVars>>
       \/ /\ part = "files" /\ FilesNext
          /\ UNCHANGED <<inboxVars, wizardVars, studioVars, layoutVars>>
       \/ /\ part = "layout" /\ DrawEdge
          /\ UNCHANGED <<inboxVars, wizardVars, studioVars, filesVars>>

Spec == Init /\ [][Next]_<<inboxVars, wizardVars, studioVars, filesVars, layoutVars, part>>
===============================================================================
