------------------------------ MODULE StartWizard ------------------------------
(***************************************************************************)
(* The dialog that starts a run (StartWorkflowWizard.tsx): a workflow is   *)
(* picked, its inputs are loaded into a form, and the form is sent.  The   *)
(* dialog may be closed and opened again while a load or a start it asked  *)
(* for is on its way: it stays mounted, and every answer is applied.       *)
(***************************************************************************)
EXTENDS Naturals, FiniteSets

CONSTANTS
    Flow,      \* workflows
    NoFlow,    \* no workflow, and the origin of a value that is blank
    Fields,    \* workflow -> input -> whether it is required and has a default
    Errands    \* the bounds of a behaviour: how often the wizard is opened,
               \* asks for a workflow, posts a start, and has a value typed

ASSUME WizardAssumption ==
    /\ NoFlow \notin Flow
    /\ \A flow \in Flow : \A n \in DOMAIN Fields[flow] :
          Fields[flow][n] \in [required : BOOLEAN, default : BOOLEAN]
    /\ Errands \subseteq [opens : Nat, loads : Nat, starts : Nat, edits : Nat]

VARIABLES
    errand,    \* what is left of the bounds of this behaviour
    wizard,    \* the dialog's state; a value is the workflow on whose form
               \* it was given, by its default or by the user
    details,   \* workflow -> answers about it that are on their way
    starts,    \* starts whose answer is on its way
    last,      \* the last start that was posted
    ticked     \* whether the user confirmed since the dialog was opened

wizardVars == <<errand, wizard, details, starts, last, ticked>>

Inputs(flow) == IF flow = NoFlow THEN {} ELSE DOMAIN Fields[flow]
Required(flow) == {n \in Inputs(flow) : Fields[flow][n].required}
Defaults(flow) ==
    [n \in Inputs(flow) |-> IF Fields[flow][n].default THEN flow ELSE NoFlow]
Closed ==
    [open |-> FALSE, step |-> "pick", selected |-> NoFlow, detail |-> NoFlow,
     loading |-> FALSE, values |-> Defaults(NoFlow), git |-> "none",
     confirm |-> FALSE, busy |-> FALSE]

WizardInit ==
    /\ errand \in Errands
    /\ wizard = Closed
    /\ details = [flow \in Flow |-> 0]
    /\ starts = 0
    /\ last = [workflow |-> NoFlow, form |-> NoFlow, inputs |-> Defaults(NoFlow),
               ticked |-> TRUE]
    /\ ticked = FALSE

Spend(what) == errand[what] > 0 /\ errand' = [errand EXCEPT ![what] = @ - 1]

----------------------------------------------------------------------------

\* Everything is reset but what waits for an answer.
Reopened(initial) ==
    [Closed EXCEPT !.open = TRUE, !.selected = initial,
                   !.loading = wizard.loading, !.busy = wizard.busy]

Open(initial) ==
    /\ ~wizard.open /\ Spend("opens")
    /\ wizard' = Reopened(initial)
    /\ ticked' = FALSE
    /\ UNCHANGED <<details, starts, last>>

\* Cancel, the cross, Escape or a click beside the dialog.
Close ==
    /\ wizard.open
    /\ wizard' = [wizard EXCEPT !.open = FALSE]
    /\ UNCHANGED <<errand, details, starts, last, ticked>>

Load(flow) ==
    /\ Spend("loads")
    /\ wizard' = [wizard EXCEPT !.selected = flow, !.loading = TRUE]
    /\ details' = [details EXCEPT ![flow] = @ + 1]

Picking == wizard.open /\ wizard.step = "pick"
Pick(flow) == Picking /\ Load(flow) /\ UNCHANGED <<starts, last, ticked>>

\* Next uses the detail at hand if it is that of the selected workflow.
Proceed ==
    /\ Picking /\ wizard.selected # NoFlow
    /\ \/ /\ wizard.detail = wizard.selected
          /\ wizard' = [wizard EXCEPT !.step = "fill"]
          /\ UNCHANGED <<errand, details>>
       \/ wizard.detail # wizard.selected /\ Load(wizard.selected)
    /\ UNCHANGED <<starts, last, ticked>>

Answered(flow) ==
    /\ details[flow] > 0
    /\ details' = [details EXCEPT ![flow] = @ - 1]
    /\ UNCHANGED <<errand, starts, last, ticked>>

\* Mutant of DetailLoaded: what was given on another form is kept.
DetailMerged(flow) ==
    /\ Answered(flow)
    /\ wizard' = [wizard EXCEPT !.detail = flow, !.loading = FALSE, !.step = "fill",
                      !.values = [n \in DOMAIN @ \cup Inputs(flow) |->
                          IF n \in DOMAIN @ THEN @[n] ELSE Defaults(flow)[n]]]

\* An answer is shown whether or not its workflow is still the selected one.
DetailLoaded(flow) ==
    /\ Answered(flow)
    /\ wizard' = [wizard EXCEPT !.detail = flow, !.values = Defaults(flow),
                                !.loading = FALSE, !.step = "fill"]

DetailFailed(flow) ==
    /\ Answered(flow)
    /\ wizard' = [wizard EXCEPT !.detail = NoFlow, !.loading = FALSE]

----------------------------------------------------------------------------

Filling == wizard.open /\ wizard.step = "fill"
FormShown == /\ Filling /\ ~wizard.loading
             /\ wizard.selected # NoFlow /\ wizard.detail # NoFlow

\* An input of the form is typed into or cleared.
SetInputValue(n) ==
    /\ FormShown /\ n \in Inputs(wizard.detail) /\ Spend("edits")
    /\ \E origin \in {wizard.detail, NoFlow} :
          wizard' = [wizard EXCEPT !.values[n] = origin]
    /\ UNCHANGED <<details, starts, last, ticked>>

\* Name and email: both, neither, or something that is not valid.
SetGitUser(git) ==
    /\ FormShown /\ git # wizard.git /\ Spend("edits")
    /\ wizard' = [wizard EXCEPT !.git = git]
    /\ UNCHANGED <<details, starts, last, ticked>>

Confirm ==
    /\ FormShown
    /\ wizard' = [wizard EXCEPT !.confirm = ~@]
    /\ ticked' = ~wizard.confirm
    /\ UNCHANGED <<errand, details, starts, last>>

Back ==
    /\ Filling
    /\ wizard' = [wizard EXCEPT !.step = "pick"]
    /\ UNCHANGED <<errand, details, starts, last, ticked>>

MissingRequired == {n \in Required(wizard.detail) : wizard.values[n] = NoFlow}
CanStart ==
    /\ wizard.selected # NoFlow /\ wizard.detail # NoFlow
    /\ MissingRequired = {} /\ wizard.git # "invalid"
    /\ wizard.confirm /\ ~wizard.busy

\* The inputs that are not blank are posted for the selected workflow.
BuildInputs ==
    [n \in {i \in DOMAIN wizard.values : wizard.values[i] # NoFlow} |-> wizard.values[n]]
Start ==
    /\ Filling /\ CanStart /\ Spend("starts")
    /\ wizard' = [wizard EXCEPT !.busy = TRUE]
    /\ starts' = starts + 1
    /\ last' = [workflow |-> wizard.selected, form |-> wizard.detail,
                inputs |-> BuildInputs, ticked |-> ticked]
    /\ UNCHANGED <<details, ticked>>

\* onStart has returned: the dialog is closed, whichever opening it is.
\* It throws if the start is refused, guarded or lost: the dialog stays.
StartReturns(open) ==
    /\ starts > 0
    /\ starts' = starts - 1
    /\ wizard' = [wizard EXCEPT !.busy = FALSE, !.open = open]
    /\ UNCHANGED <<errand, details, last, ticked>>
Succeeds == StartReturns(FALSE)
Fails == StartReturns(wizard.open)

----------------------------------------------------------------------------

WizardNext ==
    \/ \E initial \in Flow \cup {NoFlow} : Open(initial)
    \/ Close \/ Proceed \/ Confirm \/ Back \/ Start \/ Succeeds \/ Fails
    \/ \E flow \in Flow :
          \/ Pick(flow) \/ DetailLoaded(flow) \/ DetailFailed(flow)
          \/ \E n \in Inputs(flow) : SetInputValue(n)
    \/ \E git \in {"none", "valid", "invalid"} : SetGitUser(git)

WizardSpec == WizardInit /\ [][WizardNext]_wizardVars

\* A start that is posted carries inputs given on one form only, the one on
\* display, with all that form requires, and was confirmed since the dialog
\* was opened, in whatever order the answers about workflows come; and one
\* start at a time is on its way, however often the dialog is opened again.
StartsAreMeant ==
    /\ \A n \in DOMAIN last.inputs : last.inputs[n] = last.form
    /\ Required(last.form) \subseteq DOMAIN last.inputs
    /\ last.ticked
    /\ starts <= 1
===============================================================================
