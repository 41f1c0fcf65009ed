--------------------------- MODULE RunDialogProofs ----------------------------
(***************************************************************************)
(* What the two dialogs guarantee by which a user acts on runs: the wizard *)
(* that starts them (StartWizard), and the view in which their approvals   *)
(* are decided (ApprovalInbox).                                            *)
(***************************************************************************)
EXTENDS StartWizard, ApprovalInbox, TLAPS, SequenceTheorems, FiniteSetTheorems

-------------------------------------------------------------------------------
(***************************************************************************)
(* Starts of the wizard are meant, for all workflows and any number of     *)
(* openings, loads and starts.  What makes it so, in whatever order the    *)
(* answers come: values and detail are replaced together, confirm only     *)
(* survives while the dialog is open, and busy survives its closing.       *)
(***************************************************************************)

\* Of values: they cover the form on display and were given on it.
ValuesFit ==
    wizard.detail # NoFlow =>
        /\ Inputs(wizard.detail) \subseteq DOMAIN wizard.values
        /\ \A n \in DOMAIN wizard.values : wizard.values[n] \in {wizard.detail, NoFlow}

WizardTypeOK ==
    wizard = [open |-> wizard.open, step |-> wizard.step, selected |-> wizard.selected,
              detail |-> wizard.detail, loading |-> wizard.loading,
              values |-> wizard.values, git |-> wizard.git, confirm |-> wizard.confirm,
              busy |-> wizard.busy]

\* Of starts: busy says whether one is on its way, so there is never another.
OneStart == starts \in Nat /\ starts <= 1 /\ (starts = 1 => wizard.busy)

\* The inductive invariant.
WizardInv ==
    /\ WizardTypeOK
    /\ ValuesFit
    /\ wizard.confirm => ticked
    /\ OneStart
    /\ wizard.busy \in BOOLEAN
    /\ StartsAreMeant

----------------------------------------------------------------------------

\* The invariant holds when the page is loaded: nothing is on its way.
LEMMA InitWizardInv == WizardInit => WizardInv
<1> SUFFICES ASSUME WizardInit PROVE WizardInv
  OBVIOUS
<1>1. WizardTypeOK /\ wizard.detail = NoFlow /\ ~wizard.confirm /\ wizard.busy = FALSE
  BY DEF WizardInit, WizardTypeOK, Closed
<1>2. DOMAIN Defaults(NoFlow) = {} /\ Required(NoFlow) = {}
  BY DEF Defaults, Required, Inputs
<1>3. StartsAreMeant
  BY <1>2 DEF StartsAreMeant, WizardInit
<1>4. starts = 0
  BY DEF WizardInit
<1>5. OneStart
  BY <1>4 DEF OneStart
<1>6. wizard.busy \in BOOLEAN
  BY <1>1
<1>7. ValuesFit
  BY <1>1 DEF ValuesFit
<1> QED BY <1>1, <1>3, <1>5, <1>6, <1>7, Zenon DEF WizardInv

\* The steps that leave values, detail, confirm and busy alone: Close, Pick,
\* Proceed, Back and what is typed as the git user.
LEMMA QuietStep ==
    ASSUME WizardInv, WizardTypeOK',
           wizard'.detail = wizard.detail, wizard'.values = wizard.values,
           wizard'.confirm = wizard.confirm, wizard'.busy = wizard.busy,
           UNCHANGED <<starts, last, ticked>>
    PROVE  WizardInv'
BY DEF WizardInv, ValuesFit, StartsAreMeant, OneStart

\* The values an answer brings are those of its form.
LEMMA DefaultsFit ==
    ASSUME NEW flow
    PROVE  /\ DOMAIN Defaults(flow) = Inputs(flow)
           /\ \A n \in DOMAIN Defaults(flow) : Defaults(flow)[n] \in {flow, NoFlow}
BY DEF Defaults

\* The invariant is inductive.
LEMMA NextWizardInv == WizardInv /\ [WizardNext]_wizardVars => WizardInv'
<1> SUFFICES ASSUME WizardInv, [WizardNext]_wizardVars PROVE WizardInv'
  OBVIOUS
<1> USE DEF WizardTypeOK
<1>1. ASSUME NEW initial, Open(initial) PROVE WizardInv'
  <2>1. wizard' = Reopened(initial) /\ UNCHANGED <<starts, last>>
    BY <1>1 DEF Open
  <2>2. /\ WizardTypeOK' /\ wizard'.detail = NoFlow /\ ~wizard'.confirm
        /\ wizard'.busy = wizard.busy
    BY <2>1 DEF Reopened, Closed
  <2> QED BY <2>1, <2>2 DEF WizardInv, ValuesFit, StartsAreMeant, OneStart
<1>2. CASE Close
  BY <1>2, QuietStep DEF Close, WizardInv
<1>3. ASSUME NEW flow, Pick(flow) PROVE WizardInv'
  BY <1>3, QuietStep DEF Pick, Load, WizardInv
<1>4. CASE Proceed
  BY <1>4, QuietStep DEF Proceed, Load, WizardInv
<1>5. ASSUME NEW flow, DetailLoaded(flow) PROVE WizardInv'
  <2>1. UNCHANGED <<starts, last, ticked>>
    BY <1>5 DEF DetailLoaded, Answered
  <2>2. /\ WizardTypeOK' /\ wizard'.detail = flow /\ wizard'.values = Defaults(flow)
        /\ wizard'.confirm = wizard.confirm /\ wizard'.busy = wizard.busy
    BY <1>5 DEF DetailLoaded, WizardInv
  <2>3. ValuesFit'
    BY <2>2, DefaultsFit DEF ValuesFit
  <2> QED BY <2>1, <2>2, <2>3 DEF WizardInv, StartsAreMeant, OneStart
<1>6. ASSUME NEW flow, DetailFailed(flow) PROVE WizardInv'
  <2>1. UNCHANGED <<starts, last, ticked>>
    BY <1>6 DEF DetailFailed, Answered
  <2>2. /\ WizardTypeOK' /\ wizard'.detail = NoFlow
        /\ wizard'.confirm = wizard.confirm /\ wizard'.busy = wizard.busy
    BY <1>6 DEF DetailFailed, WizardInv
  <2> QED BY <2>1, <2>2 DEF WizardInv, ValuesFit, StartsAreMeant, OneStart
<1>7. ASSUME NEW n, SetInputValue(n) PROVE WizardInv'
  <2>1. PICK origin \in {wizard.detail, NoFlow} :
            wizard' = [wizard EXCEPT !.values[n] = origin]
    BY <1>7 DEF SetInputValue
  <2>2. /\ WizardTypeOK' /\ wizard'.detail = wizard.detail
        /\ wizard'.values = [wizard.values EXCEPT ![n] = origin]
        /\ wizard'.confirm = wizard.confirm /\ wizard'.busy = wizard.busy
    BY <2>1 DEF WizardInv
  <2>3. ValuesFit'
    BY <2>2 DEF WizardInv, ValuesFit
  <2>4. UNCHANGED <<starts, last, ticked>>
    BY <1>7 DEF SetInputValue
  <2> QED BY <2>2, <2>3, <2>4 DEF WizardInv, StartsAreMeant, OneStart
<1>8. ASSUME NEW git, SetGitUser(git) PROVE WizardInv'
  BY <1>8, QuietStep DEF SetGitUser, WizardInv
<1>9. CASE Confirm
  <2>1. /\ WizardTypeOK' /\ wizard'.detail = wizard.detail
        /\ wizard'.values = wizard.values
        /\ wizard'.confirm = ~wizard.confirm /\ wizard'.busy = wizard.busy
    BY <1>9 DEF Confirm, WizardInv
  <2>2. UNCHANGED <<starts, last>> /\ ticked' = ~wizard.confirm
    BY <1>9 DEF Confirm
  <2> QED BY <2>1, <2>2 DEF WizardInv, ValuesFit, StartsAreMeant, OneStart
<1>10. CASE Back
  BY <1>10, QuietStep DEF Back, WizardInv
<1>11. CASE Start
  <2>1. /\ wizard.detail # NoFlow /\ MissingRequired = {} /\ wizard.confirm
        /\ ~wizard.busy
    BY <1>11 DEF Start, CanStart
  <2>2. starts = 0 /\ starts' = starts + 1
    BY <1>11, <2>1 DEF Start, WizardInv, OneStart
  <2>3. /\ WizardTypeOK' /\ wizard'.detail = wizard.detail
        /\ wizard'.values = wizard.values
        /\ wizard'.confirm = wizard.confirm /\ wizard'.busy = TRUE /\ ticked' = ticked
    BY <1>11 DEF Start, WizardInv
  <2>4. /\ last'.form = wizard.detail /\ last'.inputs = BuildInputs
        /\ last'.ticked = ticked
    BY <1>11 DEF Start
  <2>5. \A n \in DOMAIN BuildInputs : BuildInputs[n] = wizard.detail
    BY <2>1 DEF BuildInputs, WizardInv, ValuesFit
  <2>6. Required(wizard.detail) \subseteq DOMAIN BuildInputs
    BY <2>1 DEF BuildInputs, MissingRequired, Required, WizardInv, ValuesFit
  <2>7. ticked /\ starts' <= 1
    BY <2>1, <2>2 DEF WizardInv
  <2>8. StartsAreMeant'
    BY <2>4, <2>5, <2>6, <2>7 DEF StartsAreMeant
  <2>9. OneStart'
    BY <2>2, <2>3 DEF OneStart
  <2>10. ValuesFit'
    BY <2>3 DEF WizardInv, ValuesFit
  <2>11. (wizard.confirm => ticked)' /\ (wizard.busy \in BOOLEAN)'
    BY <2>1, <2>3, <2>7
  <2> QED BY <2>3, <2>8, <2>9, <2>10, <2>11, Zenon DEF WizardInv
<1>12. ASSUME NEW open, StartReturns(open) PROVE WizardInv'
  <2>1. starts' = 0 /\ UNCHANGED <<last, ticked>>
    BY <1>12 DEF StartReturns, WizardInv, OneStart
  <2>2. /\ WizardTypeOK' /\ wizard'.detail = wizard.detail
        /\ wizard'.values = wizard.values
        /\ wizard'.confirm = wizard.confirm /\ wizard'.busy = FALSE
    BY <1>12 DEF StartReturns, WizardInv
  <2>3. OneStart'
    BY <2>1 DEF OneStart
  <2>4. ValuesFit' /\ (wizard.confirm => ticked)'
    BY <2>1, <2>2 DEF WizardInv, ValuesFit
  <2>5. StartsAreMeant'
    BY <2>1 DEF WizardInv, StartsAreMeant, OneStart
  <2>6. (wizard.busy \in BOOLEAN)'
    BY <2>2
  <2> QED BY <2>2, <2>3, <2>4, <2>5, <2>6, Zenon DEF WizardInv
<1>13. CASE UNCHANGED wizardVars
  <2>1. UNCHANGED <<wizard, starts, last, ticked>>
    BY <1>13 DEF wizardVars
  <2>2. OneStart'
    BY <2>1 DEF WizardInv, OneStart
  <2>3. ValuesFit' /\ StartsAreMeant'
    BY <2>1 DEF WizardInv, ValuesFit, StartsAreMeant
  <2>4. WizardTypeOK' /\ (wizard.confirm => ticked)' /\ (wizard.busy \in BOOLEAN)'
    BY <2>1 DEF WizardInv
  <2> QED BY <2>2, <2>3, <2>4, Zenon DEF WizardInv
<1> QED
  BY <1>1, <1>2, <1>3, <1>4, <1>5, <1>6, <1>7, <1>8, <1>9, <1>10, <1>11, <1>12, <1>13
     DEF WizardNext, Succeeds, Fails

\* A start that is posted carries inputs given on one form only, with all that
\* form requires, and was confirmed since the dialog was opened; and one start
\* at a time is on its way, however often the dialog is opened again.
THEOREM StartsAlwaysMeant == WizardSpec => []StartsAreMeant
<1>1. WizardInv => StartsAreMeant
  BY DEF WizardInv
<1> QED BY <1>1, InitWizardInv, NextWizardInv, PTL DEF WizardSpec

-------------------------------------------------------------------------------
(***************************************************************************)
(* What the approvals view decides and shows, for every set of approvals,  *)
(* any number of clients, lists and answers: drafts stay with the approval *)
(* they were written for, the preview is of what is selected, and an       *)
(* approval is resumed once.                                               *)
(***************************************************************************)

\* Of posts and of answers to previews: the records they are.
PostsShaped ==
    /\ posts = [c \in Client |-> posts[c]]
    /\ \A c \in Client :
          posts[c] = [of |-> posts[c].of, drafts |-> posts[c].drafts,
                      resume |-> posts[c].resume, stage |-> posts[c].stage]
Answer(p) == p = [of |-> p.of, path |-> p.path, live |-> p.live]

\* What is drafted was written for the approval the effects ran for last.
DraftsOfSeen ==
    /\ message \subseteq {seen}
    /\ \A draft \in annotations : draft.of = seen

\* What is shown, or will be, is of that approval and of its artifact.
EvidenceOfSeen ==
    /\ preview \in {Nothing, [of |-> seen, path |-> artifact]}
    /\ \A p \in previews : Answer(p) /\ (p.live => p.of = seen /\ p.path = artifact)

\* The decision of c was taken, and its run is about to be resumed.
Taken(c) == posts[c].stage = "decided"

\* An approval is pending, or its decision was taken, or it was resumed.
QueueOK ==
    /\ pending \in Seq(asked) /\ asked \subseteq Approval
    /\ \A i, j \in DOMAIN pending : pending[i] = pending[j] => i = j
    /\ resumed \in [Approval -> {0, 1}]
    /\ \A a \in Approval : resumed[a] = 1 => a \in asked \ ToSet(pending)
    /\ \A c \in Client : Taken(c) =>
          posts[c].of \in asked \ ToSet(pending) /\ resumed[posts[c].of] = 0
    /\ \A c, d \in Client :
          Taken(c) /\ Taken(d) /\ posts[c].of = posts[d].of => c = d
    /\ habit \in Habits

InboxInv ==
    /\ PostsShaped
    /\ DraftsOfSeen
    /\ EvidenceOfSeen
    /\ QueueOK
    /\ DraftsStayWithApproval

-----------------------------------------------------------------------------
(* Lists of approvals.                                                     *)

OnceEach(list) == \A i, j \in DOMAIN list : list[i] = list[j] => i = j

\* An approval that is added to a list at its end.
LEMMA AddedLast ==
    ASSUME NEW S, NEW list \in Seq(S), OnceEach(list), NEW a, a \notin ToSet(list)
    PROVE  /\ Append(list, a) \in Seq(S \cup {a})
           /\ OnceEach(Append(list, a))
           /\ ToSet(Append(list, a)) = ToSet(list) \cup {a}
<1> DEFINE longer == Append(list, a)
<1>1. /\ longer \in Seq(S \cup {a})
      /\ DOMAIN longer = 1..(Len(list) + 1) /\ DOMAIN list = 1..Len(list)
      /\ Len(list) \in Nat /\ longer[Len(list) + 1] = a
      /\ \A i \in DOMAIN list : longer[i] = list[i]
  OBVIOUS
<1>2. \A i \in DOMAIN list : list[i] # a
  BY DEF ToSet
<1> HIDE DEF longer
<1>3. OnceEach(longer)
  BY <1>1, <1>2 DEF OnceEach
<1>4. ToSet(longer) = ToSet(list) \cup {a}
  BY <1>1 DEF ToSet
<1> QED
  BY <1>1, <1>3, <1>4 DEF longer

\* An approval that is added to a list in front.
LEMMA AddedFirst ==
    ASSUME NEW S, NEW list \in Seq(S), OnceEach(list), NEW a, a \notin ToSet(list)
    PROVE  /\ <<a>> \o list \in Seq(S \cup {a})
           /\ OnceEach(<<a>> \o list)
           /\ ToSet(<<a>> \o list) = ToSet(list) \cup {a}
<1> DEFINE longer == <<a>> \o list
<1>1. /\ longer \in Seq(S \cup {a})
      /\ DOMAIN longer = 1..(Len(list) + 1) /\ DOMAIN list = 1..Len(list)
      /\ Len(list) \in Nat /\ longer[1] = a
      /\ \A i \in DOMAIN longer \ {1} : i - 1 \in DOMAIN list /\ longer[i] = list[i - 1]
      /\ \A i \in DOMAIN list : i + 1 \in DOMAIN longer /\ longer[i + 1] = list[i]
  OBVIOUS
<1>2. \A i \in DOMAIN list : list[i] # a
  BY DEF ToSet
<1> HIDE DEF longer
<1>3. OnceEach(longer)
  <2> SUFFICES ASSUME NEW i \in DOMAIN longer, NEW j \in DOMAIN longer,
                      longer[i] = longer[j]
               PROVE  i = j
    BY DEF OnceEach
  <2>1. CASE i = 1 \/ j = 1
    BY <1>1, <1>2, <2>1
  <2>2. CASE i # 1 /\ j # 1
    <3>1. i - 1 = j - 1
      BY <1>1, <2>2 DEF OnceEach
    <3> QED
      BY <3>1, <1>1
  <2> QED
    BY <2>1, <2>2
<1>4. ToSet(longer) = ToSet(list) \cup {a}
  <2>1. ToSet(longer) \subseteq ToSet(list) \cup {a}
    BY <1>1 DEF ToSet
  <2>2. ToSet(list) \cup {a} \subseteq ToSet(longer)
    BY <1>1 DEF ToSet
  <2> QED
    BY <2>1, <2>2
<1> QED
  BY <1>1, <1>3, <1>4 DEF longer

\* A list without one of its elements: those behind it move up.
LEMMA Removed ==
    ASSUME NEW S, NEW list \in Seq(S), NEW at \in 1..Len(list)
    PROVE  /\ RemoveAt(list, at) \in Seq(S)
           /\ Len(RemoveAt(list, at)) = Len(list) - 1
           /\ \A i \in 1..(Len(list) - 1) :
                 RemoveAt(list, at)[i] = IF i < at THEN list[i] ELSE list[i + 1]
<1> DEFINE front == SubSeq(list, 1, at - 1)
           back == SubSeq(list, at + 1, Len(list))
<1>1. Len(list) \in Nat /\ at \in Nat /\ \A i \in 1..Len(list) : list[i] \in S
  OBVIOUS
<1>2. /\ front \in Seq(S) /\ Len(front) = at - 1
      /\ \A i \in 1..(at - 1) : front[i] = list[i]
  <2>1. \A i \in 1..(at - 1) : list[i] \in S
    BY <1>1
  <2>2. /\ front \in Seq(S) /\ Len(front) = IF 1 <= at - 1 THEN at - 1 - 1 + 1 ELSE 0
        /\ \A i \in 1..(at - 1 - 1 + 1) : front[i] = list[1 + i - 1]
    BY <1>1, <2>1, SubSeqProperties
  <2> HIDE DEF front
  <2>3. Len(front) = at - 1
    BY <1>1, <2>2
  <2>4. \A i \in 1..(at - 1) : front[i] = list[i]
    BY <1>1, <2>2
  <2> QED
    BY <2>2, <2>3, <2>4
<1>3. /\ back \in Seq(S) /\ Len(back) = Len(list) - at
      /\ \A i \in 1..(Len(list) - at) : back[i] = list[i + at]
  <2>1. \A i \in (at + 1)..Len(list) : list[i] \in S
    BY <1>1
  <2>2. /\ back \in Seq(S)
        /\ Len(back) = IF at + 1 <= Len(list) THEN Len(list) - (at + 1) + 1 ELSE 0
        /\ \A i \in 1..(Len(list) - (at + 1) + 1) : back[i] = list[at + 1 + i - 1]
    BY <1>1, <2>1, SubSeqProperties
  <2> HIDE DEF back
  <2>3. Len(back) = Len(list) - at
    BY <1>1, <2>2
  <2>4. \A i \in 1..(Len(list) - at) : back[i] = list[i + at]
    BY <1>1, <2>2
  <2> QED
    BY <2>2, <2>3, <2>4
<1>4. RemoveAt(list, at) = front \o back
  BY DEF RemoveAt
<1> HIDE DEF front, back
<1>5. /\ front \o back \in Seq(S) /\ Len(front \o back) = Len(front) + Len(back)
      /\ \A i \in 1..Len(front) + Len(back) : (front \o back)[i] =
             IF i <= Len(front) THEN front[i] ELSE back[i - Len(front)]
  BY <1>2, <1>3, ConcatProperties
<1>6. Len(front) + Len(back) = Len(list) - 1
  BY <1>1, <1>2, <1>3
<1>7. ASSUME NEW i \in 1..(Len(list) - 1)
      PROVE  (front \o back)[i] = IF i < at THEN list[i] ELSE list[i + 1]
  <2>1. (front \o back)[i] = IF i <= Len(front) THEN front[i] ELSE back[i - Len(front)]
    BY <1>5, <1>6
  <2>2. CASE i < at
    <3>1. i \in 1..(at - 1) /\ i <= Len(front)
      BY <1>1, <1>2, <2>2
    <3> QED
      BY <1>2, <2>1, <2>2, <3>1
  <2>3. CASE ~(i < at)
    <3> DEFINE k == i - (at - 1)
    <3>1. /\ k \in 1..(Len(list) - at) /\ ~(i <= Len(front))
          /\ i - Len(front) = k /\ k + at = i + 1
      BY <1>1, <1>2, <2>3
    <3> HIDE DEF k
    <3>2. back[k] = list[k + at]
      BY <1>3, <3>1
    <3> QED
      BY <2>1, <2>3, <3>1, <3>2
  <2> QED
    BY <2>2, <2>3
<1> QED
  BY <1>4, <1>5, <1>6, <1>7

\* An approval that is taken out of a list is no longer in it.
LEMMA TakenOut ==
    ASSUME NEW S, NEW list \in Seq(S), OnceEach(list), NEW a \in ToSet(list)
    PROVE  /\ Without(list, a) \in Seq(S)
           /\ OnceEach(Without(list, a))
           /\ ToSet(Without(list, a)) = ToSet(list) \ {a}
<1> DEFINE at == CHOOSE i \in DOMAIN list : list[i] = a
           rest == RemoveAt(list, at)
<1>1. at \in DOMAIN list /\ list[at] = a
  BY DEF ToSet
<1>2. Without(list, a) = rest
  BY DEF Without
<1>3. DOMAIN list = 1..Len(list) /\ Len(list) \in Nat /\ at \in 1..Len(list)
  BY <1>1
<1> HIDE DEF at
<1>5. rest \in Seq(S) /\ DOMAIN rest = 1..(Len(list) - 1)
  BY <1>3, Removed
<1>6. \A i \in DOMAIN rest : rest[i] = IF i < at THEN list[i] ELSE list[i + 1]
  BY <1>3, <1>5, Removed
<1> HIDE DEF rest
<1>7. OnceEach(rest)
  <2> SUFFICES ASSUME NEW i \in DOMAIN rest, NEW j \in DOMAIN rest, rest[i] = rest[j]
               PROVE  i = j
    BY DEF OnceEach
  <2> DEFINE from(k) == IF k < at THEN k ELSE k + 1
  <2>1. from(i) \in DOMAIN list /\ from(j) \in DOMAIN list
    BY <1>3, <1>5
  <2>2. from(i) = from(j)
    BY <2>1, <1>6 DEF OnceEach
  <2> QED
    BY <2>2, <1>3, <1>5
<1>8. \A x : x \in ToSet(rest) <=> x \in ToSet(list) \ {a}
  <2>1. ASSUME NEW i \in DOMAIN rest PROVE rest[i] \in ToSet(list) \ {a}
    <3> DEFINE k == IF i < at THEN i ELSE i + 1
    <3>1. k \in DOMAIN list /\ k # at /\ rest[i] = list[k]
      BY <1>3, <1>5, <1>6
    <3> QED
      BY <3>1, <1>1 DEF OnceEach, ToSet
  <2>2. ASSUME NEW k \in DOMAIN list, list[k] # a PROVE list[k] \in ToSet(rest)
    <3> DEFINE i == IF k < at THEN k ELSE k - 1
    <3>1. k # at
      BY <2>2, <1>1
    <3>2. i \in DOMAIN rest /\ rest[i] = list[k]
      BY <3>1, <1>3, <1>5, <1>6
    <3> QED
      BY <3>2 DEF ToSet
  <2> QED
    BY <2>1, <2>2 DEF ToSet
<1> QED
  BY <1>2, <1>5, <1>7, <1>8

-----------------------------------------------------------------------------
(* The decisions posted, and the parts of the invariant that an action     *)
(* leaves alone.                                                           *)

\* The client c moves on with what it has posted.
LEMMA PostMoved ==
    ASSUME PostsShaped, NEW c \in Client, NEW stage, Post(c, stage)
    PROVE  /\ PostsShaped'
           /\ \A d \in Client : /\ posts'[d].of = posts[d].of
                                /\ posts'[d].drafts = posts[d].drafts
           /\ posts'[c].stage = stage
           /\ \A d \in Client \ {c} : posts'[d].stage = posts[d].stage
<1>1. posts' = [d \in Client |-> IF d = c THEN [posts[d] EXCEPT !.stage = stage]
                                ELSE posts[d]]
  BY DEF PostsShaped, Post
<1>2. posts'[c] = [of |-> posts[c].of, drafts |-> posts[c].drafts,
                   resume |-> posts[c].resume, stage |-> stage]
  <2>1. posts[c] = [of |-> posts[c].of, drafts |-> posts[c].drafts,
                    resume |-> posts[c].resume, stage |-> posts[c].stage]
    BY DEF PostsShaped
  <2> QED
    BY <1>1, <2>1
<1>3. \A d \in Client \ {c} : posts'[d] = posts[d]
  BY <1>1
<1>4. PostsShaped'
  BY <1>1, <1>2, <1>3 DEF PostsShaped
<1> QED
  BY <1>2, <1>3, <1>4

\* The client c posts something else, or nothing.
LEMMA PostReplaced ==
    ASSUME PostsShaped, NEW c \in Client, NEW of, NEW written, NEW resume, NEW stage,
           posts' = [posts EXCEPT ![c] = [of |-> of, drafts |-> written,
                                          resume |-> resume, stage |-> stage]]
    PROVE  /\ PostsShaped'
           /\ posts'[c].of = of /\ posts'[c].drafts = written /\ posts'[c].stage = stage
           /\ \A d \in Client \ {c} : posts'[d] = posts[d]
<1>1. posts' = [d \in Client |->
                   IF d = c THEN [of |-> of, drafts |-> written, resume |-> resume,
                                  stage |-> stage]
                   ELSE posts[d]]
  BY DEF PostsShaped
<1>2. PostsShaped'
  BY <1>1 DEF PostsShaped
<1> QED
  BY <1>1, <1>2

\* An action that takes no decision and moves nobody on to "decided".
LEMMA QueueKept ==
    ASSUME QueueOK, UNCHANGED queue,
           \A c \in Client : Taken(c)' => Taken(c) /\ posts'[c].of = posts[c].of
    PROVE  QueueOK'
<1> USE DEF queue
<1>1. /\ (pending \in Seq(asked) /\ asked \subseteq Approval)'
      /\ (\A i, j \in DOMAIN pending : pending[i] = pending[j] => i = j)'
      /\ (resumed \in [Approval -> {0, 1}])'
      /\ (habit \in Habits)'
  BY DEF QueueOK
<1>2. (\A a \in Approval : resumed[a] = 1 => a \in asked \ ToSet(pending))'
  BY DEF QueueOK
<1>3. (\A c \in Client : Taken(c) =>
          posts[c].of \in asked \ ToSet(pending) /\ resumed[posts[c].of] = 0)'
  BY DEF QueueOK
<1>4. (\A c, d \in Client :
          Taken(c) /\ Taken(d) /\ posts[c].of = posts[d].of => c = d)'
  BY DEF QueueOK
<1> QED
  BY <1>1, <1>2, <1>3, <1>4 DEF QueueOK

LEMMA PostsKept ==
    ASSUME InboxInv, UNCHANGED posts
    PROVE  PostsShaped' /\ DraftsStayWithApproval' /\ (UNCHANGED queue => QueueOK')
<1>1. PostsShaped' /\ DraftsStayWithApproval'
  BY DEF InboxInv, PostsShaped, DraftsStayWithApproval
<1>2. ASSUME UNCHANGED queue PROVE QueueOK'
  BY <1>2, QueueKept DEF InboxInv, Taken
<1> QED
  BY <1>1, <1>2

LEMMA DraftsKept ==
    ASSUME InboxInv, UNCHANGED <<seen, drafts>>
    PROVE  DraftsOfSeen'
BY DEF InboxInv, DraftsOfSeen, drafts

LEMMA EvidenceKept ==
    ASSUME InboxInv, UNCHANGED evidence
    PROVE  EvidenceOfSeen'
BY DEF InboxInv, EvidenceOfSeen, evidence, Answer

\* The effect on the artifact: what was asked for before is no longer live.
LEMMA Previewed ==
    ASSUME EvidenceOfSeen, NEW a, NEW path, seen' = a, Preview(a, path)
    PROVE  EvidenceOfSeen'
<1>1. artifact' = path /\ preview' = Nothing
  BY DEF Preview
<1>2. ASSUME NEW p \in previews'
      PROVE  Answer(p) /\ (p.live => p.of = a /\ p.path = path)
  <2>1. CASE p \in {[q EXCEPT !.live = FALSE] : q \in previews}
    <3>1. PICK q \in previews : p = [q EXCEPT !.live = FALSE]
      BY <2>1
    <3>2. q = [of |-> q.of, path |-> q.path, live |-> q.live]
      BY DEF EvidenceOfSeen, Answer
    <3>3. p = [of |-> q.of, path |-> q.path, live |-> FALSE]
      BY <3>1, <3>2
    <3> QED
      BY <3>3 DEF Answer
  <2>2. CASE p = [of |-> a, path |-> path, live |-> TRUE]
    BY <2>2 DEF Answer
  <2> QED
    BY <1>2, <2>1, <2>2 DEF Preview
<1> QED
  BY <1>1, <1>2 DEF EvidenceOfSeen, Answer

-----------------------------------------------------------------------------
(* The invariant holds of what the page starts with, and of every step.    *)

LEMMA InitInboxInv == InboxInit => InboxInv
<1> SUFFICES ASSUME InboxInit PROVE InboxInv
  OBVIOUS
<1> USE DEF InboxInit
<1>1. PostsShaped /\ DraftsStayWithApproval /\ \A c \in Client : ~Taken(c)
  BY DEF PostsShaped, DraftsStayWithApproval, NoPost, Taken
<1>2. DraftsOfSeen /\ EvidenceOfSeen
  BY DEF DraftsOfSeen, EvidenceOfSeen
<1>3. QueueOK
  <2>1. habit \in Habits /\ IsFiniteSet(habit.about) /\ habit.about \subseteq Approval
    BY InboxAssumption
  <2>2. IsFiniteSet(asked) /\ asked \subseteq Approval
    BY <2>1, FS_Subset
  <2>3. Cardinality(asked) \in Nat
    BY <2>2, FS_CardinalityType
  <2>4. /\ pending \in [1..Cardinality(asked) -> asked]
        /\ \A i, j \in 1..Cardinality(asked) : i # j => pending[i] # pending[j]
    BY DEF SetToSeqs
  <2>5. pending \in Seq(asked)
    BY <2>3, <2>4
  <2> QED
    BY <1>1, <2>1, <2>2, <2>4, <2>5 DEF QueueOK
<1> QED
  BY <1>1, <1>2, <1>3 DEF InboxInv

\* A gate is reached: its approval was not asked for, so nobody has decided it.
LEMMA AskApprovalInv ==
    ASSUME InboxInv, NEW a \in Approval, AskApproval(a)
    PROVE  InboxInv'
<1>1. a \notin asked /\ asked' = asked \cup {a} /\ UNCHANGED <<habit, resumed, posts>>
  BY DEF AskApproval
<1>2. pending \in Seq(asked) /\ OnceEach(pending) /\ a \notin ToSet(pending)
  BY <1>1 DEF InboxInv, QueueOK, OnceEach, ToSet
<1>3. /\ pending' \in Seq(asked') /\ OnceEach(pending')
      /\ ToSet(pending') = ToSet(pending) \cup {a}
  <2>1. CASE pending' = Append(pending, a)
    BY <1>1, <1>2, <2>1, AddedLast
  <2>2. CASE pending' = <<a>> \o pending
    BY <1>1, <1>2, <2>2, AddedFirst
  <2> QED
    BY <2>1, <2>2 DEF AskApproval
<1>4. QueueOK'
  <2>1. /\ (pending \in Seq(asked) /\ asked \subseteq Approval)'
        /\ (\A i, j \in DOMAIN pending : pending[i] = pending[j] => i = j)'
        /\ (resumed \in [Approval -> {0, 1}])'
        /\ (habit \in Habits)'
    BY <1>1, <1>3 DEF InboxInv, QueueOK, OnceEach
  <2>2. (\A b \in Approval : resumed[b] = 1 => b \in asked \ ToSet(pending))'
    BY <1>1, <1>3 DEF InboxInv, QueueOK
  <2>3. (\A c \in Client : Taken(c) =>
            posts[c].of \in asked \ ToSet(pending) /\ resumed[posts[c].of] = 0)'
    BY <1>1, <1>3 DEF InboxInv, QueueOK, Taken
  <2>4. (\A c, d \in Client :
            Taken(c) /\ Taken(d) /\ posts[c].of = posts[d].of => c = d)'
    BY <1>1 DEF InboxInv, QueueOK, Taken
  <2> QED
    BY <2>1, <2>2, <2>3, <2>4 DEF QueueOK
<1>5. PostsShaped' /\ DraftsStayWithApproval'
  BY <1>1, PostsKept
<1>6. DraftsOfSeen' /\ EvidenceOfSeen'
  BY DraftsKept, EvidenceKept DEF AskApproval, evidence
<1> QED
  BY <1>4, <1>5, <1>6 DEF InboxInv

\* A decision that is taken is of an approval that was pending: it was not
\* resumed, and nobody else has taken one of it.
LEMMA RecordDecisionInv ==
    ASSUME InboxInv, NEW c \in Client, RecordDecision(c)
    PROVE  InboxInv'
<1> DEFINE a == posts[c].of
<1>1. PICK stage : Post(c, stage)
  BY DEF RecordDecision
<1>2. /\ PostsShaped'
      /\ \A d \in Client : posts'[d].of = posts[d].of /\ posts'[d].drafts = posts[d].drafts
      /\ posts'[c].stage = stage
      /\ \A d \in Client \ {c} : posts'[d].stage = posts[d].stage
  BY <1>1, PostMoved DEF InboxInv
<1>3. DraftsStayWithApproval'
  BY <1>2 DEF InboxInv, DraftsStayWithApproval
<1>4. DraftsOfSeen' /\ EvidenceOfSeen'
  BY DraftsKept, EvidenceKept DEF RecordDecision, evidence
<1>5. UNCHANGED <<habit, asked, resumed>>
  BY DEF RecordDecision
<1>6. CASE a \in ToSet(pending)
  <2>1. pending' = Without(pending, a)
    BY <1>6 DEF RecordDecision
  <2>2. /\ pending' \in Seq(asked) /\ OnceEach(pending')
        /\ ToSet(pending') = ToSet(pending) \ {a}
    <3>1. pending \in Seq(asked) /\ OnceEach(pending)
      BY DEF InboxInv, QueueOK, OnceEach
    <3> QED
      BY <1>6, <2>1, <3>1, TakenOut
  <2>3. a \in asked /\ a \in Approval
    BY <1>6 DEF InboxInv, QueueOK, ToSet
  <2>4. resumed[a] = 0
    BY <1>6, <2>3 DEF InboxInv, QueueOK
  <2>5. \A d \in Client \ {c} : Taken(d)' => Taken(d) /\ posts[d].of # a
    BY <1>2, <1>6 DEF InboxInv, QueueOK, Taken
  <2>6. /\ (pending \in Seq(asked) /\ asked \subseteq Approval)'
        /\ (\A i, j \in DOMAIN pending : pending[i] = pending[j] => i = j)'
        /\ (resumed \in [Approval -> {0, 1}])'
        /\ (habit \in Habits)'
    BY <1>5, <2>2 DEF InboxInv, QueueOK, OnceEach
  <2>7. (\A b \in Approval : resumed[b] = 1 => b \in asked \ ToSet(pending))'
    BY <1>5, <2>2 DEF InboxInv, QueueOK
  <2>8. (\A d \in Client : Taken(d) =>
            posts[d].of \in asked \ ToSet(pending) /\ resumed[posts[d].of] = 0)'
    <3> SUFFICES ASSUME NEW d \in Client, Taken(d)'
                 PROVE  /\ posts'[d].of \in asked' \ ToSet(pending')
                        /\ resumed'[posts'[d].of] = 0
      OBVIOUS
    <3>1. CASE d = c
      BY <3>1, <1>2, <1>5, <2>2, <2>3, <2>4
    <3>2. CASE d # c
      BY <3>2, <1>2, <1>5, <2>2, <2>5 DEF InboxInv, QueueOK
    <3> QED
      BY <3>1, <3>2
  <2>9. (\A d, e \in Client :
            Taken(d) /\ Taken(e) /\ posts[d].of = posts[e].of => d = e)'
    <3> SUFFICES ASSUME NEW d \in Client, NEW e \in Client, Taken(d)', Taken(e)',
                        posts'[d].of = posts'[e].of
                 PROVE  d = e
      OBVIOUS
    <3>1. CASE d # c /\ e # c
      BY <3>1, <1>2, <2>5 DEF InboxInv, QueueOK
    <3>2. CASE d = c \/ e = c
      BY <3>2, <1>2, <2>5
    <3> QED
      BY <3>1, <3>2
  <2>10. QueueOK'
    BY <2>6, <2>7, <2>8, <2>9 DEF QueueOK
  <2> QED
    BY <1>2, <1>3, <1>4, <2>10 DEF InboxInv
<1>7. CASE a \notin ToSet(pending)
  <2>1. Post(c, "refused") /\ UNCHANGED queue
    BY <1>7 DEF RecordDecision, queue
  <2>2. posts'[c].stage = "refused"
    BY <2>1, PostMoved DEF InboxInv
  <2>3. \A d \in Client : Taken(d)' => Taken(d) /\ posts'[d].of = posts[d].of
    BY <1>2, <2>2 DEF Taken
  <2>4. QueueOK'
    BY <2>1, <2>3, QueueKept DEF InboxInv
  <2> QED
    BY <1>2, <1>3, <1>4, <2>4 DEF InboxInv
<1> QED
  BY <1>6, <1>7

\* Nobody else is about to resume what c resumes.
LEMMA ResumeDecidedInv ==
    ASSUME InboxInv, NEW c \in Client, ResumeDecided(c)
    PROVE  InboxInv'
<1> DEFINE a == posts[c].of
<1>1. Post(c, "answered")
  BY DEF ResumeDecided
<1>2. /\ PostsShaped'
      /\ \A d \in Client : posts'[d].of = posts[d].of /\ posts'[d].drafts = posts[d].drafts
      /\ posts'[c].stage = "answered"
      /\ \A d \in Client \ {c} : posts'[d].stage = posts[d].stage
  BY <1>1, PostMoved DEF InboxInv
<1>3. DraftsStayWithApproval'
  BY <1>2 DEF InboxInv, DraftsStayWithApproval
<1>4. DraftsOfSeen' /\ EvidenceOfSeen'
  BY DraftsKept, EvidenceKept DEF ResumeDecided, evidence
<1>5. /\ UNCHANGED <<habit, pending, asked>>
      /\ resumed' = [resumed EXCEPT ![a] = @ + 1]
      /\ Taken(c)
  BY DEF ResumeDecided, Taken
<1>6. a \in asked \ ToSet(pending) /\ resumed[a] = 0 /\ a \in Approval
  BY <1>5 DEF InboxInv, QueueOK
<1>7. /\ resumed' \in [Approval -> {0, 1}] /\ resumed'[a] = 1
      /\ \A b \in Approval \ {a} : resumed'[b] = resumed[b]
  BY <1>5, <1>6 DEF InboxInv, QueueOK
<1>8. \A d \in Client : Taken(d)' => d # c /\ Taken(d) /\ posts[d].of # a
  BY <1>2, <1>5 DEF InboxInv, QueueOK, Taken
<1>9. QueueOK'
  <2>1. /\ (pending \in Seq(asked) /\ asked \subseteq Approval)'
        /\ (\A i, j \in DOMAIN pending : pending[i] = pending[j] => i = j)'
        /\ (resumed \in [Approval -> {0, 1}])'
        /\ (habit \in Habits)'
    BY <1>5, <1>7 DEF InboxInv, QueueOK
  <2>2. (\A b \in Approval : resumed[b] = 1 => b \in asked \ ToSet(pending))'
    BY <1>5, <1>6, <1>7 DEF InboxInv, QueueOK
  <2>3. (\A d \in Client : Taken(d) =>
            posts[d].of \in asked \ ToSet(pending) /\ resumed[posts[d].of] = 0)'
    <3> SUFFICES ASSUME NEW d \in Client, Taken(d)'
                 PROVE  /\ posts'[d].of \in asked' \ ToSet(pending')
                        /\ resumed'[posts'[d].of] = 0
      OBVIOUS
    <3>1. /\ posts[d].of \in asked \ ToSet(pending) /\ resumed[posts[d].of] = 0
          /\ posts[d].of \in Approval \ {a}
      BY <1>8 DEF InboxInv, QueueOK
    <3> QED
      BY <3>1, <1>2, <1>5, <1>7
  <2>4. (\A d, e \in Client :
            Taken(d) /\ Taken(e) /\ posts[d].of = posts[e].of => d = e)'
    BY <1>2, <1>8 DEF InboxInv, QueueOK
  <2> QED
    BY <2>1, <2>2, <2>3, <2>4 DEF QueueOK
<1> QED
  BY <1>2, <1>3, <1>4, <1>9 DEF InboxInv

\* What a client posts, or gives up, with drafts of the approval it decides.
LEMMA PostingInv ==
    ASSUME InboxInv, NEW c \in Client, NEW of, NEW written, NEW resume, NEW stage,
           written \subseteq {of}, stage # "decided",
           posts' = [posts EXCEPT ![c] = [of |-> of, drafts |-> written,
                                          resume |-> resume, stage |-> stage]],
           UNCHANGED queue
    PROVE  PostsShaped' /\ DraftsStayWithApproval' /\ QueueOK'
<1>1. /\ PostsShaped'
      /\ posts'[c].of = of /\ posts'[c].drafts = written /\ posts'[c].stage = stage
      /\ \A d \in Client \ {c} : posts'[d] = posts[d]
  BY PostReplaced DEF InboxInv
<1>2. DraftsStayWithApproval'
  BY <1>1 DEF InboxInv, DraftsStayWithApproval
<1>3. \A d \in Client : Taken(d)' => Taken(d) /\ posts'[d].of = posts[d].of
  BY <1>1 DEF Taken
<1> QED
  BY <1>1, <1>2, <1>3, QueueKept DEF InboxInv

\* What a client posts, or gives up, without a draft.
LEMMA PostingNoDraftInv ==
    ASSUME InboxInv, NEW c \in Client, NEW of, NEW resume, NEW stage,
           stage # "decided",
           posts' = [posts EXCEPT ![c] = [of |-> of, drafts |-> {},
                                          resume |-> resume, stage |-> stage]],
           UNCHANGED queue
    PROVE  PostsShaped' /\ DraftsStayWithApproval' /\ QueueOK'
<1> DEFINE written == {}
<1>1. written \subseteq {of}
  OBVIOUS
<1>2. posts' = [posts EXCEPT ![c] = [of |-> of, drafts |-> written,
                                     resume |-> resume, stage |-> stage]]
  OBVIOUS
<1> HIDE DEF written
<1> QED
  BY <1>1, <1>2, PostingInv

LEMMA OtherDecidesInv ==
    ASSUME InboxInv, NEW c \in Client, OtherDecides(c)
    PROVE  InboxInv'
<1>1. PICK a \in asked, resume \in BOOLEAN :
         posts' = [posts EXCEPT ![c] = [of |-> a, drafts |-> {}, resume |-> resume,
                                        stage |-> "sent"]]
  BY DEF OtherDecides
<1>2. PostsShaped' /\ DraftsStayWithApproval' /\ QueueOK'
  BY <1>1, PostingNoDraftInv DEF OtherDecides
<1>3. DraftsOfSeen' /\ EvidenceOfSeen'
  BY DraftsKept, EvidenceKept DEF OtherDecides, evidence
<1> QED
  BY <1>2, <1>3 DEF InboxInv

\* Everything drafted is of the approval that is selected, once the effects
\* have run.
LEMMA DecideInv ==
    ASSUME InboxInv, Decide
    PROVE  InboxInv'
<1> DEFINE written == message \cup {draft.of : draft \in annotations}
<1>1. PICK resume \in BOOLEAN :
         posts' = [posts EXCEPT ![Me] = [of |-> Selected, drafts |-> written,
                                         resume |-> resume, stage |-> "sent"]]
  BY DEF Decide
<1>2. written \subseteq {Selected}
  BY DEF Decide, Rendered, InboxInv, DraftsOfSeen
<1>3. Me \in Client /\ UNCHANGED queue
  BY DEF Client, Decide
<1>4. PostsShaped' /\ DraftsStayWithApproval' /\ QueueOK'
  <2> HIDE DEF written
  <2> QED
    BY <1>1, <1>2, <1>3, PostingInv
<1>5. DraftsOfSeen' /\ EvidenceOfSeen'
  BY DraftsKept, EvidenceKept DEF Decide, evidence
<1> QED
  BY <1>4, <1>5 DEF InboxInv

LEMMA DecisionRefusedInv ==
    ASSUME InboxInv, NEW c \in Client, DecisionRefused(c)
    PROVE  InboxInv'
<1>1. posts' = [posts EXCEPT ![c] = [of |-> NoApproval, drafts |-> {},
                                     resume |-> FALSE, stage |-> "none"]]
  BY DEF DecisionRefused, NoPost
<1>2. PostsShaped' /\ DraftsStayWithApproval' /\ QueueOK'
  BY <1>1, PostingNoDraftInv DEF DecisionRefused
<1>3. DraftsOfSeen' /\ EvidenceOfSeen'
  BY DraftsKept, EvidenceKept DEF DecisionRefused, evidence
<1> QED
  BY <1>2, <1>3 DEF InboxInv

LEMMA DecidedInv ==
    ASSUME InboxInv, Decided
    PROVE  InboxInv'
<1>1. Me \in Client /\ Post(Me, "reloading") /\ UNCHANGED queue
  BY DEF Client, Decided
<1>2. /\ PostsShaped'
      /\ \A d \in Client : posts'[d].of = posts[d].of /\ posts'[d].drafts = posts[d].drafts
      /\ posts'[Me].stage = "reloading"
      /\ \A d \in Client \ {Me} : posts'[d].stage = posts[d].stage
  BY <1>1, PostMoved DEF InboxInv
<1>3. DraftsStayWithApproval'
  BY <1>2 DEF InboxInv, DraftsStayWithApproval
<1>4. \A d \in Client : Taken(d)' => Taken(d) /\ posts'[d].of = posts[d].of
  BY <1>2 DEF Taken
<1>5. QueueOK'
  BY <1>1, <1>4, QueueKept DEF InboxInv
<1>6. DraftsOfSeen' /\ EvidenceOfSeen'
  BY DraftsKept, EvidenceKept DEF Decided, evidence
<1> QED
  BY <1>2, <1>3, <1>5, <1>6 DEF InboxInv

\* A list that arrives may end the submission of a decision.
LEMMA ReloadedInv ==
    ASSUME InboxInv, NEW i, Reloaded(i), UNCHANGED <<queue, evidence, drafts>>
    PROVE  InboxInv'
<1>1. PostsShaped' /\ DraftsStayWithApproval' /\ QueueOK'
  <2>1. CASE UNCHANGED posts
    BY <2>1, PostsKept
  <2>2. CASE posts' = [posts EXCEPT ![Me] = NoPost]
    <3>1. Me \in Client
      BY DEF Client
    <3>2. posts' = [posts EXCEPT ![Me] = [of |-> NoApproval, drafts |-> {},
                                          resume |-> FALSE, stage |-> "none"]]
      BY <2>2 DEF NoPost
    <3> QED
      BY <3>1, <3>2, PostingNoDraftInv
  <2> QED
    BY <2>1, <2>2 DEF Reloaded
<1>2. DraftsOfSeen' /\ EvidenceOfSeen'
  BY DraftsKept, EvidenceKept DEF evidence
<1> QED
  BY <1>1, <1>2 DEF InboxInv

\* Everything else the page does: it posts nothing, and writes and previews
\* only once the effects have run.
LEMMA ViewInv ==
    ASSUME InboxInv, UNCHANGED <<queue, posts>>,
           \/ UNCHANGED <<evidence, drafts>>
           \/ SelectionEffects
           \/ \E path \in Artifact : SelectArtifact(path)
           \/ \E p \in previews : PreviewLoaded(p)
           \/ SelectLine \/ AddAnnotation \/ Write
           \/ \E draft \in annotations : RemoveAnnotation(draft)
    PROVE  InboxInv'
<1>1. PostsShaped' /\ DraftsStayWithApproval' /\ QueueOK'
  BY PostsKept
<1>2. SUFFICES DraftsOfSeen' /\ EvidenceOfSeen'
  BY <1>1 DEF InboxInv
<1>3. CASE UNCHANGED <<evidence, drafts>>
  BY <1>3, DraftsKept, EvidenceKept DEF evidence
<1>4. CASE SelectionEffects
  <2>1. DraftsOfSeen'
    BY <1>4 DEF SelectionEffects, DraftsOfSeen
  <2>2. EvidenceOfSeen'
    BY <1>4, Previewed DEF SelectionEffects, InboxInv
  <2> QED
    BY <2>1, <2>2
<1>5. ASSUME NEW path \in Artifact, SelectArtifact(path)
      PROVE  DraftsOfSeen' /\ EvidenceOfSeen'
  <2>1. DraftsOfSeen'
    BY <1>5, DraftsKept DEF SelectArtifact
  <2>2. Preview(Selected, path) /\ seen' = Selected
    BY <1>5 DEF SelectArtifact, Rendered
  <2>3. EvidenceOfSeen'
    BY <2>2, Previewed DEF InboxInv
  <2> QED
    BY <2>1, <2>3
<1>6. ASSUME NEW p \in previews, PreviewLoaded(p)
      PROVE  DraftsOfSeen' /\ EvidenceOfSeen'
  <2>1. DraftsOfSeen'
    BY <1>6, DraftsKept DEF PreviewLoaded
  <2>2. EvidenceOfSeen'
    BY <1>6 DEF PreviewLoaded, InboxInv, EvidenceOfSeen, Answer
  <2> QED
    BY <2>1, <2>2
<1>7. CASE SelectLine
  BY <1>7, EvidenceKept DEF SelectLine, InboxInv, DraftsOfSeen, evidence
<1>8. CASE AddAnnotation
  <2>1. seen' = seen /\ seen = Selected /\ EvidenceOfSeen' /\ UNCHANGED message
    BY <1>8, EvidenceKept DEF AddAnnotation, Rendered, evidence
  <2>2. (\A draft \in annotations : draft.of = seen)'
    BY <1>8, <2>1 DEF AddAnnotation, InboxInv, DraftsOfSeen
  <2> QED
    BY <2>1, <2>2 DEF InboxInv, DraftsOfSeen
<1>9. CASE Write
  BY <1>9, EvidenceKept DEF Write, Rendered, InboxInv, DraftsOfSeen, evidence
<1>10. ASSUME NEW draft \in annotations, RemoveAnnotation(draft)
       PROVE  DraftsOfSeen' /\ EvidenceOfSeen'
  BY <1>10, EvidenceKept DEF RemoveAnnotation, InboxInv, DraftsOfSeen, evidence
<1> QED
  BY <1>3, <1>4, <1>5, <1>6, <1>7, <1>8, <1>9, <1>10

LEMMA NextInboxInv ==
    ASSUME InboxInv, [InboxNext]_inboxVars
    PROVE  InboxInv'
<1>1. ASSUME NEW a \in Approval, AskApproval(a) PROVE InboxInv'
  BY <1>1, AskApprovalInv
<1>2. ASSUME NEW a \in Approval, SelectApproval(a) PROVE InboxInv'
  BY <1>2, ViewInv DEF SelectApproval
<1>3. ASSUME NEW c \in Client, RecordDecision(c) PROVE InboxInv'
  BY <1>3, RecordDecisionInv
<1>4. ASSUME NEW c \in Client, ResumeDecided(c) PROVE InboxInv'
  BY <1>4, ResumeDecidedInv
<1>5. ASSUME NEW c \in Client, OtherDecides(c) PROVE InboxInv'
  BY <1>5, OtherDecidesInv
<1>6. ASSUME NEW c \in Client, DecisionRefused(c) PROVE InboxInv'
  BY <1>6, DecisionRefusedInv
<1>7. CASE RefreshList
  BY <1>7, ViewInv DEF RefreshList
<1>8. ASSUME NEW i, ListLoaded(i) PROVE InboxInv'
  BY <1>8, ReloadedInv DEF ListLoaded
<1>9. ASSUME NEW i, ListFailed(i) PROVE InboxInv'
  BY <1>9, ReloadedInv DEF ListFailed
<1>10. CASE SelectionEffects
  BY <1>10, ViewInv DEF SelectionEffects
<1>11. ASSUME NEW path \in Artifact, SelectArtifact(path) PROVE InboxInv'
  BY <1>11, ViewInv DEF SelectArtifact
<1>12. ASSUME NEW p \in previews, PreviewLoaded(p) PROVE InboxInv'
  BY <1>12, ViewInv DEF PreviewLoaded
<1>13. CASE SelectLine
  BY <1>13, ViewInv DEF SelectLine
<1>14. CASE AddAnnotation
  BY <1>14, ViewInv DEF AddAnnotation
<1>15. CASE Write
  BY <1>15, ViewInv DEF Write
<1>16. ASSUME NEW draft \in annotations, RemoveAnnotation(draft) PROVE InboxInv'
  BY <1>16, ViewInv DEF RemoveAnnotation
<1>17. CASE Decide
  BY <1>17, DecideInv
<1>18. CASE Decided
  BY <1>18, DecidedInv
<1>19. CASE UNCHANGED inboxVars
  <2>1. UNCHANGED <<queue, posts>> /\ UNCHANGED <<evidence, drafts>>
    BY <1>19 DEF inboxVars, queue, evidence, drafts
  <2> QED
    BY <2>1, ViewInv
<1> QED
  BY <1>1, <1>2, <1>3, <1>4, <1>5, <1>6, <1>7, <1>8, <1>9, <1>10, <1>11, <1>12,
     <1>13, <1>14, <1>15, <1>16, <1>17, <1>18, <1>19 DEF InboxNext

LEMMA InboxAlways == InboxSpec => []InboxInv
<1>1. InboxInit => InboxInv
  BY InitInboxInv
<1>2. InboxInv /\ [InboxNext]_inboxVars => InboxInv'
  BY NextInboxInv
<1> QED
  BY <1>1, <1>2, PTL DEF InboxSpec

-----------------------------------------------------------------------------
(* What the view promises.                                                 *)

\* A decision carries only what was written for the approval it decides, for
\* any number of lists in flight that select another one meanwhile.
THEOREM DraftsNeverStray == InboxSpec => []DraftsStayWithApproval
<1>1. InboxInv => DraftsStayWithApproval
  BY DEF InboxInv
<1> QED
  BY <1>1, InboxAlways, PTL

\* What is previewed is the selected artifact of the selected approval, in
\* whatever order any number of answers arrive.
THEOREM PreviewsMatch == InboxSpec => []PreviewIsOfSelection
<1>1. InboxInv => PreviewIsOfSelection
  BY DEF InboxInv, EvidenceOfSeen, PreviewIsOfSelection
<1> QED
  BY <1>1, InboxAlways, PTL

\* However many clients decide an approval at once, its run is resumed in the
\* background for one of them at most.
THEOREM ResumedOnce == InboxSpec => []DecisionResumesOnce
<1>1. InboxInv => DecisionResumesOnce
  BY DEF InboxInv, QueueOK, DecisionResumesOnce
<1> QED
  BY <1>1, InboxAlways, PTL
===============================================================================
