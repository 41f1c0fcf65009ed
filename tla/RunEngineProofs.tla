--------------------------- MODULE RunEngineProofs ---------------------------
(***************************************************************************)
(* Theorems about the run engine, for every workflow, every number of      *)
(* processes and every bound.                                              *)
(*                                                                         *)
(*   - Under FreeSpec, with any command at any time: types, the finality   *)
(*     of decisions, and what the log proves (the reason of a failure, the *)
(*     origin of an artifact, the decision behind a passed approval).      *)
(*   - Under Spec, with commands given as the documentation asks: a second *)
(*     start of an attempt comes after a closing event, an attempt number  *)
(*     belongs to one node, and state.edn obeys RunContract.               *)
(*                                                                         *)
(* What rests on the lock of decide! (decisions, passed approvals, the     *)
(* contract) is said of a run as long as no two decisions were inside      *)
(* together, and OverlapsNeedKills says what that takes.                   *)
(*                                                                         *)
(* Three invariants carry them: IInv (types and the lock discipline of     *)
(* decide!), LogInv (what events, memory and files say of each other) and  *)
(* DisciplineInv (who works on the run, and how far its memory is from     *)
(* state.edn).                                                             *)
(***************************************************************************)
EXTENDS RunEngine, TLAPS, SequenceTheorems

\* A context's event is one the log may hold.
LEMMA EventTyped ==
    ASSUME NEW c \in Context, NEW s \in EventNames,
           NEW v \in Outcome \cup Node \cup {NoValue}
    PROVE  Event(s, c, v) \in EventType
  BY DEF Event, EventType, Context

LEMMA Context0Typed == Context0 \in Context
  BY WorkflowAssumption DEF Context0, Context, Statuses

LEMMA IdTyped == ASSUME NEW c \in Context PROVE IdOf(c) \in Id
  BY DEF IdOf, Id, Context

LEMMA KeyTyped ==
    ASSUME NEW c \in Context, NEW n \in Node
    PROVE  KeyOf(n, c) \in Node \X Nat
  BY DEF KeyOf, Context

\* What choose-transition finds is a transition of the workflow.
LEMMA ChosenTyped ==
    ASSUME NEW n \in Node, NEW o
    PROVE  Chosen(n, o) \subseteq Transition
  BY WorkflowAssumption DEF Chosen, Matching

\* Changing the status of a context, and retrying one, give contexts.
LEMMA StatusTyped ==
    ASSUME NEW c \in Context, NEW s \in Statuses
    PROVE  [c EXCEPT !.status = s] \in Context
  BY DEF Context

LEMMA RetryTyped == ASSUME NEW c \in Context PROVE NextAttempt(c) \in Context
  BY DEF NextAttempt, Context, Statuses

LEMMA AdvanceTyped ==
    ASSUME NEW c \in Context, NEW tr \in Transition
    PROVE  Advance(c, tr) \in Context
  BY DEF Advance, Context, Transition, Statuses

LEMMA FinishTyped ==
    ASSUME NEW c \in Context
    PROVE  FinishIfTerminal(c) \in Context
  BY DEF FinishIfTerminal, Context, Statuses

\* Taking a transition appends events only.
LEMMA TakingTyped ==
    ASSUME NEW c \in Context, NEW tr \in Transition
    PROVE  TakingEvents(c, tr) \in Seq(EventType)
<1>1. tr.next \in Outcome \cup Node \cup {NoValue}
  BY DEF Transition
<1>2. Event("transition.selected", c, tr.next) \in EventType
  BY <1>1, EventTyped DEF EventNames
<1>3. Advance(c, tr) \in Context
  BY AdvanceTyped
<1>4. Event("effect.fail-run", c, NoValue) \in EventType
  BY EventTyped DEF EventNames
<1>5. Event("run.finished", Advance(c, tr), NoValue) \in EventType
  BY <1>3, EventTyped DEF EventNames
<1>6. QED
  BY <1>2, <1>4, <1>5 DEF TakingEvents

\* The parts of TypeOK: what a process remembers, and what processes share.
MemoryOK ==
    /\ cmd \in [Proc -> Commands]
    /\ ctx \in [Proc -> Context]
    /\ steps \in [Proc -> Int]
    /\ value \in [Proc -> Outcome \cup {NoValue}]
    /\ ask \in [Proc -> [id : Id, decision : Outcome \cup {NoValue}]]
PcOK == pc \in [Proc -> Labels]
PidsOK == /\ marker \in Proc \cup {NoPid, DeadPid}
          /\ lock \in Proc \cup {NoPid, DeadPid}
ApprovalsOK == /\ requests \subseteq Id
               /\ decisions \subseteq [id : Id, decision : Outcome]
ArtifactsOK == /\ artifacts \subseteq [key : Node \X Nat, outcome : Outcome]
               /\ agents \subseteq [key : Node \X Nat, runner : Proc]
CountersOK == /\ launches \in Nat /\ crashes \in Nat
              /\ breach \in {"none", "orphaned", "overlapped"}

LEMMA TypeParts ==
    TypeOK <=> /\ disk \in Context /\ log \in Seq(EventType)
               /\ PcOK /\ MemoryOK /\ PidsOK
               /\ ApprovalsOK /\ ArtifactsOK /\ CountersOK
  BY DEF TypeOK, PcOK, MemoryOK, PidsOK, ApprovalsOK, ArtifactsOK, CountersOK

LEMMA TypePartsNext ==
    TypeOK' <=> /\ disk' \in Context /\ log' \in Seq(EventType)
                /\ PcOK' /\ MemoryOK' /\ PidsOK'
                /\ ApprovalsOK' /\ ArtifactsOK' /\ CountersOK'
  BY DEF TypeOK, PcOK, MemoryOK, PidsOK, ApprovalsOK, ArtifactsOK, CountersOK

\* Leaving variables alone leaves their types alone.
LEMMA SameTyped ==
    /\ PcOK /\ UNCHANGED pc => PcOK'
    /\ MemoryOK /\ UNCHANGED local => MemoryOK'
    /\ PidsOK /\ UNCHANGED <<marker, lock>> => PidsOK'
    /\ ApprovalsOK /\ UNCHANGED <<requests, decisions>> => ApprovalsOK'
    /\ ArtifactsOK /\ UNCHANGED <<artifacts, agents>> => ArtifactsOK'
    /\ CountersOK /\ UNCHANGED <<launches, crashes, breach>> => CountersOK'
  BY DEF PcOK, MemoryOK, PidsOK, ApprovalsOK, ArtifactsOK, CountersOK, local

LEMMA GotoTyped ==
    ASSUME PcOK, NEW p, NEW l \in Labels, Goto(p, l)
    PROVE  PcOK'
  BY DEF PcOK, Goto

LEMMA SetCtxTyped ==
    ASSUME MemoryOK, NEW p, NEW c \in Context, SetCtx(p, c),
           UNCHANGED <<cmd, steps, value, ask>>
    PROVE  MemoryOK'
  BY DEF MemoryOK, SetCtx

LEMMA NoAskTyped == NoAsk \in [id : Id, decision : Outcome \cup {NoValue}]
<1>1. <<Initial, 1>> \in Id
  BY WorkflowAssumption DEF Id
<1>2. QED
  BY <1>1 DEF NoAsk

LEMMA ForgetTyped == ASSUME MemoryOK, NEW p, Forget(p) PROVE MemoryOK'
<1>1. "resume" \in Commands
  BY DEF Commands
<1>2. cmd' \in [Proc -> Commands] /\ ctx' \in [Proc -> Context]
  BY <1>1, Context0Typed DEF Forget, MemoryOK
<1>3. steps' \in [Proc -> Int]
  <2>1. steps \in [Proc -> Int] /\ steps' = [steps EXCEPT ![p] = 0] /\ 0 \in Int
    BY DEF Forget, MemoryOK
  <2>2. QED
    BY ONLY <2>1
<1>4. value' \in [Proc -> Outcome \cup {NoValue}]
  BY DEF Forget, MemoryOK
<1>5. ask' \in [Proc -> [id : Id, decision : Outcome \cup {NoValue}]]
  BY NoAskTyped DEF Forget, MemoryOK
<1>6. QED
  BY <1>2, <1>3, <1>4, <1>5 DEF MemoryOK

LEMMA ExitTyped ==
    ASSUME PcOK, MemoryOK, NEW p, Exit(p)
    PROVE  PcOK' /\ MemoryOK'
<1>1. "idle" \in Labels
  BY DEF Labels
<1>2. QED
  BY <1>1, ForgetTyped, GotoTyped DEF Exit

LEMMA ThrowTyped ==
    ASSUME PcOK, MemoryOK, NEW p, Throw(p)
    PROVE  PcOK' /\ MemoryOK'
<1>1. "leave" \in Labels /\ "unlock" \in Labels
  BY DEF Labels
<1>2. \/ Goto(p, "leave") /\ UNCHANGED local
      \/ Goto(p, "unlock") /\ UNCHANGED local
      \/ Exit(p)
  BY DEF Throw
<1>3. QED
  BY <1>1, <1>2, GotoTyped, ExitTyped, SameTyped

LEMMA ReturnedLabel == ASSUME NEW p PROVE Returned(p) \in Labels
  BY DEF Returned, Labels

\* Appending events to a log of events.
LEMMA AppendTyped ==
    ASSUME log \in Seq(EventType), NEW c \in Context, NEW s \in EventNames,
           NEW v \in Outcome \cup Node \cup {NoValue}, Append1(s, c, v)
    PROVE  log' \in Seq(EventType)
  BY EventTyped DEF Append1

----------------------------------------------------------------------------
(* Type correctness, one lemma per group of steps.                         *)

LEMMA LaunchTyped ==
    ASSUME TypeOK, NEW p \in Proc, NEW c \in Commands, Launch(p, c)
    PROVE  TypeOK'
<1> USE TypeParts DEF Launch
<1>1. PcOK'
  BY GotoTyped DEF Labels
<1>2. MemoryOK'
  <2>1. steps' \in [Proc -> Int]
    BY ProcessAssumption DEF MemoryOK
  <2>2. cmd' \in [Proc -> Commands] /\ UNCHANGED <<ctx, value>>
    BY DEF MemoryOK
  <2>3. ask' \in [Proc -> [id : Id, decision : Outcome \cup {NoValue}]]
    <3>1. CASE c = "decide"
      <4>1. PICK id \in requests, d \in Outcome :
                ask' = [ask EXCEPT ![p] = [id |-> id, decision |-> d]]
        BY <3>1
      <4>2. id \in Id
        BY DEF ApprovalsOK
      <4>3. QED
        BY <4>1, <4>2 DEF MemoryOK
    <3>2. CASE c # "decide"
      BY <3>2 DEF MemoryOK
    <3>3. QED
      BY <3>1, <3>2
  <2>4. QED
    BY <2>1, <2>2, <2>3 DEF MemoryOK
<1>3. QED
  BY <1>1, <1>2, TypePartsNext, SameTyped DEF shared, CountersOK

LEMMA LoadTyped == ASSUME TypeOK, NEW p \in Proc, Load(p) PROVE TypeOK'
<1> USE TypeParts
<1>1. PcOK' /\ MemoryOK'
  <2>1. CASE cmd[p] = "cancel"
    <3>1. Exit(p) \/ (Goto(p, "stop") /\ UNCHANGED local)
      BY <2>1 DEF Load
    <3>2. "stop" \in Labels
      BY DEF Labels
    <3>3. QED
      BY <3>1, <3>2, ExitTyped, GotoTyped, SameTyped
  <2>2. CASE cmd[p] # "cancel"
    <3>1. AfterLoad[cmd[p]] \in Labels
      BY <2>2 DEF MemoryOK, Commands, AfterLoad, Labels
    <3>2. QED
      BY <2>2, <3>1, GotoTyped, SetCtxTyped DEF Load
  <2>3. QED
    BY <2>1, <2>2
<1>2. QED
  BY <1>1, TypePartsNext, SameTyped DEF Load, shared

\* retry!, run-registered! and the loop.
LEMMA LoopTyped ==
    ASSUME TypeOK, NEW p \in Proc,
           \/ RetryGuard(p) \/ RetrySave(p) \/ RetryEvent(p)
           \/ Register(p) \/ EnterLoop(p) \/ Loop(p) \/ Save(p) \/ Leave(p)
    PROVE  TypeOK'
<1> USE TypeParts, SameTyped, TypePartsNext
<1> DEFINE C == ctx[p]
<1>0. C \in Context
  BY DEF MemoryOK
<1>1. CASE RetryGuard(p)
  <2>1. "retrysave" \in Labels /\ NextAttempt(C) \in Context
    BY <1>0, RetryTyped DEF Labels
  <2>2. PcOK' /\ MemoryOK'
    BY <1>1, <2>1, ExitTyped, GotoTyped, SetCtxTyped DEF RetryGuard
  <2>3. QED
    BY <1>1, <2>2 DEF RetryGuard, shared
<1>2. CASE RetrySave(p)
  BY <1>0, <1>2, GotoTyped DEF RetrySave, Labels
<1>3. CASE RetryEvent(p)
  <2>1. log' \in Seq(EventType)
    BY <1>0, <1>3, AppendTyped DEF RetryEvent, EventNames
  <2>2. QED
    BY <1>3, <2>1, GotoTyped DEF RetryEvent, Labels
<1>4. CASE Register(p)
  <2>1. PidsOK'
    BY <1>4 DEF Register, PidsOK
  <2>2. QED
    BY <1>4, <2>1, GotoTyped DEF Register, Labels
<1>5. CASE EnterLoop(p)
  BY <1>0, <1>5, GotoTyped DEF EnterLoop, Labels
<1>6. CASE Loop(p)
  <2>1. "step" \in Labels /\ "leave" \in Labels
    BY DEF Labels
  <2>2. PcOK' /\ MemoryOK'
    BY <1>6, <2>1, ExitTyped, GotoTyped DEF Loop
  <2>3. QED
    BY <1>6, <2>2 DEF Loop, shared
<1>7. CASE Save(p)
  <2>1. CASE cmd[p] = "step"
    BY <1>0, <1>7, <2>1, ExitTyped DEF Save
  <2>2. CASE cmd[p] # "step"
    <3>1. PcOK'
      BY <1>7, <2>2, GotoTyped DEF Save, Labels
    <3>2. MemoryOK'
      <4>1. steps' = [steps EXCEPT ![p] = @ - 1] /\ UNCHANGED <<cmd, ctx, value, ask>>
        BY <1>7, <2>2 DEF Save
      <4>2. QED
        BY <4>1 DEF MemoryOK
    <3>3. QED
      BY <1>0, <1>7, <3>1, <3>2 DEF Save
  <2>3. QED
    BY <2>1, <2>2
<1>8. CASE Leave(p)
  <2>1. PcOK' /\ MemoryOK'
    BY <1>8, ExitTyped DEF Leave
  <2>2. PidsOK' /\ ArtifactsOK'
    BY <1>8 DEF Leave, PidsOK, ArtifactsOK
  <2>3. QED
    BY <1>8, <2>1, <2>2 DEF Leave
<1> QED
  BY <1>1, <1>2, <1>3, <1>4, <1>5, <1>6, <1>7, <1>8

\* The branches of step!.
LEMMA StepTyped ==
    ASSUME TypeOK, NEW p \in Proc,
           \/ StepEnded(p) \/ StepMaxRounds(p) \/ StepTerminal(p)
           \/ StepRequest(p) \/ StepDecided(p)
           \/ StepRecover(p) \/ StepOrphan(p) \/ StepStart(p)
    PROVE  TypeOK'
<1> USE TypeParts, SameTyped, TypePartsNext
<1> DEFINE C == ctx[p]
<1>0. C \in Context /\ C.state \in Node
  BY DEF MemoryOK, Context
<1>f. /\ [C EXCEPT !.status = "failed"] \in Context
      /\ [C EXCEPT !.status = "blocked"] \in Context
      /\ [C EXCEPT !.status = "running"] \in Context
  BY <1>0, StatusTyped DEF Statuses
<1>1. CASE StepEnded(p)
  BY <1>1, ReturnedLabel, GotoTyped DEF StepEnded, shared
<1>2. CASE StepMaxRounds(p)
  <2>1. log' \in Seq(EventType)
    BY <1>0, <1>2, AppendTyped DEF StepMaxRounds, EventNames
  <2>2. PcOK' /\ MemoryOK'
    BY <1>f, <1>2, GotoTyped, SetCtxTyped DEF StepMaxRounds, Labels
  <2>3. QED
    BY <1>2, <2>1, <2>2 DEF StepMaxRounds
<1>3. CASE StepTerminal(p)
  <2>1. log' \in Seq(EventType)
    BY <1>0, <1>3, AppendTyped DEF StepTerminal, EventNames
  <2>2. PcOK' /\ MemoryOK'
    BY <1>0, <1>3, FinishTyped, ReturnedLabel, GotoTyped, SetCtxTyped DEF StepTerminal
  <2>3. QED
    BY <1>3, <2>1, <2>2 DEF StepTerminal
<1>4. CASE StepRequest(p)
  <2>1. log' \in Seq(EventType)
    BY <1>0, <1>4, AppendTyped DEF StepRequest, EventNames
  <2>2. PcOK' /\ MemoryOK'
    BY <1>f, <1>4, GotoTyped, SetCtxTyped DEF StepRequest, Labels
  <2>3. ApprovalsOK'
    BY <1>0, <1>4, IdTyped DEF StepRequest, ApprovalsOK
  <2>4. QED
    BY <1>4, <2>1, <2>2, <2>3 DEF StepRequest
<1>5. CASE StepDecided(p)
  <2>1. PICK x \in Decided(p) :
          \/ Throw(p) /\ UNCHANGED log
          \/ \E tr \in Chosen(C.state, x.decision) :
              /\ log' = Append(log, Event("approval.decided", C, x.decision))
                        \o TakingEvents(C, tr)
              /\ SetCtx(p, FinishIfTerminal(
                              Advance([C EXCEPT !.status = "running"], tr)))
              /\ Goto(p, "store")
              /\ UNCHANGED <<cmd, steps, value, ask>>
    BY <1>5 DEF StepDecided
  <2>2. x.decision \in Outcome
    BY <2>1 DEF Decided, ApprovalsOK
  <2>3. CASE Throw(p) /\ UNCHANGED log
    BY <1>5, <2>3, ThrowTyped DEF StepDecided
  <2>4. ASSUME NEW tr \in Chosen(C.state, x.decision),
               /\ log' = Append(log, Event("approval.decided", C, x.decision))
                         \o TakingEvents(C, tr)
               /\ SetCtx(p, FinishIfTerminal(
                               Advance([C EXCEPT !.status = "running"], tr)))
               /\ Goto(p, "store")
               /\ UNCHANGED <<cmd, steps, value, ask>>
        PROVE  TypeOK'
    <3>1. tr \in Transition
      BY <1>0, ChosenTyped
    <3>2. Event("approval.decided", C, x.decision) \in EventType
      BY <1>0, <2>2, EventTyped DEF EventNames
    <3>3. log' \in Seq(EventType)
      BY <1>0, <2>4, <3>1, <3>2, TakingTyped
    <3>4. FinishIfTerminal(Advance([C EXCEPT !.status = "running"], tr)) \in Context
      BY <1>f, <3>1, AdvanceTyped, FinishTyped
    <3>5. PcOK' /\ MemoryOK'
      BY <2>4, <3>4, GotoTyped, SetCtxTyped DEF Labels
    <3>6. QED
      BY <1>5, <3>3, <3>5 DEF StepDecided
  <2>5. QED
    BY <2>1, <2>3, <2>4
<1>6. CASE StepRecover(p)
  <2>1. PICK x \in StatusArtifact(p) :
          /\ value' = [value EXCEPT ![p] = x.outcome]
          /\ log' = log \o <<Event("node.recovered", C, x.outcome),
                             Event("node.finished", C, x.outcome)>>
    BY <1>6 DEF StepRecover
  <2>2. x.outcome \in Outcome
    BY <2>1 DEF StatusArtifact, ArtifactsAt, ArtifactsOK
  <2>3. /\ Event("node.recovered", C, x.outcome) \in EventType
        /\ Event("node.finished", C, x.outcome) \in EventType
    BY <1>0, <2>2, EventTyped DEF EventNames
  <2>4. log' \in Seq(EventType)
    BY <2>1, <2>3
  <2>5. PcOK'
    BY <1>6, GotoTyped DEF StepRecover, Labels
  <2>6. MemoryOK'
    BY <1>6, <2>1, <2>2 DEF StepRecover, MemoryOK
  <2>7. QED
    BY <1>6, <2>4, <2>5, <2>6 DEF StepRecover
<1>7. CASE StepOrphan(p)
  <2>1. log' \in Seq(EventType)
    BY <1>0, <1>7, AppendTyped DEF StepOrphan, EventNames
  <2>2. PcOK' /\ MemoryOK'
    BY <1>f, <1>7, GotoTyped, SetCtxTyped DEF StepOrphan, Labels
  <2>3. QED
    BY <1>7, <2>1, <2>2 DEF StepOrphan
<1>8. CASE StepStart(p)
  <2>1. log' \in Seq(EventType)
    BY <1>0, <1>8, AppendTyped DEF StepStart, EventNames
  <2>2. PcOK'
    BY <1>8, GotoTyped DEF StepStart, Labels
  <2>3. [key |-> KeyOf(C.state, C), runner |-> p] \in [key : Node \X Nat, runner : Proc]
    BY <1>0, KeyTyped
  <2>4. ArtifactsOK'
    BY <1>8, <2>3 DEF StepStart, ArtifactsOK
  <2>5. QED
    BY <1>8, <2>1, <2>2, <2>4 DEF StepStart
<1> QED
  BY <1>1, <1>2, <1>3, <1>4, <1>5, <1>6, <1>7, <1>8

\* Executing a node and taking its transition.
LEMMA ExecuteTyped ==
    ASSUME TypeOK, NEW p \in Proc,
           \/ Complete(p) \/ Break(p) \/ Select(p) \/ Store(p) \/ StoreFailed(p)
    PROVE  TypeOK'
<1> USE TypeParts, SameTyped, TypePartsNext
<1> DEFINE C == ctx[p]
<1>0. C \in Context /\ C.state \in Node
  BY DEF MemoryOK, Context
<1>1. CASE Complete(p)
  <2>1. PICK o \in Result(p) : /\ value' = [value EXCEPT ![p] = o]
                               /\ Append1("node.finished", C, o)
    BY <1>1 DEF Complete
  <2>2. o \in Outcome
    BY <2>1 DEF Result, StatusArtifact, ArtifactsAt, ArtifactsOK
  <2>3. log' \in Seq(EventType)
    BY <1>0, <2>1, <2>2, AppendTyped DEF EventNames
  <2>4. PcOK'
    BY <1>1, GotoTyped DEF Complete, Labels
  <2>5. MemoryOK'
    BY <1>1, <2>1, <2>2 DEF Complete, MemoryOK
  <2>6. QED
    BY <1>1, <2>3, <2>4, <2>5 DEF Complete
<1>2. CASE Break(p)
  <2>1. log' \in Seq(EventType)
    BY <1>0, <1>2, AppendTyped DEF Break, EventNames
  <2>2. [C EXCEPT !.status = "failed"] \in Context
    BY <1>0, StatusTyped DEF Statuses
  <2>3. PcOK' /\ MemoryOK'
    BY <1>2, <2>2, GotoTyped, SetCtxTyped DEF Break, Labels
  <2>4. QED
    BY <1>2, <2>1, <2>3 DEF Break
<1>3. CASE Select(p)
  <2>1. CASE Throw(p) /\ UNCHANGED log
    BY <1>3, <2>1, ThrowTyped DEF Select
  <2>2. ASSUME NEW tr \in Chosen(C.state, value[p]),
               /\ log' = log \o TakingEvents(C, tr)
               /\ SetCtx(p, FinishIfTerminal(Advance(C, tr)))
               /\ value' = [value EXCEPT ![p] = NoValue]
               /\ Goto(p, Returned(p))
               /\ UNCHANGED <<cmd, steps, ask>>
        PROVE  TypeOK'
    <3>1. tr \in Transition
      BY <1>0, ChosenTyped
    <3>2. log' \in Seq(EventType)
      BY <1>0, <2>2, <3>1, TakingTyped
    <3>3. FinishIfTerminal(Advance(C, tr)) \in Context
      BY <1>0, <3>1, AdvanceTyped, FinishTyped
    <3>4. PcOK'
      BY <2>2, ReturnedLabel, GotoTyped
    <3>5. MemoryOK'
      BY <2>2, <3>3 DEF SetCtx, MemoryOK
    <3>6. QED
      BY <1>3, <3>2, <3>4, <3>5 DEF Select
  <2>3. QED
    BY <1>3, <2>1, <2>2 DEF Select
<1>4. CASE Store(p)
  BY <1>0, <1>4, ReturnedLabel, GotoTyped DEF Store
<1>5. CASE StoreFailed(p)
  BY <1>0, <1>5, ThrowTyped DEF StoreFailed
<1> QED
  BY <1>1, <1>2, <1>3, <1>4, <1>5

\* decide!.
LEMMA DecideTyped ==
    ASSUME TypeOK, NEW p \in Proc,
           pc[p] = "record" => ask[p].decision \in Outcome,
           \/ Lock(p) \/ Reclaim(p) \/ Validate(p) \/ Record(p) \/ Unlock(p)
    PROVE  TypeOK'
<1> USE TypeParts, SameTyped, TypePartsNext
<1>1. CASE Lock(p)
  <2>1. "load" \in Labels /\ "reclaim" \in Labels
    BY DEF Labels
  <2>2. PcOK' /\ MemoryOK'
    BY <1>1, <2>1, ExitTyped, GotoTyped DEF Lock
  <2>3. PidsOK' /\ CountersOK'
    BY <1>1 DEF Lock, PidsOK, CountersOK
  <2>4. QED
    BY <1>1, <2>2, <2>3 DEF Lock
<1>2. CASE Validate(p)
  <2>1. (IF Acceptable(p) THEN "record" ELSE "unlock") \in Labels
    BY DEF Labels
  <2>2. QED
    BY <1>2, <2>1, GotoTyped DEF Validate, shared
<1>3. CASE Record(p)
  <2>1. ask[p] \in [id : Id, decision : Outcome]
    BY <1>3 DEF Record, MemoryOK
  <2>2. ApprovalsOK'
    BY <1>3, <2>1 DEF Record, ApprovalsOK
  <2>3. QED
    BY <1>3, <2>2, GotoTyped DEF Record, Labels
<1>4. CASE Unlock(p)
  BY <1>4, ExitTyped DEF Unlock, PidsOK
<1>5. CASE Reclaim(p)
  <2>1. PcOK' /\ MemoryOK'
    BY <1>5, ExitTyped, GotoTyped DEF Reclaim, Labels
  <2>2. QED
    BY <1>5, <2>1 DEF Reclaim, PidsOK
<1> QED
  BY <1>1, <1>2, <1>3, <1>4, <1>5

\* cancel!, and the environment.
LEMMA CancelTyped ==
    ASSUME TypeOK, NEW p \in Proc,
           \/ Stop(p) \/ Unmark(p) \/ Reload(p) \/ CancelEvent(p)
           \/ CancelSave(p) \/ Crash(p)
    PROVE  TypeOK'
<1> USE TypeParts, SameTyped, TypePartsNext
<1> DEFINE C == ctx[p]
<1>0. C \in Context
  BY DEF MemoryOK
<1>1. CASE Stop(p)
  <2>1. ArtifactsOK' /\ PidsOK' /\ CountersOK'
    BY <1>1 DEF Stop, Kill, ArtifactsOK, PidsOK, CountersOK
  <2>2. MemoryOK'
    BY <1>1, ForgetTyped DEF Stop, Kill
  <2>3. PcOK'
    BY <1>1 DEF Stop, Goto, PcOK, Labels
  <2>4. QED
    BY <1>1, <2>1, <2>2, <2>3 DEF Stop
<1>2. CASE Unmark(p)
  <2>1. PidsOK'
    BY <1>2 DEF Unmark, PidsOK
  <2>2. QED
    BY <1>2, <2>1, GotoTyped DEF Unmark, Labels
<1>3. CASE Reload(p)
  <2>1. Cancelled \in Context
    BY StatusTyped DEF Cancelled, Statuses
  <2>2. PcOK' /\ MemoryOK'
    BY <1>3, <2>1, GotoTyped, SetCtxTyped DEF Reload, Labels
  <2>3. QED
    BY <1>3, <2>2 DEF Reload, shared
<1>4. CASE CancelEvent(p)
  <2>1. log' \in Seq(EventType)
    BY <1>0, <1>4, AppendTyped DEF CancelEvent, EventNames
  <2>2. QED
    BY <1>4, <2>1, GotoTyped DEF CancelEvent, Labels
<1>5. CASE CancelSave(p)
  BY <1>0, <1>5, ExitTyped DEF CancelSave
<1>6. CASE Crash(p)
  <2>1. PcOK' /\ MemoryOK'
    BY <1>6, ForgetTyped, GotoTyped DEF Crash, Kill, Labels
  <2>2. PidsOK' /\ CountersOK'
    BY <1>6 DEF Crash, Kill, PidsOK, CountersOK
  <2>3. QED
    BY <1>6, <2>1, <2>2 DEF Crash
<1> QED
  BY <1>1, <1>2, <1>3, <1>4, <1>5, <1>6

LEMMA AgentTyped == ASSUME TypeOK, NEW g \in agents, AgentEnds(g) PROVE TypeOK'
<1> USE TypeParts, SameTyped, TypePartsNext
<1>1. g.key \in Node \X Nat
  BY DEF ArtifactsOK
<1>2. ArtifactsOK'
  BY <1>1 DEF AgentEnds, ArtifactsOK
<1>3. QED
  BY <1>2 DEF AgentEnds

----------------------------------------------------------------------------
(* Decisions are final.  As long as no two decisions were inside the lock  *)
(* together, what the checks of decide! establish still holds when the     *)
(* decision is written: whoever is inside is there alone, from the load to *)
(* the unlock, also while it runs step!.                                   *)

\* Two decisions are inside together only once "overlapped", and as long as
\* nobody was killed inside, the lock file names the one that is.
LockInv ==
    /\ breach # "overlapped" => \A p, q \in Inside : p = q
    /\ breach = "none" => /\ \A p \in Proc : p \in Inside <=> lock = p
                          /\ lock # DeadPid
                          /\ \A p \in Proc : pc[p] # "reclaim"

RecordsAreNew ==
    \A p \in Proc :
        /\ pc[p] \in {"lock", "reclaim", "validate", "record", "unlock"}
               => cmd[p] = "decide"
        /\ pc[p] = "record" =>
               /\ ask[p].decision \in Outcome
               /\ breach # "overlapped" => \A x \in decisions : x.id # ask[p].id

\* A decision goes through step! at the approval it was checked against.
DeciderLabels == {"lock", "reclaim", "load", "validate", "record", "step",
                  "store", "unlock"}
Decider(p) ==
    cmd[p] = "decide" =>
        /\ pc[p] \in DeciderLabels
        /\ pc[p] \in {"record", "step"} =>
               ctx[p].status = "blocked" /\ Kind[ctx[p].state] = "approval"
        /\ pc[p] = "store" /\ ctx[p].status = "blocked" =>
               Kind[ctx[p].state] = "approval"
DeciderInv == \A p \in Proc : Decider(p)

DecideInv == LockInv /\ RecordsAreNew /\ DeciderInv
IInv == TypeOK /\ DecideInv

\* Where a step may lead that is not one of decide!'s own.
QuietLabels(p) ==
    {l \in Labels \ {"idle", "lock", "reclaim", "validate", "record"} :
        l = "unlock" => cmd[p] = "decide"}

\* A step of p that neither touches the lock and the decisions nor leads to
\* the checks of decide!.
Quiet(p) ==
    /\ pc[p] \notin {"idle", "lock", "reclaim"}
    /\ UNCHANGED <<lock, decisions, breach>>
    /\ \/ Exit(p) /\ cmd[p] # "decide"
       \/ /\ UNCHANGED <<cmd, ask>>
          /\ \E l \in QuietLabels(p) : Goto(p, l)

LEMMA ThrowQuiet ==
    ASSUME NEW p \in Proc, Throw(p), pc[p] \notin {"idle", "lock", "reclaim"},
           UNCHANGED <<lock, decisions, breach>>
    PROVE  Quiet(p)
<1>1. /\ "leave" \in QuietLabels(p)
      /\ cmd[p] = "decide" => "unlock" \in QuietLabels(p)
  BY DEF Labels, QuietLabels
<1>2. \/ Goto(p, "leave") /\ UNCHANGED <<cmd, ask>>
      \/ cmd[p] = "decide" /\ Goto(p, "unlock") /\ UNCHANGED <<cmd, ask>>
      \/ Exit(p) /\ cmd[p] # "decide"
  BY DEF Throw, local
<1>3. \/ Exit(p) /\ cmd[p] # "decide"
      \/ UNCHANGED <<cmd, ask>> /\ \E l \in QuietLabels(p) : Goto(p, l)
  BY <1>1, <1>2, Zenon
<1>4. QED
  BY <1>3, Zenon DEF Quiet

LEMMA QuietKeeps ==
    ASSUME IInv, NEW p \in Proc, Quiet(p)
    PROVE  LockInv' /\ RecordsAreNew'
<1> USE DEF IInv, DecideInv, TypeOK
<1>1. CASE Exit(p) /\ cmd[p] # "decide"
  <2>1. /\ pc' = [pc EXCEPT ![p] = "idle"]
        /\ cmd' = [cmd EXCEPT ![p] = "resume"]
        /\ \A q \in Proc : q # p => ask'[q] = ask[q]
    BY <1>1 DEF Exit, Forget, Goto
  <2>2. Inside' = Inside
    BY <1>1, <2>1 DEF Inside
  <2>3. LockInv'
    BY <2>1, <2>2 DEF Quiet, LockInv
  <2>4. RecordsAreNew'
    BY <2>1 DEF Quiet, RecordsAreNew
  <2>5. QED
    BY <2>3, <2>4
<1>2. CASE /\ UNCHANGED <<cmd, ask>>
           /\ \E l \in QuietLabels(p) : Goto(p, l)
  <2>1. PICK l \in QuietLabels(p) : pc' = [pc EXCEPT ![p] = l]
    BY <1>2 DEF Goto
  <2>2. Inside' = Inside
    BY <1>2, <2>1 DEF Inside, Quiet, QuietLabels
  <2>3. LockInv'
    BY <2>1, <2>2 DEF Quiet, LockInv, QuietLabels
  <2>4. RecordsAreNew'
    BY <1>2, <2>1 DEF Quiet, QuietLabels, RecordsAreNew
  <2>5. QED
    BY <2>3, <2>4
<1>3. QED
  BY <1>1, <1>2 DEF Quiet

\* Where step! returns to is quiet.
LEMMA ReturnedQuiet == ASSUME NEW p PROVE Returned(p) \in QuietLabels(p)
  BY DEF Returned, Labels, QuietLabels

\* All steps but a command's start, a load, those of decide! and of the
\* environment are quiet.
LEMMA MostAreQuiet ==
    ASSUME NEW p \in Proc, DeciderInv,
           \/ RetryGuard(p) \/ RetrySave(p) \/ RetryEvent(p) \/ Register(p)
           \/ EnterLoop(p) \/ Loop(p) \/ Save(p) \/ Leave(p)
           \/ StepEnded(p) \/ StepMaxRounds(p) \/ StepTerminal(p)
           \/ StepRequest(p) \/ StepDecided(p)
           \/ StepRecover(p) \/ StepOrphan(p) \/ StepStart(p)
           \/ Complete(p) \/ Break(p) \/ Select(p) \/ Store(p) \/ StoreFailed(p)
           \/ Unmark(p) \/ Reload(p) \/ CancelEvent(p) \/ CancelSave(p)
    PROVE  Quiet(p)
<1> DEFINE L == QuietLabels(p)
<1>0. /\ {"retrysave", "recovery", "register", "enter", "loop", "step", "run"} \subseteq L
      /\ {"select", "store", "storefail", "leave", "reload", "cancelevent"} \subseteq L
      /\ "cancelsave" \in L
  BY DEF Labels, QuietLabels
<1>d. pc[p] \notin DeciderLabels => cmd[p] # "decide"
  BY DEF DeciderInv, Decider
<1>1. CASE RetryGuard(p) \/ RetrySave(p) \/ RetryEvent(p) \/ Register(p)
  BY <1>0, <1>d, <1>1 DEF Quiet, DeciderLabels, RetryGuard, RetrySave, RetryEvent,
                          Register, shared, local
<1>2. CASE EnterLoop(p) \/ Loop(p) \/ Save(p) \/ Leave(p)
  BY <1>0, <1>d, <1>2 DEF Quiet, DeciderLabels, EnterLoop, Loop, Save, Leave, shared, local
<1>3. CASE StepEnded(p) \/ StepMaxRounds(p) \/ StepTerminal(p) \/ StepRequest(p)
  BY <1>0, <1>3, ReturnedQuiet
  DEF Quiet, StepEnded, StepMaxRounds, StepTerminal, StepRequest, AtStep, AtApproval, shared, local
<1>4. CASE StepDecided(p)
  <2>1. /\ pc[p] \notin {"idle", "lock", "reclaim"}
        /\ UNCHANGED <<lock, decisions, breach>>
    BY <1>4 DEF StepDecided, AtApproval, AtStep
  <2>2. Throw(p) \/ (Goto(p, "store") /\ UNCHANGED <<cmd, ask>>)
    BY <1>4 DEF StepDecided
  <2>3. QED
    BY <1>0, <2>1, <2>2, ThrowQuiet DEF Quiet
<1>5. CASE StepRecover(p) \/ StepOrphan(p) \/ StepStart(p)
  BY <1>0, <1>5 DEF Quiet, StepRecover, StepOrphan, StepStart, AtNode, AtStep, local
<1>6. CASE Complete(p) \/ Break(p) \/ Store(p)
  BY <1>0, <1>6, ReturnedQuiet DEF Quiet, Complete, Break, Store, local
<1>7. CASE Select(p)
  <2>1. /\ pc[p] \notin {"idle", "lock", "reclaim"}
        /\ UNCHANGED <<lock, decisions, breach>>
    BY <1>7 DEF Select
  <2>2. Throw(p) \/ (Goto(p, Returned(p)) /\ UNCHANGED <<cmd, ask>>)
    BY <1>7 DEF Select
  <2>3. QED
    BY <2>1, <2>2, ThrowQuiet, ReturnedQuiet DEF Quiet
<1>8. CASE StoreFailed(p)
  BY <1>8, ThrowQuiet DEF StoreFailed
<1>9. CASE Unmark(p) \/ Reload(p) \/ CancelEvent(p) \/ CancelSave(p)
  BY <1>0, <1>d, <1>9 DEF Quiet, DeciderLabels, Unmark, Reload, CancelEvent, CancelSave,
                          shared, local
<1> QED
  BY <1>1, <1>2, <1>3, <1>4, <1>5, <1>6, <1>7, <1>8, <1>9

\* A process comes inside by Lock, which finds the file absent.
LEMMA LockKeepsLock ==
    ASSUME IInv, NEW p \in Proc, Lock(p)
    PROVE  LockInv' /\ RecordsAreNew'
<1> USE ProcessAssumption DEF IInv, DecideInv, TypeOK, Goto
<1>0. /\ UNCHANGED decisions /\ pc[p] = "lock" /\ cmd[p] = "decide" /\ p \notin Inside
  BY DEF Lock, RecordsAreNew, Inside
<1>1. CASE Exit(p) /\ UNCHANGED <<lock, breach>>
  <2>1. /\ pc' = [pc EXCEPT ![p] = "idle"]
        /\ cmd' = [cmd EXCEPT ![p] = "resume"]
        /\ \A q \in Proc : q # p => ask'[q] = ask[q]
    BY <1>1 DEF Exit, Forget
  <2>2. Inside' = Inside
    BY <1>0, <2>1 DEF Inside
  <2>3. LockInv'
    BY <1>1, <2>1, <2>2 DEF LockInv
  <2>4. RecordsAreNew'
    BY <1>0, <1>1, <2>1 DEF RecordsAreNew
  <2>5. QED
    BY <2>3, <2>4
<1>2. CASE /\ lock = NoPid /\ lock' = p
           /\ breach' = IF Inside = {} THEN breach ELSE "overlapped"
           /\ Goto(p, "load") /\ UNCHANGED local
  <2>1. pc' = [pc EXCEPT ![p] = "load"] /\ UNCHANGED <<cmd, ask>>
    BY <1>2 DEF local
  <2>2. Inside' = Inside \cup {p}
    BY <1>0, <2>1 DEF Inside
  <2>3. LockInv'
    BY <1>2, <2>1, <2>2 DEF LockInv
  <2>4. RecordsAreNew'
    BY <1>0, <1>2, <2>1 DEF RecordsAreNew
  <2>5. QED
    BY <2>3, <2>4
<1>3. CASE /\ lock = DeadPid /\ Goto(p, "reclaim")
           /\ UNCHANGED <<lock, local, breach>>
  <2>1. pc' = [pc EXCEPT ![p] = "reclaim"] /\ UNCHANGED <<cmd, ask>>
    BY <1>3 DEF local
  <2>2. Inside' = Inside
    BY <1>0, <2>1 DEF Inside
  <2>3. LockInv'
    BY <1>3, <2>1, <2>2 DEF LockInv
  <2>4. RecordsAreNew'
    BY <1>0, <1>3, <2>1 DEF RecordsAreNew
  <2>5. QED
    BY <2>3, <2>4
<1>4. QED
  BY <1>1, <1>2, <1>3 DEF Lock

\* A killed process is inside no more, and that is noted.
LEMMA KillKeepsLock ==
    ASSUME IInv, NEW p \in Proc, Kill(p), UNCHANGED decisions,
           pc'[p] \in {"idle", "unmark"},
           \A q \in Proc \ {p} : \/ pc'[q] = pc[q]
                                 \/ pc[q] = "stop" /\ pc'[q] = "unmark"
    PROVE  LockInv' /\ RecordsAreNew'
<1> USE ProcessAssumption DEF IInv, DecideInv, TypeOK
<1>1. /\ lock' = IF lock = p THEN DeadPid ELSE lock
      /\ breach' = IF p \in Inside /\ breach = "none" THEN "orphaned" ELSE breach
      /\ cmd' = [cmd EXCEPT ![p] = "resume"]
      /\ \A q \in Proc \ {p} : ask'[q] = ask[q]
  BY DEF Kill, Forget
<1>2. Inside' = Inside \ {p}
  <2>1. ASSUME NEW q \in Proc \ {p} PROVE q \in Inside' <=> q \in Inside
    BY <1>1 DEF Inside
  <2>2. p \notin Inside'
    BY <1>1 DEF Inside
  <2>3. Inside' \subseteq Proc /\ Inside \subseteq Proc
    BY DEF Inside
  <2>4. QED
    BY <2>1, <2>2, <2>3
<1>3. LockInv'
  BY <1>1, <1>2 DEF LockInv
<1>4. RecordsAreNew'
  BY <1>1 DEF RecordsAreNew
<1>5. QED
  BY <1>3, <1>4

\* The other steps keep the lock discipline, too.
LEMMA OthersKeep ==
    ASSUME IInv, NEW p \in Proc,
           \/ \E c \in Commands : Launch(p, c)
           \/ Load(p) \/ Reclaim(p) \/ Validate(p) \/ Record(p) \/ Unlock(p)
           \/ Stop(p) \/ Crash(p)
    PROVE  LockInv' /\ RecordsAreNew'
<1> USE ProcessAssumption DEF IInv, DecideInv, TypeOK, Exit, Forget, Goto
<1>1. ASSUME NEW c \in Commands, Launch(p, c) PROVE LockInv' /\ RecordsAreNew'
  <2>1. /\ pc[p] = "idle" /\ UNCHANGED <<lock, decisions, breach>>
        /\ cmd' = [cmd EXCEPT ![p] = c]
        /\ pc' = [pc EXCEPT ![p] = IF c = "decide" THEN "lock" ELSE "load"]
        /\ \A q \in Proc : q # p => ask'[q] = ask[q]
    BY <1>1 DEF Launch, shared
  <2>2. p \notin Inside /\ p \notin Inside'
    <3>1. p \notin Inside
      BY <2>1 DEF Inside
    <3>2. c # "decide" => cmd'[p] # "decide"
      BY <2>1
    <3>3. c = "decide" => pc'[p] = "lock"
      BY <2>1
    <3>4. QED
      BY <3>1, <3>2, <3>3 DEF Inside
  <2>3. Inside' = Inside
    BY <2>1, <2>2 DEF Inside
  <2>4. LockInv'
    BY <2>1, <2>3 DEF LockInv
  <2>5. RecordsAreNew'
    BY <2>1 DEF RecordsAreNew
  <2>6. QED
    BY <2>4, <2>5
<1>2. CASE Load(p)
  <2>0. UNCHANGED <<lock, decisions, breach>> /\ pc[p] = "load"
    BY <1>2 DEF Load, shared
  <2>1. CASE cmd[p] = "cancel"
    <3>1. "stop" \in QuietLabels(p)
      BY DEF Labels, QuietLabels
    <3>2. Exit(p) \/ (Goto(p, "stop") /\ UNCHANGED <<cmd, ask>>)
      BY <1>2, <2>1 DEF Load, local
    <3>3. Quiet(p)
      BY <2>0, <2>1, <3>1, <3>2 DEF Quiet
    <3>4. QED
      BY <3>3, QuietKeeps
  <2>2. CASE cmd[p] # "cancel"
    <3>1. /\ pc' = [pc EXCEPT ![p] = AfterLoad[cmd[p]]]
          /\ UNCHANGED <<cmd, ask>>
      BY <1>2, <2>2 DEF Load
    <3>2. /\ AfterLoad[cmd[p]] \notin {"record", "unlock", "lock", "reclaim", "idle"}
          /\ AfterLoad[cmd[p]] = "validate" => cmd[p] = "decide"
      BY <2>2 DEF AfterLoad, Commands
    <3>3. Inside' = Inside
      BY <2>0, <3>1, <3>2 DEF Inside
    <3>4. LockInv'
      BY <2>0, <3>1, <3>2, <3>3 DEF LockInv
    <3>5. RecordsAreNew'
      BY <2>0, <3>1, <3>2 DEF RecordsAreNew
    <3>6. QED
      BY <3>4, <3>5
  <2>3. QED
    BY <2>1, <2>2
<1>3. CASE Reclaim(p)
  <2>1. /\ pc[p] = "reclaim" /\ cmd[p] = "decide" /\ breach # "none"
        /\ UNCHANGED <<decisions, breach>> /\ lock' = NoPid
    BY <1>3 DEF Reclaim, RecordsAreNew, LockInv
  <2>2. CASE Goto(p, "lock") /\ UNCHANGED local
    <3>1. pc' = [pc EXCEPT ![p] = "lock"] /\ UNCHANGED <<cmd, ask>>
      BY <2>2 DEF local
    <3>2. Inside' = Inside
      BY <2>1, <3>1 DEF Inside
    <3>3. QED
      BY <2>1, <3>1, <3>2 DEF LockInv, RecordsAreNew
  <2>3. CASE Exit(p)
    <3>1. /\ pc' = [pc EXCEPT ![p] = "idle"]
          /\ cmd' = [cmd EXCEPT ![p] = "resume"]
          /\ \A q \in Proc : q # p => ask'[q] = ask[q]
      BY <2>3
    <3>2. Inside' = Inside
      BY <2>1, <3>1 DEF Inside
    <3>3. QED
      BY <2>1, <3>1, <3>2 DEF LockInv, RecordsAreNew
  <2>4. QED
    BY <1>3, <2>2, <2>3 DEF Reclaim
<1>4. CASE Validate(p)
  <2>0. /\ pc[p] = "validate" /\ UNCHANGED <<lock, decisions, breach, cmd, ask, ctx>>
        /\ pc' = [pc EXCEPT ![p] = IF Acceptable(p) THEN "record" ELSE "unlock"]
        /\ cmd[p] = "decide"
    BY <1>4 DEF Validate, shared, local, RecordsAreNew
  <2>1. Inside' = Inside
    BY <2>0 DEF Inside
  <2>2. LockInv'
    BY <2>0, <2>1 DEF LockInv
  <2>3. CASE ~Acceptable(p)
    BY <2>0, <2>2, <2>3 DEF RecordsAreNew
  <2>4. CASE Acceptable(p)
    <3>1. \A x \in decisions : x.id # ask[p].id
      BY <2>4 DEF Acceptable, Decided
    <3>2. ask[p].decision \in Outcome
      <4>1. PICK i \in DOMAIN Transitions[ctx[p].state] :
                ask[p].decision \in Transitions[ctx[p].state][i].when
        BY <2>4 DEF Acceptable, Chosen, Matching
      <4>2. Transitions[ctx[p].state][i] \in Transition
        BY WorkflowAssumption DEF Context
      <4>3. QED
        BY <4>1, <4>2 DEF Transition
    <3>3. RecordsAreNew'
      BY <2>0, <2>4, <3>1, <3>2 DEF RecordsAreNew
    <3>4. QED
      BY <2>2, <3>3
  <2>5. QED
    BY <2>3, <2>4
<1>5. CASE Record(p)
  <2>0. /\ pc[p] = "record" /\ UNCHANGED <<lock, breach, cmd, ask>>
        /\ pc' = [pc EXCEPT ![p] = "step"]
        /\ cmd[p] = "decide"
        /\ decisions' = {x \in decisions : x.id # ask[p].id} \cup {ask[p]}
    BY <1>5 DEF Record, local, RecordsAreNew
  <2>1. Inside' = Inside
    BY <2>0 DEF Inside
  <2>2. LockInv'
    BY <2>0, <2>1 DEF LockInv
  \* Nobody else is about to record: p is inside alone.
  <2>3. breach # "overlapped" => \A q \in Proc : q # p => pc[q] # "record"
    BY <2>0 DEF LockInv, Inside, RecordsAreNew
  <2>4. RecordsAreNew'
    BY <2>0, <2>3 DEF RecordsAreNew
  <2>5. QED
    BY <2>2, <2>4
<1>6. CASE Unlock(p)
  <2>1. /\ pc' = [pc EXCEPT ![p] = "idle"]
        /\ cmd' = [cmd EXCEPT ![p] = "resume"]
        /\ \A q \in Proc : q # p => ask'[q] = ask[q]
        /\ lock' = NoPid /\ UNCHANGED <<decisions, breach>> /\ pc[p] = "unlock"
        /\ cmd[p] = "decide"
    BY <1>6 DEF Unlock, RecordsAreNew
  <2>2. Inside' = Inside \ {p} /\ p \in Inside
    BY <2>1 DEF Inside
  <2>3. LockInv'
    BY <2>1, <2>2 DEF LockInv
  <2>4. RecordsAreNew'
    BY <2>1 DEF RecordsAreNew
  <2>5. QED
    BY <2>3, <2>4
<1>7. CASE Stop(p)
  <2>0. pc[p] = "stop" /\ UNCHANGED decisions
    BY <1>7 DEF Stop
  <2>1. CASE marker \in Proc
    <3>1. /\ pc' = [pc EXCEPT ![p] = "unmark", ![marker] = "idle"]
          /\ Kill(marker)
      BY <1>7, <2>1 DEF Stop
    <3>2. pc'[marker] = "idle"
      BY <2>1, <3>1
    <3>3. \A q \in Proc \ {marker} : \/ pc'[q] = pc[q]
                                     \/ pc[q] = "stop" /\ pc'[q] = "unmark"
      BY <2>0, <2>1, <3>1
    <3>4. QED
      BY <2>0, <2>1, <3>1, <3>2, <3>3, KillKeepsLock
  <2>2. CASE marker \notin Proc
    <3>1. /\ pc' = [pc EXCEPT ![p] = "unmark"]
          /\ UNCHANGED <<lock, cmd, ask, breach>>
      BY <1>7, <2>2 DEF Stop, local
    <3>2. "unmark" \in QuietLabels(p)
      BY DEF Labels, QuietLabels
    <3>3. Quiet(p)
      BY <2>0, <3>1, <3>2 DEF Quiet
    <3>4. QED
      BY <3>3, QuietKeeps
  <2>3. QED
    BY <2>1, <2>2
<1>8. CASE Crash(p)
  <2>1. pc' = [pc EXCEPT ![p] = "idle"] /\ Kill(p) /\ UNCHANGED decisions
    BY <1>8 DEF Crash
  <2>2. QED
    BY <2>1, KillKeepsLock
<1> QED
  BY <1>1, <1>2, <1>3, <1>4, <1>5, <1>6, <1>7, <1>8

----------------------------------------------------------------------------
(* A decision stays at its approval.                                       *)

\* A process that is no decision has nothing to show.
LEMMA NoDecider ==
    ASSUME NEW p, cmd'[p] # "decide"
    PROVE  Decider(p)'
  BY DEF Decider

LEMMA ForgetDecider ==
    ASSUME TypeOK, NEW p \in Proc, Forget(p)
    PROVE  Decider(p)'
  BY NoDecider DEF Forget, TypeOK

LEMMA ThrowDecider ==
    ASSUME TypeOK, NEW p \in Proc, Throw(p)
    PROVE  Decider(p)'
<1>1. CASE cmd[p] = "decide" /\ Goto(p, "unlock")
  BY <1>1 DEF Goto, TypeOK, Decider, DeciderLabels
<1>2. CASE cmd[p] # "decide" /\ UNCHANGED cmd
  BY <1>2, NoDecider
<1>3. CASE Exit(p)
  BY <1>3, ForgetDecider DEF Exit
<1>4. QED
  BY <1>1, <1>2, <1>3 DEF Throw, Registered, local

\* The steps of a decision.
LEMMA DecisionSteps ==
    ASSUME TypeOK, DeciderInv, NEW p \in Proc, cmd[p] = "decide",
           \/ Load(p) \/ Lock(p) \/ Reclaim(p) \/ Validate(p) \/ Record(p)
           \/ Unlock(p) \/ Store(p) \/ StepEnded(p) \/ StepMaxRounds(p)
           \/ StepTerminal(p) \/ StepRequest(p) \/ StepDecided(p)
           \/ StepRecover(p) \/ StepOrphan(p) \/ StepStart(p)
    PROVE  Decider(p)'
<1> USE DEF TypeOK
<1>0. /\ ctx[p] \in Context
      /\ Decider(p)
  BY DEF DeciderInv
<1>1. ASSUME NEW l \in {"lock", "reclaim", "load", "validate", "unlock"}, Goto(p, l)
      PROVE  Decider(p)'
  BY <1>1 DEF Goto, Decider, DeciderLabels
<1>2. ASSUME NEW c, SetCtx(p, c), Goto(p, "store"), UNCHANGED cmd,
             c.status = "blocked" => Kind[c.state] = "approval"
      PROVE  Decider(p)'
  BY <1>2 DEF Goto, SetCtx, Decider, DeciderLabels
<1>3. CASE Load(p)
  <2>1. Goto(p, "validate")
    BY <1>3 DEF Load, AfterLoad
  <2>2. QED
    BY <1>1, <2>1
<1>4. CASE Lock(p) \/ Reclaim(p) \/ Unlock(p)
  BY <1>1, <1>4, ForgetDecider DEF Lock, Reclaim, Unlock, Exit
<1>5. CASE Validate(p)
  <2>1. CASE Acceptable(p)
    <3>1. /\ pc'[p] = "record" /\ UNCHANGED ctx
          /\ ctx[p].status = "blocked" /\ Kind[ctx[p].state] = "approval"
      BY <1>5, <2>1 DEF Validate, Acceptable, Goto, local
    <3>2. QED
      BY <3>1 DEF Decider, DeciderLabels
  <2>2. CASE ~Acceptable(p)
    BY <1>1, <1>5, <2>2 DEF Validate
  <2>3. QED
    BY <2>1, <2>2
<1>6. CASE Record(p)
  BY <1>0, <1>6 DEF Record, Goto, local, Decider, DeciderLabels
<1>7. CASE Store(p) \/ StepEnded(p) \/ StepTerminal(p)
  <2>1. Goto(p, "unlock")
    BY <1>7 DEF Store, StepEnded, StepTerminal, Returned
  <2>2. QED
    BY <1>1, <2>1
<1>8. CASE \/ StepMaxRounds(p) \/ StepRequest(p) \/ StepDecided(p)
           \/ StepRecover(p) \/ StepOrphan(p) \/ StepStart(p)
  <2>0. pc[p] = "step" /\ Kind[ctx[p].state] = "approval"
    BY <1>0, <1>8 DEF StepMaxRounds, StepRequest, StepDecided, StepRecover, StepOrphan,
         StepStart, AtApproval, AtNode, AtStep, Decider
  <2>1. CASE StepMaxRounds(p)
    <3>1. [ctx[p] EXCEPT !.status = "failed"].status # "blocked"
      BY <1>0 DEF Context
    <3>2. QED
      BY <1>2, <2>1, <3>1 DEF StepMaxRounds
  <2>2. CASE StepRequest(p)
    <3>1. [ctx[p] EXCEPT !.status = "blocked"].state = ctx[p].state
      BY <1>0 DEF Context
    <3>2. QED
      BY <1>2, <2>0, <2>2, <3>1 DEF StepRequest
  <2>3. CASE StepDecided(p)
    <3> DEFINE r == [ctx[p] EXCEPT !.status = "running"]
    <3>1. ASSUME NEW tr, SetCtx(p, FinishIfTerminal(Advance(r, tr))), Goto(p, "store"),
                 UNCHANGED cmd
          PROVE  Decider(p)'
      <4>1. r.status = "running"
        BY <1>0 DEF Context
      <4> HIDE DEF r
      <4>2. FinishIfTerminal(Advance(r, tr)).status # "blocked"
        BY <4>1 DEF FinishIfTerminal, Advance
      <4>3. QED
        BY <1>2, <3>1, <4>2
    <3>2. QED
      BY <2>3, <3>1, ThrowDecider DEF StepDecided
  <2>4. CASE StepRecover(p) \/ StepOrphan(p) \/ StepStart(p)
    BY <2>0, <2>4 DEF StepRecover, StepOrphan, StepStart, AtNode
  <2>5. QED
    BY <1>8, <2>1, <2>2, <2>3, <2>4
<1>9. QED
  BY <1>3, <1>4, <1>5, <1>6, <1>7, <1>8

\* A step of a process that is no stop! leaves the others' memory alone, and
\* ends its command or goes on with it.
LEMMA StepAlone ==
    ASSUME TypeOK, NEW p \in Proc, Step(p), ~Stop(p)
    PROVE  /\ \A q \in Proc \ {p} : /\ pc'[q] = pc[q] /\ cmd'[q] = cmd[q]
                                     /\ ctx'[q] = ctx[q] /\ steps'[q] = steps[q]
           /\ cmd' = cmd \/ (cmd'[p] = "resume" /\ pc'[p] = "idle")
<1> USE DEF TypeOK, Goto, SetCtx, Exit, Forget, local
<1>1. ASSUME Throw(p)
      PROVE  /\ \A q \in Proc \ {p} : /\ pc'[q] = pc[q] /\ cmd'[q] = cmd[q]
                                       /\ ctx'[q] = ctx[q] /\ steps'[q] = steps[q]
             /\ cmd' = cmd \/ (cmd'[p] = "resume" /\ pc'[p] = "idle")
  BY <1>1 DEF Throw
<1>2. CASE Load(p) \/ RetryGuard(p) \/ RetrySave(p) \/ RetryEvent(p) \/ Register(p)
  BY <1>2 DEF Load, RetryGuard, RetrySave, RetryEvent, Register
<1>3. CASE EnterLoop(p) \/ Loop(p) \/ Save(p) \/ Leave(p)
  BY <1>3 DEF EnterLoop, Loop, Save, Leave
<1>4. CASE StepEnded(p) \/ StepMaxRounds(p) \/ StepTerminal(p) \/ StepRequest(p)
  BY <1>4 DEF StepEnded, StepMaxRounds, StepTerminal, StepRequest
<1>5. CASE StepDecided(p)
  BY <1>1, <1>5 DEF StepDecided
<1>6. CASE StepRecover(p) \/ StepOrphan(p) \/ StepStart(p)
  BY <1>6 DEF StepRecover, StepOrphan, StepStart
<1>7. CASE Complete(p) \/ Break(p) \/ Store(p)
  BY <1>7 DEF Complete, Break, Store
<1>8. CASE Select(p) \/ StoreFailed(p)
  BY <1>1, <1>8 DEF Select, StoreFailed
<1>9. CASE Lock(p) \/ Reclaim(p) \/ Validate(p) \/ Record(p) \/ Unlock(p)
  BY <1>9 DEF Lock, Reclaim, Validate, Record, Unlock
<1>10. CASE Unmark(p) \/ Reload(p) \/ CancelEvent(p) \/ CancelSave(p)
  BY <1>10 DEF Unmark, Reload, CancelEvent, CancelSave
<1>11. QED
  BY <1>2, <1>3, <1>4, <1>5, <1>6, <1>7, <1>8, <1>9, <1>10 DEF Step

\* Which steps a decision can have before it.
LEMMA DeciderStep ==
    ASSUME DeciderInv, NEW p \in Proc, cmd[p] = "decide", Step(p)
    PROVE  \/ Load(p) \/ Lock(p) \/ Reclaim(p) \/ Validate(p) \/ Record(p)
           \/ Unlock(p) \/ Store(p) \/ StepEnded(p) \/ StepMaxRounds(p)
           \/ StepTerminal(p) \/ StepRequest(p) \/ StepDecided(p)
           \/ StepRecover(p) \/ StepOrphan(p) \/ StepStart(p)
<1>1. pc[p] \in DeciderLabels
  BY DEF DeciderInv, Decider
<1>2. QED
  BY <1>1 DEF Step, DeciderLabels, RetryGuard, RetrySave, RetryEvent, Register,
       EnterLoop, Loop, Save, Leave, Complete, Break, Select, StoreFailed, Stop, Unmark,
       Reload, CancelEvent, CancelSave

LEMMA DeciderKept ==
    ASSUME IInv, NEW p \in Proc,
           Step(p) \/ Crash(p) \/ \E c \in Commands : Launch(p, c)
    PROVE  DeciderInv'
<1> USE DEF IInv, DecideInv, TypeOK
<1>1. ASSUME \A q \in Proc \ {p} :
                 pc'[q] = pc[q] /\ cmd'[q] = cmd[q] /\ ctx'[q] = ctx[q],
             Decider(p)'
      PROVE  DeciderInv'
  <2>1. ASSUME NEW q \in Proc, q # p PROVE Decider(q)'
    BY <1>1, <2>1 DEF DeciderInv, Decider
  <2>2. QED
    BY <1>1, <2>1 DEF DeciderInv
<1>2. CASE Stop(p)
  <2>1. ASSUME NEW q \in Proc PROVE Decider(q)'
    <3>1. \/ cmd'[q] # "decide"
          \/ q # p /\ pc'[q] = pc[q] /\ cmd'[q] = cmd[q] /\ ctx'[q] = ctx[q]
      <4>1. pc[p] = "stop" /\ cmd[p] # "decide"
        BY <1>2 DEF Stop, DeciderInv, Decider, DeciderLabels
      <4>2. QED
        BY <1>2, <4>1 DEF Stop, Kill, Forget, Goto, local
    <3>2. QED
      BY <3>1, NoDecider DEF DeciderInv, Decider
  <2>2. QED
    BY <2>1 DEF DeciderInv
<1>3. ASSUME NEW l, Goto(p, l)
      PROVE  \A q \in Proc \ {p} : pc'[q] = pc[q]
  BY <1>3 DEF Goto
<1>4. ASSUME Forget(p) \/ UNCHANGED local
      PROVE  \A q \in Proc \ {p} : cmd'[q] = cmd[q] /\ ctx'[q] = ctx[q]
  BY <1>4 DEF Forget, local
<1>5. CASE Crash(p)
  <2>1. Goto(p, "idle") /\ Forget(p)
    BY <1>5 DEF Crash, Kill
  <2>2. QED
    BY <1>1, <1>3, <1>4, <2>1, ForgetDecider
<1>6. ASSUME NEW c \in Commands, Launch(p, c) PROVE DeciderInv'
  <2>1. /\ cmd' = [cmd EXCEPT ![p] = c] /\ UNCHANGED ctx
        /\ pc' = [pc EXCEPT ![p] = IF c = "decide" THEN "lock" ELSE "load"]
    BY <1>6 DEF Launch, Goto
  <2>2. Decider(p)'
    BY <2>1 DEF Decider, DeciderLabels
  <2>3. QED
    BY <1>1, <2>1, <2>2
<1>7. ASSUME Step(p), ~Stop(p) PROVE Decider(p)'
  <2>1. CASE cmd[p] # "decide"
    BY <1>7, <2>1, StepAlone, NoDecider
  <2>2. CASE cmd[p] = "decide"
    BY <1>7, <2>2, DeciderStep, DecisionSteps
  <2>3. QED
    BY <2>1, <2>2
<1>8. QED
  BY <1>1, <1>2, <1>5, <1>6, <1>7, StepAlone

----------------------------------------------------------------------------
(* The invariant and the theorems.                                         *)

LEMMA InitInv == Init => IInv
<1> SUFFICES ASSUME Init PROVE IInv
  OBVIOUS
<1>1. <<>> \in Seq(EventType) /\ Context0 \in Context
  BY Context0Typed
<1>2. /\ "idle" \in Labels /\ "resume" \in Commands
      /\ NoAsk \in [id : Id, decision : Outcome \cup {NoValue}]
  BY NoAskTyped DEF Labels, Commands
<1>3. TypeOK
  BY <1>1, <1>2 DEF Init, TypeOK
<1>4. DecideInv
  BY ProcessAssumption
  DEF Init, DecideInv, LockInv, Inside, RecordsAreNew, DeciderInv, Decider
<1>5. QED
  BY <1>3, <1>4 DEF IInv

\* One step of one process, the environment's crash included.
LEMMA ProcessKeeps ==
    ASSUME IInv, NEW p \in Proc, Step(p) \/ Crash(p)
    PROVE  IInv'
<1>1. TypeOK /\ DeciderInv /\ (pc[p] = "record" => ask[p].decision \in Outcome)
  BY DEF IInv, DecideInv, RecordsAreNew
<1>0. DeciderInv'
  BY DeciderKept
<1> USE DEF IInv, DecideInv
<1>2. CASE Load(p)
  BY <1>0, <1>1, <1>2, LoadTyped, OthersKeep
<1>3. CASE \/ RetryGuard(p) \/ RetrySave(p) \/ RetryEvent(p)
           \/ Register(p) \/ EnterLoop(p) \/ Loop(p) \/ Save(p) \/ Leave(p)
  BY <1>0, <1>1, <1>3, LoopTyped, MostAreQuiet, QuietKeeps
<1>4. CASE \/ StepEnded(p) \/ StepMaxRounds(p) \/ StepTerminal(p)
           \/ StepRequest(p) \/ StepDecided(p)
           \/ StepRecover(p) \/ StepOrphan(p) \/ StepStart(p)
  BY <1>0, <1>1, <1>4, StepTyped, MostAreQuiet, QuietKeeps
<1>5. CASE Complete(p) \/ Break(p) \/ Select(p) \/ Store(p) \/ StoreFailed(p)
  BY <1>0, <1>1, <1>5, ExecuteTyped, MostAreQuiet, QuietKeeps
<1>6. CASE Lock(p) \/ Reclaim(p) \/ Validate(p) \/ Record(p) \/ Unlock(p)
  BY <1>0, <1>1, <1>6, DecideTyped, OthersKeep, LockKeepsLock
<1>7. CASE Stop(p) \/ Crash(p)
  BY <1>0, <1>1, <1>7, CancelTyped, OthersKeep
<1>8. CASE Unmark(p) \/ Reload(p) \/ CancelEvent(p) \/ CancelSave(p)
  BY <1>0, <1>1, <1>8, CancelTyped, MostAreQuiet, QuietKeeps
<1> QED
  BY <1>2, <1>3, <1>4, <1>5, <1>6, <1>7, <1>8 DEF Step

LEMMA NextKeeps == IInv /\ [FreeNext]_vars => IInv'
<1> SUFFICES ASSUME IInv, [FreeNext]_vars PROVE IInv'
  OBVIOUS
<1>1. ASSUME NEW p \in Proc, Step(p) \/ Crash(p) PROVE IInv'
  BY <1>1, ProcessKeeps
<1>2. ASSUME UNCHANGED <<lock, decisions, pc, cmd, ctx, ask, breach>> PROVE DecideInv'
  BY <1>2 DEF IInv, DecideInv, LockInv, Inside, RecordsAreNew, DeciderInv, Decider
<1>3. ASSUME NEW g \in agents, AgentEnds(g) PROVE IInv'
  <2>1. TypeOK'
    BY <1>3, AgentTyped DEF IInv
  <2>2. DecideInv'
    BY <1>2, <1>3 DEF AgentEnds, local
  <2>3. QED
    BY <2>1, <2>2 DEF IInv
<1>4. ASSUME NEW p \in Proc, NEW c \in Commands, Launch(p, c) PROVE IInv'
  BY <1>4, LaunchTyped, OthersKeep, DeciderKept DEF IInv, DecideInv
<1>5. CASE UNCHANGED vars
  <2>1. DecideInv'
    BY <1>2, <1>5 DEF vars, shared, local
  <2>2. QED
    BY <1>5, <2>1 DEF vars, shared, local, IInv, TypeOK
<1>6. QED
  BY <1>1, <1>3, <1>4, <1>5 DEF FreeNext, Progress

LEMMA Inductive == FreeSpec => []IInv
  BY InitInv, NextKeeps, PTL DEF FreeSpec

\* Whatever commands are given in whatever order, by however many processes,
\* every file of the run directory and every context in memory is one that
\* store.clj, transitions.clj and core.clj can read back.
THEOREM EngineTypeCorrect == FreeSpec => []TypeOK
<1>1. IInv => TypeOK
  BY DEF IInv
<1>2. QED
  BY <1>1, Inductive, PTL

\* What a step does to the history of the lock.
LEMMA BreachSteps ==
    ASSUME IInv, [FreeNext]_vars
    PROVE  /\ breach' # breach => breach' = "orphaned" \/ \E p \in Proc : Lock(p)
           /\ breach = "overlapped" => breach' = "overlapped"
<1> DEFINE G == /\ breach' # breach => breach' = "orphaned" \/ \E p \in Proc : Lock(p)
                /\ breach = "overlapped" => breach' = "overlapped"
<1>1. UNCHANGED breach => G
  OBVIOUS
<1>2. ASSUME NEW q \in Proc, Kill(q) PROVE G
  BY <1>2 DEF Kill
<1>3. ASSUME NEW p \in Proc, Step(p) \/ Crash(p) PROVE G
  <2>1. CASE Quiet(p)
    BY <1>1, <2>1 DEF Quiet
  <2>2. CASE Load(p) \/ Reclaim(p) \/ Validate(p) \/ Record(p) \/ Unlock(p)
    BY <1>1, <2>2 DEF Load, Reclaim, Validate, Record, Unlock
  <2>3. CASE Lock(p)
    BY <2>3 DEF Lock
  <2>4. CASE Stop(p) \/ Crash(p)
    BY <1>1, <1>2, <2>4 DEF Stop, Crash
  <2>5. QED
    BY <1>3, <2>1, <2>2, <2>3, <2>4, MostAreQuiet DEF Step, IInv, DecideInv
<1>4. ASSUME NEW g \in agents, AgentEnds(g) PROVE G
  BY <1>1, <1>4 DEF AgentEnds
<1>5. ASSUME NEW p \in Proc, NEW c \in Commands, Launch(p, c) PROVE G
  BY <1>1, <1>5 DEF Launch
<1>6. CASE UNCHANGED vars
  BY <1>1, <1>6 DEF vars
<1>7. QED
  BY <1>3, <1>4, <1>5, <1>6 DEF FreeNext, Progress

\* with-run-lock (store.clj) serializes decisions as long as none of them was
\* killed inside: only a file whose holder is dead is taken for stale, so two
\* are inside together only after that.
THEOREM OverlapsNeedKills == FreeSpec => OverlapNeedsKill
<1>1. ASSUME IInv, [FreeNext]_vars, breach = "none" PROVE breach' # "overlapped"
  <2>1. ASSUME NEW p \in Proc, Lock(p), breach' = "overlapped" PROVE FALSE
    <3>1. lock = NoPid /\ Inside # {}
      BY <1>1, <2>1 DEF Lock
    <3>2. PICK q \in Proc : q \in Inside
      BY <3>1 DEF Inside
    <3>3. QED
      BY <1>1, <3>1, <3>2, ProcessAssumption DEF IInv, DecideInv, LockInv
  <2>2. QED
    BY <1>1, <2>1, BreachSteps
<1>2. IInv /\ [FreeNext]_vars => [breach = "none" => breach' # "overlapped"]_vars
  BY <1>1
<1>3. QED
  BY <1>2, Inductive, PTL DEF FreeSpec, OverlapNeedsKill

\* Every step keeps the decisions that are there.
LEMMA DecisionsGrow ==
    ASSUME IInv, [FreeNext]_vars, breach' # "overlapped"
    PROVE  decisions \subseteq decisions'
<1>1. CASE \E p \in Proc : Record(p)
  <2>1. PICK p \in Proc : Record(p)
    BY <1>1
  <2>2. pc[p] = "record" /\ breach # "overlapped"
    BY <2>1 DEF Record
  <2>3. \A x \in decisions : x.id # ask[p].id
    BY <2>2 DEF IInv, DecideInv, RecordsAreNew
  <2>4. QED
    BY <2>1, <2>3 DEF Record
<1>2. CASE ~ \E p \in Proc : Record(p)
  <2>1. ASSUME NEW p \in Proc, Step(p) \/ Crash(p) PROVE UNCHANGED decisions
    <3>1. CASE \/ Load(p) \/ Lock(p) \/ Reclaim(p) \/ Validate(p) \/ Unlock(p)
               \/ Stop(p) \/ Crash(p)
      BY <3>1 DEF Load, Lock, Reclaim, Validate, Unlock, Stop, Crash, shared
    <3>2. CASE Quiet(p)
      BY <3>2 DEF Quiet
    <3>3. QED
      BY <1>2, <2>1, <3>1, <3>2, MostAreQuiet DEF Step, IInv, DecideInv
  <2>2. ASSUME NEW g \in agents, AgentEnds(g) PROVE UNCHANGED decisions
    BY <2>2 DEF AgentEnds
  <2>3. ASSUME NEW p \in Proc, NEW c \in Commands, Launch(p, c)
        PROVE  UNCHANGED decisions
    BY <2>3 DEF Launch, shared
  <2>4. QED
    BY <2>1, <2>2, <2>3 DEF FreeNext, Progress, vars, shared
<1>3. QED
  BY <1>1, <1>2

\* An accepted decision is not overwritten (decide!, core.clj), whatever else
\* runs on the run and whoever is killed, and without any help from the order
\* in which commands are given, as long as no two decisions were inside the
\* lock together; that takes a process killed inside (OverlapsNeedKills).
THEOREM DecisionsFinal == FreeSpec => DecisionIsFinal
<1>1. IInv /\ [FreeNext]_vars
          => [breach' # "overlapped" => decisions \subseteq decisions']_vars
  BY DecisionsGrow
<1>2. QED
  BY <1>1, Inductive, PTL DEF FreeSpec, DecisionIsFinal

\* The documented discipline only takes behaviours away.
LEMMA OrderlyIsFree == Spec => FreeSpec
<1>1. Next => FreeNext
  BY DEF Next, FreeNext, OrderlyLaunch
<1>2. QED
  BY <1>1, PTL DEF Spec, FreeSpec

----------------------------------------------------------------------------
(* What the log proves.  Events are only appended, so what one of them     *)
(* says of files that only grow, or of the events before it, stays true.   *)

Has(names, n, a) ==
    \E i \in DOMAIN log : /\ log[i].event \in names
                          /\ log[i].state = n /\ log[i].attempt = a
Failures == {"node.failed", "node.orphaned"}

\* The reason of a failure at node n under attempt a, in a log.
Reason(l, n, a) ==
    \/ \E i \in DOMAIN l : /\ l[i].event \in Failures
                           /\ l[i].state = n /\ l[i].attempt = a
    \/ \E i \in DOMAIN l : l[i].event = "run.max-rounds-exceeded" /\ l[i].state = n
    \/ \E i, j \in DOMAIN l : /\ i < j
                              /\ l[i].event = "transition.selected"
                              /\ l[i].value = n
                              /\ l[j].event = "effect.fail-run"

\* A context that says "failed" has its reason in the log.
Evident(c) == c.status = "failed" => Reason(log, c.state, c.attempt)

\* An artifact of an agent that is stamped with the attempt was asked for.
Asked(k) ==
    Kind[k[1]] = "agent" /\ Stamp[k[1]] = "attempt"
        => Has({"node.started"}, k[1], k[2])

\* A process that executes a node has found the run open and logged the start.
Executing(p) ==
    /\ pc[p] \in {"run", "select"} =>
        /\ ~IsTerminal(ctx[p])
        /\ Kind[ctx[p].state] \in {"work", "agent"}
    /\ pc[p] = "run" => Has({"node.started"}, ctx[p].state, ctx[p].attempt)

MemoryInv == /\ Evident(disk)
             /\ \A p \in Proc : Evident(ctx[p]) /\ Executing(p)
FilesInv == \A x \in artifacts \cup agents : Asked(x.key)
LogInv == /\ MemoryInv /\ FilesInv
          /\ StampedIsFresh /\ GateOpensByDecision /\ InFlightNeverRerun

\* The log only grows, by these events.
Appends == /\ Len(log) <= Len(log')
           /\ \A i \in DOMAIN log : log'[i] = log[i]
New == DOMAIN log' \ DOMAIN log

\* What an event says was so before it was appended.
Closed(e) == Has(Closing, e.state, e.attempt)
Justified(e) ==
    /\ e.event = "node.started" =>
        /\ Closed(e) \/ ~Has({"node.started"}, e.state, e.attempt)
        /\ \E p \in Proc : AtNode(p) /\ IdOf(ctx[p]) = <<e.state, e.attempt>>
    /\ e.event = "node.finished" => Asked(<<e.state, e.attempt>>)
    /\ e.event = "transition.selected" /\ Kind[e.state] = "approval" =>
        \E x \in decisions :
            /\ x.id = <<e.state, e.attempt>>
            /\ \E t \in DOMAIN Transitions[e.state] :
                /\ x.decision \in Transitions[e.state][t].when
                /\ Transitions[e.state][t].next = e.value
Recorded ==
    /\ Appends
    /\ \A i \in New :
        /\ Justified(log'[i])
        /\ log'[i].event = "node.started" => i = Len(log) + 1

LEMMA LogBounds ==
    ASSUME log \in Seq(EventType)
    PROVE  Len(log) \in Nat /\ DOMAIN log = 1..Len(log)
  OBVIOUS

\* Appending one event, or the events of a step.
LEMMA AppendGives ==
    ASSUME log \in Seq(EventType), NEW e \in EventType, log' = Append(log, e)
    PROVE  /\ log' \in Seq(EventType) /\ Appends /\ New = {Len(log) + 1}
           /\ log'[Len(log) + 1] = e
  BY DEF Appends, New

LEMMA ConcatGives ==
    ASSUME log \in Seq(EventType), NEW s \in Seq(EventType), log' = log \o s
    PROVE  /\ log' \in Seq(EventType) /\ Appends
           /\ New = (Len(log) + 1)..(Len(log) + Len(s))
           /\ \A i \in New : i - Len(log) \in DOMAIN s /\ log'[i] = s[i - Len(log)]
           /\ \A j \in DOMAIN s : Len(log) + j \in DOMAIN log'
                                 /\ log'[Len(log) + j] = s[j]
<1>1. /\ log' \in Seq(EventType)
      /\ Len(log) \in Nat /\ DOMAIN log = 1..Len(log)
      /\ Len(s) \in Nat /\ DOMAIN s = 1..Len(s)
      /\ Len(log') = Len(log) + Len(s)
      /\ DOMAIN log' = 1..(Len(log) + Len(s))
      /\ \A i \in 1..(Len(log) + Len(s)) :
            log'[i] = IF i <= Len(log) THEN log[i] ELSE s[i - Len(log)]
  OBVIOUS
<1>2. Appends
  BY <1>1 DEF Appends
<1>3. New = (Len(log) + 1)..(Len(log) + Len(s))
  BY <1>1 DEF New
<1>4. \A i \in New : i - Len(log) \in DOMAIN s /\ log'[i] = s[i - Len(log)]
  BY <1>1, <1>3
<1>5. ASSUME NEW j \in DOMAIN s
      PROVE  Len(log) + j \in DOMAIN log' /\ log'[Len(log) + j] = s[j]
  <2>1. Len(log) + j \in 1..(Len(log) + Len(s)) /\ ~(Len(log) + j <= Len(log))
        /\ (Len(log) + j) - Len(log) = j
    BY <1>1
  <2>2. QED
    BY <1>1, <2>1
<1>6. QED
  BY <1>1, <1>2, <1>3, <1>4, <1>5

\* Being logged is for ever.
LEMMA HasStays ==
    ASSUME Appends, log \in Seq(EventType), log' \in Seq(EventType),
           NEW names, NEW n, NEW a,
           \E i \in DOMAIN log : /\ log[i].event \in names
                                 /\ log[i].state = n /\ log[i].attempt = a
    PROVE  \E i \in DOMAIN log' : /\ log'[i].event \in names
                                  /\ log'[i].state = n /\ log'[i].attempt = a
  BY DEF Appends

\* A step whose events are justified keeps what the log proves.
LEMMA RecordedKeeps ==
    ASSUME log \in Seq(EventType), log' \in Seq(EventType), Recorded,
           breach' # "overlapped" => decisions \subseteq decisions',
           breach = "overlapped" => breach' = "overlapped",
           StampedIsFresh, GateOpensByDecision, InFlightNeverRerun
    PROVE  StampedIsFresh' /\ GateOpensByDecision' /\ InFlightNeverRerun'
<1> USE LogBounds DEF Recorded, Appends, New
<1>0. Len(log') \in Nat /\ DOMAIN log' = 1..Len(log')
  OBVIOUS
<1>1. StampedIsFresh'
  <2> SUFFICES ASSUME NEW j \in DOMAIN log', log'[j].event = "node.finished",
                      Kind[log'[j].state] = "agent",
                      Stamp[log'[j].state] = "attempt"
               PROVE  \E i \in 1..j : SameId(log'[i], log'[j])
                                       /\ log'[i].event = "node.started"
    BY DEF StampedIsFresh, SameId
  <2>1. CASE j \in DOMAIN log
    BY <2>1 DEF StampedIsFresh, SameId
  <2>2. CASE j \in New
    <3>0. Justified(log'[j])
      BY <2>2
    <3>1. Has({"node.started"}, log'[j].state, log'[j].attempt)
      BY <3>0 DEF Justified, Asked
    <3>2. PICK i \in DOMAIN log : log[i].event = "node.started"
              /\ log[i].state = log'[j].state /\ log[i].attempt = log'[j].attempt
      BY <3>1 DEF Has
    <3>3. i \in 1..j /\ log'[i] = log[i]
      BY <1>0, <2>2, <3>2
    <3>4. QED
      BY <3>2, <3>3 DEF SameId
  <2>3. QED
    BY <2>1, <2>2
<1>2. GateOpensByDecision'
  <2> SUFFICES ASSUME breach' # "overlapped", NEW j \in DOMAIN log',
                      log'[j].event = "transition.selected",
                      Kind[log'[j].state] = "approval"
               PROVE  \E x \in decisions' :
                        /\ x.id = <<log'[j].state, log'[j].attempt>>
                        /\ \E t \in DOMAIN Transitions[log'[j].state] :
                            /\ x.decision \in Transitions[log'[j].state][t].when
                            /\ Transitions[log'[j].state][t].next = log'[j].value
    BY DEF GateOpensByDecision
  <2>1. CASE j \in DOMAIN log
    BY <2>1 DEF GateOpensByDecision
  <2>2. CASE j \in New
    <3>0. Justified(log'[j])
      BY <2>2
    <3>1. QED
      BY <3>0 DEF Justified
  <2>3. QED
    BY <2>1, <2>2
<1>3. InFlightNeverRerun'
  <2> SUFFICES ASSUME NEW i \in DOMAIN log', NEW j \in DOMAIN log', i < j,
                      SameId(log'[i], log'[j]),
                      log'[i].event = "node.started", log'[j].event = "node.started"
               PROVE  \E k \in 1..j : SameId(log'[k], log'[i])
                                       /\ log'[k].event \in Closing
    BY DEF InFlightNeverRerun, SameId
  <2>1. CASE j \in DOMAIN log
    <3>1. i \in DOMAIN log
      BY <2>1
    <3>2. PICK k \in 1..j : SameId(log[k], log[i]) /\ log[k].event \in Closing
      BY <2>1, <3>1 DEF InFlightNeverRerun, SameId
    <3>3. log'[k] = log[k] /\ log'[i] = log[i]
      BY <2>1, <3>1
    <3>4. QED
      BY <3>2, <3>3
  <2>2. CASE j \in New
    <3>1. j = Len(log) + 1 /\ i \in DOMAIN log /\ log'[i] = log[i]
      BY <1>0, <2>2
    <3>2. Has({"node.started"}, log'[j].state, log'[j].attempt)
      BY <3>1 DEF Has, SameId
    <3>0. Justified(log'[j])
      BY <2>2
    <3>3. Closed(log'[j])
      BY <3>0, <3>2 DEF Justified
    <3>4. PICK k \in DOMAIN log : log[k].event \in Closing
              /\ log[k].state = log'[j].state /\ log[k].attempt = log'[j].attempt
      BY <3>3 DEF Closed, Has
    <3>5. k \in 1..j /\ log'[k] = log[k]
      BY <1>0, <2>2, <3>4
    <3>6. QED
      BY <3>4, <3>5 DEF SameId
  <2>3. QED
    BY <2>1, <2>2
<1>4. QED
  BY <1>1, <1>2, <1>3

----------------------------------------------------------------------------
(* What one step does to memory and files.                                 *)

\* A step of p leaves what other processes remember alone, and p with a
\* context whose failure, if it has one, is in the log.
Own(p) ==
    /\ \A q \in Proc \ {p} : ctx'[q] = ctx[q] /\ pc'[q] = pc[q]
    /\ Evident(ctx[p])' /\ Executing(p)'

\* Nobody asks for artifacts anew.
FilesKept ==
    \A x \in artifacts' \cup agents' :
        \E y \in artifacts \cup agents : y.key = x.key

LEMMA AskedStays ==
    ASSUME Appends, log \in Seq(EventType), log' \in Seq(EventType), NEW k, Asked(k)
    PROVE  Kind[k[1]] = "agent" /\ Stamp[k[1]] = "attempt"
               => \E i \in DOMAIN log' : /\ log'[i].event \in {"node.started"}
                                         /\ log'[i].state = k[1]
                                         /\ log'[i].attempt = k[2]
  BY LogBounds DEF Asked, Has, Appends

LEMMA EvidentStays ==
    ASSUME Appends, log \in Seq(EventType), log' \in Seq(EventType),
           NEW c, Evident(c)
    PROVE  c.status = "failed" => Reason(log', c.state, c.attempt)
<1> SUFFICES ASSUME c.status = "failed" PROVE Reason(log', c.state, c.attempt)
  OBVIOUS
<1>1. \A i \in DOMAIN log : i \in DOMAIN log' /\ log'[i] = log[i]
  BY LogBounds DEF Appends
<1>2. QED
  BY <1>1 DEF Evident, Reason

LEMMA FilesStay ==
    ASSUME Appends, log \in Seq(EventType), log' \in Seq(EventType),
           FilesInv, FilesKept
    PROVE  FilesInv'
<1> SUFFICES ASSUME NEW x \in artifacts' \cup agents' PROVE Asked(x.key)'
  BY DEF FilesInv
<1>1. PICK y \in artifacts \cup agents : y.key = x.key
  BY DEF FilesKept
<1>2. Asked(x.key)
  BY <1>1 DEF FilesInv
<1>3. QED
  BY <1>2, AskedStays DEF Asked, Has

LEMMA OwnKeeps ==
    ASSUME Appends, log \in Seq(EventType), log' \in Seq(EventType), MemoryInv,
           NEW p \in Proc, Own(p), disk' = disk \/ disk' = ctx[p]
    PROVE  MemoryInv'
<1>1. Evident(disk)'
  BY EvidentStays DEF MemoryInv, Own, Evident
<1>2. ASSUME NEW q \in Proc, q # p PROVE Evident(ctx[q])' /\ Executing(q)'
  <2>0. ctx'[q] = ctx[q] /\ pc'[q] = pc[q] /\ Evident(ctx[q]) /\ Executing(q)
    BY <1>2 DEF Own, MemoryInv
  <2>1. Evident(ctx[q])'
    BY <2>0, EvidentStays DEF Evident, Has
  <2>2. Executing(q)'
    <3>1. Has({"node.started"}, ctx[q].state, ctx[q].attempt)
              => \E i \in DOMAIN log' : /\ log'[i].event \in {"node.started"}
                                        /\ log'[i].state = ctx[q].state
                                        /\ log'[i].attempt = ctx[q].attempt
      BY LogBounds DEF Has, Appends
    <3>2. QED
      BY <2>0, <3>1 DEF Executing, Has, IsTerminal
  <2>3. QED
    BY <2>1, <2>2
<1>3. QED
  BY <1>1, <1>2 DEF MemoryInv, Own

\* Ways a step ends: the process exits, goes on with the context it has, goes
\* on with another one, or throws.
LEMMA ExitOwn ==
    ASSUME PcOK, MemoryOK, NEW p \in Proc, Exit(p)
    PROVE  Own(p)
<1>1. ctx'[p] = Context0 /\ pc'[p] = "idle"
  BY DEF Exit, Forget, Goto, PcOK, MemoryOK
<1>2. Evident(ctx[p])' /\ Executing(p)'
  BY <1>1 DEF Evident, Executing, Context0
<1>3. QED
  BY <1>2 DEF Own, Exit, Forget, Goto, PcOK, MemoryOK

LEMMA StayOwn ==
    ASSUME Appends, log \in Seq(EventType), log' \in Seq(EventType), MemoryInv,
           PcOK, NEW p \in Proc, NEW l, l \notin {"run", "select"},
           Goto(p, l), UNCHANGED ctx
    PROVE  Own(p)
<1>1. pc'[p] = l /\ Evident(ctx[p])
  BY DEF Goto, PcOK, MemoryInv
<1>2. Evident(ctx[p])' /\ Executing(p)'
  BY <1>1, EvidentStays DEF Evident, Executing, Has
<1>3. QED
  BY <1>2 DEF Own, Goto, PcOK

LEMMA SetOwn ==
    ASSUME PcOK, MemoryOK, NEW p \in Proc, NEW l, l \notin {"run", "select"},
           Goto(p, l), NEW c, SetCtx(p, c),
           c.status = "failed" => Reason(log', c.state, c.attempt)
    PROVE  Own(p)
<1>1. pc'[p] = l /\ ctx'[p] = c
  BY DEF Goto, SetCtx, PcOK, MemoryOK
<1>2. Evident(ctx[p])' /\ Executing(p)'
  BY <1>1 DEF Evident, Executing, Has
<1>3. QED
  BY <1>2 DEF Own, Goto, SetCtx, PcOK, MemoryOK

LEMMA ThrowOwn ==
    ASSUME Appends, log \in Seq(EventType), log' \in Seq(EventType), MemoryInv,
           PcOK, MemoryOK, NEW p \in Proc, Throw(p)
    PROVE  Own(p)
<1>1. \/ Goto(p, "leave") /\ UNCHANGED ctx
      \/ Goto(p, "unlock") /\ UNCHANGED ctx
      \/ Exit(p)
  BY DEF Throw, local
<1>2. QED
  BY <1>1, StayOwn, ExitOwn

\* An event that is about something else needs no justification.
Watched == {"node.started", "node.finished", "transition.selected"}

LEMMA SameRecorded == ASSUME log' = log PROVE Recorded
  BY DEF Recorded, Appends, New

LEMMA PlainRecorded ==
    ASSUME log \in Seq(EventType), NEW c \in Context, NEW s \in EventNames \ Watched,
           NEW v \in Outcome \cup Node \cup {NoValue}, Append1(s, c, v)
    PROVE  /\ Recorded
           /\ \E i \in DOMAIN log' : /\ log'[i].event = s
                                     /\ log'[i].state = c.state
                                     /\ log'[i].attempt = c.attempt
<1>1. Event(s, c, v) \in EventType /\ log' = Append(log, Event(s, c, v))
  BY EventTyped DEF Append1
<1>2. /\ Appends /\ New = {Len(log) + 1} /\ log' \in Seq(EventType)
      /\ log'[Len(log) + 1] = Event(s, c, v)
  BY <1>1, AppendGives
<1>3. /\ Event(s, c, v).event = s /\ Event(s, c, v).state = c.state
      /\ Event(s, c, v).attempt = c.attempt
  BY DEF Event
<1>4. Len(log) + 1 \in DOMAIN log'
  BY <1>2 DEF New
<1>5. Recorded
  BY <1>2, <1>3 DEF Recorded, Justified, Watched
<1>6. QED
  BY <1>2, <1>3, <1>4, <1>5

----------------------------------------------------------------------------
(* The steps of a process, by what they do to the log.                     *)

\* Steps that write no event.
LEMMA SilentOwn ==
    ASSUME TypeOK, LogInv, NEW p \in Proc,
           \/ Load(p) \/ RetryGuard(p) \/ RetrySave(p) \/ Register(p)
           \/ EnterLoop(p) \/ Loop(p) \/ Save(p) \/ Leave(p) \/ StepEnded(p)
           \/ Store(p) \/ StoreFailed(p) \/ Lock(p) \/ Reclaim(p) \/ Validate(p)
           \/ Record(p) \/ Unlock(p) \/ Unmark(p) \/ Reload(p) \/ CancelSave(p)
           \/ Crash(p) \/ \E c \in Commands : Launch(p, c)
    PROVE  /\ UNCHANGED log /\ FilesKept
           /\ disk' = disk \/ disk' = ctx[p]
           /\ Own(p)
<1> USE TypeParts DEF LogInv
<1>0. UNCHANGED log => Appends /\ log' \in Seq(EventType)
  BY DEF Appends
<1>1. ASSUME UNCHANGED log, UNCHANGED ctx, NEW l, l \notin {"run", "select"}, Goto(p, l)
      PROVE  Own(p)
  BY <1>0, <1>1, StayOwn
<1>2. ASSUME NEW l, l \notin {"run", "select"}, Goto(p, l), NEW c, SetCtx(p, c),
             c.status # "failed"
      PROVE  Own(p)
  BY <1>2, SetOwn
<1>3. CASE Load(p)
  <2>1. CASE cmd[p] = "cancel"
    BY <1>1, <1>3, <2>1, ExitOwn DEF Load, shared, local, FilesKept
  <2>2. CASE cmd[p] # "cancel"
    <3>1. AfterLoad[cmd[p]] \notin {"run", "select"}
      BY <2>2 DEF MemoryOK, Commands, AfterLoad
    <3>2. SetCtx(p, disk) /\ Goto(p, AfterLoad[cmd[p]]) /\ UNCHANGED shared
      BY <1>3, <2>2 DEF Load
    <3>3. disk.status = "failed" => Reason(log', disk.state, disk.attempt)
      BY <3>2 DEF MemoryInv, Evident, shared
    <3>4. Own(p)
      BY <3>1, <3>2, <3>3, SetOwn
    <3>5. QED
      BY <3>2, <3>4 DEF shared, FilesKept
  <2>3. QED
    BY <2>1, <2>2
<1>4. CASE RetryGuard(p)
  <2>1. NextAttempt(ctx[p]).status # "failed"
    BY DEF NextAttempt
  <2>2. Exit(p) \/ (SetCtx(p, NextAttempt(ctx[p])) /\ Goto(p, "retrysave"))
    BY <1>4 DEF RetryGuard
  <2>3. Own(p)
    BY <1>2, <2>1, <2>2, ExitOwn
  <2>4. QED
    BY <1>4, <2>3 DEF RetryGuard, shared, FilesKept
<1>5. CASE RetrySave(p) \/ Register(p) \/ EnterLoop(p)
  BY <1>1, <1>5 DEF RetrySave, Register, EnterLoop, local, FilesKept
<1>6. CASE Loop(p)
  BY <1>1, <1>6, ExitOwn DEF Loop, shared, local, FilesKept
<1>7. CASE Save(p)
  BY <1>1, <1>7, ExitOwn DEF Save, FilesKept
<1>8. CASE Leave(p)
  BY <1>8, ExitOwn DEF Leave, FilesKept
<1>9. CASE StepEnded(p) \/ Store(p)
  <2>1. Returned(p) \notin {"run", "select"}
    BY DEF Returned
  <2>2. QED
    BY <1>1, <1>9, <2>1 DEF StepEnded, Store, shared, local, FilesKept
<1>10. CASE StoreFailed(p)
  BY <1>0, <1>10, ThrowOwn DEF StoreFailed, FilesKept
<1>11. CASE Lock(p) \/ Reclaim(p) \/ Unlock(p)
  BY <1>1, <1>11, ExitOwn DEF Lock, Reclaim, Unlock, local, FilesKept
<1>12. CASE Validate(p)
  <2>1. (IF Acceptable(p) THEN "record" ELSE "unlock") \notin {"run", "select"}
    OBVIOUS
  <2>2. QED
    BY <1>1, <1>12, <2>1 DEF Validate, shared, local, FilesKept
<1>13. CASE Record(p) \/ Unmark(p)
  BY <1>1, <1>13 DEF Record, Unmark, local, FilesKept
<1>14. CASE Reload(p)
  <2>1. Cancelled.status # "failed"
    BY DEF Cancelled, Context
  <2>2. QED
    BY <1>2, <1>14, <2>1 DEF Reload, shared, FilesKept
<1>15. CASE CancelSave(p) \/ Crash(p)
  BY <1>15, ExitOwn DEF CancelSave, Crash, Kill, Exit, FilesKept
<1>16. ASSUME NEW c \in Commands, Launch(p, c)
       PROVE  UNCHANGED <<log, disk>> /\ FilesKept /\ Own(p)
  BY <1>1, <1>16 DEF Launch, shared, FilesKept
<1>17. QED
  BY <1>3, <1>4, <1>5, <1>6, <1>7, <1>8, <1>9, <1>10, <1>11, <1>12, <1>13, <1>14,
     <1>15, <1>16

\* Steps that write an event, and maybe fail the run for the reason it gives.
LEMMA EventOwn ==
    ASSUME TypeOK, LogInv, NEW p \in Proc, log' \in Seq(EventType),
           \/ RetryEvent(p) \/ StepMaxRounds(p) \/ StepTerminal(p)
           \/ StepRequest(p) \/ StepOrphan(p) \/ Break(p) \/ CancelEvent(p)
    PROVE  Recorded /\ FilesKept /\ UNCHANGED disk /\ Own(p)
<1> USE TypeParts DEF LogInv, Watched
<1>0. ctx[p] \in Context
  BY DEF MemoryOK
<1>f. ASSUME NEW s \in {"failed", "blocked"}
      PROVE  /\ [ctx[p] EXCEPT !.status = s].status = s
             /\ [ctx[p] EXCEPT !.status = s].state = ctx[p].state
             /\ [ctx[p] EXCEPT !.status = s].attempt = ctx[p].attempt
  BY <1>0 DEF Context
<1>1. CASE RetryEvent(p) \/ CancelEvent(p)
  <2>1. Recorded
    BY <1>0, <1>1, PlainRecorded DEF RetryEvent, CancelEvent, EventNames
  <2>2. Own(p)
    BY <1>1, <2>1, StayOwn DEF RetryEvent, CancelEvent, local, Recorded
  <2>3. QED
    BY <1>1, <2>1, <2>2 DEF RetryEvent, CancelEvent, FilesKept
<1>2. ASSUME NEW s \in {"run.max-rounds-exceeded", "node.orphaned", "node.failed"},
             Append1(s, ctx[p], NoValue), NEW l \in {"store", "storefail"}, Goto(p, l),
             SetCtx(p, [ctx[p] EXCEPT !.status = "failed"])
      PROVE  Recorded /\ Own(p)
  <2>1. /\ Recorded
        /\ \E i \in DOMAIN log' : /\ log'[i].event = s
                                  /\ log'[i].state = ctx[p].state
                                  /\ log'[i].attempt = ctx[p].attempt
    BY <1>0, <1>2, PlainRecorded DEF EventNames
  <2>2. Reason(log', ctx[p].state, ctx[p].attempt)
    BY <2>1 DEF Reason, Failures
  <2>3. QED
    BY <1>f, <1>2, <2>1, <2>2, SetOwn
<1>3. CASE StepMaxRounds(p) \/ StepOrphan(p) \/ Break(p)
  BY <1>2, <1>3 DEF StepMaxRounds, StepOrphan, Break, FilesKept
<1>4. CASE StepTerminal(p)
  <2>1. Recorded
    BY <1>0, <1>4, PlainRecorded DEF StepTerminal, EventNames
  <2>2. FinishIfTerminal(ctx[p]).status # "failed"
    BY <1>0, <1>4 DEF StepTerminal, FinishIfTerminal, Context
  <2>3. Returned(p) \notin {"run", "select"}
    BY DEF Returned
  <2>4. Own(p)
    BY <1>4, <2>2, <2>3, SetOwn DEF StepTerminal
  <2>5. QED
    BY <1>4, <2>1, <2>4 DEF StepTerminal, FilesKept
<1>5. CASE StepRequest(p)
  <2>1. Recorded
    BY <1>0, <1>5, PlainRecorded, SameRecorded DEF StepRequest, EventNames
  <2>2. Own(p)
    BY <1>5, <1>f, SetOwn DEF StepRequest
  <2>3. QED
    BY <1>5, <2>1, <2>2 DEF StepRequest, FilesKept
<1>6. QED
  BY <1>1, <1>3, <1>4, <1>5

----------------------------------------------------------------------------
(* Steps whose events are justified by what is there already.              *)

\* The members of a sequence.
Members(s) == {s[i] : i \in DOMAIN s}

LEMMA MembersOfConcat ==
    ASSUME NEW s \in Seq(EventType), NEW t \in Seq(EventType)
    PROVE  /\ s \o t \in Seq(EventType)
           /\ Members(s \o t) = Members(s) \cup Members(t)
<1>1. /\ s \o t \in Seq(EventType)
      /\ Len(s) \in Nat /\ DOMAIN s = 1..Len(s)
      /\ Len(t) \in Nat /\ DOMAIN t = 1..Len(t)
      /\ DOMAIN (s \o t) = 1..(Len(s) + Len(t))
      /\ \A i \in 1..(Len(s) + Len(t)) :
            (s \o t)[i] = IF i <= Len(s) THEN s[i] ELSE t[i - Len(s)]
  OBVIOUS
<1>2. \A i \in DOMAIN s : i \in DOMAIN (s \o t) /\ (s \o t)[i] = s[i]
  BY <1>1
<1>3. \A i \in DOMAIN t : Len(s) + i \in DOMAIN (s \o t) /\ (s \o t)[Len(s) + i] = t[i]
  BY <1>1
<1>4. \A i \in DOMAIN (s \o t) :
        \/ i \in DOMAIN s /\ (s \o t)[i] = s[i]
        \/ i - Len(s) \in DOMAIN t /\ (s \o t)[i] = t[i - Len(s)]
  BY <1>1
<1>5. Members(s \o t) \subseteq Members(s) \cup Members(t)
  BY <1>4 DEF Members
<1>6. Members(s) \subseteq Members(s \o t) /\ Members(t) \subseteq Members(s \o t)
  BY <1>2, <1>3 DEF Members
<1>7. QED
  BY <1>1, <1>5, <1>6

LEMMA MembersOfOne ==
    ASSUME NEW e \in EventType
    PROVE  /\ <<e>> \in Seq(EventType) /\ Members(<<e>>) = {e}
           /\ <<>> \in Seq(EventType) /\ Members(<<>>) = {}
  BY DEF Members

LEMMA TakingGives ==
    ASSUME NEW c \in Context, NEW tr \in Transition,
           NEW t, t = TakingEvents(c, tr)
    PROVE  /\ \A e \in Members(t) :
                \/ e = Event("transition.selected", c, tr.next)
                \/ e.event \in {"effect.fail-run", "run.finished"}
           /\ "fail-run" \in tr.effects =>
                /\ {1, 2} \subseteq DOMAIN t
                /\ t[1] = Event("transition.selected", c, tr.next)
                /\ t[2] = Event("effect.fail-run", c, NoValue)
<1> DEFINE a == Event("transition.selected", c, tr.next)
           b == Event("effect.fail-run", c, NoValue)
           f == Event("run.finished", Advance(c, tr), NoValue)
           u == IF "fail-run" \in tr.effects THEN <<b>> ELSE <<>>
           w == IF Kind[tr.next] = "terminal" THEN <<f>> ELSE <<>>
<1>1. t = <<a>> \o u \o w
  BY DEF TakingEvents
<1>2. b.event = "effect.fail-run" /\ f.event = "run.finished"
  BY DEF Event
<1>3. a \in EventType /\ b \in EventType /\ f \in EventType
  BY AdvanceTyped, EventTyped DEF EventNames, Transition
<1>4. /\ u \in Seq(EventType) /\ Members(u) \subseteq {b}
      /\ "fail-run" \in tr.effects => u = <<b>>
  BY <1>3, MembersOfOne
<1>5. w \in Seq(EventType) /\ Members(w) \subseteq {f}
  BY <1>3, MembersOfOne
<1>6. <<a>> \in Seq(EventType) /\ Members(<<a>>) = {a}
  BY <1>3, MembersOfOne
<1> HIDE DEF a, b, f, u, w
<1>7. <<a>> \o u \in Seq(EventType) /\ Members(<<a>> \o u) = {a} \cup Members(u)
  BY <1>4, <1>6, MembersOfConcat
<1>8. Members(t) = {a} \cup Members(u) \cup Members(w)
  BY <1>1, <1>5, <1>7, MembersOfConcat
<1>9. ASSUME "fail-run" \in tr.effects
      PROVE  {1, 2} \subseteq DOMAIN t /\ t[1] = a /\ t[2] = b
  <2>1. t = <<a>> \o <<b>> \o w
    BY <1>1, <1>4, <1>9
  <2>2. QED
    BY <1>3, <1>5, <2>1
<1>10. QED
  BY <1>2, <1>4, <1>5, <1>8, <1>9 DEF a, b

\* Where choose-transition leads a result, for a state of the workflow.
LEMMA ChosenGives ==
    ASSUME NEW n \in Node, NEW o, NEW tr \in Chosen(n, o)
    PROVE  /\ tr \in Transition
           /\ \E t \in DOMAIN Transitions[n] :
                o \in Transitions[n][t].when /\ Transitions[n][t] = tr
  BY ChosenTyped DEF Chosen, Matching

\* A context that a transition leads to is only failed by an effect.
LEMMA AdvanceGives ==
    ASSUME NEW c \in Context, c.status # "failed", NEW tr \in Transition,
           NEW d, d = FinishIfTerminal(Advance(c, tr))
    PROVE  /\ d.state = tr.next /\ d.attempt = c.attempt + 1
           /\ d.status = "failed" => "fail-run" \in tr.effects
  BY DEF FinishIfTerminal, Advance, Context, Transition

LEMMA StartOwn ==
    ASSUME TypeOK, LogInv, NEW p \in Proc, log' \in Seq(EventType), StepStart(p)
    PROVE  /\ Recorded /\ UNCHANGED disk /\ Own(p)
           /\ FilesInv'
<1> USE TypeParts DEF LogInv
<1>0. ctx[p] \in Context
  BY DEF MemoryOK
<1> DEFINE e == Event("node.started", ctx[p], NoValue)
<1>1. e \in EventType /\ e.event = "node.started"
      /\ e.state = ctx[p].state /\ e.attempt = ctx[p].attempt
  BY <1>0, EventTyped DEF Event, EventNames
<1>2. log' = Append(log, e)
  BY DEF StepStart, Append1
<1>3. ~Has({"node.started"}, e.state, e.attempt) \/ Closed(e)
  BY <1>1 DEF StepStart, InFlight, Logged, Closed, Closing, Has
<1> HIDE DEF e
<1>4. Appends /\ New = {Len(log) + 1} /\ log'[Len(log) + 1] = e
  BY <1>1, <1>2, AppendGives
<1>5. Recorded
  BY <1>1, <1>3, <1>4 DEF Recorded, Justified, IdOf, StepStart, AtNode, AtStep
<1>6. Has({"node.started"}, ctx[p].state, ctx[p].attempt)'
      \/ ctx' # ctx
  BY <1>1, <1>4 DEF Has, New
<1>7. UNCHANGED <<ctx, disk, artifacts>> /\ Goto(p, "run")
      /\ agents' \subseteq agents \cup
            {g \in {[key |-> KeyOf(ctx[p].state, ctx[p]), runner |-> p]} :
                Kind[ctx[p].state] = "agent"}
  BY DEF StepStart, local
<1>8. Executing(p)'
  BY <1>6, <1>7 DEF Executing, StepStart, AtNode, AtStep, Goto, PcOK, IsTerminal
<1>9. Evident(ctx[p])'
  BY <1>4, <1>7, EvidentStays DEF MemoryInv, Evident
<1>10. Own(p)
  BY <1>7, <1>8, <1>9 DEF Own, Goto, PcOK
<1>11. ASSUME NEW x \in artifacts' \cup agents' PROVE Asked(x.key)'
  <2>1. CASE x \in artifacts \cup agents
    BY <1>4, <2>1, AskedStays DEF FilesInv, Asked, Has
  <2>2. CASE x.key = KeyOf(ctx[p].state, ctx[p])
    <3>1. x.key[1] = ctx[p].state
          /\ (Stamp[x.key[1]] = "attempt" => x.key[2] = ctx[p].attempt)
      BY <2>2 DEF KeyOf
    <3>2. QED
      BY <1>6, <1>7, <3>1 DEF Asked, Has
  <2>3. QED
    BY <1>7, <1>11, <2>1, <2>2
<1>12. QED
  BY <1>5, <1>7, <1>10, <1>11 DEF FilesInv

\* A node is finished by the process that started it, or on an artifact.
LEMMA FinishOwn ==
    ASSUME TypeOK, LogInv, NEW p \in Proc, log' \in Seq(EventType),
           Complete(p) \/ StepRecover(p)
    PROVE  Recorded /\ FilesKept /\ UNCHANGED disk /\ Own(p)
<1> USE TypeParts DEF LogInv
<1>0. ctx[p] \in Context /\ ctx[p].state \in Node
  BY DEF MemoryOK, Context
<1>1. PICK o \in Outcome :
          \/ /\ pc[p] = "run" /\ Append1("node.finished", ctx[p], o)
          \/ /\ AtNode(p)
             /\ \E x \in StatusArtifact(p) : x.outcome = o
             /\ log' = log \o <<Event("node.recovered", ctx[p], o),
                                Event("node.finished", ctx[p], o)>>
  <2>1. CASE Complete(p)
    BY <2>1 DEF Complete, Result, StatusArtifact, ArtifactsAt, ArtifactsOK
  <2>2. CASE StepRecover(p)
    BY <2>2 DEF StepRecover, StatusArtifact, ArtifactsAt, ArtifactsOK
  <2>3. QED
    BY <2>1, <2>2
<1>2. Asked(<<ctx[p].state, ctx[p].attempt>>)
  <2>1. CASE pc[p] = "run"
    BY <2>1 DEF MemoryInv, Executing, Asked
  <2>2. CASE \E x \in StatusArtifact(p) : x.outcome = o
    <3>1. PICK x \in artifacts : x.key = KeyOf(ctx[p].state, ctx[p])
      BY <2>2 DEF StatusArtifact, ArtifactsAt
    <3>2. Asked(KeyOf(ctx[p].state, ctx[p]))
      BY <3>1 DEF FilesInv
    <3>3. QED
      BY <3>2 DEF Asked, KeyOf
  <2>3. QED
    BY <1>1, <2>1, <2>2
<1> DEFINE e == Event("node.finished", ctx[p], o)
           r == Event("node.recovered", ctx[p], o)
<1>3. /\ e \in EventType /\ e.event = "node.finished"
      /\ e.state = ctx[p].state /\ e.attempt = ctx[p].attempt
      /\ r \in EventType /\ r.event = "node.recovered"
  BY <1>0, EventTyped DEF Event, EventNames
<1>4. log' = Append(log, e) \/ log' = log \o <<r, e>>
  BY <1>1 DEF Append1
<1> HIDE DEF e, r
<1>5. Appends /\ \A i \in New : log'[i] \in {e, r}
  <2>1. CASE log' = Append(log, e)
    BY <1>3, <2>1, AppendGives
  <2>2. CASE log' = log \o <<r, e>>
    <3> DEFINE t == <<r, e>>
    <3>1. t \in Seq(EventType) /\ \A j \in DOMAIN t : t[j] \in {e, r}
      BY <1>3
    <3>2. log' = log \o t
      BY <2>2
    <3> HIDE DEF t
    <3>3. QED
      BY <3>1, <3>2, ConcatGives
  <2>3. QED
    BY <1>4, <2>1, <2>2
<1>6. Recorded
  BY <1>2, <1>3, <1>5 DEF Recorded, Justified
<1>7. UNCHANGED <<ctx, disk, artifacts, agents>> /\ Goto(p, "select")
      /\ ~IsTerminal(ctx[p]) /\ Kind[ctx[p].state] \in {"work", "agent"}
  BY DEF Complete, StepRecover, AtNode, AtStep, MemoryInv, Executing
<1>8. Executing(p)' /\ Evident(ctx[p])'
  BY <1>5, <1>7, EvidentStays DEF Executing, Goto, PcOK, IsTerminal, MemoryInv, Evident, Has
<1>9. QED
  BY <1>6, <1>7, <1>8 DEF Own, Goto, PcOK, FilesKept

\* The new events of a step that appends a sequence.
LEMMA MembersAdded ==
    ASSUME log \in Seq(EventType), NEW s \in Seq(EventType), log' = log \o s
    PROVE  /\ log' \in Seq(EventType) /\ Appends
           /\ \A i \in New : log'[i] \in Members(s)
           /\ \A e \in Members(s) : \E i \in DOMAIN log' : log'[i] = e
<1>1. /\ log' \in Seq(EventType) /\ Appends
      /\ \A i \in New : i - Len(log) \in DOMAIN s /\ log'[i] = s[i - Len(log)]
      /\ \A j \in DOMAIN s : /\ Len(log) + j \in DOMAIN log'
                             /\ log'[Len(log) + j] = s[j]
  BY ConcatGives
<1>2. QED
  BY <1>1 DEF Members

\* Taking a transition, after the decision that an approval asks for.
LEMMA TakeOwn ==
    ASSUME TypeOK, LogInv, NEW p \in Proc,
           NEW c \in Context, c.status # "failed",
           c.state = ctx[p].state, c.attempt = ctx[p].attempt,
           NEW tr \in Transition,
           NEW d \in Seq(EventType), \A e \in Members(d) : e.event = "approval.decided",
           log' = log \o (d \o TakingEvents(ctx[p], tr)),
           Kind[ctx[p].state] = "approval" =>
              \E x \in decisions :
                /\ x.id = IdOf(ctx[p])
                /\ \E t \in DOMAIN Transitions[ctx[p].state] :
                    /\ x.decision \in Transitions[ctx[p].state][t].when
                    /\ Transitions[ctx[p].state][t] = tr,
           NEW l, l \notin {"run", "select"}, Goto(p, l),
           SetCtx(p, FinishIfTerminal(Advance(c, tr)))
    PROVE  Recorded /\ Own(p)
<1> USE TypeParts
<1>0. ctx[p] \in Context
  BY DEF MemoryOK
<1> DEFINE t == TakingEvents(ctx[p], tr)
           a == Event("transition.selected", ctx[p], tr.next)
           f == Event("effect.fail-run", ctx[p], NoValue)
<1>1. /\ t \in Seq(EventType)
      /\ \A e \in Members(t) :
            \/ e = a
            \/ e.event \in {"effect.fail-run", "run.finished"}
      /\ "fail-run" \in tr.effects =>
            {1, 2} \subseteq DOMAIN t /\ t[1] = a /\ t[2] = f
  BY <1>0, TakingGives, TakingTyped
<1>2. /\ f.event = "effect.fail-run"
      /\ a.event = "transition.selected" /\ a.value = tr.next
  BY DEF Event
<1> HIDE DEF t, f, a
<1> DEFINE s == d \o t
<1>3. s \in Seq(EventType) /\ Members(s) = Members(d) \cup Members(t)
  BY <1>1, MembersOfConcat
<1>4. log' = log \o s
  BY DEF t
<1> HIDE DEF s
<1>5. /\ Appends
      /\ \A i \in New : log'[i] \in Members(s)
      /\ \A j \in DOMAIN s : Len(log) + j \in DOMAIN log' /\ log'[Len(log) + j] = s[j]
  BY <1>3, <1>4, MembersAdded, ConcatGives
<1>6. ASSUME NEW i \in New PROVE Justified(log'[i]) /\ log'[i].event # "node.started"
  <2>1. CASE log'[i].event \in {"approval.decided", "effect.fail-run", "run.finished"}
    BY <2>1 DEF Justified
  <2>2. CASE log'[i] = a
    <3>1. /\ a.event = "transition.selected" /\ a.value = tr.next
          /\ a.state = ctx[p].state /\ a.attempt = ctx[p].attempt
      BY DEF a, Event
    <3>2. Kind[a.state] = "approval" =>
              \E x \in decisions :
                  /\ x.id = <<a.state, a.attempt>>
                  /\ \E k \in DOMAIN Transitions[a.state] :
                      /\ x.decision \in Transitions[a.state][k].when
                      /\ Transitions[a.state][k].next = a.value
      BY <3>1 DEF IdOf
    <3>3. QED
      BY <2>2, <3>1, <3>2 DEF Justified
  <2>3. log'[i] \in Members(d) \cup Members(t)
    BY <1>3, <1>5
  <2>4. QED
    BY <1>1, <2>1, <2>2, <2>3
<1>7. Recorded
  BY <1>5, <1>6 DEF Recorded
<1> DEFINE n == FinishIfTerminal(Advance(c, tr))
<1>8. /\ n.state = tr.next /\ n.attempt = c.attempt + 1
      /\ n.status = "failed" => "fail-run" \in tr.effects
  BY AdvanceGives
<1> HIDE DEF n
<1>9. ASSUME n.status = "failed" PROVE Reason(log', n.state, n.attempt)
  <2>1. {1, 2} \subseteq DOMAIN t /\ t[1] = a /\ t[2] = f
    BY <1>1, <1>8, <1>9
  <2>2. /\ {Len(d) + 1, Len(d) + 2} \subseteq DOMAIN s
        /\ s[Len(d) + 1] = a /\ s[Len(d) + 2] = f
    BY <1>1, <2>1 DEF s
  <2> DEFINE k == Len(log) + (Len(d) + 1)
             m == Len(log) + (Len(d) + 2)
  <2>3. /\ k \in DOMAIN log' /\ log'[k] = a
        /\ m \in DOMAIN log' /\ log'[m] = f
    BY <1>5, <2>2
  <2>4. k < m
    BY LogBounds
  <2>5. QED
    BY <1>2, <1>8, <2>3, <2>4 DEF Reason
<1>10. SetCtx(p, n)
  BY DEF n, SetCtx
<1>11. Own(p)
  BY <1>9, <1>10, SetOwn
<1>12. QED
  BY <1>7, <1>11

LEMMA SelectOwn ==
    ASSUME TypeOK, LogInv, NEW p \in Proc, log' \in Seq(EventType), Select(p)
    PROVE  Recorded /\ FilesKept /\ UNCHANGED disk /\ Own(p)
<1> USE TypeParts DEF LogInv
<1>0. /\ ctx[p] \in Context /\ ctx[p].state \in Node
      /\ ctx[p].status # "failed" /\ Kind[ctx[p].state] # "approval"
  BY DEF MemoryOK, Context, Select, MemoryInv, Executing, IsTerminal
<1>1. UNCHANGED disk /\ FilesKept
  BY DEF Select, FilesKept
<1>2. CASE Throw(p) /\ UNCHANGED log
  BY <1>1, <1>2, ThrowOwn, SameRecorded DEF Recorded
<1>3. ASSUME NEW tr \in Chosen(ctx[p].state, value[p]),
             log' = log \o TakingEvents(ctx[p], tr),
             SetCtx(p, FinishIfTerminal(Advance(ctx[p], tr))),
             Goto(p, Returned(p))
      PROVE  Recorded /\ Own(p)
  <2>1. tr \in Transition
    BY <1>0, ChosenGives
  <2>2. /\ <<>> \in Seq(EventType) /\ \A e \in Members(<<>>) : FALSE
        /\ <<>> \o TakingEvents(ctx[p], tr) = TakingEvents(ctx[p], tr)
    BY <1>0, <2>1, TakingTyped DEF Members
  <2>3. Returned(p) \notin {"run", "select"}
    BY DEF Returned
  <2>4. QED
    BY <1>0, <1>3, <2>1, <2>2, <2>3, TakeOwn
<1>4. QED
  BY <1>1, <1>2, <1>3 DEF Select

LEMMA DecidedOwn ==
    ASSUME TypeOK, LogInv, NEW p \in Proc, log' \in Seq(EventType), StepDecided(p)
    PROVE  Recorded /\ FilesKept /\ UNCHANGED disk /\ Own(p)
<1> USE TypeParts DEF LogInv
<1> DEFINE c == [ctx[p] EXCEPT !.status = "running"]
<1>0. /\ ctx[p] \in Context /\ ctx[p].state \in Node
      /\ c \in Context /\ c.status = "running"
      /\ c.state = ctx[p].state /\ c.attempt = ctx[p].attempt
  BY DEF MemoryOK, Context, Statuses
<1>1. UNCHANGED disk /\ FilesKept
  BY DEF StepDecided, FilesKept
<1>2. CASE Throw(p) /\ UNCHANGED log
  BY <1>1, <1>2, ThrowOwn, SameRecorded DEF Recorded
<1>3. ASSUME NEW x \in Decided(p), NEW tr \in Chosen(ctx[p].state, x.decision),
             log' = Append(log, Event("approval.decided", ctx[p], x.decision))
                    \o TakingEvents(ctx[p], tr),
             SetCtx(p, FinishIfTerminal(Advance(c, tr))),
             Goto(p, "store")
      PROVE  Recorded /\ Own(p)
  <2>1. /\ tr \in Transition
        /\ \E t \in DOMAIN Transitions[ctx[p].state] :
              /\ x.decision \in Transitions[ctx[p].state][t].when
              /\ Transitions[ctx[p].state][t] = tr
    BY <1>0, ChosenGives
  <2>2. x \in decisions /\ x.id = IdOf(ctx[p]) /\ x.decision \in Outcome
    BY DEF Decided, ApprovalsOK
  <2> DEFINE a == Event("approval.decided", ctx[p], x.decision)
             t == TakingEvents(ctx[p], tr)
  <2>3. a \in EventType /\ a.event = "approval.decided" /\ t \in Seq(EventType)
    BY <1>0, <2>1, <2>2, EventTyped, TakingTyped DEF Event, EventNames
  <2> HIDE DEF a, t, c
  <2>4. Append(log, a) \o t = log \o (<<a>> \o t)
    BY <2>3, AppendIsConcat, ConcatAssociative, MembersOfOne
  <2>5. <<a>> \in Seq(EventType) /\ \A e \in Members(<<a>>) : e.event = "approval.decided"
    BY <2>3, MembersOfOne
  <2>6. log' = log \o (<<a>> \o TakingEvents(ctx[p], tr))
    BY <1>3, <2>4 DEF a, t
  <2>7. QED
    BY <1>0, <1>3, <2>1, <2>2, <2>5, <2>6, TakeOwn
<1>4. QED
  BY <1>1, <1>2, <1>3 DEF StepDecided

\* stop! ends another process along with its agents.
LEMMA StopKeeps ==
    ASSUME TypeOK, LogInv, NEW p \in Proc, Stop(p)
    PROVE  UNCHANGED log /\ FilesKept /\ MemoryInv'
<1> USE TypeParts DEF LogInv
<1>1. UNCHANGED <<log, disk, artifacts>> /\ agents' = {} /\ pc[p] = "stop"
  BY DEF Stop
<1>2. ASSUME NEW q \in Proc PROVE Evident(ctx[q])' /\ Executing(q)'
  <2>1. \/ ctx'[q] = Context0 /\ pc'[q] \in {"idle", "unmark"}
        \/ ctx'[q] = ctx[q] /\ pc'[q] \in {pc[q], "unmark", "idle"}
    BY DEF Stop, Kill, Forget, Goto, PcOK, MemoryOK, local
  <2>2. Evident(ctx[q]) /\ Executing(q)
    BY DEF MemoryInv
  <2>3. Context0.status # "failed"
    BY DEF Context0
  <2>4. QED
    BY <1>1, <2>1, <2>2, <2>3 DEF Evident, Executing, Has, IsTerminal
<1>3. Evident(disk)'
  BY <1>1 DEF MemoryInv, Evident
<1>4. QED
  BY <1>1, <1>2, <1>3 DEF MemoryInv, FilesKept

\* A late agent writes where it was asked to.
LEMMA AgentKeeps ==
    ASSUME TypeOK, LogInv, NEW g \in agents, AgentEnds(g)
    PROVE  UNCHANGED log /\ FilesKept /\ MemoryInv'
<1>1. UNCHANGED <<log, disk, ctx, pc>>
  BY DEF AgentEnds, local
<1>2. MemoryInv'
  BY <1>1 DEF LogInv, MemoryInv, Evident, Executing, Has, IsTerminal
<1>3. FilesKept
  BY DEF AgentEnds, FilesKept
<1>4. QED
  BY <1>1, <1>2, <1>3

----------------------------------------------------------------------------
(* The log's invariant and its theorems.                                   *)

LEMMA LogInit == Init => LogInv
<1> SUFFICES ASSUME Init PROVE LogInv
  OBVIOUS
<1>1. MemoryInv
  BY DEF Init, MemoryInv, Evident, Executing, Context0
<1>2. FilesInv
  BY DEF Init, FilesInv
<1>3. StampedIsFresh /\ GateOpensByDecision /\ InFlightNeverRerun
  BY DEF Init, StampedIsFresh, GateOpensByDecision, InFlightNeverRerun
<1>4. QED
  BY <1>1, <1>2, <1>3 DEF LogInv

\* What a step has to do for LogInv.
LEMMA LogKept ==
    ASSUME TypeOK, LogInv, log' \in Seq(EventType),
           breach' # "overlapped" => decisions \subseteq decisions',
           breach = "overlapped" => breach' = "overlapped",
           Recorded, MemoryInv', FilesKept \/ FilesInv'
    PROVE  LogInv'
<1>1. log \in Seq(EventType) /\ Appends
  BY TypeParts DEF Recorded
<1>2. FilesInv'
  BY <1>1, FilesStay DEF LogInv
<1>3. QED
  BY <1>1, <1>2, RecordedKeeps DEF LogInv

LEMMA ProcessLogs ==
    ASSUME TypeOK, LogInv, NEW p \in Proc, log' \in Seq(EventType),
           breach' # "overlapped" => decisions \subseteq decisions',
           breach = "overlapped" => breach' = "overlapped",
           Step(p) \/ Crash(p) \/ \E c \in Commands : Launch(p, c)
    PROVE  Recorded /\ LogInv'
<1>1. CASE Stop(p)
  BY <1>1, StopKeeps, SameRecorded, LogKept
<1>2. ASSUME Recorded, disk' = disk \/ disk' = ctx[p], Own(p), FilesKept \/ FilesInv'
      PROVE  Recorded /\ LogInv'
  <2>1. log \in Seq(EventType) /\ Appends /\ MemoryInv
    BY <1>2, TypeParts DEF Recorded, LogInv
  <2>2. MemoryInv'
    BY <1>2, <2>1, OwnKeeps
  <2>3. QED
    BY <1>2, <2>2, LogKept
<1>3. CASE \/ Load(p) \/ RetryGuard(p) \/ RetrySave(p) \/ Register(p)
           \/ EnterLoop(p) \/ Loop(p) \/ Save(p) \/ Leave(p) \/ StepEnded(p)
           \/ Store(p) \/ StoreFailed(p) \/ Lock(p) \/ Reclaim(p) \/ Validate(p)
           \/ Record(p) \/ Unlock(p) \/ Unmark(p) \/ Reload(p) \/ CancelSave(p)
           \/ Crash(p) \/ \E c \in Commands : Launch(p, c)
  BY <1>2, <1>3, SilentOwn, SameRecorded
<1>4. CASE \/ RetryEvent(p) \/ StepMaxRounds(p) \/ StepTerminal(p)
           \/ StepRequest(p) \/ StepOrphan(p) \/ Break(p) \/ CancelEvent(p)
  BY <1>2, <1>4, EventOwn
<1>5. CASE StepStart(p)
  BY <1>2, <1>5, StartOwn
<1>6. CASE Complete(p) \/ StepRecover(p)
  BY <1>2, <1>6, FinishOwn
<1>7. CASE Select(p)
  BY <1>2, <1>7, SelectOwn
<1>8. CASE StepDecided(p)
  BY <1>2, <1>8, DecidedOwn
<1>9. QED
  BY <1>1, <1>3, <1>4, <1>5, <1>6, <1>7, <1>8 DEF Step

LEMMA LogNext ==
    ASSUME IInv, LogInv, [FreeNext]_vars
    PROVE  Recorded /\ LogInv'
<1>1. /\ TypeOK /\ log' \in Seq(EventType)
      /\ breach' # "overlapped" => decisions \subseteq decisions'
      /\ breach = "overlapped" => breach' = "overlapped"
  BY NextKeeps, DecisionsGrow, BreachSteps, TypePartsNext DEF IInv
<1>2. ASSUME NEW p \in Proc, Step(p) \/ Crash(p) \/ \E c \in Commands : Launch(p, c)
      PROVE  Recorded /\ LogInv'
  BY <1>1, <1>2, ProcessLogs
<1>3. ASSUME NEW g \in agents, AgentEnds(g) PROVE Recorded /\ LogInv'
  BY <1>1, <1>3, AgentKeeps, SameRecorded, LogKept
<1>4. CASE UNCHANGED vars
  <2>1. UNCHANGED <<log, disk, ctx, pc, artifacts, agents>>
    BY <1>4 DEF vars, shared, local
  <2>2. MemoryInv' /\ FilesKept
    BY <2>1 DEF LogInv, MemoryInv, Evident, Executing, Has, IsTerminal, FilesKept
  <2>3. QED
    BY <1>1, <2>1, <2>2, SameRecorded, LogKept
<1>5. QED
  BY <1>2, <1>3, <1>4 DEF FreeNext, Progress

LEMMA LogInductive == FreeSpec => []LogInv
  BY Inductive, LogInit, LogNext, PTL DEF FreeSpec

\* fail-run!, orphan-run!, fail-max-rounds! and :fail-run (transitions.clj,
\* liveness.clj) append before they save: the reason of every run that is
\* recorded as failed is in its log, whoever was killed between the event and
\* the save.  A node's failure names the node and attempt of state.edn, an
\* exceeded budget the node only, and an effect follows a transition to there.
THEOREM FailuresEvident == FreeSpec => []FailureHasEvidence
<1>1. LogInv => FailureHasEvidence
  BY DEF LogInv, MemoryInv, Evident, Reason, Failures, FailureHasEvidence, Logged
<1>2. QED
  BY <1>1, LogInductive, PTL

\* recover-completed-agent-node (core.clj) takes an artifact for the work of
\* an attempt only if that attempt was started, when the node's status path
\* names the attempt.
THEOREM ArtifactsFresh == FreeSpec => []StampedIsFresh
<1>1. LogInv => StampedIsFresh
  BY DEF LogInv
<1>2. QED
  BY <1>1, LogInductive, PTL

\* step-approval! (core.clj): as long as no two decisions were inside the lock
\* together, which takes a process killed inside (OverlapsNeedKills), a run
\* leaves an approval only along a transition for the decision that stands,
\* and goes on standing, in the decision file.
THEOREM GatesOpenByDecision == FreeSpec => []GateOpensByDecision
<1>1. LogInv => GateOpensByDecision
  BY DEF LogInv
<1>2. QED
  BY <1>1, LogInductive, PTL

\* orphaned-current-attempt? (liveness.clj), with one runner at a time: an
\* attempt is started again only after an event that closed it.
THEOREM StartsAreClosed == Spec => []InFlightNeverRerun
<1>1. LogInv => InFlightNeverRerun
  BY DEF LogInv
<1>2. QED
  BY <1>1, LogInductive, OrderlyIsFree, PTL

----------------------------------------------------------------------------
(* Commands given as the documentation asks: one process at a time works   *)
(* on the run, and what it holds in memory is one step of RunContract from *)
(* what is on disk.                                                        *)

\* A process with one of these steps before it has not looked at the run yet,
\* or forgets what it saw.
Passive == {"idle", "lock", "reclaim", "load", "stop"}

\* Two commands at once are two decisions, or a runner and a cancel of it.
Asking(p) == cmd[p] = "cancel" /\ pc[p] \in {"load", "stop"}
Disciplined ==
    \A p, q \in Busy : p # q =>
        \/ cmd[p] = "decide" /\ cmd[q] = "decide"
        \/ Asking(p) /\ marker = q
        \/ Asking(q) /\ marker = p

\* The steps a command has.
MarkedLabels == {"enter", "loop", "step", "run", "select", "store",
                 "storefail", "save", "leave"}
CancelLabels == {"stop", "unmark", "reload", "cancelevent", "cancelsave"}
DecideLabels == {"lock", "reclaim", "validate", "record", "unlock"}
RetryLabels == {"guard", "retrysave", "recovery", "register"}
Labelled(p) ==
    /\ marker = p => Registered(p) /\ pc[p] \in MarkedLabels
    /\ pc[p] \in CancelLabels => cmd[p] = "cancel"
    /\ cmd[p] = "cancel" => pc[p] \in CancelLabels \cup {"load"}
    /\ pc[p] \in DecideLabels => cmd[p] = "decide"
    /\ pc[p] \in RetryLabels => Registered(p)

\* From c to d is nothing, or a step of RunContract that a runner takes.
Stays(c, d) ==
    /\ d.state = c.state /\ d.attempt = c.attempt
    /\ \/ d.status = c.status
       \/ c.status \in {"running", "blocked"} /\ d.status = "failed"
       \/ c.status = "running" /\ d.status = "blocked" /\ Kind[d.state] = "approval"
       \/ c.status = "running" /\ d.status = "done" /\ Kind[d.state] = "terminal"
Advances(c, d) ==
    /\ c.status \in {"running", "blocked"}
    /\ \E i \in DOMAIN Transitions[c.state] : Transitions[c.state][i].next = d.state
    /\ d.attempt = c.attempt + 1
    /\ IF Kind[d.state] = "terminal" THEN d.status = "done"
       ELSE d.status \in {"running", "failed"}
Moves(c, d) == Stays(c, d) \/ Advances(c, d)

\* What the process that works on the run holds.
Fresh == {"guard", "recovery", "register", "enter", "loop", "step", "run",
          "select", "validate", "record"}
Saving == {"store", "save", "storefail"}
Holds(p) ==
    /\ pc[p] \in Fresh => ctx[p] = disk
    /\ pc[p] = "retrysave" => /\ disk.status \in {"failed", "cancelled"}
                              /\ ctx[p] = NextAttempt(disk)
    /\ pc[p] \in Saving => Moves(disk, ctx[p])
    /\ pc[p] \in {"cancelevent", "cancelsave"} => ctx[p] = Cancelled

BlockedAtApproval == disk.status = "blocked" => Kind[disk.state] = "approval"

\* Once two decisions were inside together, what a decision holds may be old.
Exempt(p) == cmd[p] = "decide" /\ breach = "overlapped"
Tracks(p) == Holds(p) \/ Exempt(p)

OrderInv ==
    /\ Disciplined /\ BlockedAtApproval
    /\ \A p \in Proc : Labelled(p) /\ Tracks(p)

\* No attempt that was started is ahead of state.edn, or of what a decision
\* may put there.
Behind(c) ==
    \A i \in DOMAIN log : log[i].event = "node.started" =>
        \/ log[i].attempt < c.attempt
        \/ log[i].attempt = c.attempt /\ log[i].state = c.state
Deciding(p) == /\ cmd[p] = "decide"
               /\ pc[p] \in {"validate", "record", "step", "store"}
StartedInv == /\ Behind(disk)
              /\ \A p \in Proc : Deciding(p) => Behind(ctx[p])

\* Who works on the run works alone, but for an old decision.
LEMMA WorksAlone ==
    ASSUME IInv, OrderInv, NEW p \in Proc, pc[p] \notin Passive
    PROVE  \A q \in Proc \ {p} :
              /\ pc[q] \in Passive \/ (Exempt(p) /\ Exempt(q))
              /\ pc[q] # "idle" => \/ cmd[p] = "decide" /\ cmd[q] = "decide"
                                   \/ Asking(q) /\ marker = p
<1> SUFFICES ASSUME NEW q \in Proc \ {p}, pc[q] # "idle"
             PROVE  /\ pc[q] \in Passive \/ (Exempt(p) /\ Exempt(q))
                    /\ \/ cmd[p] = "decide" /\ cmd[q] = "decide"
                       \/ Asking(q) /\ marker = p
  BY DEF Passive
<1>1. \/ cmd[p] = "decide" /\ cmd[q] = "decide"
      \/ Asking(q) /\ marker = p
  BY DEF OrderInv, Disciplined, Busy, Passive, Asking
<1>2. CASE cmd[p] = "decide" /\ cmd[q] = "decide"
  <2>1. pc[q] \in Passive \/ (p \in Inside /\ q \in Inside)
    BY <1>2 DEF Inside, Passive
  <2>2. QED
    BY <1>2, <2>1 DEF IInv, DecideInv, LockInv, Exempt
<1>3. CASE Asking(q) /\ marker = p
  BY <1>3 DEF Asking, Passive
<1>4. QED
  BY <1>1, <1>2, <1>3

\* A step of the process that works on the run.
Works(p) ==
    /\ pc[p] \notin Passive
    /\ UNCHANGED breach
    /\ \A q \in Proc \ {p} : ctx'[q] = ctx[q] /\ pc'[q] = pc[q] /\ cmd'[q] = cmd[q]
    /\ \/ marker' = marker /\ cmd'[p] = cmd[p]
       \/ marker' \in {marker, NoPid} /\ pc'[p] = "idle"
       \/ marker' = NoPid /\ cmd[p] = "cancel" /\ cmd'[p] = "cancel"
    /\ Labelled(p)' /\ Tracks(p)'

LEMMA WorksKeeps ==
    ASSUME IInv, OrderInv, NEW p \in Proc, Works(p)
    PROVE  Disciplined' /\ \A q \in Proc : Labelled(q)' /\ Tracks(q)'
<1> USE ProcessAssumption
<1>0. \A q \in Proc \ {p} :
          /\ pc[q] \in Passive \/ (Exempt(p) /\ Exempt(q))
          /\ pc[q] # "idle" => \/ cmd[p] = "decide" /\ cmd[q] = "decide"
                               \/ Asking(q) /\ marker = p
  BY WorksAlone DEF Works
<1>1. Disciplined'
  <2> SUFFICES ASSUME NEW q \in Proc, NEW r \in Proc, q # r,
                      pc'[q] # "idle", pc'[r] # "idle"
               PROVE  \/ cmd'[q] = "decide" /\ cmd'[r] = "decide"
                      \/ Asking(q)' /\ marker' = r
                      \/ Asking(r)' /\ marker' = q
    BY DEF Disciplined, Busy, Asking
  <2>1. CASE q # p /\ r # p
    <3>1. /\ pc'[q] = pc[q] /\ cmd'[q] = cmd[q] /\ pc'[r] = pc[r] /\ cmd'[r] = cmd[r]
          /\ pc[q] # "idle" /\ pc[r] # "idle"
      BY <2>1 DEF Works
    <3>2. \/ cmd[q] = "decide" /\ cmd[r] = "decide"
          \/ Asking(q) /\ marker = r
          \/ Asking(r) /\ marker = q
      BY <3>1 DEF OrderInv, Disciplined, Busy
    <3>3. marker # q /\ marker # r
      BY <1>0, <2>1, <3>1
      DEF OrderInv, Labelled, Passive, MarkedLabels, Registered, Exempt
    <3>4. QED
      BY <3>1, <3>2, <3>3
  <2>2. ASSUME NEW s \in Proc \ {p}, pc'[p] # "idle", pc'[s] # "idle"
        PROVE  \/ cmd'[p] = "decide" /\ cmd'[s] = "decide"
               \/ Asking(s)' /\ marker' = p
    <3>1. pc'[s] = pc[s] /\ cmd'[s] = cmd[s] /\ pc[s] # "idle"
      BY <2>2 DEF Works
    <3>2. \/ cmd[p] = "decide" /\ cmd[s] = "decide"
          \/ Asking(s) /\ marker = p
      BY <1>0, <3>1
    <3>3. cmd[p] # "cancel"
      BY <3>2 DEF OrderInv, Labelled, Registered
    <3>4. marker' = marker /\ cmd'[p] = cmd[p]
      BY <2>2, <3>3 DEF Works
    <3>5. QED
      BY <3>1, <3>2, <3>4 DEF Asking
  <2>3. QED
    BY <2>1, <2>2
<1>2. ASSUME NEW q \in Proc \ {p} PROVE Labelled(q)' /\ Tracks(q)'
  <2>1. /\ ctx'[q] = ctx[q] /\ pc'[q] = pc[q] /\ cmd'[q] = cmd[q]
        /\ pc[q] \in Passive \/ Exempt(q)
        /\ Labelled(q) /\ UNCHANGED breach
    BY <1>0 DEF Works, OrderInv
  <2>2. marker' # q
    BY <2>1 DEF Works, Labelled, Passive, MarkedLabels, Registered, Exempt
  <2>3. Labelled(q)'
    BY <2>1, <2>2 DEF Labelled, Registered
  <2>4. Tracks(q)'
    BY <2>1 DEF Tracks, Exempt, Holds, Passive, Fresh, Saving
  <2>5. QED
    BY <2>3, <2>4
<1>3. QED
  BY <1>1, <1>2 DEF Works

----------------------------------------------------------------------------
(* The steps of the process that works on the run.                         *)

\* A step that leaves it with no memory of the run, and one that goes on.
LEMMA ExitWorks ==
    ASSUME TypeOK, NEW p \in Proc, pc[p] \notin Passive, Exit(p),
           marker' \in {marker, NoPid}, marker' # p, UNCHANGED breach
    PROVE  Works(p)
<1> USE TypeParts DEF PcOK, MemoryOK
<1>1. /\ pc'[p] = "idle" /\ cmd'[p] = "resume"
      /\ \A q \in Proc \ {p} : ctx'[q] = ctx[q] /\ pc'[q] = pc[q] /\ cmd'[q] = cmd[q]
  BY DEF Exit, Forget, Goto
<1>2. Labelled(p)' /\ Holds(p)'
  BY <1>1 DEF Labelled, Holds, MarkedLabels, CancelLabels, DecideLabels, RetryLabels,
              Fresh, Saving
<1>3. QED
  BY <1>1, <1>2 DEF Works, Tracks

\* What Holds asks of a process at label l with context c.
Fits(p, l, c) ==
    /\ marker' = p => l \in MarkedLabels
    /\ l \in CancelLabels <=> cmd[p] = "cancel"
    /\ l \in DecideLabels => cmd[p] = "decide"
    /\ l \in RetryLabels => Registered(p)
    /\ l \in Fresh => c = disk'
    /\ l = "retrysave" => /\ disk'.status \in {"failed", "cancelled"}
                          /\ c = NextAttempt(disk')
    /\ l \in Saving => Moves(disk', c)
    /\ l \in {"cancelevent", "cancelsave"} => c = Cancelled'

LEMMA GoWorks ==
    ASSUME TypeOK, NEW p \in Proc, pc[p] \notin Passive, NEW l, Goto(p, l),
           UNCHANGED cmd, NEW c, (ctx' = ctx /\ c = ctx[p]) \/ SetCtx(p, c),
           marker' = marker \/ (marker' = NoPid /\ cmd[p] = "cancel"),
           marker = p => Registered(p), Fits(p, l, c), UNCHANGED breach
    PROVE  Works(p)
<1> USE TypeParts, ProcessAssumption DEF PcOK, MemoryOK
<1>1. /\ pc'[p] = l /\ cmd'[p] = cmd[p] /\ ctx'[p] = c
      /\ \A q \in Proc \ {p} : ctx'[q] = ctx[q] /\ pc'[q] = pc[q] /\ cmd'[q] = cmd[q]
  BY DEF Goto, SetCtx
<1>2. Labelled(p)'
  BY <1>1 DEF Labelled, Fits, Registered
<1>3. Holds(p)'
  BY <1>1 DEF Holds, Fits
<1>4. QED
  BY <1>1, <1>2, <1>3 DEF Works, Tracks

\* Throwing forgets what was seen, or is about to.
LEMMA ThrowWorks ==
    ASSUME TypeOK, OrderInv, NEW p \in Proc, pc[p] \in MarkedLabels, Throw(p),
           UNCHANGED <<marker, breach>>
    PROVE  Works(p)
<1>0. pc[p] \notin Passive /\ Labelled(p)
  BY DEF MarkedLabels, Passive, OrderInv
<1>1. CASE Exit(p) /\ ~Registered(p)
  BY <1>0, <1>1, ExitWorks DEF Labelled
<1>2. CASE Registered(p) /\ Goto(p, "leave") /\ UNCHANGED local
  <2>1. Fits(p, "leave", ctx[p])
    BY <1>2 DEF Fits, Registered, MarkedLabels, CancelLabels, DecideLabels,
                RetryLabels, Fresh, Saving
  <2>2. QED
    BY <1>0, <1>2, <2>1, GoWorks DEF local
<1>3. CASE cmd[p] = "decide" /\ Goto(p, "unlock") /\ UNCHANGED local
  <2>1. marker # p
    BY <1>0, <1>3 DEF Labelled, Registered
  <2>2. Fits(p, "unlock", ctx[p])
    BY <1>3, <2>1 DEF Fits, CancelLabels, DecideLabels, RetryLabels, Fresh, Saving
  <2>3. QED
    BY <1>0, <1>3, <2>1, <2>2, GoWorks DEF local
<1>4. QED
  BY <1>1, <1>2, <1>3 DEF Throw

\* retry!, run-until-done! and the `finally` of run-registered!.
LEMMA LoopWorks ==
    ASSUME TypeOK, OrderInv, NEW p \in Proc, Holds(p),
           \/ RetryGuard(p) \/ RetrySave(p) \/ RetryEvent(p)
           \/ EnterLoop(p) \/ Loop(p) \/ Save(p) \/ Leave(p)
    PROVE  Works(p)
<1> USE DEF Passive, MarkedLabels, CancelLabels, DecideLabels, RetryLabels, Fresh, Saving
<1>0. Labelled(p) /\ Holds(p)
  BY DEF OrderInv
<1>1. CASE RetryGuard(p)
  <2>1. pc[p] = "guard" /\ marker # p /\ UNCHANGED <<shared, breach>> /\ Registered(p)
    BY <1>0, <1>1 DEF RetryGuard, Labelled
  <2>2. CASE Exit(p)
    BY <2>1, <2>2, ExitWorks DEF shared
  <2>3. CASE /\ ctx[p].status \in {"failed", "cancelled"}
             /\ SetCtx(p, NextAttempt(ctx[p])) /\ Goto(p, "retrysave")
             /\ UNCHANGED <<cmd, steps, value, ask>>
    <3>1. Fits(p, "retrysave", NextAttempt(ctx[p]))
      BY <1>0, <2>1, <2>3 DEF Fits, Holds, shared, Registered
    <3>2. QED
      BY <2>1, <2>3, <3>1, GoWorks DEF shared
  <2>4. QED
    BY <1>1, <2>2, <2>3 DEF RetryGuard
<1>2. CASE RetrySave(p) \/ RetryEvent(p) \/ EnterLoop(p)
  <2>1. ASSUME NEW l \in {"recovery", "register", "loop"}, NEW k,
               pc[p] = k, k \in {"retrysave", "recovery", "enter"},
               k = "enter" <=> l = "loop", Goto(p, l),
               UNCHANGED <<cmd, ctx, marker, breach>>,
               disk' = ctx[p]
        PROVE  Works(p)
    <3>1. Fits(p, l, ctx[p]) /\ (marker = p => Registered(p))
      BY <1>0, <2>1 DEF Fits, Labelled, Registered
    <3>2. QED
      BY <2>1, <3>1, GoWorks
  <2>2. QED
    BY <1>0, <1>2, <2>1 DEF RetrySave, RetryEvent, EnterLoop, local, Holds
<1>3. CASE Loop(p)
  <2>1. /\ pc[p] = "loop" /\ UNCHANGED <<shared, breach>> /\ ctx[p] = disk
        /\ marker = p => Registered(p)
    BY <1>0, <1>3 DEF Loop, Holds, Labelled
  <2>2. CASE \E l \in {"step", "leave"} : Goto(p, l) /\ UNCHANGED local
    <3>1. PICK l \in {"step", "leave"} : Goto(p, l) /\ UNCHANGED local
      BY <2>2
    <3>2. Fits(p, l, ctx[p])
      BY <1>0, <2>1 DEF Fits, Labelled, shared
    <3>3. QED
      BY <2>1, <3>1, <3>2, GoWorks DEF shared, local
  <2>3. CASE Exit(p) /\ ~Registered(p)
    BY <2>1, <2>3, ExitWorks DEF shared
  <2>4. QED
    BY <1>3, <2>2, <2>3 DEF Loop
<1>4. CASE Save(p)
  <2>1. CASE cmd[p] = "step"
    <3>1. marker # p
      BY <1>0, <2>1 DEF Labelled, Registered
    <3>2. QED
      BY <1>4, <2>1, <3>1, ExitWorks DEF Save
  <2>2. CASE cmd[p] # "step"
    <3>1. Fits(p, "loop", ctx[p]) /\ (marker = p => Registered(p))
      BY <1>0, <1>4, <2>2 DEF Fits, Labelled, Save
    <3>2. QED
      BY <1>4, <2>2, <3>1, GoWorks DEF Save
  <2>3. QED
    BY <2>1, <2>2
<1>5. CASE Leave(p)
  BY <1>5, ExitWorks, ProcessAssumption DEF Leave
<1>6. QED
  BY <1>1, <1>2, <1>3, <1>4, <1>5

\* The steps of step! hold the run as it is and leave it alone, and may change
\* the context by a move.
Stepping == {"step", "run", "select"}

LEMMA SteppingWorks ==
    ASSUME TypeOK, OrderInv, NEW p \in Proc, pc[p] \in Stepping,
           UNCHANGED <<disk, marker, cmd, breach>>,
           NEW l \in MarkedLabels \cup {"unlock"}, Goto(p, l),
           l = "unlock" => cmd[p] = "decide",
           NEW c, (ctx' = ctx /\ c = ctx[p]) \/ SetCtx(p, c),
           l \in Saving => Moves(disk, c),
           l \in Fresh => c = disk
    PROVE  Works(p)
<1>1. Labelled(p) /\ pc[p] \notin Passive
  BY DEF OrderInv, Stepping, Passive
<1>2. Fits(p, l, c) /\ (marker = p => Registered(p))
  BY <1>1 DEF Labelled, Fits, Stepping, Registered, Passive, MarkedLabels,
              CancelLabels, DecideLabels, RetryLabels, Fresh, Saving
<1>3. QED
  BY <1>1, <1>2, GoWorks

LEMMA ReturnedGoes ==
    ASSUME NEW p
    PROVE  /\ Returned(p) \in MarkedLabels \cup {"unlock"}
           /\ Returned(p) = "unlock" => cmd[p] = "decide"
           /\ Returned(p) \notin Fresh
  BY DEF Returned, MarkedLabels, Fresh

\* A context that only changes its status moves.
LEMMA StatusMoves ==
    ASSUME disk \in Context, BlockedAtApproval, ~IsTerminal(disk),
           NEW s \in {"failed", "blocked"},
           s = "blocked" => Kind[disk.state] = "approval"
    PROVE  Moves(disk, [disk EXCEPT !.status = s])
  BY DEF Moves, Stays, Context, Statuses, IsTerminal

\* Advancing along a chosen transition moves.
LEMMA AdvanceMoves ==
    ASSUME disk \in Context, ~IsTerminal(disk), NEW o,
           NEW tr \in Chosen(disk.state, o),
           NEW c \in Context, c.state = disk.state, c.attempt = disk.attempt,
           c.status = "running"
    PROVE  Moves(disk, FinishIfTerminal(Advance(c, tr)))
<1>1. tr \in Transition /\ disk.state \in Node
  BY ChosenTyped DEF Context
<1>2. \E i \in DOMAIN Transitions[disk.state] : Transitions[disk.state][i] = tr
  BY <1>1, ChosenGives
<1> DEFINE d == FinishIfTerminal(Advance(c, tr))
<1>3. /\ d.state = tr.next /\ d.attempt = disk.attempt + 1
      /\ IF Kind[d.state] = "terminal" THEN d.status = "done"
         ELSE d.status \in {"running", "failed"}
  BY <1>1 DEF FinishIfTerminal, Advance, Context, Transition
<1>4. QED
  BY <1>2, <1>3 DEF Moves, Advances, IsTerminal, Context, Statuses

LEMMA StepWorks ==
    ASSUME TypeOK, LogInv, OrderInv, NEW p \in Proc, Holds(p),
           \/ StepEnded(p) \/ StepMaxRounds(p) \/ StepTerminal(p)
           \/ StepRequest(p) \/ StepDecided(p)
           \/ StepRecover(p) \/ StepOrphan(p) \/ StepStart(p)
           \/ Complete(p) \/ Break(p) \/ Select(p)
    PROVE  UNCHANGED disk /\ Works(p)
<1> USE TypeParts
<1>0. /\ pc[p] \in Stepping /\ UNCHANGED <<disk, marker, breach>>
      /\ "store" \in MarkedLabels /\ "storefail" \in MarkedLabels
      /\ "run" \in MarkedLabels /\ "select" \in MarkedLabels
      /\ "store" \notin Fresh /\ "storefail" \notin Fresh
      /\ "run" \notin Saving /\ "select" \notin Saving
      /\ disk \in Context /\ disk.state \in Node /\ disk.status \in Statuses
  BY DEF StepEnded, StepMaxRounds, StepTerminal, StepRequest, StepDecided, StepRecover,
         StepOrphan, StepStart, Complete, Break, Select, AtApproval, AtNode, AtStep,
         Stepping, MarkedLabels, Fresh, Saving, shared, Context
<1>1. ctx[p] = disk /\ BlockedAtApproval
  BY <1>0 DEF OrderInv, Holds, Stepping, Fresh
<1>2. Stays(disk, disk)
  BY DEF Stays
<1>3. ~StepEnded(p) => ~IsTerminal(disk)
  BY <1>0, <1>1 DEF StepMaxRounds, StepTerminal, StepRequest, StepDecided, StepRecover,
         StepOrphan, StepStart, Complete, Break, Select, AtApproval, AtNode, AtStep,
         LogInv, MemoryInv, Executing
<1>4. CASE StepEnded(p)
  BY <1>0, <1>1, <1>2, <1>4, ReturnedGoes, SteppingWorks DEF StepEnded, Moves, local
<1>5. ASSUME ~IsTerminal(disk), NEW l \in {"store", "storefail"}, Goto(p, l), UNCHANGED cmd,
             SetCtx(p, [ctx[p] EXCEPT !.status = "failed"])
      PROVE  Works(p)
  BY <1>0, <1>1, <1>5, StatusMoves, SteppingWorks
<1>6. CASE StepMaxRounds(p) \/ StepOrphan(p) \/ Break(p)
  <2>1. ~StepEnded(p)
    BY <1>6 DEF StepMaxRounds, StepOrphan, Break, StepEnded, AtNode, AtStep
  <2>2. QED
    BY <1>0, <1>3, <1>5, <1>6, <2>1 DEF StepMaxRounds, StepOrphan, Break
<1>7. CASE StepTerminal(p)
  <2>1. ~StepEnded(p) /\ Kind[disk.state] = "terminal"
    BY <1>1, <1>7 DEF StepTerminal, StepEnded, AtStep
  <2>2. Moves(disk, FinishIfTerminal(disk))
    BY <1>0, <1>1, <1>3, <2>1
    DEF Moves, Stays, FinishIfTerminal, Context, IsTerminal, Statuses, BlockedAtApproval
  <2>3. QED
    BY <1>0, <1>1, <1>7, <2>2, ReturnedGoes, SteppingWorks DEF StepTerminal
<1>8. CASE StepRequest(p)
  <2>1. ~StepEnded(p) /\ Kind[disk.state] = "approval"
    BY <1>1, <1>8 DEF StepRequest, StepEnded, AtApproval, AtStep
  <2>2. Moves(disk, [disk EXCEPT !.status = "blocked"])
    BY <1>0, <1>1, <1>3, <2>1, StatusMoves
  <2>3. QED
    BY <1>0, <1>1, <1>8, <2>2, SteppingWorks DEF StepRequest
<1>9. CASE StepRecover(p) \/ StepStart(p) \/ Complete(p)
  BY <1>0, <1>1, <1>9, SteppingWorks DEF StepRecover, StepStart, Complete, local
<1>10. ASSUME Throw(p) PROVE Works(p)
  BY <1>0, <1>10, ThrowWorks DEF Stepping, MarkedLabels
<1>11. CASE StepDecided(p)
  <2>1. ~StepEnded(p)
    BY <1>11 DEF StepDecided, StepEnded, AtApproval, AtStep
  <2> DEFINE c == [disk EXCEPT !.status = "running"]
  <2>2. /\ c \in Context /\ c.state = disk.state /\ c.attempt = disk.attempt
        /\ c.status = "running"
    BY <1>0 DEF Context, Statuses
  <2>3. ASSUME NEW x, NEW tr \in Chosen(disk.state, x.decision),
               SetCtx(p, FinishIfTerminal(Advance(c, tr))), Goto(p, "store"),
               UNCHANGED cmd
        PROVE  Works(p)
    <3> HIDE DEF c
    <3>1. Moves(disk, FinishIfTerminal(Advance(c, tr)))
      BY <1>0, <1>3, <2>1, <2>2, AdvanceMoves
    <3>2. QED
      BY <1>0, <2>3, <3>1, SteppingWorks
  <2>4. QED
    BY <1>0, <1>1, <1>10, <1>11, <2>3 DEF StepDecided
<1>12. CASE Select(p)
  <2>1. ~StepEnded(p) /\ Kind[disk.state] # "approval"
    BY <1>1, <1>12 DEF Select, StepEnded, LogInv, MemoryInv, Executing
  <2>2. disk.status = "running"
    BY <1>0, <1>1, <1>3, <2>1 DEF BlockedAtApproval, IsTerminal, Statuses
  <2>3. ASSUME NEW tr \in Chosen(disk.state, value[p]),
               SetCtx(p, FinishIfTerminal(Advance(disk, tr))), Goto(p, Returned(p)),
               UNCHANGED cmd
        PROVE  Works(p)
    <3>1. Moves(disk, FinishIfTerminal(Advance(disk, tr)))
      BY <1>0, <1>3, <2>1, <2>2, AdvanceMoves
    <3>2. QED
      BY <1>0, <2>3, <3>1, ReturnedGoes, SteppingWorks
  <2>4. QED
    BY <1>0, <1>1, <1>10, <1>12, <2>3 DEF Select
<1>13. QED
  BY <1>0, <1>4, <1>6, <1>7, <1>8, <1>9, <1>11, <1>12

\* Saving, deciding and cancelling.
LEMMA SaveWorks ==
    ASSUME TypeOK, OrderInv, NEW p \in Proc, Holds(p),
           \/ Store(p) \/ StoreFailed(p) \/ Validate(p) \/ Record(p) \/ Unlock(p)
           \/ Unmark(p) \/ Reload(p) \/ CancelEvent(p) \/ CancelSave(p)
    PROVE  Works(p)
<1> USE DEF Passive, MarkedLabels, CancelLabels, DecideLabels, RetryLabels, Fresh, Saving
<1>0. Labelled(p) /\ Holds(p)
  BY DEF OrderInv
<1>1. CASE Store(p)
  <2>1. Fits(p, Returned(p), ctx[p]) /\ (marker = p => Registered(p))
    BY <1>0, <1>1 DEF Store, Fits, Labelled, Returned, Moves, Stays, Registered
  <2>2. QED
    BY <1>1, <2>1, GoWorks DEF Store, local
<1>2. CASE StoreFailed(p)
  BY <1>2, ThrowWorks DEF StoreFailed
<1>3. CASE Validate(p) \/ Record(p)
  <2>1. cmd[p] = "decide" /\ marker # p /\ ctx[p] = disk
    BY <1>0, <1>3 DEF Validate, Record, Labelled, Holds, Registered
  <2>2. ASSUME NEW l \in {"record", "unlock", "step"}, Goto(p, l),
               UNCHANGED <<cmd, ctx, marker, disk, breach>>, pc[p] \notin Passive
        PROVE  Works(p)
    <3>1. Fits(p, l, ctx[p])
      BY <2>1, <2>2 DEF Fits
    <3>2. QED
      BY <2>1, <2>2, <3>1, GoWorks
  <2>3. QED
    BY <1>3, <2>2 DEF Validate, Record, shared, local
<1>4. CASE Unlock(p)
  <2>1. marker # p
    BY <1>0, <1>4 DEF Unlock, Labelled
  <2>2. QED
    BY <1>4, <2>1, ExitWorks DEF Unlock
<1>5. CASE Unmark(p) \/ Reload(p) \/ CancelEvent(p) \/ CancelSave(p)
  <2>1. cmd[p] = "cancel" /\ marker # p /\ pc[p] \notin Passive
    BY <1>0, <1>5 DEF Unmark, Reload, CancelEvent, CancelSave, Labelled, Registered
  <2>2. CASE Unmark(p)
    <3>1. Fits(p, "reload", ctx[p])
      BY <2>1, <2>2, ProcessAssumption DEF Fits, Unmark
    <3>2. QED
      BY <2>1, <2>2, <3>1, GoWorks DEF Unmark, local
  <2>3. CASE Reload(p)
    <3>1. Fits(p, "cancelevent", Cancelled)
      BY <2>1, <2>3 DEF Fits, Reload, shared, Cancelled
    <3>2. QED
      BY <2>1, <2>3, <3>1, GoWorks DEF Reload, shared
  <2>4. CASE CancelEvent(p)
    <3>1. Fits(p, "cancelsave", ctx[p])
      BY <1>0, <2>1, <2>4 DEF Fits, CancelEvent, Holds, Cancelled
    <3>2. QED
      BY <2>1, <2>4, <3>1, GoWorks DEF CancelEvent, local
  <2>5. CASE CancelSave(p)
    BY <2>1, <2>5, ExitWorks DEF CancelSave
  <2>6. QED
    BY <1>5, <2>2, <2>3, <2>4, <2>5
<1>6. QED
  BY <1>1, <1>2, <1>3, <1>4, <1>5

----------------------------------------------------------------------------
(* The other steps: commands begin, take the lock, register, stop and die. *)

\* They leave the run as it is.
OthersInv == Disciplined /\ \A q \in Proc : Labelled(q) /\ Tracks(q)

\* A process that the step leaves alone goes on as it was.
LEMMA OtherTracks ==
    ASSUME NEW q, Tracks(q), pc'[q] = pc[q], cmd'[q] = cmd[q], ctx'[q] = ctx[q],
           UNCHANGED disk, breach = "overlapped" => breach' = "overlapped"
    PROVE  Tracks(q)'
  BY DEF Tracks, Holds, Exempt, Cancelled

LEMMA RegisterKeeps ==
    ASSUME IInv, OrderInv, NEW p \in Proc, Register(p)
    PROVE  OthersInv'
<1> USE DEF PcOK, MemoryOK, IInv
<1> USE TypeParts
<1>0. /\ pc'[p] = "enter" /\ pc[p] = "register" /\ marker' = p
      /\ UNCHANGED <<cmd, ctx, disk>>
      /\ \A q \in Proc \ {p} : pc'[q] = pc[q]
  BY DEF Register, Goto, local
<1>1. Labelled(p) /\ (Registered(p) => Holds(p))
  BY DEF OrderInv, Tracks, Exempt, Registered
<1>2. Registered(p) /\ marker # p
  BY <1>0, <1>1 DEF Labelled, RetryLabels, MarkedLabels
<1>3. \A q \in Proc \ {p} : pc[q] = "idle"
  BY <1>0, <1>2, WorksAlone DEF Passive, Registered, Exempt
<1>4. Disciplined'
  BY <1>0, <1>3 DEF Disciplined, Busy
<1>5. \A q \in Proc \ {p} : Labelled(q)' /\ Tracks(q)'
  BY <1>0, <1>3 DEF OrderInv, Labelled, Tracks, Holds, Fresh, Saving, MarkedLabels,
       CancelLabels, DecideLabels, RetryLabels, Registered
<1>6. Labelled(p)' /\ Holds(p)'
  BY <1>0, <1>1, <1>2 DEF Labelled, Holds, Fresh, Saving, MarkedLabels,
       CancelLabels, DecideLabels, RetryLabels, Registered
<1>7. QED
  BY <1>4, <1>5, <1>6 DEF OthersInv, Tracks

LEMMA LaunchKeeps ==
    ASSUME TypeOK, OrderInv, NEW p \in Proc, NEW c \in Commands, OrderlyLaunch(p, c)
    PROVE  OthersInv'
<1> USE TypeParts DEF PcOK, MemoryOK
<1>0. /\ pc[p] = "idle" /\ cmd'[p] = c /\ UNCHANGED <<marker, ctx, disk, breach>>
      /\ pc'[p] = IF c = "decide" THEN "lock" ELSE "load"
      /\ \A q \in Proc \ {p} : pc'[q] = pc[q] /\ cmd'[q] = cmd[q]
  BY DEF OrderlyLaunch, Launch, Goto, shared
<1>1. \/ Busy = {}
      \/ c = "decide" /\ \A q \in Busy : cmd[q] = "decide"
      \/ c = "cancel" /\ Busy = {marker}
  BY DEF OrderlyLaunch, Orderly
<1>2. Disciplined'
  BY <1>0, <1>1 DEF OrderInv, Disciplined, Busy, Asking
<1>3. ASSUME NEW q \in Proc PROVE Labelled(q)' /\ Tracks(q)'
  <2>1. CASE q = p
    BY <1>0, <2>1 DEF OrderInv, Labelled, Tracks, Holds, Fresh, Saving, MarkedLabels,
       CancelLabels, DecideLabels, RetryLabels, Registered
  <2>2. CASE q # p
    BY <1>0, <2>2, OtherTracks DEF OrderInv, Labelled, Registered
  <2>3. QED
    BY <2>1, <2>2
<1>4. QED
  BY <1>2, <1>3 DEF OthersInv

LEMMA LoadKeeps ==
    ASSUME TypeOK, OrderInv, NEW p \in Proc, Load(p)
    PROVE  OthersInv'
<1> USE TypeParts DEF PcOK, MemoryOK
<1>0. pc[p] = "load" /\ Labelled(p) /\ marker # p
  BY DEF Load, OrderInv, Labelled, MarkedLabels
<1>1. /\ UNCHANGED <<marker, disk, breach>>
      /\ \A q \in Proc \ {p} : pc'[q] = pc[q] /\ cmd'[q] = cmd[q] /\ ctx'[q] = ctx[q]
      /\ \/ pc'[p] = "idle" /\ cmd'[p] = "resume"
         \/ pc'[p] = "stop" /\ cmd[p] = "cancel" /\ cmd'[p] = cmd[p]
         \/ /\ pc'[p] = AfterLoad[cmd[p]] /\ cmd[p] # "cancel"
            /\ cmd'[p] = cmd[p] /\ ctx'[p] = disk
  BY DEF Load, Goto, Exit, Forget, SetCtx, shared, local
<1>2. cmd[p] # "cancel" => /\ AfterLoad[cmd[p]] \in {"register", "enter", "step", "guard", "validate"}
                           /\ AfterLoad[cmd[p]] \in {"register", "guard"} => Registered(p)
                           /\ AfterLoad[cmd[p]] = "validate" => cmd[p] = "decide"
  BY DEF AfterLoad, Commands, Registered
<1>3. Disciplined'
  <2> SUFFICES ASSUME NEW q \in Proc, NEW r \in Proc, q # r,
                      pc'[q] # "idle", pc'[r] # "idle"
               PROVE  \/ cmd'[q] = "decide" /\ cmd'[r] = "decide"
                      \/ Asking(q)' /\ marker' = r
                      \/ Asking(r)' /\ marker' = q
    BY DEF Disciplined, Busy, Asking
  <2>1. pc[q] # "idle" /\ pc[r] # "idle"
    BY <1>0, <1>1
  <2>2. \/ cmd[q] = "decide" /\ cmd[r] = "decide"
        \/ Asking(q) /\ marker = r
        \/ Asking(r) /\ marker = q
    BY <2>1 DEF OrderInv, Disciplined, Busy
  <2>3. QED
    BY <1>0, <1>1, <2>2 DEF Asking
<1>4. ASSUME NEW q \in Proc PROVE Labelled(q)' /\ Tracks(q)'
  <2>1. CASE q = p
    BY <1>0, <1>1, <1>2, <2>1 DEF Labelled, Tracks, Holds, Fresh, Saving, MarkedLabels,
       CancelLabels, DecideLabels, RetryLabels, Registered
  <2>2. CASE q # p
    BY <1>1, <2>2, OtherTracks DEF OrderInv, Labelled, Registered
  <2>3. QED
    BY <2>1, <2>2
<1>5. QED
  BY <1>3, <1>4 DEF OthersInv

LEMMA LockKeeps ==
    ASSUME TypeOK, OrderInv, NEW p \in Proc, Lock(p) \/ Reclaim(p)
    PROVE  OthersInv'
<1> USE TypeParts DEF PcOK, MemoryOK
<1>0. /\ pc[p] \in {"lock", "reclaim"} /\ Labelled(p) /\ marker # p
      /\ cmd[p] = "decide"
  BY DEF Lock, Reclaim, OrderInv, Labelled, MarkedLabels, DecideLabels
<1>1. /\ UNCHANGED <<marker, disk>>
      /\ breach = "overlapped" => breach' = "overlapped"
      /\ \A q \in Proc \ {p} : pc'[q] = pc[q] /\ cmd'[q] = cmd[q] /\ ctx'[q] = ctx[q]
      /\ \/ pc'[p] = "idle" /\ cmd'[p] = "resume"
         \/ pc'[p] \in {"load", "lock", "reclaim"} /\ cmd'[p] = "decide"
  BY <1>0 DEF Lock, Reclaim, Goto, Exit, Forget, local
<1>2. Disciplined'
  BY <1>0, <1>1 DEF OrderInv, Disciplined, Busy, Asking
<1>3. ASSUME NEW q \in Proc PROVE Labelled(q)' /\ Tracks(q)'
  <2>1. CASE q = p
    BY <1>0, <1>1, <2>1 DEF Labelled, Tracks, Holds, Fresh, Saving, MarkedLabels,
       CancelLabels, DecideLabels, RetryLabels, Registered
  <2>2. CASE q # p
    BY <1>1, <2>2, OtherTracks DEF OrderInv, Labelled, Registered
  <2>3. QED
    BY <2>1, <2>2
<1>4. QED
  BY <1>2, <1>3 DEF OthersInv

\* A process that dies, by a crash or by stop!.
LEMMA CrashKeeps ==
    ASSUME TypeOK, OrderInv, NEW p \in Proc, Crash(p)
    PROVE  OthersInv'
<1> USE TypeParts, ProcessAssumption DEF PcOK, MemoryOK
<1>1. /\ UNCHANGED disk /\ pc'[p] = "idle" /\ cmd'[p] = "resume"
      /\ breach = "overlapped" => breach' = "overlapped"
      /\ \A q \in Proc \ {p} : pc'[q] = pc[q] /\ cmd'[q] = cmd[q] /\ ctx'[q] = ctx[q]
      /\ marker' = IF marker = p THEN DeadPid ELSE marker
  BY DEF Crash, Kill, Forget, Goto
<1>2. Disciplined'
  <2> SUFFICES ASSUME NEW q \in Proc, NEW r \in Proc, q # r,
                      pc'[q] # "idle", pc'[r] # "idle"
               PROVE  \/ cmd'[q] = "decide" /\ cmd'[r] = "decide"
                      \/ Asking(q)' /\ marker' = r
                      \/ Asking(r)' /\ marker' = q
    BY DEF Disciplined, Busy, Asking
  <2>1. q # p /\ r # p /\ pc[q] # "idle" /\ pc[r] # "idle"
    BY <1>1
  <2>2. \/ cmd[q] = "decide" /\ cmd[r] = "decide"
        \/ Asking(q) /\ marker = r
        \/ Asking(r) /\ marker = q
    BY <2>1 DEF OrderInv, Disciplined, Busy
  <2>3. QED
    BY <1>1, <2>1, <2>2 DEF Asking
<1>3. ASSUME NEW q \in Proc PROVE Labelled(q)' /\ Tracks(q)'
  <2>1. CASE q = p
    BY <1>1, <2>1 DEF Labelled, Tracks, Holds, Fresh, Saving, MarkedLabels,
       CancelLabels, DecideLabels, RetryLabels, Registered
  <2>2. CASE q # p
    BY <1>1, <2>2, OtherTracks DEF OrderInv, Labelled, Registered
  <2>3. QED
    BY <2>1, <2>2
<1>4. QED
  BY <1>2, <1>3 DEF OthersInv

LEMMA StopsKeeps ==
    ASSUME TypeOK, OrderInv, NEW p \in Proc, Stop(p)
    PROVE  OthersInv'
<1> USE TypeParts, ProcessAssumption DEF PcOK, MemoryOK
<1>0. /\ pc[p] = "stop" /\ cmd[p] = "cancel" /\ marker # p
      /\ \A q \in Proc : pc[q] # "idle" /\ q # p => marker = q
  BY DEF Stop, OrderInv, Labelled, CancelLabels, MarkedLabels, Disciplined, Busy, Asking,
         Registered
<1>1. /\ UNCHANGED disk /\ pc'[p] = "unmark" /\ cmd'[p] = "cancel"
      /\ marker' \notin Proc
      /\ \A q \in Proc \ {p} : pc'[q] = "idle" /\ cmd'[q] # "cancel"
  <2>1. ASSUME NEW q \in Proc \ {p}, pc[q] = "idle" PROVE cmd[q] # "cancel"
    BY <2>1 DEF OrderInv, Labelled, CancelLabels
  <2>2. QED
    BY <1>0, <2>1 DEF Stop, Kill, Forget, Goto, local
<1>2. Disciplined'
  BY <1>1 DEF Disciplined, Busy
<1>3. ASSUME NEW q \in Proc PROVE Labelled(q)' /\ Tracks(q)'
  BY <1>1 DEF Labelled, Tracks, Holds, Fresh, Saving, MarkedLabels,
       CancelLabels, DecideLabels, RetryLabels, Registered
<1>4. QED
  BY <1>2, <1>3 DEF OthersInv

----------------------------------------------------------------------------
(* What a step does to state.edn.                                          *)

\* Attempts go up, and one attempt stays at one node.
Grows(c, d) == \/ c.attempt < d.attempt
               \/ c.attempt = d.attempt /\ c.state = d.state

\* What the contract says of the run's record.
Agreed == [breach' # "overlapped" => Contract!Next]_RunRecord
Kept == /\ BlockedAtApproval' /\ Agreed
        /\ Grows(disk, disk') \/ \E p \in Proc : Exempt(p) /\ Store(p)

LEMMA SameKept ==
    ASSUME BlockedAtApproval, UNCHANGED disk
    PROVE  Kept
  BY DEF BlockedAtApproval, Grows, Agreed, RunRecord, Kept

LEMMA MovesKept ==
    ASSUME BlockedAtApproval, disk \in Context, disk' \in Context, Moves(disk, disk')
    PROVE  Kept
<1>0. /\ disk.state \in Node /\ disk'.state \in Node
      /\ disk.attempt \in Nat /\ disk'.attempt \in Nat
  BY DEF Context
<1>1. CASE Stays(disk, disk')
  <2>1. BlockedAtApproval' /\ Grows(disk, disk')
    BY <1>1 DEF Stays, BlockedAtApproval, Grows
  <2>2. CASE disk'.status = disk.status
    BY <1>1, <2>1, <2>2 DEF Stays, Agreed, RunRecord, Kept
  <2>3. CASE disk.status \in {"running", "blocked"} /\ disk'.status = "failed"
    <3>1. Contract!Fail
      BY <1>1, <2>3 DEF Stays, Contract!Fail, RunRecord
    <3>2. QED
      BY <2>1, <3>1 DEF Agreed, Contract!Next, Kept
  <2>4. CASE disk.status = "running" /\ disk'.status = "blocked"
    <3>1. Contract!Block
      BY <1>1, <2>4 DEF Stays, Contract!Block, RunRecord
    <3>2. QED
      BY <2>1, <3>1 DEF Agreed, Contract!Next, Kept
  <2>5. CASE disk.status = "running" /\ disk'.status = "done" /\ Kind[disk'.state] = "terminal"
    <3>1. Contract!Finish
      BY <1>0, <1>1, <2>5 DEF Stays, Contract!Finish, RunRecord
    <3>2. QED
      BY <2>1, <3>1 DEF Agreed, Contract!Next, Kept
  <2>6. QED
    BY <1>1, <2>1, <2>2, <2>3, <2>4, <2>5 DEF Stays, Kept
<1>2. CASE Advances(disk, disk')
  <2>1. BlockedAtApproval' /\ Grows(disk, disk')
    BY <1>0, <1>2 DEF Advances, BlockedAtApproval, Grows
  <2>2. Contract!Advance
    <3> DEFINE m == disk'.state
               s == IF disk'.status = "failed" THEN "failed" ELSE "running"
    <3>1. disk'.status = IF Kind[m] = "terminal" THEN "done" ELSE s
      BY <1>2 DEF Advances
    <3>2. QED
      BY <1>0, <1>2, <3>1 DEF Advances, Contract!Advance, RunRecord
  <2>3. QED
    BY <2>1, <2>2 DEF Agreed, Contract!Next, Kept
<1>3. QED
  BY <1>1, <1>2 DEF Moves

LEMMA DiskKept ==
    ASSUME TypeOK, OrderInv, NEW p \in Proc, Holds(p),
           \/ RetrySave(p) \/ EnterLoop(p) \/ Save(p) \/ Store(p) \/ StoreFailed(p)
           \/ CancelSave(p)
    PROVE  Kept
<1> USE TypeParts
<1>0. /\ disk' = ctx[p] /\ disk \in Context /\ ctx[p] \in Context
      /\ Holds(p) /\ BlockedAtApproval
      /\ pc[p] \in {"retrysave", "enter", "save", "store", "storefail", "cancelsave"}
  BY DEF RetrySave, EnterLoop, Save, Store, StoreFailed, CancelSave, MemoryOK, OrderInv
<1>1. CASE pc[p] = "retrysave"
  <2>1. /\ disk.status \in {"failed", "cancelled"}
        /\ disk' = NextAttempt(disk)
    BY <1>0, <1>1 DEF Holds
  <2>0. /\ disk'.state = disk.state /\ disk'.status = "running"
        /\ disk'.attempt = disk.attempt + 1
    BY <2>1 DEF NextAttempt
  <2>2. Contract!Retry
    BY <2>0, <2>1 DEF Contract!Retry, RunRecord
  <2>3. BlockedAtApproval' /\ Grows(disk, disk')
    BY <1>0, <2>1 DEF NextAttempt, BlockedAtApproval, Grows, Context
  <2>4. QED
    BY <2>2, <2>3 DEF Kept, Agreed, Contract!Next
<1>2. CASE pc[p] = "enter"
  BY <1>0, <1>2, SameKept DEF Holds, Fresh
<1>3. CASE pc[p] \in Saving
  BY <1>0, <1>3, MovesKept DEF Holds
<1>4. CASE pc[p] = "cancelsave"
  <2>1. disk' = Cancelled
    BY <1>0, <1>4 DEF Holds
  <2>2. /\ disk'.state = disk.state /\ disk'.attempt = disk.attempt
        /\ disk'.status = "cancelled"
    BY <1>0, <2>1 DEF Cancelled, Context
  <2>3. Contract!Cancel
    BY <2>2 DEF Contract!Cancel, RunRecord
  <2>4. QED
    BY <2>2, <2>3 DEF Kept, Agreed, Contract!Next, BlockedAtApproval, Grows
<1>5. QED
  BY <1>0, <1>1, <1>2, <1>3, <1>4 DEF Saving

----------------------------------------------------------------------------
(* Decisions whose memory may be old, because two of them were inside.     *)

\* They go on alone as well, and only their save replaces state.edn.
LEMMA StaleSteps ==
    ASSUME IInv, NEW p \in Proc, Exempt(p), pc[p] \notin Passive, Step(p)
    PROVE  /\ UNCHANGED <<marker, breach>> /\ ~Stop(p)
           /\ UNCHANGED disk \/ Store(p)
<1>1. pc[p] \in DeciderLabels
  BY DEF IInv, DecideInv, DeciderInv, Decider, Exempt
<1>2. \/ Validate(p) \/ Record(p) \/ Unlock(p) \/ Store(p)
      \/ StepEnded(p) \/ StepMaxRounds(p) \/ StepTerminal(p)
      \/ StepRequest(p) \/ StepDecided(p)
      \/ StepRecover(p) \/ StepOrphan(p) \/ StepStart(p)
  BY DeciderStep DEF IInv, DecideInv, Exempt, Passive, Load, Lock, Reclaim
<1>3. CASE Validate(p) \/ Record(p) \/ Unlock(p) \/ Store(p)
  BY <1>1, <1>3 DEF Validate, Record, Unlock, Store, Stop, DeciderLabels, shared
<1>4. CASE StepEnded(p) \/ StepMaxRounds(p) \/ StepTerminal(p)
  BY <1>1, <1>4 DEF StepEnded, StepMaxRounds, StepTerminal, Stop, DeciderLabels, shared
<1>5. CASE StepRequest(p) \/ StepDecided(p)
  BY <1>1, <1>5 DEF StepRequest, StepDecided, Stop, DeciderLabels
<1>6. CASE StepRecover(p) \/ StepOrphan(p) \/ StepStart(p)
  BY <1>1, <1>6 DEF StepRecover, StepOrphan, StepStart, Stop, DeciderLabels
<1>7. QED
  BY <1>2, <1>3, <1>4, <1>5, <1>6

LEMMA StaleWorks ==
    ASSUME IInv, IInv', OrderInv, NEW p \in Proc, Exempt(p), pc[p] \notin Passive,
           Step(p)
    PROVE  Works(p)
<1> USE DEF IInv
<1>1. /\ UNCHANGED <<marker, breach>>
      /\ \A q \in Proc \ {p} : pc'[q] = pc[q] /\ cmd'[q] = cmd[q] /\ ctx'[q] = ctx[q]
      /\ \/ cmd' = cmd
         \/ cmd'[p] = "resume" /\ pc'[p] = "idle"
  BY StaleSteps, StepAlone
<1>2. marker # p
  BY DEF Exempt, OrderInv, Labelled, Registered
<1>3. CASE cmd' = cmd
  <2>1. cmd'[p] = "decide" /\ pc'[p] \in DeciderLabels
    BY <1>3 DEF Exempt, DecideInv, DeciderInv, Decider
  <2>2. Labelled(p)'
    BY <1>1, <1>2, <2>1 DEF Labelled, DeciderLabels, CancelLabels, DecideLabels, RetryLabels
  <2>3. Tracks(p)'
    BY <1>1, <2>1 DEF Tracks, Exempt
  <2>4. QED
    BY <1>1, <1>3, <2>2, <2>3 DEF Works
<1>4. CASE cmd'[p] = "resume" /\ pc'[p] = "idle"
  <2>1. Labelled(p)' /\ Holds(p)'
    BY <1>1, <1>2, <1>4 DEF Labelled, Holds, MarkedLabels, CancelLabels, DecideLabels,
         RetryLabels, Fresh, Saving
  <2>2. QED
    BY <1>1, <1>4, <2>1 DEF Works, Tracks
<1>5. QED
  BY <1>1, <1>3, <1>4

LEMMA StaleKept ==
    ASSUME IInv, OrderInv, NEW p \in Proc, Exempt(p), pc[p] \notin Passive, Step(p)
    PROVE  Kept
<1>1. UNCHANGED breach /\ (UNCHANGED disk \/ Store(p))
  BY StaleSteps
<1>2. CASE UNCHANGED disk
  BY <1>2, SameKept DEF OrderInv
<1>3. CASE Store(p)
  <2>1. disk' = ctx[p] /\ pc[p] = "store" /\ Decider(p)
    BY <1>3 DEF Store, IInv, DecideInv, DeciderInv
  <2>2. BlockedAtApproval'
    BY <2>1 DEF BlockedAtApproval, Decider, Exempt
  <2>3. Agreed
    BY <1>1 DEF Agreed, Exempt
  <2>4. QED
    BY <1>3, <2>2, <2>3 DEF Kept
<1>4. QED
  BY <1>1, <1>2, <1>3

\* What a decision holds is what it loaded, or came from it by a move.
DecidersMoved ==
    \A q \in Proc : Deciding(q)' =>
        /\ cmd[q] = "decide"
        /\ \/ pc[q] = "load" /\ ctx'[q] = disk
           \/ Deciding(q) /\ Grows(ctx[q], ctx'[q])

LEMMA DecisionMoves ==
    ASSUME IInv, NEW p \in Proc, Step(p), cmd[p] = "decide", Deciding(p)'
    PROVE  \/ pc[p] = "load" /\ ctx'[p] = disk
           \/ Deciding(p) /\ Grows(ctx[p], ctx'[p])
<1> USE DEF IInv, TypeOK
<1>0. ctx[p] \in Context /\ ctx[p].attempt \in Nat
  BY DEF Context
<1>1. /\ pc[p] \in {"validate", "record", "step", "store"} => Deciding(p)
      /\ pc'[p] \in {"validate", "record", "step", "store"} /\ cmd'[p] = "decide"
  BY DEF Deciding
<1>2. ASSUME UNCHANGED ctx PROVE Grows(ctx[p], ctx'[p])
  BY <1>2 DEF Grows
<1>3. CASE Load(p)
  BY <1>1, <1>3 DEF Load, SetCtx, Exit, Goto
<1>4. CASE Lock(p) \/ Reclaim(p) \/ Unlock(p)
  BY <1>1, <1>4 DEF Lock, Reclaim, Unlock, Goto, Exit
<1>5. CASE Validate(p) \/ Record(p)
  BY <1>1, <1>2, <1>5 DEF Validate, Record, local
<1>6. CASE Store(p) \/ StepEnded(p) \/ StepTerminal(p)
  BY <1>1, <1>6 DEF Store, StepEnded, StepTerminal, Returned, Goto
<1>7. CASE StepMaxRounds(p) \/ StepRequest(p)
  <2>1. PICK s : ctx'[p] = [ctx[p] EXCEPT !.status = s]
    BY <1>7 DEF StepMaxRounds, StepRequest, SetCtx
  <2>2. ctx'[p].attempt = ctx[p].attempt /\ ctx'[p].state = ctx[p].state
    BY <1>0, <2>1 DEF Context
  <2>3. QED
    BY <1>1, <1>7, <2>2 DEF StepMaxRounds, StepRequest, AtApproval, AtStep, Grows
<1>8. CASE StepDecided(p)
  <2>1. pc[p] = "step"
    BY <1>8 DEF StepDecided, AtApproval, AtStep
  <2>2. ~Throw(p)
    BY <1>1 DEF Throw, Exit, Goto, Registered
  <2>3. PICK tr : ctx'[p] = FinishIfTerminal(
                                Advance([ctx[p] EXCEPT !.status = "running"], tr))
    BY <1>8, <2>2 DEF StepDecided, SetCtx
  <2>4. ctx'[p].attempt = ctx[p].attempt + 1
    BY <1>0, <2>3 DEF FinishIfTerminal, Advance, Context
  <2>5. QED
    BY <1>0, <1>1, <2>1, <2>4 DEF Grows
<1>9. CASE StepRecover(p) \/ StepOrphan(p) \/ StepStart(p)
  BY <1>1, <1>9 DEF StepRecover, StepOrphan, StepStart, Goto
<1>10. QED
  BY <1>3, <1>4, <1>5, <1>6, <1>7, <1>8, <1>9, DeciderStep DEF DecideInv

LEMMA DecidersMove ==
    ASSUME IInv, [Next]_vars
    PROVE  DecidersMoved
<1> USE DEF IInv, TypeOK
<1>1. ASSUME NEW q \in Proc, Deciding(q)',
             pc'[q] = pc[q], cmd'[q] = cmd[q], ctx'[q] = ctx[q]
      PROVE  cmd[q] = "decide" /\ Deciding(q) /\ Grows(ctx[q], ctx'[q])
  BY <1>1 DEF Deciding, Grows
<1>2. ASSUME UNCHANGED <<pc, cmd, ctx>> PROVE DecidersMoved
  BY <1>1, <1>2 DEF DecidersMoved
<1>3. ASSUME NEW p \in Proc,
             \A q \in Proc \ {p} : pc'[q] = pc[q] /\ cmd'[q] = cmd[q] /\ ctx'[q] = ctx[q],
             Deciding(p)' => /\ cmd[p] = "decide"
                             /\ \/ pc[p] = "load" /\ ctx'[p] = disk
                                \/ Deciding(p) /\ Grows(ctx[p], ctx'[p])
      PROVE  DecidersMoved
  BY <1>1, <1>3 DEF DecidersMoved
<1>4. ASSUME NEW p \in Proc, Stop(p) PROVE DecidersMoved
  <2>1. pc[p] = "stop" /\ cmd[p] # "decide"
    BY <1>4 DEF Stop, DecideInv, DeciderInv, Decider, DeciderLabels
  <2>2. ASSUME NEW q \in Proc
        PROVE  \/ cmd'[q] # "decide"
               \/ pc'[q] = pc[q] /\ cmd'[q] = cmd[q] /\ ctx'[q] = ctx[q]
    BY <1>4, <2>1 DEF Stop, Kill, Forget, Goto, local
  <2>3. QED
    BY <1>1, <2>2 DEF DecidersMoved, Deciding
<1>5. ASSUME NEW p \in Proc, Step(p), ~Stop(p) PROVE DecidersMoved
  <2>1. /\ \A q \in Proc \ {p} : pc'[q] = pc[q] /\ cmd'[q] = cmd[q] /\ ctx'[q] = ctx[q]
        /\ Deciding(p)' => cmd[p] = "decide"
    BY <1>5, StepAlone DEF Deciding
  <2>2. QED
    BY <1>3, <1>5, <2>1, DecisionMoves
<1>6. ASSUME NEW p \in Proc, Crash(p) PROVE DecidersMoved
  <2>1. /\ \A q \in Proc \ {p} : pc'[q] = pc[q] /\ cmd'[q] = cmd[q] /\ ctx'[q] = ctx[q]
        /\ cmd'[p] = "resume"
    BY <1>6 DEF Crash, Kill, Forget, Goto
  <2>2. QED
    BY <1>3, <2>1 DEF Deciding
<1>7. ASSUME NEW p \in Proc, NEW c \in Commands, Launch(p, c) PROVE DecidersMoved
  <2>1. /\ \A q \in Proc \ {p} : pc'[q] = pc[q] /\ cmd'[q] = cmd[q] /\ ctx'[q] = ctx[q]
        /\ pc'[p] \in {"lock", "load"}
    BY <1>7 DEF Launch, Goto
  <2>2. QED
    BY <1>3, <2>1 DEF Deciding
<1>8. ASSUME NEW g \in agents, AgentEnds(g) PROVE DecidersMoved
  BY <1>2, <1>8 DEF AgentEnds, local
<1>9. ASSUME UNCHANGED vars PROVE DecidersMoved
  BY <1>2, <1>9 DEF vars, local
<1>10. QED
  BY <1>4, <1>5, <1>6, <1>7, <1>8, <1>9 DEF Next, Progress, OrderlyLaunch

----------------------------------------------------------------------------
(* The invariant of the discipline and its theorems.                       *)

LEMMA OrderInit == Init => OrderInv /\ StartedInv
<1> SUFFICES ASSUME Init PROVE OrderInv /\ StartedInv
  OBVIOUS
<1>1. /\ Busy = {} /\ marker \notin Proc /\ DOMAIN log = {}
      /\ \A p \in Proc : pc[p] = "idle" /\ cmd[p] = "resume"
  BY ProcessAssumption DEF Init, Busy
<1>2. \A p \in Proc : Labelled(p) /\ Holds(p)
  BY <1>1 DEF Labelled, Holds, MarkedLabels, CancelLabels, DecideLabels, RetryLabels,
              Fresh, Saving
<1>3. BlockedAtApproval
  BY DEF Init, Context0, BlockedAtApproval
<1>4. QED
  BY <1>1, <1>2, <1>3 DEF OrderInv, Disciplined, Tracks, StartedInv, Behind, Deciding

\* A step of a process whose memory is up to date.
LEMMA HolderOrders ==
    ASSUME IInv, LogInv, OrderInv, NEW p \in Proc, Holds(p), Step(p)
    PROVE  OthersInv' /\ Kept
<1>0. TypeOK /\ BlockedAtApproval
  BY DEF IInv, OrderInv
<1>1. ASSUME Works(p) PROVE OthersInv'
  BY <1>1, WorksKeeps DEF OthersInv
<1>2. CASE RetrySave(p) \/ EnterLoop(p) \/ Save(p)
  BY <1>0, <1>1, <1>2, LoopWorks, DiskKept
<1>3. CASE Store(p) \/ StoreFailed(p) \/ CancelSave(p)
  BY <1>0, <1>1, <1>3, SaveWorks, DiskKept
<1>4. CASE RetryGuard(p) \/ RetryEvent(p) \/ Loop(p) \/ Leave(p)
  BY <1>0, <1>1, <1>4, LoopWorks, SameKept
  DEF RetryGuard, RetryEvent, Loop, Leave, shared
<1>5. CASE \/ Validate(p) \/ Record(p) \/ Unlock(p)
           \/ Unmark(p) \/ Reload(p) \/ CancelEvent(p)
  BY <1>0, <1>1, <1>5, SaveWorks, SameKept
  DEF Validate, Record, Unlock, Unmark, Reload, CancelEvent, shared
<1>6. CASE \/ StepEnded(p) \/ StepMaxRounds(p) \/ StepTerminal(p)
           \/ StepRequest(p) \/ StepDecided(p)
           \/ StepRecover(p) \/ StepOrphan(p) \/ StepStart(p)
           \/ Complete(p) \/ Break(p) \/ Select(p)
  BY <1>0, <1>1, <1>6, StepWorks, SameKept
<1>7. CASE Register(p)
  BY <1>0, <1>7, RegisterKeeps, SameKept DEF Register
<1>8. CASE Load(p)
  BY <1>0, <1>8, LoadKeeps, SameKept DEF Load, shared
<1>9. CASE Lock(p) \/ Reclaim(p)
  BY <1>0, <1>9, LockKeeps, SameKept DEF Lock, Reclaim
<1>10. CASE Stop(p)
  BY <1>0, <1>10, StopsKeeps, SameKept DEF Stop
<1>11. QED
  BY <1>2, <1>3, <1>4, <1>5, <1>6, <1>7, <1>8, <1>9, <1>10 DEF Step

LEMMA ProcessOrders ==
    ASSUME IInv, IInv', LogInv, OrderInv, NEW p \in Proc,
           Step(p) \/ Crash(p) \/ \E c \in Commands : OrderlyLaunch(p, c)
    PROVE  OthersInv' /\ Kept
<1>0. TypeOK /\ BlockedAtApproval
  BY DEF IInv, OrderInv
<1>1. CASE Step(p) /\ Holds(p)
  BY <1>1, HolderOrders
<1>2. CASE Step(p) /\ ~Holds(p)
  <2>1. Exempt(p) /\ pc[p] \notin Passive
    BY <1>2 DEF OrderInv, Tracks, Holds, Passive, Fresh, Saving
  <2>2. QED
    BY <1>2, <2>1, StaleWorks, StaleKept, WorksKeeps DEF OthersInv
<1>3. CASE Crash(p)
  BY <1>0, <1>3, CrashKeeps, SameKept DEF Crash
<1>4. ASSUME NEW c \in Commands, OrderlyLaunch(p, c) PROVE OthersInv' /\ Kept
  BY <1>0, <1>4, LaunchKeeps, SameKept DEF OrderlyLaunch, Launch, shared
<1>5. QED
  BY <1>1, <1>2, <1>3, <1>4

LEMMA OrderNext ==
    ASSUME IInv, IInv', LogInv, OrderInv, [Next]_vars
    PROVE  OrderInv' /\ Kept
<1>1. ASSUME NEW p \in Proc,
             Step(p) \/ Crash(p) \/ \E c \in Commands : OrderlyLaunch(p, c)
      PROVE  OthersInv' /\ Kept
  BY <1>1, ProcessOrders
<1>2. ASSUME UNCHANGED <<disk, marker, pc, cmd, ctx, breach>> PROVE OthersInv' /\ Kept
  <2>1. Disciplined' /\ \A q \in Proc : Labelled(q)'
    BY <1>2 DEF OrderInv, Disciplined, Busy, Asking, Labelled, Registered
  <2>2. \A q \in Proc : Tracks(q)'
    BY <1>2, OtherTracks DEF OrderInv
  <2>3. QED
    BY <1>2, <2>1, <2>2, SameKept DEF OthersInv, OrderInv
<1>3. ASSUME NEW g \in agents, AgentEnds(g) PROVE OthersInv' /\ Kept
  BY <1>2, <1>3 DEF AgentEnds, local
<1>4. ASSUME UNCHANGED vars PROVE OthersInv' /\ Kept
  BY <1>2, <1>4 DEF vars, shared, local
<1>5. OthersInv' /\ Kept
  <2>1. CASE \E p \in Proc : Step(p) \/ Crash(p)
    BY <1>1, <2>1
  <2>2. CASE \E p \in Proc, c \in Commands : OrderlyLaunch(p, c)
    BY <1>1, <2>2
  <2>3. CASE \E g \in agents : AgentEnds(g)
    BY <1>3, <2>3
  <2>4. QED
    BY <1>4, <2>1, <2>2, <2>3 DEF Next, Progress
<1>6. QED
  BY <1>5 DEF OthersInv, OrderInv, Kept

\* The attempts in the log are numbered by state.edn.
LEMMA StartedNext ==
    ASSUME IInv, TypeOK', OrderInv, Recorded, Kept, DecidersMoved, StartedInv,
           AttemptNamesOneState
    PROVE  StartedInv' /\ AttemptNamesOneState'
<1> USE TypeParts, TypePartsNext DEF IInv
<1>0. /\ \A i \in DOMAIN log : log'[i] = log[i]
      /\ \A i \in DOMAIN log' : log'[i].attempt \in Nat
      /\ disk.attempt \in Nat /\ disk'.attempt \in Nat
  <2>1. \A e \in EventType : e.attempt \in Nat
    BY DEF EventType
  <2>2. \A i \in DOMAIN log' : log'[i] \in EventType
    OBVIOUS
  <2>3. QED
    BY <2>1, <2>2 DEF Recorded, Appends, Context
<1>1. \A q \in Proc : ctx[q].attempt \in Nat /\ ctx'[q].attempt \in Nat
  BY DEF MemoryOK, Context
<1>2. ASSUME NEW i \in DOMAIN log', i \notin DOMAIN log, log'[i].event = "node.started"
      PROVE  /\ i = Len(log) + 1
             /\ log'[i].attempt = disk.attempt /\ log'[i].state = disk.state
             /\ \A q \in Proc : ~Deciding(q)'
  <2>1. i = Len(log) + 1 /\ Justified(log'[i])
    BY <1>2 DEF Recorded, New
  <2>2. PICK p \in Proc : /\ AtNode(p)
                          /\ IdOf(ctx[p]) = <<log'[i].state, log'[i].attempt>>
    BY <1>2, <2>1 DEF Justified
  <2>3. pc[p] = "step" /\ cmd[p] # "decide"
    BY <2>2 DEF AtNode, AtStep, DecideInv, DeciderInv, Decider
  <2>4. ctx[p] = disk
    BY <2>3 DEF OrderInv, Tracks, Exempt, Holds, Fresh
  <2>5. ASSUME NEW q \in Proc, Deciding(q)' PROVE FALSE
    <3>1. cmd[q] = "decide" /\ pc[q] # "idle"
      BY <2>5 DEF DecidersMoved, Deciding
    <3>2. QED
      BY <2>3, <3>1 DEF OrderInv, Disciplined, Busy, Asking
  <2>6. QED
    BY <2>1, <2>2, <2>4, <2>5 DEF IdOf
<1>3. \A i \in DOMAIN log' : log'[i].event = "node.started" =>
          \/ log'[i].attempt < disk.attempt
          \/ log'[i].attempt = disk.attempt /\ log'[i].state = disk.state
  BY <1>0, <1>2 DEF StartedInv, Behind
<1>4. StartedInv'
  <2>1. Behind(disk)'
    <3>1. CASE Grows(disk, disk')
      BY <1>0, <1>3, <3>1 DEF Grows, Behind
    <3>2. CASE \E p \in Proc : Exempt(p) /\ Store(p)
      <4>1. PICK p \in Proc : Exempt(p) /\ Store(p)
        BY <3>2
      <4>2. log' = log /\ disk' = ctx[p] /\ Deciding(p)
        BY <4>1 DEF Store, Exempt, Deciding
      <4>3. QED
        BY <4>2 DEF StartedInv, Behind
    <3>3. QED
      BY <3>1, <3>2 DEF Kept
  <2>2. ASSUME NEW q \in Proc, Deciding(q)' PROVE Behind(ctx[q])'
    <3>1. CASE ctx'[q] = disk
      BY <1>3, <3>1 DEF Behind
    <3>2. CASE Deciding(q) /\ Grows(ctx[q], ctx'[q])
      <4>1. \A i \in DOMAIN log' : log'[i].event = "node.started" => i \in DOMAIN log
        BY <1>2, <2>2
      <4>2. ASSUME NEW i \in DOMAIN log', log'[i].event = "node.started"
            PROVE  \/ log'[i].attempt < ctx'[q].attempt
                   \/ log'[i].attempt = ctx'[q].attempt /\ log'[i].state = ctx'[q].state
        <5>1. i \in DOMAIN log /\ log'[i] = log[i]
          BY <1>0, <4>1, <4>2
        <5>2. \/ log[i].attempt < ctx[q].attempt
              \/ log[i].attempt = ctx[q].attempt /\ log[i].state = ctx[q].state
          BY <3>2, <4>2, <5>1 DEF StartedInv, Behind
        <5>3. QED
          BY <1>0, <1>1, <3>2, <4>2, <5>1, <5>2 DEF Grows
      <4>3. QED
        BY <4>2 DEF Behind
    <3>3. QED
      BY <2>2, <3>1, <3>2 DEF DecidersMoved
  <2>3. QED
    BY <2>1, <2>2 DEF StartedInv
<1>5. AttemptNamesOneState'
  <2> SUFFICES ASSUME NEW i \in DOMAIN log', NEW j \in DOMAIN log',
                      log'[i].event = "node.started", log'[j].event = "node.started",
                      log'[i].attempt = log'[j].attempt
               PROVE  log'[i].state = log'[j].state
    BY DEF AttemptNamesOneState
  <2>1. CASE i \in DOMAIN log /\ j \in DOMAIN log
    BY <1>0, <2>1 DEF AttemptNamesOneState
  <2>2. CASE i \notin DOMAIN log \/ j \notin DOMAIN log
    <3>1. log'[i].attempt = disk.attempt /\ log'[j].attempt = disk.attempt
      BY <1>2, <2>2
    <3>2. log'[i].state = disk.state /\ log'[j].state = disk.state
      BY <1>0, <1>3, <3>1
    <3>3. QED
      BY <3>2
  <2>3. QED
    BY <2>1, <2>2
<1>6. QED
  BY <1>4, <1>5

\* All of it together.
DisciplineInv == IInv /\ LogInv /\ OrderInv /\ StartedInv /\ AttemptNamesOneState

LEMMA DisciplineNext ==
    ASSUME DisciplineInv, [Next]_vars
    PROVE  DisciplineInv' /\ Agreed
<1>1. [FreeNext]_vars
  BY DEF Next, FreeNext, OrderlyLaunch
<1>2. IInv' /\ Recorded /\ LogInv'
  BY <1>1, NextKeeps, LogNext DEF DisciplineInv
<1>3. OrderInv' /\ Kept /\ DecidersMoved
  BY <1>2, OrderNext, DecidersMove DEF DisciplineInv
<1>4. StartedInv' /\ AttemptNamesOneState'
  BY <1>2, <1>3, StartedNext DEF DisciplineInv, IInv
<1>5. QED
  BY <1>2, <1>3, <1>4 DEF DisciplineInv, Kept

LEMMA DisciplineInductive == Spec => []DisciplineInv
<1>1. Init => DisciplineInv
  <2>1. Init => AttemptNamesOneState
    BY DEF Init, AttemptNamesOneState
  <2>2. QED
    BY <2>1, InitInv, LogInit, OrderInit DEF DisciplineInv
<1>2. DisciplineInv /\ [Next]_vars => DisciplineInv'
  BY DisciplineNext
<1>3. QED
  BY <1>1, <1>2, PTL DEF Spec

\* advance and retry! (transitions.clj, lifecycle.clj) number attempts so that
\* a number belongs to one node for ever, when one command at a time works on
\* the run, decisions may come together and a runner may be cancelled.
THEOREM AttemptsNameStates == Spec => []AttemptNamesOneState
<1>1. DisciplineInv => AttemptNamesOneState
  BY DEF DisciplineInv
<1>2. QED
  BY <1>1, DisciplineInductive, PTL

\* Under the same discipline state.edn obeys RunContract step for step, as long
\* as no two decisions were inside the lock together (store.clj with-run-lock;
\* that takes a process killed inside): the run moves along edges only, with a
\* fresh attempt, and leaves its end only by a retry, whatever is killed
\* between two file operations.
THEOREM EngineObeysContract == Spec => ImplementsContract
<1>1. Init => Contract!Init
  BY DEF Init, Context0, Contract!Init, RunRecord
<1>2. DisciplineInv /\ [Next]_vars => Agreed
  BY DisciplineNext
<1>3. QED
  BY <1>1, <1>2, DisciplineInductive, PTL DEF Spec, ImplementsContract, Agreed

----------------------------------------------------------------------------
(* The step budget.                                                        *)

\* What a registered runner does until its next save has a step to spend ...
Unspent == {"load", "guard", "retrysave", "recovery", "register", "enter",
            "step", "run", "select", "store", "storefail", "save"}

\* ... which ends at a node nobody has started under its attempt.
Untouched(c) == ~Logged("node.started", c)
WithinBudget(p) ==
    /\ pc[p] = "leave" => Registered(p)
    /\ Registered(p) =>
        /\ pc[p] \in Unspent => steps[p] > 0
        /\ pc[p] \in {"store", "save"} /\ ctx[p].status = "running"
            => Untouched(ctx[p])
        /\ pc[p] \in {"loop", "leave"} /\ steps[p] <= 0 /\ disk.status = "running"
            => Untouched(disk)
BudgetInv == \A p \in Proc : WithinBudget(p)

\* A process that is gone.
LEMMA ExitBudget ==
    ASSUME IInv, NEW p \in Proc, Exit(p)
    PROVE  WithinBudget(p)'
<1>1. pc'[p] = "idle"
  BY DEF Exit, Goto, IInv, TypeOK
<1>2. QED
  BY <1>1 DEF WithinBudget, Unspent

\* A step that leaves steps alone and ends before the next save.
LEMMA GoBudget ==
    ASSUME IInv, NEW p \in Proc, WithinBudget(p), pc[p] \in Unspent, NEW l,
           Goto(p, l), UNCHANGED <<cmd, steps>>,
           l \in Labels \ {"leave"},
           l \in {"store", "save"} /\ ctx'[p].status = "running" => Untouched(ctx[p])'
    PROVE  WithinBudget(p)'
<1>1. pc'[p] = l /\ steps[p] \in Int
  BY DEF Goto, IInv, TypeOK
<1>2. Registered(p)' => Registered(p) /\ steps'[p] > 0
  BY DEF WithinBudget, Registered
<1>3. QED
  BY <1>1, <1>2 DEF WithinBudget

\* An exception comes with a step to spend.
LEMMA ThrowBudget ==
    ASSUME IInv, NEW p \in Proc, WithinBudget(p), pc[p] \in Unspent, Throw(p)
    PROVE  WithinBudget(p)'
<1> USE DEF IInv, TypeOK
<1>1. CASE Registered(p)
  <2>0. Goto(p, "leave") /\ UNCHANGED local
    BY <1>1 DEF Throw, Registered
  <2>1. pc'[p] = "leave" /\ UNCHANGED <<cmd, steps>> /\ steps[p] > 0
    BY <1>1, <2>0 DEF Goto, local, WithinBudget
  <2>2. steps[p] \in Int
    OBVIOUS
  <2>3. QED
    BY <1>1, <2>1, <2>2 DEF WithinBudget, Registered, Unspent
<1>2. CASE ~Registered(p) /\ cmd[p] = "decide"
  <2>1. pc'[p] = "unlock"
    BY <1>2 DEF Throw, Goto, Registered
  <2>2. QED
    BY <2>1 DEF WithinBudget, Unspent
<1>3. CASE ~Registered(p) /\ cmd[p] # "decide"
  BY <1>3, ExitBudget DEF Throw
<1>4. QED
  BY <1>1, <1>2, <1>3

\* A new attempt has not been started by anyone.
LEMMA AdvanceBudget ==
    ASSUME IInv, IInv', StartedInv', UNCHANGED disk, NEW p \in Proc,
           NEW c \in Context, NEW tr \in Transition,
           c.attempt = disk.attempt,
           ctx'[p] = FinishIfTerminal(Advance(c, tr))
    PROVE  Untouched(ctx[p])'
<1>1. ctx'[p].attempt = disk'.attempt + 1 /\ disk'.attempt \in Nat
  BY DEF FinishIfTerminal, Advance, IInv, TypeOK, Context
<1>2. QED
  BY <1>1 DEF StartedInv, Behind, Untouched, Logged

\* Commands, retries and the loop.
LEMMA LoopBudget ==
    ASSUME IInv, NEW p \in Proc, WithinBudget(p),
           \/ Load(p) \/ RetryGuard(p) \/ RetrySave(p) \/ RetryEvent(p)
           \/ Register(p) \/ EnterLoop(p) \/ Loop(p) \/ Leave(p)
    PROVE  WithinBudget(p)'
<1> USE DEF Labels
<1>1. CASE Load(p)
  <2>1. CASE cmd[p] = "cancel" /\ Exit(p)
    BY <2>1, ExitBudget
  <2>2. CASE cmd[p] = "cancel" /\ ~Exit(p)
    BY <1>1, <2>2, GoBudget DEF Load, Unspent, local
  <2>3. CASE cmd[p] # "cancel"
    <3>1. AfterLoad[cmd[p]] \in {"register", "enter", "step", "guard", "validate"}
      BY <2>3 DEF AfterLoad, IInv, TypeOK, Commands
    <3>2. QED
      BY <1>1, <2>3, <3>1, GoBudget DEF Load, Unspent
  <2>4. QED
    BY <2>1, <2>2, <2>3
<1>2. CASE RetryGuard(p)
  BY <1>2, GoBudget, ExitBudget DEF RetryGuard, Unspent
<1>3. CASE RetrySave(p) \/ RetryEvent(p) \/ Register(p) \/ EnterLoop(p)
  BY <1>3, GoBudget DEF RetrySave, RetryEvent, Register, EnterLoop, Unspent, local
<1>4. CASE Loop(p)
  <2>1. CASE ~Parked(p)
    <3>1. /\ pc'[p] = "step" /\ UNCHANGED <<cmd, steps>>
          /\ steps[p] > 0
      BY <1>4, <2>1 DEF Loop, Parked, Goto, local, IInv, TypeOK
    <3>2. QED
      BY <3>1 DEF WithinBudget, Registered
  <2>2. CASE Parked(p) /\ Registered(p)
    <3>1. /\ pc[p] = "loop" /\ pc'[p] = "leave"
          /\ UNCHANGED <<cmd, steps, disk, log>>
      BY <1>4, <2>2 DEF Loop, Goto, local, shared, IInv, TypeOK
    <3>2. QED
      BY <2>2, <3>1 DEF WithinBudget, Registered, Unspent, Untouched, Logged
  <2>3. CASE Parked(p) /\ ~Registered(p)
    BY <1>4, <2>3, ExitBudget DEF Loop
  <2>4. QED
    BY <2>1, <2>2, <2>3
<1>5. CASE Leave(p)
  BY <1>5, ExitBudget DEF Leave
<1>6. QED
  BY <1>1, <1>2, <1>3, <1>4, <1>5

\* A save spends a step, and puts what it ends with on disk.
LEMMA SaveBudget ==
    ASSUME IInv, NEW p \in Proc, WithinBudget(p), Save(p)
    PROVE  WithinBudget(p)'
<1>1. CASE cmd[p] = "step"
  BY <1>1, ExitBudget DEF Save
<1>2. CASE cmd[p] # "step"
  <2>1. /\ pc[p] = "save" /\ pc'[p] = "loop"
        /\ UNCHANGED <<cmd, log>> /\ disk' = ctx[p]
    BY <1>2 DEF Save, Goto, IInv, TypeOK
  <2>2. QED
    BY <2>1 DEF WithinBudget, Registered, Unspent, Untouched, Logged
<1>3. QED
  BY <1>1, <1>2

\* The branches of step!.
LEMMA StepBudget ==
    ASSUME IInv, IInv', StartedInv', NEW p \in Proc, WithinBudget(p),
           Registered(p) => Holds(p),
           \/ StepEnded(p) \/ StepMaxRounds(p) \/ StepTerminal(p)
           \/ StepRequest(p) \/ StepDecided(p)
           \/ StepRecover(p) \/ StepOrphan(p) \/ StepStart(p)
    PROVE  WithinBudget(p)'
<1> USE DEF Labels
<1>0. pc[p] = "step" /\ pc[p] \in Unspent /\ ctx[p] \in Context
  BY DEF StepEnded, StepMaxRounds, StepTerminal, StepRequest, StepDecided,
         StepRecover, StepOrphan, StepStart, AtApproval, AtNode, AtStep, Unspent,
         IInv, TypeOK
<1>1. CASE StepEnded(p)
  BY <1>0, <1>1, GoBudget DEF StepEnded, Returned, IsTerminal, local
<1>2. CASE StepMaxRounds(p) \/ StepRequest(p)
  <2>1. ctx'[p].status # "running"
    BY <1>0, <1>2 DEF StepMaxRounds, StepRequest, SetCtx, IInv, TypeOK, Context
  <2>2. QED
    BY <1>0, <1>2, <2>1, GoBudget DEF StepMaxRounds, StepRequest
<1>3. CASE StepTerminal(p)
  <2>1. ctx'[p].status # "running"
    BY <1>0, <1>3 DEF StepTerminal, SetCtx, FinishIfTerminal, IInv, TypeOK, Context
  <2>2. QED
    BY <1>0, <1>3, <2>1, GoBudget DEF StepTerminal, Returned
<1>4. CASE StepDecided(p)
  <2>1. PICK x \in Decided(p) :
            \/ Throw(p)
            \/ \E tr \in Chosen(ctx[p].state, x.decision) :
                /\ SetCtx(p, FinishIfTerminal(
                                Advance([ctx[p] EXCEPT !.status = "running"], tr)))
                /\ Goto(p, "store")
                /\ UNCHANGED <<cmd, steps, value, ask>>
    BY <1>4 DEF StepDecided
  <2>2. CASE Throw(p)
    BY <1>0, <2>2, ThrowBudget
  <2>3. CASE ~Registered(p) /\ ~Throw(p)
    BY <1>0, <2>1, <2>3 DEF WithinBudget, Registered, Goto, IInv, TypeOK
  <2>4. CASE Registered(p) /\ ~Throw(p)
    <3>1. PICK tr \in Chosen(ctx[p].state, x.decision) :
              /\ SetCtx(p, FinishIfTerminal(
                              Advance([ctx[p] EXCEPT !.status = "running"], tr)))
              /\ Goto(p, "store")
              /\ UNCHANGED <<cmd, steps, value, ask>>
      BY <2>1, <2>4
    <3>2. tr \in Transition
      BY <1>0, ChosenTyped DEF Context
    <3>3. [ctx[p] EXCEPT !.status = "running"] \in Context
      BY <1>0, StatusTyped DEF Statuses
    <3>4. [ctx[p] EXCEPT !.status = "running"].attempt = disk.attempt
      BY <1>0, <2>4 DEF Holds, Fresh, Context
    <3>5. ctx'[p] = FinishIfTerminal(Advance([ctx[p] EXCEPT !.status = "running"], tr))
      BY <3>1 DEF SetCtx, IInv, TypeOK
    <3>6. Untouched(ctx[p])'
      BY <1>4, <3>2, <3>3, <3>4, <3>5, AdvanceBudget DEF StepDecided
    <3>7. QED
      BY <1>0, <3>1, <3>6, GoBudget
  <2>5. QED
    BY <2>2, <2>3, <2>4
<1>5. CASE StepRecover(p) \/ StepOrphan(p) \/ StepStart(p)
  BY <1>0, <1>5, GoBudget DEF StepRecover, StepOrphan, StepStart, local
<1>6. QED
  BY <1>1, <1>2, <1>3, <1>4, <1>5

\* What follows the execution of a node, and the saves of step!.
LEMMA RunBudget ==
    ASSUME IInv, IInv', StartedInv', NEW p \in Proc, WithinBudget(p),
           Registered(p) => Holds(p),
           Complete(p) \/ Break(p) \/ Select(p) \/ Store(p) \/ StoreFailed(p)
    PROVE  WithinBudget(p)'
<1> USE DEF Labels
<1>1. CASE Complete(p) \/ Break(p)
  BY <1>1, GoBudget DEF Complete, Break, Unspent
<1>2. CASE Select(p)
  <2>0. pc[p] = "select" /\ pc[p] \in Unspent /\ ctx[p] \in Context
    BY <1>2 DEF Select, Unspent, IInv, TypeOK
  <2>1. CASE Throw(p)
    BY <2>0, <2>1, ThrowBudget
  <2>2. CASE ~Throw(p)
    <3>1. PICK tr \in Chosen(ctx[p].state, value[p]) :
              /\ SetCtx(p, FinishIfTerminal(Advance(ctx[p], tr)))
              /\ Goto(p, Returned(p))
              /\ UNCHANGED <<cmd, steps, ask>>
      BY <1>2, <2>2 DEF Select
    <3>2. tr \in Transition
      BY <2>0, ChosenTyped DEF Context
    <3>3. ctx'[p] = FinishIfTerminal(Advance(ctx[p], tr))
      BY <3>1 DEF SetCtx, IInv, TypeOK
    <3>4. CASE Registered(p)
      <4>1. ctx[p].attempt = disk.attempt
        BY <2>0, <3>4 DEF Holds, Fresh
      <4>2. Untouched(ctx[p])'
        BY <1>2, <2>0, <3>2, <3>3, <4>1, AdvanceBudget DEF Select
      <4>3. QED
        BY <2>0, <3>1, <4>2, GoBudget DEF Returned
    <3>5. CASE ~Registered(p)
      <4>1. ~Registered(p)' /\ pc'[p] # "leave"
        BY <3>1, <3>5 DEF Registered, Returned, Goto, IInv, TypeOK
      <4>2. QED
        BY <4>1 DEF WithinBudget
    <3>6. QED
      BY <3>4, <3>5
  <2>3. QED
    BY <2>1, <2>2
<1>3. CASE Store(p)
  <2>1. /\ pc[p] = "store" /\ Goto(p, Returned(p))
        /\ UNCHANGED <<cmd, steps, ctx, log>>
    BY <1>3 DEF Store, local
  <2>2. ctx'[p].status = "running" /\ Registered(p) => Untouched(ctx[p])'
    BY <2>1 DEF WithinBudget, Untouched, Logged
  <2>3. pc'[p] = Returned(p) /\ Returned(p) \in {"unlock", "save"}
    BY <2>1 DEF Goto, Returned, IInv, TypeOK
  <2>4. QED
    BY <2>1, <2>2, <2>3 DEF WithinBudget, Registered, Unspent
<1>4. CASE StoreFailed(p)
  BY <1>4, ThrowBudget DEF StoreFailed, Unspent
<1>5. QED
  BY <1>1, <1>2, <1>3, <1>4

\* Decisions and cancels have no budget.
LEMMA OtherBudget ==
    ASSUME IInv, OrderInv, NEW p \in Proc, WithinBudget(p),
           \/ Lock(p) \/ Reclaim(p) \/ Validate(p) \/ Record(p) \/ Unlock(p)
           \/ Stop(p) \/ Unmark(p) \/ Reload(p) \/ CancelEvent(p) \/ CancelSave(p)
    PROVE  WithinBudget(p)'
<1>1. cmd[p] \in {"decide", "cancel"}
  BY DEF OrderInv, Labelled, CancelLabels, DecideLabels, Lock, Reclaim, Validate,
         Record, Unlock, Stop, Unmark, Reload, CancelEvent, CancelSave
<1>2. ASSUME Exit(p) PROVE WithinBudget(p)'
  BY <1>2, ExitBudget
<1>3. ASSUME NEW l \in Labels \ {"leave"}, Goto(p, l), cmd'[p] = cmd[p]
      PROVE  WithinBudget(p)'
  BY <1>1, <1>3 DEF WithinBudget, Registered, Goto, IInv, TypeOK
<1>4. CASE Lock(p) \/ Reclaim(p)
  BY <1>2, <1>3, <1>4 DEF Lock, Reclaim, local, Labels
<1>5. CASE Validate(p) \/ Record(p) \/ Unlock(p)
  BY <1>2, <1>3, <1>5 DEF Validate, Record, Unlock, local, Labels
<1>6. CASE Unmark(p) \/ Reload(p) \/ CancelEvent(p) \/ CancelSave(p)
  BY <1>2, <1>3, <1>6 DEF Unmark, Reload, CancelEvent, CancelSave, local, Labels
<1>7. CASE Stop(p)
  <2>1. pc'[p] \in {"unmark", "idle"}
    BY <1>7 DEF Stop, Goto, IInv, TypeOK
  <2>2. QED
    BY <2>1 DEF WithinBudget, Unspent
<1>8. QED
  BY <1>4, <1>5, <1>6, <1>7

\* A process that does not move keeps within its budget if the run stays as it
\* was, or if it has not looked at it.
LEMMA StandingBudget ==
    ASSUME NEW p \in Proc, WithinBudget(p),
           pc'[p] = pc[p], cmd'[p] = cmd[p], ctx'[p] = ctx[p], steps'[p] = steps[p],
           UNCHANGED <<disk, log>> \/ pc[p] \in Passive \/ ~Registered(p)
    PROVE  WithinBudget(p)'
<1>1. CASE UNCHANGED <<disk, log>>
  BY <1>1 DEF WithinBudget, Registered, Untouched, Logged
<1>2. CASE pc[p] \in Passive \/ ~Registered(p)
  BY <1>2 DEF WithinBudget, Registered, Passive
<1>3. QED
  BY <1>1, <1>2

\* Who steps keeps within its budget.
LEMMA OwnBudget ==
    ASSUME IInv, IInv', OrderInv, StartedInv', NEW p \in Proc, WithinBudget(p),
           Step(p)
    PROVE  WithinBudget(p)'
<1>1. Registered(p) => Holds(p)
  BY DEF OrderInv, Tracks, Exempt, Registered
<1>2. CASE \/ Load(p) \/ RetryGuard(p) \/ RetrySave(p) \/ RetryEvent(p)
           \/ Register(p) \/ EnterLoop(p) \/ Loop(p) \/ Leave(p)
  BY <1>2, LoopBudget
<1>3. CASE Save(p)
  BY <1>3, SaveBudget
<1>4. CASE \/ StepEnded(p) \/ StepMaxRounds(p) \/ StepTerminal(p)
           \/ StepRequest(p) \/ StepDecided(p)
           \/ StepRecover(p) \/ StepOrphan(p) \/ StepStart(p)
  BY <1>1, <1>4, StepBudget
<1>5. CASE Complete(p) \/ Break(p) \/ Select(p) \/ Store(p) \/ StoreFailed(p)
  BY <1>1, <1>5, RunBudget
<1>6. CASE \/ Lock(p) \/ Reclaim(p) \/ Validate(p) \/ Record(p) \/ Unlock(p)
           \/ Stop(p) \/ Unmark(p) \/ Reload(p) \/ CancelEvent(p) \/ CancelSave(p)
  BY <1>6, OtherBudget
<1>7. QED
  BY <1>2, <1>3, <1>4, <1>5, <1>6 DEF Step

\* Who has not looked at the run changes neither state.edn nor the log.
LEMMA PassiveReads ==
    ASSUME NEW p \in Proc, pc[p] \in Passive, Step(p)
    PROVE  UNCHANGED <<disk, log>>
<1>1. Load(p) \/ Lock(p) \/ Reclaim(p) \/ Stop(p)
  BY DEF Passive, Step, RetryGuard, RetrySave, RetryEvent, Register, EnterLoop, Loop,
         Save, Leave, StepEnded, StepMaxRounds, StepTerminal, StepRequest, StepDecided,
         StepRecover, StepOrphan, StepStart, AtApproval, AtNode, AtStep, Complete, Break,
         Select, Store, StoreFailed, Validate, Record, Unlock, Unmark, Reload,
         CancelEvent, CancelSave
<1>2. QED
  BY <1>1 DEF Load, Lock, Reclaim, Stop, shared

\* ... and so do the others.
LEMMA StepKeepsBudget ==
    ASSUME IInv, IInv', OrderInv, StartedInv', BudgetInv, NEW p \in Proc, Step(p)
    PROVE  BudgetInv'
<1>1. WithinBudget(p)'
  BY OwnBudget DEF BudgetInv
<1>2. ASSUME NEW q \in Proc \ {p} PROVE WithinBudget(q)'
  <2>1. CASE Stop(p)
    <3>1. pc[p] = "stop" /\ pc[p] # "idle" /\ marker # p
      BY <2>1 DEF Stop, OrderInv, Labelled, MarkedLabels
    <3>2. \/ pc'[q] = "idle"
          \/ /\ pc'[q] = pc[q] /\ cmd'[q] = cmd[q] /\ ctx'[q] = ctx[q]
             /\ steps'[q] = steps[q]
      BY <2>1, <3>1 DEF Stop, Kill, Forget, Goto, local, IInv, TypeOK
    <3>3. UNCHANGED <<disk, log>>
      BY <2>1 DEF Stop
    <3>4. CASE pc'[q] = "idle"
      BY <3>4 DEF WithinBudget, Unspent
    <3>5. QED
      BY <3>2, <3>3, <3>4, StandingBudget DEF BudgetInv
  <2>2. CASE ~Stop(p)
    <3>1. /\ pc'[q] = pc[q] /\ cmd'[q] = cmd[q] /\ ctx'[q] = ctx[q]
          /\ steps'[q] = steps[q]
      BY <2>2, StepAlone DEF IInv
    <3>2. CASE pc[p] \in Passive
      BY <3>1, <3>2, PassiveReads, StandingBudget DEF BudgetInv
    <3>3. CASE pc[p] \notin Passive
      <4>1. pc[q] \in Passive \/ ~Registered(q)
        BY <3>3, WorksAlone DEF Exempt, Registered
      <4>2. QED
        BY <3>1, <4>1, StandingBudget DEF BudgetInv
    <3>4. QED
      BY <3>2, <3>3
  <2>3. QED
    BY <2>1, <2>2
<1>3. QED
  BY <1>1, <1>2 DEF BudgetInv

LEMMA BudgetNext ==
    ASSUME DisciplineInv, DisciplineInv', BudgetInv, [Next]_vars
    PROVE  BudgetInv'
<1> USE DEF DisciplineInv
<1>1. ASSUME NEW p \in Proc, Step(p) PROVE BudgetInv'
  BY <1>1, StepKeepsBudget
<1>2. ASSUME NEW p \in Proc, Crash(p) PROVE BudgetInv'
  <2>1. /\ pc'[p] = "idle" /\ UNCHANGED <<disk, log>>
        /\ \A q \in Proc \ {p} : /\ pc'[q] = pc[q] /\ cmd'[q] = cmd[q]
                                 /\ ctx'[q] = ctx[q] /\ steps'[q] = steps[q]
    BY <1>2 DEF Crash, Kill, Forget, Goto, IInv, TypeOK
  <2>2. WithinBudget(p)'
    BY <2>1 DEF WithinBudget, Unspent
  <2>3. QED
    BY <2>1, <2>2, StandingBudget DEF BudgetInv
<1>3. ASSUME NEW p \in Proc, NEW c \in Commands, Launch(p, c) PROVE BudgetInv'
  <2>1. /\ pc'[p] \in {"load", "lock"} /\ UNCHANGED <<disk, log>>
        /\ \A q \in Proc \ {p} : /\ pc'[q] = pc[q] /\ cmd'[q] = cmd[q]
                                 /\ ctx'[q] = ctx[q] /\ steps'[q] = steps[q]
    BY <1>3 DEF Launch, Goto, shared, IInv, TypeOK
  <2>2. Registered(p)' => steps'[p] > 0
    <3>1. cmd'[p] = c
      BY <1>3 DEF Launch, IInv, TypeOK
    <3>2. ASSUME c \in {"resume", "retry"} PROVE steps'[p] > 0
      <4>1. PICK n \in Budgets : steps' = [steps EXCEPT ![p] = n]
        BY <1>3, <3>2 DEF Launch
      <4>2. n \in Nat \ {0}
        BY ProcessAssumption
      <4>3. steps'[p] = n
        BY <4>1 DEF IInv, TypeOK
      <4>4. QED
        BY <4>2, <4>3
    <3>3. QED
      BY <3>1, <3>2 DEF Registered
  <2>3. WithinBudget(p)'
    BY <2>1, <2>2 DEF WithinBudget
  <2>4. QED
    BY <2>1, <2>3, StandingBudget DEF BudgetInv
<1>4. ASSUME UNCHANGED <<disk, log, pc, cmd, ctx, steps>> PROVE BudgetInv'
  BY <1>4, StandingBudget DEF BudgetInv
<1>5. ASSUME NEW g \in agents, AgentEnds(g) PROVE BudgetInv'
  BY <1>4, <1>5 DEF AgentEnds, local
<1>6. ASSUME UNCHANGED vars PROVE BudgetInv'
  BY <1>4, <1>6 DEF vars, shared, local
<1>7. QED
  BY <1>1, <1>2, <1>3, <1>5, <1>6 DEF Next, Progress, OrderlyLaunch

\* run-until-done! (core.clj), under the same discipline: when a registered
\* runner has used up its budget, the run is at a node that nobody has started
\* under its attempt; the next resume begins there.
THEOREM BudgetsEndBetweenNodes == Spec => []StopsBetweenNodes
<1>1. Init => BudgetInv
  BY DEF Init, BudgetInv, WithinBudget, Unspent
<1>2. DisciplineInv /\ DisciplineInv' /\ BudgetInv /\ [Next]_vars => BudgetInv'
  BY BudgetNext
<1>3. BudgetInv => StopsBetweenNodes
  BY DEF BudgetInv, WithinBudget, Untouched, StopsBetweenNodes
<1>4. QED
  BY <1>1, <1>2, <1>3, DisciplineInductive, PTL DEF Spec

=============================================================================
