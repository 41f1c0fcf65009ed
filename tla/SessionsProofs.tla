---------------------------- MODULE SessionsProofs ----------------------------
(***************************************************************************)
(* What the bindings of sessions.clj guarantee for every workflow, any     *)
(* number of sessions and attempts, and a kill between any two writes:     *)
(* prompts and suspended boundaries from a first invariant (IInv), what    *)
(* ties the bindings to the run and its log from a second (LifeInv), and   *)
(* that each binding lives the life SessionContract describes.             *)
(***************************************************************************)
EXTENDS Sessions, TLAPS

(***************************************************************************)
(* The inductive invariant.  A runner works at the state and attempt of    *)
(* state.edn until it has selected a transition (CtxOK); while it is in an *)
(* activation the binding is that activation's (ActivationOK); a binding   *)
(* never runs ahead of the run and counts its activations (BindingOK); and *)
(* every prompt ever taken belongs to the session its binding names, under *)
(* an earlier attempt than the activation about to begin (PromptsOK).      *)
(***************************************************************************)
AtRun == {"step", "work", "begin", "allocated", "invoke", "running",
          "complete", "suspending", "orphaning", "finished", "failing",
          "storefail", "select", "cancel", "cancelsave"}
Activating == {"allocated", "invoke", "running", "complete", "suspending",
               "orphaning"}

CtxOK ==
    /\ pc \in AtRun => ctx.state = run.state /\ ctx.attempt = run.attempt
    /\ pc \in {"close", "save"} => run.attempt <= ctx.attempt

ActivationOK ==
    /\ pc \in Activating \cup {"begin"} => Mine \in SessionNode
    /\ pc = "begin" /\ Here.status = "suspended" => Here.attempt < ctx.attempt
    /\ pc \in Activating => Here.attempt = ctx.attempt
    /\ pc = "allocated" => Here.status = "allocated"
    /\ pc \in Activating \ {"allocated"} => Here.status = "active"
    /\ pc \in {"complete", "suspending"} => Here.ref # NoRef
    /\ pc = "suspending" => IdOf(ctx) \in outputs

BindingOK ==
    \A s \in SessionNode :
        /\ binding[s].status = "none" => binding[s] = NoBinding
        /\ binding[s].status # "none" => binding[s].sequence >= 1
        /\ binding[s].sequence <= binding[s].attempt
        /\ binding[s].attempt <= run.attempt

About(q, s) ==
    /\ q.id[1] = s
    /\ binding[s].status # "none"
    /\ q.id[2] <= binding[s].attempt
    /\ q.ref \in {NoRef, binding[s].ref}
    /\ pc \in {"allocated", "invoke"} /\ Mine = s =>
        q.id[2] < ctx.attempt /\ Here.sequence > 1 /\ Here.ref # NoRef

PromptsOK ==
    \A i \in DOMAIN prompts : \E s \in SessionNode : About(prompts[i], s)

Durable == /\ BindingOK /\ SuspendedIsProven
           /\ PromptsOK /\ PromptDeliveredOnce /\ ContinuesOneSession

IInv == TypeOK /\ CtxOK /\ ActivationOK /\ Durable

----------------------------------------------------------------------------
(* What a write of a binding leaves behind.                                *)

BindingTyped == binding \in [SessionNode -> Binding]
OthersSame(s) == \A t \in SessionNode \ {s} : binding'[t] = binding[t]
Statuses == {"none", "allocated", "active", "suspended", "orphaned", "closed"}

\* The fields of a binding.
LEMMA BindingFields ==
    ASSUME NEW b \in Binding
    PROVE  /\ b.status \in Statuses /\ b.ref \in Ref \cup {NoRef}
           /\ b.sequence \in 0..MaxAttempt /\ b.attempt \in 0..MaxAttempt
    BY DEF Binding, Statuses

\* A write changes one binding and no other.
LEMMA WriteGives ==
    ASSUME BindingTyped, NEW s \in SessionNode, NEW b \in Binding, Write(s, b)
    PROVE  BindingTyped' /\ binding'[s] = b /\ OthersSame(s)
    BY DEF BindingTyped, Write, OthersSame

\* One binding has another status, and the rest is as it was.
Restatused(s, st) ==
    /\ BindingTyped' /\ OthersSame(s)
    /\ binding'[s].status = st
    /\ binding'[s].ref = binding[s].ref
    /\ binding'[s].sequence = binding[s].sequence
    /\ binding'[s].attempt = binding[s].attempt

\* SetStatus changes no more than the status of one binding.
LEMMA SetStatusGives ==
    ASSUME BindingTyped, NEW s \in SessionNode, NEW st \in Statuses,
           SetStatus(s, st)
    PROVE  Restatused(s, st)
<1> DEFINE b == [binding[s] EXCEPT !.status = st]
<1>1. binding[s] \in Binding
    BY DEF BindingTyped
<1>2. /\ b \in Binding /\ b.status = st /\ b.ref = binding[s].ref
      /\ b.sequence = binding[s].sequence /\ b.attempt = binding[s].attempt
    BY <1>1 DEF Binding, Statuses
<1>3. Write(s, b)
    BY DEF SetStatus
<1> HIDE DEF b
<1>4. BindingTyped' /\ binding'[s] = b /\ OthersSame(s)
    BY <1>2, <1>3, WriteGives
<1>5. QED
    BY <1>2, <1>4 DEF Restatused

----------------------------------------------------------------------------
(* Two ways most steps leave the bindings and the prompts.                 *)

\* Neither bindings nor prompts change, and no activation begins.
LEMMA QuietKeeps ==
    ASSUME TypeOK, Durable, UNCHANGED <<binding, prompts>>,
           outputs \subseteq outputs', run' \in Run, run.attempt <= run'.attempt,
           pc' \notin {"allocated", "invoke"} \/ UNCHANGED <<pc, ctx>>
    PROVE  Durable'
<1>1. BindingOK'
    <2> SUFFICES ASSUME NEW s \in SessionNode
                 PROVE  /\ binding[s].status = "none" => binding[s] = NoBinding
                        /\ binding[s].status # "none" => binding[s].sequence >= 1
                        /\ binding[s].sequence <= binding[s].attempt
                        /\ binding[s].attempt <= run'.attempt
        BY DEF BindingOK
    <2>1. binding[s].attempt \in Nat /\ run.attempt \in Nat /\ run'.attempt \in Nat
        BY BindingFields, SessionAssumption DEF TypeOK, Run
    <2>2. QED
        BY <2>1 DEF Durable, BindingOK
<1>2. SuspendedIsProven'
    BY DEF Durable, SuspendedIsProven
<1>3. PromptsOK'
    <2> SUFFICES ASSUME NEW i \in DOMAIN prompts
                 PROVE  \E s \in SessionNode : About(prompts[i], s)'
        BY DEF PromptsOK
    <2>1. PICK s \in SessionNode : About(prompts[i], s)
        BY DEF Durable, PromptsOK
    <2>2. About(prompts[i], s)'
        BY <2>1 DEF About, Mine, Here
    <2>3. QED
        BY <2>2
<1>4. PromptDeliveredOnce' /\ ContinuesOneSession'
    BY DEF Durable, PromptDeliveredOnce, ContinuesOneSession
<1>5. QED
    BY <1>1, <1>2, <1>3, <1>4 DEF Durable

\* One binding that exists changes its status, to a proven one only with proof.
LEMMA RestatusKeeps ==
    ASSUME TypeOK, Durable, NEW s \in SessionNode, NEW st \in Statuses \ {"none"},
           SetStatus(s, st), binding[s].status # "none",
           UNCHANGED <<prompts, outputs, run>>,
           st \in {"suspended", "closed"} =>
               <<s, binding[s].attempt>> \in outputs /\ binding[s].ref # NoRef,
           pc' # "allocated",
           pc' = "invoke" => pc = "allocated" /\ UNCHANGED ctx
    PROVE  Durable'
<1>1. Restatused(s, st)
    BY SetStatusGives DEF TypeOK, BindingTyped
<1> USE DEF Restatused
<1>2. BindingOK'
    <2> SUFFICES ASSUME NEW t \in SessionNode
                 PROVE  /\ binding'[t].status = "none" => binding'[t] = NoBinding
                        /\ binding'[t].status # "none" => binding'[t].sequence >= 1
                        /\ binding'[t].sequence <= binding'[t].attempt
                        /\ binding'[t].attempt <= run.attempt
        BY DEF BindingOK
    <2>1. CASE t = s
        BY <1>1, <2>1 DEF Durable, BindingOK
    <2>2. CASE t # s
        BY <1>1, <2>2 DEF Durable, BindingOK, OthersSame
    <2>3. QED
        BY <2>1, <2>2
<1>3. SuspendedIsProven'
    <2> SUFFICES ASSUME NEW t \in SessionNode,
                        binding'[t].status \in {"suspended", "closed"}
                 PROVE  /\ <<t, binding'[t].attempt>> \in outputs
                        /\ binding'[t].ref # NoRef
        BY DEF SuspendedIsProven
    <2>1. CASE t = s
        BY <1>1, <2>1
    <2>2. CASE t # s
        BY <1>1, <2>2 DEF Durable, SuspendedIsProven, OthersSame
    <2>3. QED
        BY <2>1, <2>2
<1>4. PromptsOK'
    <2> SUFFICES ASSUME NEW i \in DOMAIN prompts
                 PROVE  \E t \in SessionNode : About(prompts[i], t)'
        BY DEF PromptsOK
    <2>1. PICK t \in SessionNode : About(prompts[i], t)
        BY DEF Durable, PromptsOK
    <2>2. /\ binding'[t].status # "none" /\ binding'[t].ref = binding[t].ref
          /\ binding'[t].sequence = binding[t].sequence
          /\ binding'[t].attempt = binding[t].attempt
        BY <1>1, <2>1 DEF OthersSame, About
    <2>3. pc' \in {"allocated", "invoke"} => pc = "allocated" /\ ctx' = ctx
        OBVIOUS
    <2>4. About(prompts[i], t)'
        BY <2>1, <2>2, <2>3 DEF About, Mine, Here
    <2>5. QED
        BY <2>4
<1>5. PromptDeliveredOnce' /\ ContinuesOneSession'
    BY DEF Durable, PromptDeliveredOnce, ContinuesOneSession
<1>6. QED
    BY <1>2, <1>3, <1>4, <1>5 DEF Durable

----------------------------------------------------------------------------
(* Steps that leave bindings and prompts alone.                            *)

RunStatuses == {"running", "done", "failed", "cancelled"}

\* Another status leaves state and attempt of a run alone.
LEMMA StatusGives ==
    ASSUME NEW c \in Run, NEW st \in RunStatuses
    PROVE  /\ [c EXCEPT !.status = st] \in Run
           /\ [c EXCEPT !.status = st].state = c.state
           /\ [c EXCEPT !.status = st].attempt = c.attempt
    BY DEF Run, RunStatuses

\* The next attempt of a run within the bound is a run again.
LEMMA NextAttemptGives ==
    ASSUME NEW c \in Run, c.attempt < MaxAttempt, NEW n \in Node,
           NEW st \in RunStatuses,
           NEW d, d = [state |-> n, status |-> st, attempt |-> c.attempt + 1]
    PROVE  d \in Run /\ c.attempt <= d.attempt
    BY SessionAssumption DEF Run, RunStatuses

\* State and attempt of a run name an activation.
LEMMA IdGives == ASSUME NEW c \in Run PROVE IdOf(c) \in Id
    BY DEF Run, Id, IdOf

\* Commands and the runner's steps outside an activation.
LEMMA EngineKeeps ==
    ASSUME IInv,
           \/ Resume \/ Retry \/ Start \/ Work \/ Fail \/ StoreFailed
           \/ Finish \/ Select \/ Save \/ Leave \/ Complete \/ Cancel \/ CancelSave \/ Crash
    PROVE  IInv'
<1> USE DEF IInv
<1>1. CASE Resume
    <2>1. TypeOK' /\ CtxOK' /\ ActivationOK'
        BY <1>1, SessionAssumption DEF Resume, TypeOK, CtxOK, ActivationOK, Mine, Here,
           AtRun, Activating, Labels, node, world, Run
    <2>2. Durable'
        BY <1>1, <2>1, QuietKeeps DEF Resume, node, world, TypeOK, Run
    <2>3. QED
        BY <2>1, <2>2
<1>2. CASE Retry
    <2>1. run' = [state |-> run.state, status |-> "running", attempt |-> run.attempt + 1]
          /\ ctx' = run' /\ pc' = "step" /\ run.attempt < MaxAttempt
        BY <1>2 DEF Retry, TypeOK, Run
    <2>2. run' \in Run /\ run.attempt <= run'.attempt
        BY <2>1, NextAttemptGives DEF TypeOK, RunStatuses, Run
    <2>3. TypeOK' /\ CtxOK' /\ ActivationOK'
        BY <1>2, <2>1, <2>2 DEF Retry, TypeOK, CtxOK, ActivationOK, Activating,
           AtRun, Labels, node, world
    <2>4. Durable'
        BY <1>2, <2>1, <2>2, QuietKeeps DEF Retry, node, world
    <2>5. QED
        BY <2>3, <2>4
<1>3. CASE Start
    <2>1. TypeOK' /\ CtxOK' /\ ActivationOK'
        BY <1>3, SessionAssumption DEF Start, TypeOK, CtxOK, ActivationOK, Mine, Here,
           AtRun, Activating, Labels, node, world, Run, Completed, InFlight, IdOf, Id, SessionNode, SuspendedIsProven, BindingOK, Durable, Binding
    <2>2. Durable'
        BY <1>3, <2>1, QuietKeeps DEF Start, node, world, TypeOK, Run
    <2>3. QED
        BY <2>1, <2>2
<1>4. CASE Work
    <2>1. TypeOK' /\ CtxOK' /\ ActivationOK'
        BY <1>4, SessionAssumption DEF Work, TypeOK, CtxOK, ActivationOK, Mine, Here,
           AtRun, Activating, Labels, node, world, Run
    <2>2. Durable'
        BY <1>4, <2>1, QuietKeeps DEF Work, node, world, TypeOK, Run
    <2>3. QED
        BY <2>1, <2>2
<1>5. CASE Fail
    <2>1. TypeOK' /\ CtxOK' /\ ActivationOK'
        BY <1>5, SessionAssumption DEF Fail, TypeOK, CtxOK, ActivationOK, Mine, Here,
           AtRun, Activating, Labels, node, world, Run, IdOf, Id
    <2>2. Durable'
        BY <1>5, <2>1, QuietKeeps DEF Fail, node, world, TypeOK, Run
    <2>3. QED
        BY <2>1, <2>2
<1>6. CASE StoreFailed
    <2>1. TypeOK' /\ CtxOK' /\ ActivationOK'
        BY <1>6, SessionAssumption DEF StoreFailed, TypeOK, CtxOK, ActivationOK, Mine, Here,
           AtRun, Activating, Labels, node, world, Run
    <2>2. run' = ctx /\ run.attempt <= ctx.attempt
        BY <1>6, SessionAssumption DEF StoreFailed, CtxOK, AtRun, TypeOK, Run
    <2>3. Durable'
        BY <1>6, <2>1, <2>2, QuietKeeps DEF StoreFailed, node, world, TypeOK
    <2>4. QED
        BY <2>1, <2>3
<1>7. CASE Finish
    <2>1. TypeOK' /\ CtxOK' /\ ActivationOK'
        BY <1>7, SessionAssumption DEF Finish, TypeOK, CtxOK, ActivationOK, Mine, Here,
           AtRun, Activating, Labels, node, world, Run, IdOf, Id
    <2>2. Durable'
        BY <1>7, <2>1, QuietKeeps DEF Finish, node, world, TypeOK, Run
    <2>3. QED
        BY <2>1, <2>2
<1>8. CASE Select
    <2>1. ASSUME NEW n \in Successors[Mine], ctx.attempt < MaxAttempt,
                 ctx' = [ctx EXCEPT !.state = n, !.attempt = @ + 1]
          PROVE  ctx' \in Run /\ ctx.attempt <= ctx'.attempt
        <3>1. ctx' = [state |-> n, status |-> ctx.status, attempt |-> ctx.attempt + 1]
            BY <2>1 DEF TypeOK, Run
        <3>2. n \in Node
            BY SessionAssumption DEF TypeOK, Mine, Run
        <3>3. QED
            BY <2>1, <3>1, <3>2, NextAttemptGives DEF TypeOK, Run, RunStatuses
    <2>2. ctx' \in Run /\ ctx.attempt <= ctx'.attempt
        <3>1. CASE UNCHANGED ctx
            BY <3>1, SessionAssumption DEF TypeOK, Run
        <3>2. CASE ~UNCHANGED ctx
            BY <1>8, <2>1, <3>2, Zenon DEF Select
        <3>3. QED
            BY <3>1, <3>2
    <2>3. UNCHANGED <<run, node, binding, world, crashes>> /\ pc' \in {"close", "save", "threw"}
        BY <1>8 DEF Select
    <2>4. ctx.attempt = run.attempt
        BY <1>8 DEF Select, CtxOK, AtRun
    <2>5. TypeOK' /\ CtxOK' /\ ActivationOK'
        BY <2>2, <2>3, <2>4 DEF TypeOK, CtxOK, ActivationOK, Activating,
           AtRun, Labels, node, world
    <2>6. Durable'
        BY <2>3, SessionAssumption, QuietKeeps DEF node, world, TypeOK, Run
    <2>7. QED
        BY <2>5, <2>6
<1>9. CASE Save
    <2>1. TypeOK' /\ CtxOK' /\ ActivationOK'
        BY <1>9, SessionAssumption DEF Save, TypeOK, CtxOK, ActivationOK, Mine, Here,
           AtRun, Activating, Labels, node, world, Run
    <2>2. run' = ctx /\ run.attempt <= ctx.attempt
        BY <1>9, SessionAssumption DEF Save, CtxOK, AtRun, TypeOK, Run
    <2>3. Durable'
        BY <1>9, <2>1, <2>2, QuietKeeps DEF Save, node, world, TypeOK
    <2>4. QED
        BY <2>1, <2>3
<1>10. CASE Leave
    <2>1. TypeOK' /\ CtxOK' /\ ActivationOK'
        BY <1>10, SessionAssumption DEF Leave, TypeOK, CtxOK, ActivationOK, Mine, Here,
           AtRun, Activating, Labels, node, world, Run
    <2>2. Durable'
        BY <1>10, <2>1, QuietKeeps DEF Leave, node, world, TypeOK, Run
    <2>3. QED
        BY <2>1, <2>2
<1>11. CASE Complete
    <2>1. TypeOK' /\ CtxOK' /\ ActivationOK'
        BY <1>11, SessionAssumption DEF Complete, TypeOK, CtxOK, ActivationOK, Mine, Here,
           AtRun, Activating, Labels, node, world, Run, IdOf
    <2>2. Durable'
        BY <1>11, <2>1, QuietKeeps DEF Complete, node, world, TypeOK, Run
    <2>3. QED
        BY <2>1, <2>2
<1>12. CASE Cancel
    <2>1. TypeOK' /\ CtxOK' /\ ActivationOK'
        BY <1>12, SessionAssumption DEF Cancel, TypeOK, CtxOK, ActivationOK, Mine, Here,
           AtRun, Activating, Labels, node, world, Run
    <2>2. Durable'
        BY <1>12, <2>1, QuietKeeps DEF Cancel, node, world, TypeOK, Run
    <2>3. QED
        BY <2>1, <2>2
<1>13. CASE CancelSave
    <2>1. TypeOK' /\ CtxOK' /\ ActivationOK'
        BY <1>13, SessionAssumption DEF CancelSave, TypeOK, CtxOK, ActivationOK, Mine, Here,
           AtRun, Activating, Labels, node, world, Run
    <2>2. run' = ctx /\ run.attempt <= ctx.attempt
        BY <1>13, SessionAssumption DEF CancelSave, CtxOK, AtRun, TypeOK, Run
    <2>3. Durable'
        BY <1>13, <2>1, <2>2, QuietKeeps DEF CancelSave, node, world, TypeOK
    <2>4. QED
        BY <2>1, <2>3
<1>14. CASE Crash
    <2>1. TypeOK' /\ CtxOK' /\ ActivationOK'
        BY <1>14, SessionAssumption DEF Crash, TypeOK, CtxOK, ActivationOK, Mine, Here,
           AtRun, Activating, Labels, node, world, Run
    <2>2. Durable'
        BY <1>14, <2>1, QuietKeeps DEF Crash, node, world, TypeOK, Run
    <2>3. QED
        BY <2>1, <2>2
<1>15. QED
    BY <1>1, <1>2, <1>3, <1>4, <1>5, <1>6, <1>7, <1>8, <1>9, <1>10, <1>11, <1>12, <1>13, <1>14

\* Executors write outputs and end.
LEMMA AgentKeeps ==
    ASSUME IInv, NEW g \in agents, AgentWrites(g) \/ AgentEnds(g)
    PROVE  IInv'
<1> USE DEF IInv
<1>1. /\ outputs \subseteq outputs' /\ outputs' \subseteq Id /\ agents' \subseteq Id
      /\ UNCHANGED <<run, started, ended, binding, prompts, pc, ctx, crashes>>
    BY DEF AgentWrites, AgentEnds, node, TypeOK
<1>2. TypeOK' /\ CtxOK' /\ ActivationOK'
    BY <1>1 DEF TypeOK, CtxOK, ActivationOK, Mine, Here
<1>3. Durable'
    BY <1>1, SessionAssumption, QuietKeeps DEF TypeOK, Run
<1>4. QED
    BY <1>2, <1>3

----------------------------------------------------------------------------
(* Steps that write a binding.                                             *)

\* A binding is allocated for the activation that begins: for the first, or
\* after a suspended one under an earlier attempt.
LEMMA BeginKeeps == ASSUME IInv, BeginActivation PROVE IInv'
<1> USE DEF IInv
<1>1. /\ pc = "begin" /\ UNCHANGED <<run, started, ended, outputs, agents, prompts, ctx, crashes>>
      /\ Mine \in SessionNode /\ Mine' = Mine
    BY DEF BeginActivation, node, world, ActivationOK, Mine
<1>2. CASE pc' = "failing" /\ UNCHANGED binding
    <2>1. TypeOK' /\ CtxOK' /\ ActivationOK'
        BY <1>1, <1>2 DEF TypeOK, CtxOK, ActivationOK, AtRun, Activating, Labels
    <2>2. Durable'
        BY <1>1, <1>2, SessionAssumption, QuietKeeps DEF TypeOK, Run
    <2>3. QED
        BY <2>1, <2>2
<1>3. ASSUME NEW r, r \in RefFor(Mine, Here), Continuable(Here), pc' = "allocated",
             Write(Mine, [status |-> "allocated", ref |-> r,
                          sequence |-> Here.sequence + 1, attempt |-> ctx.attempt])
      PROVE  IInv'
    <2> DEFINE b == [status |-> "allocated", ref |-> r,
                     sequence |-> Here.sequence + 1, attempt |-> ctx.attempt]
    <2>1. /\ Here \in Binding /\ Here.status \in {"none", "suspended"}
          /\ Here.sequence \in Nat /\ Here.attempt \in Nat
          /\ ctx.attempt \in 1..MaxAttempt /\ ctx.attempt = run.attempt
        BY <1>1, <1>3, SessionAssumption DEF TypeOK, Here, Continuable, Binding, Run, CtxOK, AtRun
    <2>3. /\ Here.status = "none" => Here.sequence = 0 /\ Here.ref = NoRef
          /\ Here.status = "suspended" =>
                /\ Here.sequence >= 1 /\ Here.ref # NoRef /\ r = Here.ref
                /\ Here.sequence <= Here.attempt /\ Here.attempt < ctx.attempt
        <3>1. Here.status = "none" => Here = NoBinding
            BY <1>1 DEF Durable, BindingOK, Here
        <3>2. Here.status = "suspended" =>
                /\ Here.sequence >= 1 /\ Here.sequence <= Here.attempt
                /\ Here.attempt < ctx.attempt /\ Here.ref # NoRef
            BY <1>1 DEF Durable, BindingOK, SuspendedIsProven, ActivationOK, Here
        <3>3. Here.ref # NoRef => r = Here.ref
            BY <1>3 DEF RefFor
        <3>4. QED
            BY <3>1, <3>2, <3>3 DEF NoBinding
    <2>4. r \in Ref \cup {NoRef}
        BY <1>3, <2>1 DEF RefFor, Unused, Binding
    <2>5. b \in Binding
        BY <2>1, <2>3, <2>4, SessionAssumption DEF Binding
    <2>6. /\ b.status = "allocated" /\ b.ref = r
          /\ b.sequence = Here.sequence + 1 /\ b.attempt = ctx.attempt
        OBVIOUS
    <2>7. Write(Mine, b)
        BY <1>3
    <2> HIDE DEF b
    <2>8. BindingTyped' /\ binding'[Mine] = b /\ OthersSame(Mine)
        BY <1>1, <2>5, <2>7, WriteGives DEF TypeOK, BindingTyped
    <2>9. TypeOK' /\ CtxOK' /\ ActivationOK'
        BY <1>1, <1>3, <2>6, <2>8 DEF TypeOK, BindingTyped, CtxOK, ActivationOK, AtRun,
           Activating, Labels, Here
    <2>10. BindingOK'
        <3> SUFFICES ASSUME NEW t \in SessionNode
                     PROVE  /\ binding'[t].status = "none" => binding'[t] = NoBinding
                            /\ binding'[t].status # "none" => binding'[t].sequence >= 1
                            /\ binding'[t].sequence <= binding'[t].attempt
                            /\ binding'[t].attempt <= run.attempt
            BY <1>1 DEF BindingOK
        <3>1. CASE t = Mine
            BY <2>1, <2>3, <2>6, <2>8, <3>1
        <3>2. CASE t # Mine
            BY <2>8, <3>2 DEF Durable, BindingOK, OthersSame
        <3>3. QED
            BY <3>1, <3>2
    <2>11. SuspendedIsProven'
        <3> SUFFICES ASSUME NEW t \in SessionNode,
                            binding'[t].status \in {"suspended", "closed"}
                     PROVE  <<t, binding'[t].attempt>> \in outputs /\ binding'[t].ref # NoRef
            BY <1>1 DEF SuspendedIsProven
        <3>1. t # Mine
            BY <2>6, <2>8
        <3>2. QED
            BY <2>8, <3>1 DEF Durable, SuspendedIsProven, OthersSame
    <2>12. PromptsOK'
        <3> SUFFICES ASSUME NEW i \in DOMAIN prompts
                     PROVE  \E t \in SessionNode : About(prompts[i], t)'
            BY <1>1 DEF PromptsOK
        <3>1. PICK t \in SessionNode : About(prompts[i], t)
            BY DEF Durable, PromptsOK
        <3>2. CASE t # Mine
            <4>1. binding'[t] = binding[t] /\ Mine' # t
                BY <1>1, <2>8, <3>2 DEF OthersSame
            <4>2. About(prompts[i], t)'
                BY <1>1, <3>1, <4>1 DEF About
            <4>3. QED
                BY <4>2
        <3>3. CASE t = Mine
            <4>1. Here.status = "suspended"
                BY <2>1, <3>1, <3>3 DEF About, Here
            <4>2. /\ prompts[i].id[1] = Mine /\ prompts[i].id[2] <= Here.attempt
                  /\ prompts[i].ref \in {NoRef, Here.ref}
                BY <3>1, <3>3 DEF About, Here
            <4>3. prompts[i].id[2] \in Nat
                <5>1. prompts[i] \in Delivery
                    BY DEF TypeOK
                <5>2. prompts[i].id \in Node \X (1..MaxAttempt)
                    BY <5>1 DEF Delivery, Id
                <5>3. QED
                    BY <5>2, SessionAssumption
            <4>4. prompts[i].id[2] < ctx.attempt
                BY <2>1, <2>3, <4>1, <4>2, <4>3
            <4>5. Here' = b
                BY <1>1, <2>8 DEF Here
            <4>6. About(prompts[i], Mine)'
                BY <1>1, <2>1, <2>3, <2>6, <2>8, <4>1, <4>2, <4>3, <4>4, <4>5 DEF About
            <4>7. QED
                BY <1>1, <3>3, <4>6
        <3>4. QED
            BY <3>2, <3>3
    <2>13. PromptDeliveredOnce' /\ ContinuesOneSession'
        BY <1>1 DEF Durable, PromptDeliveredOnce, ContinuesOneSession
    <2>14. QED
        BY <2>9, <2>10, <2>11, <2>12, <2>13 DEF Durable
<1>4. QED
    BY <1>2, <1>3 DEF BeginActivation

\* The allocated binding becomes active.
LEMMA ActivateKeeps == ASSUME IInv, Activate PROVE IInv'
<1> USE DEF IInv
<1>1. /\ pc = "allocated" /\ pc' = "invoke" /\ SetStatus(Mine, "active")
      /\ Mine \in SessionNode /\ Mine' = Mine /\ Here.status = "allocated"
      /\ UNCHANGED <<run, started, ended, outputs, agents, prompts, ctx, crashes>>
    BY DEF Activate, node, world, ActivationOK, Activating, Mine
<1>2. Restatused(Mine, "active")
    BY <1>1, SetStatusGives DEF TypeOK, BindingTyped, Restatused, Statuses
<1>3. TypeOK' /\ CtxOK' /\ ActivationOK'
    BY <1>1, <1>2 DEF TypeOK, BindingTyped, CtxOK, ActivationOK, AtRun, Activating,
       Labels, Here, Restatused
<1>4. Durable'
    BY <1>1, RestatusKeeps DEF Here, Statuses
<1>5. QED
    BY <1>3, <1>4

\* An executor takes the prompt of this activation, which nobody has taken.
LEMMA InvokeKeeps == ASSUME IInv, Invoke PROVE IInv'
<1> USE DEF IInv
<1> DEFINE new == [id |-> IdOf(ctx), ref |-> Here.ref,
                   operation |-> IF Here.sequence = 1 THEN "start" ELSE "resume"]
           last == Len(prompts) + 1
<1>1. /\ pc = "invoke" /\ pc' = "running" /\ prompts' = Append(prompts, new)
      /\ agents' = agents \cup {IdOf(ctx)}
      /\ UNCHANGED <<run, started, ended, binding, outputs, ctx, crashes>>
      /\ Mine \in SessionNode /\ Mine' = Mine /\ Here' = Here
    BY DEF Invoke, node, ActivationOK, Activating, Mine, Here
<1>2. /\ Here \in Binding /\ Here.attempt = ctx.attempt /\ Here.status = "active"
      /\ ctx.attempt \in Nat /\ IdOf(ctx) \in Id
    <2>1. Here \in Binding /\ IdOf(ctx) \in Id
        BY <1>1, IdGives DEF TypeOK, Here
    <2>2. Here.attempt = ctx.attempt /\ Here.status = "active"
        BY <1>1 DEF ActivationOK, Activating
    <2>3. QED
        BY <2>1, <2>2, SessionAssumption DEF TypeOK, Run
<1>3. /\ new \in Delivery /\ new.id = IdOf(ctx) /\ new.ref = Here.ref
      /\ new.operation = IF Here.sequence = 1 THEN "start" ELSE "resume"
    BY <1>2 DEF Delivery, Binding
<1> HIDE DEF new
<1>4. prompts' \in Seq(Delivery) /\ last \in Nat /\ DOMAIN prompts' = DOMAIN prompts \cup {last}
    BY <1>1, <1>3 DEF TypeOK
<1>5. /\ \A i \in DOMAIN prompts : prompts'[i] = prompts[i] /\ i < last /\ i \in Nat
      /\ prompts'[last] = new
    BY <1>1, <1>3 DEF TypeOK
<1> HIDE DEF last
<1>6. TypeOK' /\ CtxOK' /\ ActivationOK'
    BY <1>1, <1>2, <1>4 DEF TypeOK, CtxOK, ActivationOK, AtRun, Activating, Labels
<1>7. BindingOK' /\ SuspendedIsProven'
    BY <1>1 DEF Durable, BindingOK, SuspendedIsProven
<1>8. PromptsOK'
    <2> SUFFICES ASSUME NEW i, i \in DOMAIN prompts'
                 PROVE  \E t \in SessionNode : About(prompts[i], t)'
        BY DEF PromptsOK
    <2>1. CASE i \in DOMAIN prompts
        <3>1. PICK t \in SessionNode : About(prompts[i], t)
            BY <2>1 DEF Durable, PromptsOK
        <3>2. About(prompts[i], t)'
            BY <1>1, <1>5, <2>1, <3>1 DEF About
        <3>3. QED
            BY <3>2
    <2>2. CASE i = last
        <3>1. new.id[1] = Mine /\ new.id[2] = ctx.attempt
            BY <1>3 DEF IdOf, Mine
        <3>2. About(prompts[i], Mine)'
            BY <1>1, <1>2, <1>3, <1>5, <2>2, <3>1 DEF About, Here
        <3>3. QED
            BY <1>1, <3>2
    <2>3. QED
        BY <1>4, <2>1, <2>2
<1>9. ASSUME NEW i \in DOMAIN prompts, prompts[i].id[1] = Mine
      PROVE  /\ prompts[i].id[2] < ctx.attempt /\ Here.sequence > 1 /\ Here.ref # NoRef
             /\ prompts[i].ref \in {NoRef, Here.ref}
    <2>1. PICK t \in SessionNode : About(prompts[i], t)
        BY DEF Durable, PromptsOK
    <2>2. t = Mine
        BY <1>9, <2>1 DEF About
    <2>3. QED
        BY <1>1, <2>1, <2>2 DEF About, Here
<1>10. PromptDeliveredOnce'
    <2>1. ASSUME NEW i \in DOMAIN prompts
          PROVE  prompts[i].id # IdOf(ctx)
        <3>1. IdOf(ctx)[1] = Mine /\ IdOf(ctx)[2] = ctx.attempt
            BY DEF IdOf, Mine
        <3>2. QED
            BY <1>2, <1>9, <3>1
    <2>2. QED
        BY <1>3, <1>4, <1>5, <2>1 DEF Durable, PromptDeliveredOnce
<1>11. ContinuesOneSession'
    <2> SUFFICES ASSUME NEW i \in DOMAIN prompts', NEW j \in DOMAIN prompts', i < j,
                        prompts'[i].id[1] = prompts'[j].id[1]
                 PROVE  /\ prompts'[j].operation = "resume" /\ prompts'[j].ref # NoRef
                        /\ prompts'[i].ref \in {NoRef, prompts'[j].ref}
        BY DEF ContinuesOneSession
    <2>1. i \in DOMAIN prompts
        BY <1>4, <1>5
    <2>2. CASE j \in DOMAIN prompts
        BY <1>5, <2>1, <2>2 DEF Durable, ContinuesOneSession
    <2>3. CASE j = last
        <3>1. prompts[i].id[1] = Mine
            BY <1>3, <1>5, <2>1, <2>3 DEF IdOf, Mine
        <3>2. QED
            BY <1>3, <1>5, <1>9, <2>1, <2>3, <3>1
    <2>4. QED
        BY <1>4, <2>2, <2>3
<1>12. QED
    BY <1>6, <1>7, <1>8, <1>10, <1>11 DEF Durable

\* The reference a reply names is the bound one, or the first there is.
LEMMA BindReturnedKeeps == ASSUME IInv, BindReturned PROVE IInv'
<1> USE DEF IInv
<1>1. /\ pc = "running" /\ pc' \in {"orphaning", "complete"}
      /\ UNCHANGED <<run, started, ended, outputs, agents, prompts, ctx, crashes>>
      /\ Mine \in SessionNode /\ Mine' = Mine
    BY DEF BindReturned, node, world, ActivationOK, Activating, Mine
<1>2. Here \in Binding /\ Here.attempt = ctx.attempt /\ Here.status = "active"
    BY <1>1 DEF TypeOK, ActivationOK, Activating, Here
<1>3. CASE pc' = "orphaning" /\ UNCHANGED binding
    <2>1. TypeOK' /\ CtxOK' /\ ActivationOK'
        BY <1>1, <1>2, <1>3 DEF TypeOK, CtxOK, ActivationOK, AtRun, Activating, Labels, Here
    <2>2. Durable'
        BY <1>1, <1>3, SessionAssumption, QuietKeeps DEF TypeOK, Run
    <2>3. QED
        BY <2>1, <2>2
<1>4. ASSUME NEW reply, reply \in Replies(Mine, Here), reply.ref # NoRef,
             Here.ref \in {NoRef, reply.ref}, Write(Mine, [Here EXCEPT !.ref = reply.ref])
      PROVE  IInv'
    <2> DEFINE b == [Here EXCEPT !.ref = reply.ref]
    <2>1. reply.ref \in Ref
        <3>1. Here.ref \in Ref \cup {NoRef}
            BY <1>2, BindingFields
        <3>2. Executor[Mine] \in {"pi", "claude", "opencode"}
            BY <1>1, SessionAssumption DEF SessionNode
        <3>3. reply.ref \in {Here.ref, NoRef} \cup Unused
            BY <1>4, <3>2 DEF Replies, PiReplies, ClaudeReplies, OpenCodeReplies, Reply, Thrown
        <3>4. QED
            BY <1>4, <3>1, <3>3 DEF Unused
    <2>2. /\ b \in Binding /\ b.status = "active" /\ b.ref = reply.ref
          /\ b.sequence = Here.sequence /\ b.attempt = Here.attempt
        BY <1>2, <2>1 DEF Binding
    <2>3. Write(Mine, b)
        BY <1>4
    <2> HIDE DEF b
    <2>4. BindingTyped' /\ binding'[Mine] = b /\ OthersSame(Mine)
        BY <1>1, <2>2, <2>3, WriteGives DEF TypeOK, BindingTyped
    <2>5. TypeOK' /\ CtxOK' /\ ActivationOK'
        BY <1>1, <1>2, <1>4, <2>2, <2>4 DEF TypeOK, BindingTyped, CtxOK, ActivationOK,
           AtRun, Activating, Labels, Here
    <2>6. BindingOK'
        <3> SUFFICES ASSUME NEW t \in SessionNode
                     PROVE  /\ binding'[t].status = "none" => binding'[t] = NoBinding
                            /\ binding'[t].status # "none" => binding'[t].sequence >= 1
                            /\ binding'[t].sequence <= binding'[t].attempt
                            /\ binding'[t].attempt <= run.attempt
            BY <1>1 DEF BindingOK
        <3>1. CASE t = Mine
            BY <1>1, <1>2, <2>2, <2>4, <3>1 DEF Durable, BindingOK, Here
        <3>2. CASE t # Mine
            BY <2>4, <3>2 DEF Durable, BindingOK, OthersSame
        <3>3. QED
            BY <3>1, <3>2
    <2>7. SuspendedIsProven'
        <3> SUFFICES ASSUME NEW t \in SessionNode,
                            binding'[t].status \in {"suspended", "closed"}
                     PROVE  <<t, binding'[t].attempt>> \in outputs /\ binding'[t].ref # NoRef
            BY <1>1 DEF SuspendedIsProven
        <3>1. t # Mine
            BY <2>2, <2>4
        <3>2. QED
            BY <2>4, <3>1 DEF Durable, SuspendedIsProven, OthersSame
    <2>8. PromptsOK'
        <3> SUFFICES ASSUME NEW i \in DOMAIN prompts
                     PROVE  \E t \in SessionNode : About(prompts[i], t)'
            BY <1>1 DEF PromptsOK
        <3>1. PICK t \in SessionNode : About(prompts[i], t)
            BY DEF Durable, PromptsOK
        <3>2. /\ binding'[t].status # "none" /\ binding'[t].attempt = binding[t].attempt
              /\ prompts[i].ref \in {NoRef, binding'[t].ref}
            <4>1. CASE t = Mine
                BY <1>2, <1>4, <2>2, <2>4, <3>1, <4>1 DEF About, Here
            <4>2. CASE t # Mine
                BY <2>4, <3>1, <4>2 DEF About, OthersSame
            <4>3. QED
                BY <4>1, <4>2
        <3>3. About(prompts[i], t)'
            BY <1>1, <3>1, <3>2 DEF About
        <3>4. QED
            BY <3>3
    <2>9. PromptDeliveredOnce' /\ ContinuesOneSession'
        BY <1>1 DEF Durable, PromptDeliveredOnce, ContinuesOneSession
    <2>10. QED
        BY <2>5, <2>6, <2>7, <2>8, <2>9 DEF Durable
<1>5. QED
    BY <1>3, <1>4 DEF BindReturned

\* The outputs are proven: the binding is suspended.
LEMMA FinishActivationKeeps == ASSUME IInv, FinishActivation PROVE IInv'
<1> USE DEF IInv
<1>1. /\ pc = "suspending" /\ pc' \in {"finished", "failing"} /\ SetStatus(Mine, "suspended")
      /\ Mine \in SessionNode /\ Mine' = Mine /\ Here.status = "active"
      /\ UNCHANGED <<run, started, ended, outputs, agents, prompts, ctx, crashes>>
    BY DEF FinishActivation, node, world, ActivationOK, Activating, Mine
<1>2. Restatused(Mine, "suspended")
    BY <1>1, SetStatusGives DEF TypeOK, BindingTyped, Restatused, Statuses
<1>3. TypeOK' /\ CtxOK' /\ ActivationOK'
    BY <1>1, <1>2 DEF TypeOK, BindingTyped, CtxOK, ActivationOK, AtRun, Activating,
       Labels, Restatused
<1>4. Durable'
    BY <1>1, RestatusKeeps DEF Here, Statuses, IdOf, Mine, ActivationOK, Activating
<1>5. QED
    BY <1>3, <1>4

\* They are not: it is orphaned.
LEMMA OrphanActivationKeeps == ASSUME IInv, OrphanActivation PROVE IInv'
<1> USE DEF IInv
<1>1. /\ pc = "orphaning" /\ pc' = "failing" /\ SetStatus(Mine, "orphaned")
      /\ Mine \in SessionNode /\ Mine' = Mine /\ Here.status = "active"
      /\ UNCHANGED <<run, started, ended, outputs, agents, prompts, ctx, crashes>>
    BY DEF OrphanActivation, node, world, ActivationOK, Activating, Mine
<1>2. Restatused(Mine, "orphaned")
    BY <1>1, SetStatusGives DEF TypeOK, BindingTyped, Restatused, Statuses
<1>3. TypeOK' /\ CtxOK' /\ ActivationOK'
    BY <1>1, <1>2 DEF TypeOK, BindingTyped, CtxOK, ActivationOK, AtRun, Activating,
       Labels, Restatused
<1>4. Durable'
    BY <1>1, RestatusKeeps DEF Here, Statuses
<1>5. QED
    BY <1>3, <1>4

\* A completed activation is suspended without its executor, on its outputs.
LEMMA RecoverCompletedKeeps == ASSUME IInv, RecoverCompleted PROVE IInv'
<1> USE DEF IInv
<1>1. /\ pc = "step" /\ pc' \in {"finished", "threw"}
      /\ Mine \in SessionNode /\ Mine' = Mine /\ IdOf(ctx) \in outputs
      /\ UNCHANGED <<run, started, ended, outputs, agents, prompts, ctx, crashes>>
    BY DEF RecoverCompleted, Completed, SessionNode, node, world, Mine, TypeOK, Run
<1>2. ASSUME binding' \in [SessionNode -> Binding] PROVE TypeOK' /\ CtxOK' /\ ActivationOK'
    BY <1>1, <1>2 DEF TypeOK, CtxOK, ActivationOK, AtRun, Activating, Labels
<1>3. CASE Recoverable /\ SetStatus(Mine, "suspended")
    <2>1. Restatused(Mine, "suspended")
        BY <1>1, <1>3, SetStatusGives DEF TypeOK, BindingTyped, Statuses
    <2>2. Durable'
        BY <1>1, <1>3, RestatusKeeps DEF Recoverable, Here, Statuses, IdOf, Mine
    <2>3. QED
        BY <1>2, <2>1, <2>2 DEF Restatused, BindingTyped
<1>4. CASE Here.status # "none" /\ SetStatus(Mine, "orphaned")
    <2>1. Restatused(Mine, "orphaned")
        BY <1>1, <1>4, SetStatusGives DEF TypeOK, BindingTyped, Statuses
    <2>2. Durable'
        BY <1>1, <1>4, RestatusKeeps DEF Here, Statuses
    <2>3. QED
        BY <1>2, <2>1, <2>2 DEF Restatused, BindingTyped
<1>5. CASE UNCHANGED binding
    <2>1. Durable'
        BY <1>1, <1>5, SessionAssumption, QuietKeeps DEF TypeOK, Run
    <2>2. QED
        BY <1>2, <1>5, <2>1 DEF TypeOK
<1>6. QED
    BY <1>3, <1>4, <1>5 DEF RecoverCompleted

\* An activation nobody works on any more is orphaned with its attempt.
LEMMA StepOrphanKeeps == ASSUME IInv, StepOrphan PROVE IInv'
<1> USE DEF IInv
<1>1. /\ pc = "step" /\ pc' = "failing" /\ Mine' = Mine
      /\ UNCHANGED <<run, started, ended, outputs, agents, prompts, ctx, crashes>>
    BY DEF StepOrphan, node, world, Mine
<1>2. ASSUME binding' \in [SessionNode -> Binding] PROVE TypeOK' /\ CtxOK' /\ ActivationOK'
    BY <1>1, <1>2 DEF TypeOK, CtxOK, ActivationOK, AtRun, Activating, Labels
<1>3. CASE Kind[Mine] = "session" /\ Here.status \in {"allocated", "active"}
    <2>1. SetStatus(Mine, "orphaned") /\ Mine \in SessionNode
        BY <1>3 DEF StepOrphan, SessionNode, Mine, TypeOK, Run
    <2>2. Restatused(Mine, "orphaned")
        BY <2>1, SetStatusGives DEF TypeOK, BindingTyped, Statuses
    <2>3. Durable'
        BY <1>1, <1>3, <2>1, RestatusKeeps DEF Here, Statuses
    <2>4. QED
        BY <1>2, <2>2, <2>3 DEF Restatused, BindingTyped
<1>4. CASE ~(Kind[Mine] = "session" /\ Here.status \in {"allocated", "active"})
    <2>1. UNCHANGED binding
        BY <1>4 DEF StepOrphan
    <2>2. Durable'
        BY <1>1, <2>1, SessionAssumption, QuietKeeps DEF TypeOK, Run
    <2>3. QED
        BY <1>2, <2>1, <2>2 DEF TypeOK
<1>5. QED
    BY <1>3, <1>4

\* The end of a run closes what is suspended, and so proven.
LEMMA CloseBindingsKeeps == ASSUME IInv, CloseBindings PROVE IInv'
<1> USE DEF IInv
<1>1. pc = "close" /\ UNCHANGED <<run, started, ended, outputs, agents, prompts, crashes>>
    BY DEF CloseBindings, node, world
<1>2. ASSUME NEW s, s \in Closable, SetStatus(s, "closed"), UNCHANGED <<pc, ctx>>
      PROVE  IInv'
    <2>1. s \in SessionNode /\ binding[s].status = "suspended"
        BY <1>2 DEF Closable, With
    <2>2. Restatused(s, "closed")
        BY <1>2, <2>1, SetStatusGives DEF TypeOK, BindingTyped, Statuses
    <2>3. TypeOK' /\ CtxOK' /\ ActivationOK'
        BY <1>1, <1>2, <2>2 DEF TypeOK, BindingTyped, CtxOK, ActivationOK, AtRun,
           Activating, Restatused
    <2>4. <<s, binding[s].attempt>> \in outputs /\ binding[s].ref # NoRef
        BY <2>1 DEF Durable, SuspendedIsProven
    <2>5. Durable'
        BY <1>1, <1>2, <2>1, <2>4, RestatusKeeps DEF Statuses
    <2>6. QED
        BY <2>3, <2>5
<1>3. CASE /\ pc' \in {"save", "threw"} /\ UNCHANGED binding
           /\ ctx' = [ctx EXCEPT !.status = IF Blocking = {} THEN "done" ELSE @]
    <2>1. ctx' \in Run /\ ctx'.attempt = ctx.attempt
        BY <1>3 DEF TypeOK, Run
    <2>2. TypeOK' /\ CtxOK' /\ ActivationOK'
        BY <1>1, <1>3, <2>1 DEF TypeOK, CtxOK, ActivationOK, AtRun, Activating, Labels
    <2>3. Durable'
        BY <1>1, <1>3, SessionAssumption, QuietKeeps DEF TypeOK, Run
    <2>4. QED
        BY <2>2, <2>3
<1>4. QED
    BY <1>2, <1>3 DEF CloseBindings

\* A cancel orphans what is open.
LEMMA CancelOrphansKeeps == ASSUME IInv, CancelOrphans PROVE IInv'
<1> USE DEF IInv
<1>1. /\ pc = "cancel" /\ pc' \in {"cancel", "cancelsave"}
      /\ UNCHANGED <<run, started, ended, outputs, agents, prompts, ctx, crashes>>
    BY DEF CancelOrphans, node, world
<1>2. ASSUME binding' \in [SessionNode -> Binding] PROVE TypeOK' /\ CtxOK' /\ ActivationOK'
    BY <1>1, <1>2 DEF TypeOK, CtxOK, ActivationOK, AtRun, Activating, Labels
<1>3. ASSUME NEW s, s \in Interrupted, SetStatus(s, "orphaned") PROVE IInv'
    <2>1. s \in SessionNode /\ binding[s].status \in {"allocated", "active"}
        BY <1>3 DEF Interrupted, With
    <2>2. Restatused(s, "orphaned")
        BY <1>3, <2>1, SetStatusGives DEF TypeOK, BindingTyped, Statuses
    <2>3. Durable'
        BY <1>1, <1>3, <2>1, RestatusKeeps DEF Statuses
    <2>4. QED
        BY <1>2, <2>2, <2>3 DEF Restatused, BindingTyped
<1>4. CASE UNCHANGED binding
    <2>1. Durable'
        BY <1>1, <1>4, SessionAssumption, QuietKeeps DEF TypeOK, Run
    <2>2. QED
        BY <1>2, <1>4, <2>1 DEF TypeOK
<1>5. QED
    BY <1>3, <1>4 DEF CancelOrphans

----------------------------------------------------------------------------
(* The theorems.                                                           *)

\* The invariant holds at the start,
LEMMA InitIInv == Init => IInv
<1> SUFFICES ASSUME Init PROVE IInv
    OBVIOUS
<1>1. NoBinding \in Binding
    BY SessionAssumption DEF NoBinding, Binding
<1>2. TypeOK
    BY <1>1, SessionAssumption DEF Init, TypeOK, Run, Labels
<1>3. CtxOK /\ ActivationOK
    BY DEF Init, CtxOK, ActivationOK, AtRun, Activating
<1>4. BindingOK /\ SuspendedIsProven
    BY SessionAssumption DEF Init, BindingOK, SuspendedIsProven, NoBinding
<1>5. PromptsOK /\ PromptDeliveredOnce /\ ContinuesOneSession
    BY DEF Init, PromptsOK, PromptDeliveredOnce, ContinuesOneSession
<1>6. QED
    BY <1>2, <1>3, <1>4, <1>5 DEF IInv, Durable

\* every step of the runner, the executors and the commands keeps it,
LEMMA NextIInv == IInv /\ [Next]_vars => IInv'
<1> SUFFICES ASSUME IInv, [Next]_vars PROVE IInv'
    OBVIOUS
<1>1. CASE UNCHANGED vars
    <2>1. TypeOK' /\ CtxOK' /\ ActivationOK'
        BY <1>1 DEF vars, IInv, TypeOK, CtxOK, ActivationOK, Mine, Here
    <2>2. Durable'
        BY <1>1, SessionAssumption, QuietKeeps DEF vars, IInv, TypeOK, Run
    <2>3. QED
        BY <2>1, <2>2 DEF IInv
<1>2. CASE Next
    BY <1>2, EngineKeeps, AgentKeeps, BeginKeeps, ActivateKeeps, InvokeKeeps,
       BindReturnedKeeps, FinishActivationKeeps, OrphanActivationKeeps,
       RecoverCompletedKeeps, StepOrphanKeeps, CloseBindingsKeeps, CancelOrphansKeeps
       DEF Next, Runner
<1>3. QED
    BY <1>1, <1>2

\* and so it always holds.
LEMMA InvariantHolds == Spec => []IInv
BY InitIInv, NextIInv, PTL DEF Spec

\* Bindings, prompts and the runner's memory have their types.
THEOREM SessionsTypeCorrect == Spec => []TypeOK
<1>1. IInv => TypeOK
    BY DEF IInv
<1> QED BY <1>1, InvariantHolds, PTL

\* No prompt is ever delivered twice, wherever the runner is killed, however
\* often the run is resumed, retried and cancelled and whatever its executors
\* answer.
THEOREM PromptsDeliveredOnce == Spec => []PromptDeliveredOnce
<1>1. IInv => PromptDeliveredOnce
    BY DEF IInv, Durable
<1> QED BY <1>1, InvariantHolds, PTL

\* A state's prompts all go to the one session its first prompt started.
THEOREM OneSessionContinued == Spec => []ContinuesOneSession
<1>1. IInv => ContinuesOneSession
    BY DEF IInv, Durable
<1> QED BY <1>1, InvariantHolds, PTL

\* A binding is suspended or closed only on proven outputs and with an exact
\* reference.
THEOREM SuspensionsProven == Spec => []SuspendedIsProven
<1>1. IInv => SuspendedIsProven
    BY DEF IInv, Durable
<1> QED BY <1>1, InvariantHolds, PTL

----------------------------------------------------------------------------
(***************************************************************************)
(* The run and its sessions: a second invariant, on top of the first.  A   *)
(* runner works on a run that is running, and a run that is done had its   *)
(* sessions closed (RunnerOK); the log knows no attempt ahead of state.edn *)
(* and the start of every activation (LoggedOK); before the first kill no  *)
(* activation begins under an attempt that was closed (UnbrokenOK); and    *)
(* until the second kill whatever leaves an activation open leaves its     *)
(* attempt open in the log, where the next resume sees it (OpenOK).        *)
(***************************************************************************)
AllClosed == With({"none", "closed"}) = SessionNode

RunnerOK ==
    /\ pc \notin {"idle", "threw"} => run.status = "running"
    /\ run.status = "done" => pc = "idle" /\ AllClosed
    /\ pc \in AtRun \cup {"close"} =>
        ctx.status = CASE pc = "storefail" -> "failed"
                       [] pc \in {"cancel", "cancelsave"} -> "cancelled"
                       [] OTHER -> "running"
    /\ pc = "save" => ctx.status = "running" \/ (ctx.status = "done" /\ AllClosed)
    /\ pc \in {"close", "save"} => run.attempt < ctx.attempt

LoggedOK ==
    /\ \A id \in started \cup ended : id[2] <= run.attempt
    /\ pc \in Activating \cup {"begin"} => IdOf(ctx) \in started
    /\ pc = "work" => Kind[Mine] # "session"
    /\ pc \in {"finished", "select"} /\ Kind[Mine] = "session" =>
        IdOf(ctx) \in outputs

UnbrokenOK ==
    crashes = 0 =>
        /\ pc \in Activating \cup {"begin"} => IdOf(ctx) \notin ended
        /\ /\ pc \notin {"storefail", "cancel", "cancelsave"}
           /\ run.status = "running" /\ Kind[run.state] = "session"
           /\ IdOf(run) \in ended
           => IdOf(run) \in outputs

Past == {"work", "begin", "finished", "failing", "storefail", "select", "close",
         "save", "cancelsave"}
OpenOK ==
    crashes < 2 =>
        /\ \A s \in Interrupted :
              run.status = "running" /\ IdOf(run) = <<s, binding[s].attempt>>
        /\ pc \in Past => Interrupted = {}
        /\ Interrupted # {} /\ (crashes = 0 \/ pc \notin Activating \cup {"cancel"}) =>
              IdOf(run) \in started \ ended

LifeInv == RunnerOK /\ LoggedOK /\ UnbrokenOK /\ OpenOK

\* Sessions other than one keep their status, and that one has the new one.
LEMMA RestatusedGives ==
    ASSUME NEW s \in SessionNode, NEW st, Restatused(s, st)
    PROVE  /\ Interrupted' = IF st \in {"allocated", "active"}
                               THEN Interrupted \cup {s} ELSE Interrupted \ {s}
           /\ \A t \in SessionNode : binding'[t].attempt = binding[t].attempt
<1>1. \A t \in SessionNode :
        /\ binding'[t].status = IF t = s THEN st ELSE binding[t].status
        /\ binding'[t].attempt = binding[t].attempt
    BY DEF Restatused, OthersSame
<1>2. \A t \in SessionNode : t \in Interrupted' <=>
        IF t = s THEN st \in {"allocated", "active"} ELSE t \in Interrupted
    BY <1>1 DEF Interrupted, With
<1>3. Interrupted \subseteq SessionNode /\ Interrupted' \subseteq SessionNode
    BY DEF Interrupted, With
<1>4. QED
    BY <1>1, <1>2, <1>3

\* A runner's run is running, and a run is done when its sessions are closed.
LEMMA RunnerKeeps ==
    ASSUME IInv, RunnerOK, Next PROVE RunnerOK'
<1> USE DEF IInv, RunnerOK, AtRun, node, world
<1> /\ run \in Run /\ ctx \in Run /\ run.attempt \in Nat /\ ctx.attempt \in Nat
    BY SessionAssumption DEF TypeOK, Run
<1> UNCHANGED binding => (AllClosed => AllClosed')
    BY DEF AllClosed, With
<1>1. CASE Resume
    BY <1>1 DEF Resume
<1>2. CASE Retry
    <2>1. ctx'.status = "running" /\ run'.status = "running"
        BY <1>2 DEF Retry, Run
    <2>2. QED
        BY <1>2, <2>1 DEF Retry
<1>3. CASE Start \/ Work \/ Finish
    BY <1>3 DEF Start, Work, Finish
<1>4. CASE Fail
    <2>1. ctx'.status = "failed"
        BY <1>4 DEF Fail, Run
    <2>2. QED
        BY <1>4, <2>1 DEF Fail
<1>5. CASE StoreFailed \/ Leave
    BY <1>5 DEF StoreFailed, Leave
<1>6. CASE Select
    <2>1. CASE pc' = "threw" /\ UNCHANGED ctx
        BY <1>6, <2>1 DEF Select
    <2>2. CASE /\ ctx.attempt < MaxAttempt
               /\ \E n \in Successors[Mine] :
                    /\ ctx' = [ctx EXCEPT !.state = n, !.attempt = @ + 1]
                    /\ pc' = IF Kind[n] = "terminal" THEN "close" ELSE "save"
        <3>1. PICK n \in Successors[Mine] :
                    /\ ctx' = [ctx EXCEPT !.state = n, !.attempt = @ + 1]
                    /\ pc' = IF Kind[n] = "terminal" THEN "close" ELSE "save"
            BY <2>2
        <3>2. ctx' = [state |-> n, status |-> ctx.status, attempt |-> ctx.attempt + 1]
            BY <3>1 DEF Run
        <3>3. pc = "select" /\ UNCHANGED <<run, binding>>
            BY <1>6 DEF Select
        <3>4. run.attempt < ctx'.attempt /\ ctx'.status = "running"
            BY <3>2, <3>3 DEF CtxOK
        <3>5. pc' \in {"close", "save"}
            BY <3>1
        <3>6. QED
            BY <3>3, <3>4, <3>5
    <2>3. QED
        BY <1>6, <2>1, <2>2 DEF Select
<1>7. CASE Save
    BY <1>7 DEF Save
<1>8. CASE BeginActivation \/ Activate \/ Invoke \/ BindReturned \/ Complete
           \/ FinishActivation \/ OrphanActivation \/ RecoverCompleted \/ StepOrphan
    <2>1. /\ pc \in {"begin", "step"} \cup Activating
          /\ pc' \in {"failing", "finished", "threw"} \cup Activating
          /\ UNCHANGED <<run, ctx>>
        BY <1>8 DEF BeginActivation, Activate, Invoke, BindReturned, Complete,
           FinishActivation, OrphanActivation, RecoverCompleted, StepOrphan, Activating
    <2>2. QED
        BY <2>1 DEF Activating
<1>9. CASE CloseBindings
    <2>1. pc = "close" /\ UNCHANGED run
        BY <1>9 DEF CloseBindings
    <2>2. CASE UNCHANGED <<pc, ctx>>
        BY <2>1, <2>2
    <2>3. CASE /\ Closable = {} \/ Blocking # {}
               /\ pc' = IF Blocking = {} THEN "save" ELSE "threw"
               /\ ctx' = [ctx EXCEPT !.status = IF Blocking = {} THEN "done" ELSE @]
               /\ UNCHANGED binding
        <3>1. CASE Blocking = {}
            <4>1. \A s \in SessionNode : binding[s].status \in Statuses
                BY BindingFields DEF TypeOK
            <4>2. AllClosed
                BY <2>3, <3>1, <4>1 DEF AllClosed, With, Closable, Blocking, Statuses
            <4>3. ctx'.status = "done" /\ ctx'.attempt = ctx.attempt /\ pc' = "save"
                BY <2>3, <3>1 DEF Run
            <4>4. QED
                BY <2>1, <2>3, <4>2, <4>3
        <3>2. CASE Blocking # {}
            BY <2>1, <2>3, <3>2
        <3>3. QED
            BY <3>1, <3>2
    <2>4. QED
        BY <1>9, <2>2, <2>3 DEF CloseBindings
<1>10. CASE Cancel
    <2>1. ctx'.status = "cancelled"
        BY <1>10 DEF Cancel, Run
    <2>2. QED
        BY <1>10, <2>1 DEF Cancel
<1>11. CASE CancelOrphans \/ CancelSave \/ Crash
    BY <1>11 DEF CancelOrphans, CancelSave, Crash
<1>12. ASSUME NEW g, AgentWrites(g) \/ AgentEnds(g) PROVE RunnerOK'
    BY <1>12 DEF AgentWrites, AgentEnds
<1>13. QED
    BY <1>1, <1>2, <1>3, <1>4, <1>5, <1>6, <1>7, <1>8, <1>9, <1>10, <1>11, <1>12
       DEF Next, Runner

\* How a step moves the run: not at all, or to a later attempt or another
\* status.
LEMMA RunMoves ==
    ASSUME IInv, RunnerOK, Next
    PROVE  \/ UNCHANGED run
           \/ run'.attempt = run.attempt /\ run'.state = run.state
              /\ run'.status \in {"failed", "cancelled"}
              /\ pc \in {"storefail", "cancelsave"} /\ pc' \in {"threw", "idle"}
           \/ run.attempt < run'.attempt /\ (pc = "save" \/ run.status \in {"failed", "cancelled"})
              /\ pc' \in {"step", "idle"} /\ UNCHANGED <<started, ended, binding, outputs, crashes>>
<1> USE DEF IInv, node, world
<1> run \in Run /\ ctx \in Run /\ run.attempt \in Nat /\ ctx.attempt \in Nat
    BY SessionAssumption DEF TypeOK, Run
<1>1. CASE Retry
    <2>1. run'.attempt = run.attempt + 1
        BY <1>1 DEF Retry, Run
    <2>2. QED
        BY <1>1, <2>1 DEF Retry
<1>2. CASE StoreFailed \/ CancelSave
    BY <1>2 DEF StoreFailed, CancelSave, CtxOK, RunnerOK, AtRun
<1>3. CASE Save
    BY <1>3 DEF Save, RunnerOK
<1>4. CASE \/ Resume \/ Start \/ Work \/ Fail \/ Finish \/ Select \/ Leave
           \/ BeginActivation \/ Activate \/ Invoke \/ BindReturned \/ Complete
           \/ FinishActivation \/ OrphanActivation \/ RecoverCompleted \/ StepOrphan
           \/ CloseBindings \/ Cancel \/ CancelOrphans \/ Crash
    BY <1>4 DEF Resume, Start, Work, Fail, Finish, Select, Leave, BeginActivation,
       Activate, Invoke, BindReturned, Complete, FinishActivation, OrphanActivation,
       RecoverCompleted, StepOrphan, CloseBindings, Cancel, CancelOrphans, Crash
<1>5. ASSUME NEW g, AgentWrites(g) \/ AgentEnds(g) PROVE UNCHANGED run
    BY <1>5 DEF AgentWrites, AgentEnds
<1>6. QED
    BY <1>1, <1>2, <1>3, <1>4, <1>5 DEF Next, Runner

\* How a step moves the log: by the event of the attempt at hand.
LEMMA LogMoves ==
    ASSUME Next
    PROVE  /\ \/ UNCHANGED started
              \/ /\ pc = "step" /\ started' = started \cup {IdOf(ctx)}
                 /\ pc' = IF Kind[Mine] = "session" THEN "begin" ELSE "work"
           /\ \/ UNCHANGED ended
              \/ /\ pc = "failing" /\ pc' = "storefail"
                 /\ ended' = ended \cup {IdOf(ctx)}
              \/ /\ pc = "finished" /\ pc' = "select"
                 /\ ended' = ended \cup {IdOf(ctx)} /\ UNCHANGED <<run, ctx>>
           /\ outputs \subseteq outputs'
<1> USE DEF node, world
<1>1. CASE Start
    BY <1>1 DEF Start
<1>2. CASE Fail \/ Finish
    BY <1>2 DEF Fail, Finish
<1>3. CASE \/ Resume \/ Retry \/ Work \/ StoreFailed \/ Select \/ Save \/ Leave
           \/ BeginActivation \/ Activate \/ Invoke \/ BindReturned \/ Complete
           \/ FinishActivation \/ OrphanActivation \/ RecoverCompleted \/ StepOrphan
           \/ CloseBindings \/ Cancel \/ CancelOrphans \/ CancelSave \/ Crash
    BY <1>3 DEF Resume, Retry, Work, StoreFailed, Select, Save, Leave, BeginActivation,
       Activate, Invoke, BindReturned, Complete, FinishActivation, OrphanActivation,
       RecoverCompleted, StepOrphan, CloseBindings, Cancel, CancelOrphans, CancelSave, Crash
<1>4. ASSUME NEW g, AgentWrites(g) \/ AgentEnds(g)
      PROVE  UNCHANGED <<started, ended>> /\ outputs \subseteq outputs'
    BY <1>4 DEF AgentWrites, AgentEnds
<1>5. QED
    BY <1>1, <1>2, <1>3, <1>4 DEF Next, Runner

\* How a step moves the program counter within a node.
LEMMA PhaseMoves ==
    ASSUME TypeOK, Next
    PROVE  /\ pc' \in Activating =>
               pc \in Activating \cup {"begin"} /\ UNCHANGED <<run, ctx>>
           /\ pc' = "begin" => pc \in {"begin", "step"} /\ UNCHANGED <<run, ctx>>
           /\ pc = "step" /\ pc' = "begin" =>
               Start /\ Kind[Mine] = "session"
           /\ pc' = "work" => UNCHANGED ctx /\ (pc = "work" \/ Kind[Mine] # "session")
           /\ pc' \in {"finished", "select"} =>
               /\ UNCHANGED ctx
               /\ \/ pc \in {"work", "suspending", "finished", "select"}
                  \/ pc = "step" /\ IdOf(ctx) \in outputs
           /\ crashes' = crashes \/ (crashes' = crashes + 1 /\ pc' = "idle")
           /\ pc' # pc /\ pc \in {"storefail", "cancel", "cancelsave"} =>
               \/ pc' \in {"cancel", "cancelsave"}
               \/ crashes' = crashes + 1
               \/ pc = "storefail" /\ run' = ctx
               \/ pc = "cancelsave" /\ run' = ctx
<1> USE DEF node, world, Activating
<1>1. CASE \/ Resume \/ Retry \/ Start \/ Work \/ Fail \/ StoreFailed
           \/ Finish \/ Save \/ Leave \/ CloseBindings
    BY <1>1 DEF Resume, Retry, Start, Work, Fail, StoreFailed, Finish, Save, Leave,
       CloseBindings
<1>2. CASE Select
    <2>1. pc' \in {"close", "save", "threw"} /\ pc = "select" /\ UNCHANGED crashes
        BY <1>2 DEF Select
    <2>2. QED
        BY <2>1
<1>3. CASE \/ BeginActivation \/ Activate \/ Invoke \/ BindReturned \/ Complete
           \/ FinishActivation \/ OrphanActivation \/ RecoverCompleted \/ StepOrphan
    BY <1>3 DEF BeginActivation, Activate, Invoke, BindReturned, Complete,
       FinishActivation, OrphanActivation, RecoverCompleted, Completed, StepOrphan
<1>4. CASE Cancel \/ CancelOrphans \/ CancelSave \/ Crash
    BY <1>4 DEF Cancel, CancelOrphans, CancelSave, Crash
<1>5. ASSUME NEW g, AgentWrites(g) \/ AgentEnds(g) PROVE UNCHANGED <<run, ctx, pc, crashes>>
    BY <1>5 DEF AgentWrites, AgentEnds
<1>6. QED
    BY <1>1, <1>2, <1>3, <1>4, <1>5 DEF Next, Runner

\* The log stays behind state.edn and knows what an activation needs it to.
LEMMA LoggedKeeps ==
    ASSUME IInv, RunnerOK, LoggedOK, Next PROVE LoggedOK'
<1> USE DEF IInv
<1> /\ run \in Run /\ ctx \in Run /\ run.attempt \in Nat /\ ctx.attempt \in Nat
    /\ run' \in Run /\ run'.attempt \in Nat
    BY NextIInv, SessionAssumption DEF TypeOK, Run
<1>1. ASSUME NEW id \in started' \cup ended' PROVE id[2] <= run'.attempt
    <2>1. run.attempt <= run'.attempt
        BY RunMoves
    <2>2. CASE id \in started \cup ended
        <3>1. id[2] \in Nat /\ id[2] <= run.attempt
            BY <2>2 DEF LoggedOK, TypeOK, Id
        <3>2. QED
            BY <2>1, <3>1
    <2>3. CASE id \notin started \cup ended
        <3>1. id = IdOf(ctx) /\ pc \in AtRun
            BY <1>1, <2>3, LogMoves, Zenon DEF AtRun
        <3>2. id[2] = run.attempt
            BY <3>1 DEF CtxOK, IdOf
        <3>3. QED
            BY <2>1, <3>2
    <2>4. QED
        BY <2>2, <2>3
<1>2. pc' \in Activating \cup {"begin"} => IdOf(ctx') \in started'
    <2> SUFFICES ASSUME pc' \in Activating \cup {"begin"} PROVE IdOf(ctx') \in started'
        OBVIOUS
    <2>1. UNCHANGED ctx /\ pc \in Activating \cup {"begin", "step"}
          /\ (pc = "step" => Start)
        BY PhaseMoves DEF Activating
    <2>2. QED
        BY <2>1, LogMoves DEF LoggedOK, Start, Activating
<1>3. pc' = "work" => Kind[Mine'] # "session"
    BY PhaseMoves DEF LoggedOK, Mine
<1>4. pc' \in {"finished", "select"} /\ Kind[Mine'] = "session" => IdOf(ctx') \in outputs'
    <2> SUFFICES ASSUME pc' \in {"finished", "select"}, Kind[Mine'] = "session"
                 PROVE  IdOf(ctx') \in outputs'
        OBVIOUS
    <2>1. UNCHANGED ctx /\ outputs \subseteq outputs'
        BY PhaseMoves, LogMoves
    <2>2. IdOf(ctx) \in outputs
        BY <2>1, PhaseMoves DEF LoggedOK, ActivationOK, Mine
    <2>3. QED
        BY <2>1, <2>2
<1>5. QED
    BY <1>1, <1>2, <1>3, <1>4 DEF LoggedOK, Mine, IdOf

\* Before the first kill no activation begins under a closed attempt.
LEMMA UnbrokenKeeps ==
    ASSUME IInv, RunnerOK, LoggedOK, UnbrokenOK, Next PROVE UnbrokenOK'
<1> USE DEF IInv
<1> /\ run \in Run /\ ctx \in Run /\ run.attempt \in Nat /\ ctx.attempt \in Nat
    /\ crashes \in Nat /\ run'.attempt \in Nat
    BY NextIInv, SessionAssumption DEF TypeOK, Run
<1> SUFFICES ASSUME crashes' = 0 PROVE UnbrokenOK'
    BY DEF UnbrokenOK
<1>1. crashes = 0
    BY PhaseMoves
<1>2. pc' \in Activating \cup {"begin"} => IdOf(ctx') \notin ended'
    <2> SUFFICES ASSUME pc' \in Activating \cup {"begin"} PROVE IdOf(ctx') \notin ended'
        OBVIOUS
    <2>1. UNCHANGED ctx /\ pc \in Activating \cup {"begin", "step"}
          /\ (pc = "step" => Start /\ Kind[Mine] = "session")
        BY PhaseMoves DEF Activating
    <2>2. UNCHANGED ended
        BY <2>1, LogMoves DEF Activating
    <2>3. CASE pc # "step"
        BY <1>1, <2>1, <2>2, <2>3 DEF UnbrokenOK
    <2>4. CASE pc = "step"
        <3>1. IdOf(ctx) = IdOf(run) /\ run.status = "running" /\ run.state = Mine
            BY <2>4 DEF CtxOK, AtRun, RunnerOK, IdOf, Mine
        <3>2. ~Completed /\ Kind[Mine] = "session"
            BY <2>1, <2>4 DEF Start
        <3>3. IdOf(ctx) \notin ended
            BY <1>1, <2>4, <3>1, <3>2 DEF UnbrokenOK, Completed
        <3>4. QED
            BY <2>1, <2>2, <3>3
    <2>5. QED
        BY <2>3, <2>4
<1>3. ASSUME pc' \notin {"storefail", "cancel", "cancelsave"}, run'.status = "running",
             Kind[run'.state] = "session", IdOf(run') \in ended'
      PROVE  IdOf(run') \in outputs'
    <2>1. pc \notin {"storefail", "cancel", "cancelsave"}
        BY <1>1, <1>3, PhaseMoves DEF RunnerOK, AtRun
    <2>2. UNCHANGED run
        <3>1. ASSUME run.attempt < run'.attempt, UNCHANGED ended PROVE FALSE
            <4>1. IdOf(run')[2] <= run.attempt /\ IdOf(run')[2] = run'.attempt
                BY <1>3, <3>1 DEF LoggedOK, IdOf
            <4>2. QED
                BY <3>1, <4>1
        <3>2. QED
            BY <1>3, <2>1, <3>1, RunMoves
    <2>3. outputs \subseteq outputs'
        BY LogMoves
    <2>4. CASE IdOf(run) \in ended
        BY <1>1, <1>3, <2>1, <2>2, <2>3, <2>4 DEF UnbrokenOK
    <2>5. CASE IdOf(run) \notin ended
        <3>1. pc = "finished"
            BY <1>3, <2>2, <2>5, LogMoves
        <3>2. IdOf(ctx) = IdOf(run) /\ run.state = Mine
            BY <3>1 DEF CtxOK, AtRun, IdOf, Mine
        <3>3. QED
            BY <1>3, <2>2, <2>3, <3>1, <3>2 DEF LoggedOK
    <2>6. QED
        BY <2>4, <2>5
<1>4. QED
    BY <1>2, <1>3 DEF UnbrokenOK, IdOf

\* Nothing is open.
LEMMA ClosedIsOpenOK == ASSUME Interrupted' = {} PROVE OpenOK'
    BY DEF OpenOK

\* What is open was open before, and the run and its log stand still.
LEMMA OpenShrinks ==
    ASSUME OpenOK, UNCHANGED <<run, started, ended>>,
           crashes' < 2 => crashes < 2, crashes' = 0 => crashes = 0,
           Interrupted' \subseteq Interrupted,
           \A s \in SessionNode : binding'[s].attempt = binding[s].attempt,
           pc' \notin Past \/ Interrupted' = {},
           \/ pc' \in Activating \cup {"cancel"} /\ crashes' # 0
           \/ crashes = 0 \/ pc \notin Activating \cup {"cancel"}
    PROVE  OpenOK'
<1> SUFFICES ASSUME crashes' < 2 PROVE OpenOK'
    BY DEF OpenOK
<1>1. ASSUME NEW s \in Interrupted'
      PROVE  run'.status = "running" /\ IdOf(run') = <<s, binding'[s].attempt>>
    <2>1. s \in Interrupted /\ s \in SessionNode
        BY DEF Interrupted, With
    <2>2. QED
        BY <2>1 DEF OpenOK
<1>2. ASSUME Interrupted' # {}, crashes' = 0 \/ pc' \notin Activating \cup {"cancel"}
      PROVE  IdOf(run') \in started' \ ended'
    BY <1>2 DEF OpenOK
<1>3. QED
    BY <1>1, <1>2 DEF OpenOK, IdOf

\* Whatever leaves an activation open leaves its attempt open.
LEMMA OpenKeeps ==
    ASSUME IInv, LifeInv, Next PROVE OpenOK'
<1> USE DEF IInv, LifeInv, node, world
<1> /\ run \in Run /\ ctx \in Run /\ run.attempt \in Nat /\ ctx.attempt \in Nat
    /\ crashes \in Nat /\ BindingTyped
    BY SessionAssumption DEF TypeOK, Run, BindingTyped
<1> SUFFICES ASSUME crashes' < 2 PROVE OpenOK'
    BY DEF OpenOK
<1>1. crashes < 2 /\ (crashes' = 0 => crashes = 0)
    BY PhaseMoves
<1>2. UNCHANGED binding =>
        /\ Interrupted' = Interrupted
        /\ \A s \in SessionNode : binding'[s].attempt = binding[s].attempt
    BY DEF Interrupted, With
<1>3. pc \in Past => Interrupted = {}
    BY <1>1 DEF OpenOK
\* An open binding is that of the run's own state.
<1>4. ASSUME NEW s \in Interrupted, pc \in AtRun PROVE s = Mine /\ Mine \in SessionNode
    <2>1. IdOf(run) = <<s, binding[s].attempt>> /\ s \in SessionNode
        BY <1>1 DEF OpenOK, Interrupted, With
    <2>2. run.state = s /\ run.state = Mine
        BY <1>4, <2>1 DEF IdOf, CtxOK, Mine
    <2>3. QED
        BY <2>1, <2>2
<1>5. CASE Resume \/ Leave \/ Cancel \/ Crash
    <2>1. /\ UNCHANGED <<run, started, ended, binding>>
          /\ pc' \in {"step", "idle", "cancel"}
        BY <1>5 DEF Resume, Leave, Cancel, Crash
    <2>2. CASE Crash
        BY <1>1, <1>2, <2>1, <2>2, OpenShrinks DEF Crash, Past
    <2>3. CASE Resume \/ Leave \/ Cancel
        <3>1. UNCHANGED crashes /\ (pc' = "cancel" \/ pc \in {"idle", "threw"})
            BY <2>3 DEF Resume, Leave, Cancel
        <3>2. QED
            BY <1>1, <1>2, <2>1, <3>1, OpenShrinks DEF Past, Activating
    <2>4. QED
        BY <1>5, <2>2, <2>3
<1>6. CASE Retry
    <2>1. Interrupted = {} /\ UNCHANGED binding
        BY <1>1, <1>6 DEF Retry, OpenOK
    <2>2. QED
        BY <1>2, <2>1, ClosedIsOpenOK
<1>7. CASE Start
    <2>1. /\ pc = "step" /\ ~InFlight /\ UNCHANGED binding
        BY <1>7 DEF Start
    <2>2. IdOf(run) = IdOf(ctx)
        BY <2>1 DEF CtxOK, AtRun, IdOf
    <2>3. Completed \/ IdOf(run) \notin started \ ended
        BY <2>1, <2>2 DEF InFlight
    <2>4. Interrupted = {}
        BY <1>1, <2>1, <2>2, <2>3 DEF OpenOK, InFlight, Activating
    <2>5. QED
        BY <1>2, <2>1, <2>4, ClosedIsOpenOK
<1>8. CASE Work \/ Fail \/ StoreFailed \/ Finish \/ Save \/ CancelSave \/ Select
    <2>1. pc \in Past /\ UNCHANGED binding
        BY <1>8 DEF Work, Fail, StoreFailed, Finish, Save, CancelSave, Select, Past
    <2>2. QED
        BY <1>2, <1>3, <2>1, ClosedIsOpenOK
<1>9. CASE BeginActivation
    <2>1. pc = "begin" /\ Interrupted = {} /\ UNCHANGED <<run, started, ended, crashes, ctx>>
        BY <1>3, <1>9 DEF BeginActivation, Past
    <2>2. CASE UNCHANGED binding
        BY <1>2, <2>1, <2>2, ClosedIsOpenOK
    <2>3. ASSUME NEW r \in RefFor(Mine, Here), pc' = "allocated",
                 Write(Mine, [status |-> "allocated", ref |-> r,
                              sequence |-> Here.sequence + 1, attempt |-> ctx.attempt])
          PROVE  OpenOK'
        <3>1. Mine \in SessionNode
            BY <2>1 DEF ActivationOK
        <3>2. \A t \in SessionNode :
                /\ binding'[t].status = IF t = Mine THEN "allocated" ELSE binding[t].status
                /\ t = Mine => binding'[t].attempt = ctx.attempt
            BY <2>3, <3>1 DEF Write, BindingTyped
        <3>3. \A t \in Interrupted' : t = Mine /\ binding'[t].attempt = ctx.attempt
            BY <2>1, <3>2 DEF Interrupted, With
        <3>4. run.status = "running" /\ IdOf(run) = <<Mine, ctx.attempt>>
            BY <2>1 DEF RunnerOK, CtxOK, AtRun, IdOf, Mine
        <3>5. crashes = 0 => IdOf(run) \in started \ ended
            BY <2>1, <3>4 DEF LoggedOK, UnbrokenOK, IdOf, Mine
        <3>6. QED
            BY <2>1, <2>3, <3>3, <3>4, <3>5 DEF OpenOK, Past, Activating, IdOf
    <2>4. QED
        BY <1>9, <2>2, <2>3 DEF BeginActivation
<1>10. CASE Activate
    <2>1. Mine \in SessionNode /\ SetStatus(Mine, "active") /\ Here.status = "allocated"
        BY <1>10 DEF Activate, ActivationOK, Activating
    <2>2. Restatused(Mine, "active") /\ Mine \in Interrupted
        BY <2>1, SetStatusGives DEF Statuses, Interrupted, With, Here
    <2>3. /\ Interrupted' = Interrupted
          /\ \A t \in SessionNode : binding'[t].attempt = binding[t].attempt
        BY <2>1, <2>2, RestatusedGives
    <2>4. QED
        BY <1>1, <1>10, <2>3, OpenShrinks DEF Activate, Activating, Past
<1>11. CASE Invoke \/ Complete
    BY <1>1, <1>2, <1>11, OpenShrinks DEF Invoke, Complete, Activating, Past
<1>12. CASE BindReturned
    <2>1. /\ pc = "running" /\ pc' \in {"orphaning", "complete"}
          /\ UNCHANGED <<run, started, ended, crashes>> /\ Mine \in SessionNode
        BY <1>12 DEF BindReturned, ActivationOK, Activating
    <2>2. \/ UNCHANGED binding
          \/ \E reply \in Replies(Mine, Here) : Write(Mine, [Here EXCEPT !.ref = reply.ref])
        BY <1>12 DEF BindReturned
    <2>3. /\ Interrupted' = Interrupted
          /\ \A t \in SessionNode : binding'[t].attempt = binding[t].attempt
        <3>1. ASSUME NEW reply, Write(Mine, [Here EXCEPT !.ref = reply.ref])
              PROVE  \A t \in SessionNode : /\ binding'[t].status = binding[t].status
                                            /\ binding'[t].attempt = binding[t].attempt
            BY <2>1, <3>1 DEF Write, BindingTyped, Binding, Here
        <3>2. QED
            BY <1>2, <2>2, <3>1 DEF Interrupted, With
    <2>4. QED
        BY <1>1, <2>1, <2>3, OpenShrinks DEF Activating, Past
<1>13. CASE FinishActivation \/ OrphanActivation \/ StepOrphan
    <2>1. pc \in AtRun
        BY <1>13 DEF FinishActivation, OrphanActivation, StepOrphan, AtRun
    <2>2. \/ /\ Mine \in SessionNode
             /\ \E st \in {"suspended", "orphaned"} : SetStatus(Mine, st)
          \/ UNCHANGED binding /\ Mine \notin Interrupted
        <3>1. CASE FinishActivation \/ OrphanActivation
            BY <3>1 DEF FinishActivation, OrphanActivation, ActivationOK, Activating
        <3>2. CASE StepOrphan
            BY <3>2 DEF StepOrphan, SessionNode, Mine, Run, Interrupted, With, Here
        <3>3. QED
            BY <1>13, <3>1, <3>2
    <2>3. CASE UNCHANGED binding /\ Mine \notin Interrupted
        BY <1>2, <1>4, <2>1, <2>3, ClosedIsOpenOK
    <2>4. ASSUME NEW st \in {"suspended", "orphaned"}, SetStatus(Mine, st), Mine \in SessionNode
          PROVE  OpenOK'
        <3>1. Interrupted' = Interrupted \ {Mine}
            BY <2>4, SetStatusGives, RestatusedGives DEF Statuses
        <3>2. QED
            BY <1>4, <2>1, <3>1, ClosedIsOpenOK
    <2>5. QED
        BY <2>2, <2>3, <2>4
<1>14. CASE RecoverCompleted
    <2>1. /\ pc = "step" /\ pc' \in {"finished", "threw"} /\ Mine \in SessionNode
          /\ UNCHANGED <<run, started, ended, crashes>>
        BY <1>14 DEF RecoverCompleted, Completed, SessionNode, Mine, Run
    <2>2. ASSUME NEW st \in {"suspended", "orphaned"}, SetStatus(Mine, st) PROVE OpenOK'
        <3>1. Interrupted' = Interrupted \ {Mine}
            BY <2>1, <2>2, SetStatusGives, RestatusedGives DEF Statuses
        <3>2. QED
            BY <1>4, <2>1, <3>1, ClosedIsOpenOK DEF AtRun
    <2>3. CASE UNCHANGED binding /\ pc' = "threw"
        BY <1>1, <1>2, <2>1, <2>3, OpenShrinks DEF Past, Activating
    <2>4. QED
        BY <1>14, <2>2, <2>3 DEF RecoverCompleted
<1>15. CASE CloseBindings
    <2>1. Interrupted = {}
        BY <1>3, <1>15 DEF CloseBindings, Past
    <2>2. ASSUME NEW s \in Closable, SetStatus(s, "closed") PROVE Interrupted' = {}
        <3>1. s \in SessionNode
            BY DEF Closable, With
        <3>2. Interrupted' = Interrupted \ {s}
            BY <2>2, <3>1, SetStatusGives, RestatusedGives DEF Statuses
        <3>3. QED
            BY <2>1, <3>2
    <2>3. QED
        BY <1>2, <1>15, <2>1, <2>2, ClosedIsOpenOK DEF CloseBindings
<1>16. CASE CancelOrphans
    <2>1. pc = "cancel" /\ UNCHANGED <<run, started, ended, crashes>>
        BY <1>16 DEF CancelOrphans
    <2>2. ASSUME NEW s \in Interrupted, SetStatus(s, "orphaned") PROVE OpenOK'
        <3>1. s = Mine /\ s \in SessionNode
            BY <1>4, <2>1 DEF AtRun
        <3>2. Interrupted' = Interrupted \ {s}
            BY <2>2, <3>1, SetStatusGives, RestatusedGives DEF Statuses
        <3>3. QED
            BY <1>4, <2>1, <3>1, <3>2, ClosedIsOpenOK DEF AtRun
    <2>3. CASE Interrupted = {} /\ UNCHANGED binding
        BY <1>2, <2>3, ClosedIsOpenOK
    <2>4. QED
        BY <1>16, <2>2, <2>3 DEF CancelOrphans
<1>17. ASSUME NEW g, AgentWrites(g) \/ AgentEnds(g) PROVE OpenOK'
    <2>1. UNCHANGED <<run, started, ended, binding, pc, crashes>>
        BY <1>17 DEF AgentWrites, AgentEnds
    <2>2. UNCHANGED Interrupted
        BY <2>1 DEF Interrupted, With
    <2>3. QED
        BY <2>1, <2>2 DEF OpenOK, IdOf
<1>18. QED
    BY <1>5, <1>6, <1>7, <1>8, <1>9, <1>10, <1>11, <1>12, <1>13, <1>14, <1>15, <1>16, <1>17
       DEF Next, Runner

\* The second invariant holds at the start,
LEMMA InitLife == Init => LifeInv
<1> SUFFICES ASSUME Init PROVE LifeInv
    OBVIOUS
<1>1. RunnerOK /\ LoggedOK /\ UnbrokenOK
    BY DEF Init, RunnerOK, LoggedOK, UnbrokenOK, AtRun, Activating
<1>2. Interrupted = {}
    BY DEF Init, Interrupted, With, NoBinding
<1>3. OpenOK
    BY <1>2 DEF OpenOK
<1>4. QED
    BY <1>1, <1>3 DEF LifeInv

\* every step keeps it,
LEMMA NextLife == IInv /\ LifeInv /\ [Next]_vars => LifeInv'
<1> SUFFICES ASSUME IInv, LifeInv, [Next]_vars PROVE LifeInv'
    OBVIOUS
<1>1. CASE UNCHANGED vars
    <2>1. UNCHANGED <<Interrupted, AllClosed>>
        BY <1>1 DEF vars, Interrupted, AllClosed, With
    <2>2. QED
        BY <1>1, <2>1 DEF vars, LifeInv, RunnerOK, LoggedOK, UnbrokenOK, OpenOK, Mine
<1>2. CASE Next
    BY <1>2, RunnerKeeps, LoggedKeeps, UnbrokenKeeps, OpenKeeps DEF LifeInv
<1>3. QED
    BY <1>1, <1>2

\* and so it always holds.
LEMMA LifeHolds == Spec => []LifeInv
BY InitIInv, NextIInv, InitLife, NextLife, PTL DEF Spec

----------------------------------------------------------------------------
(* Every write of a binding is a step in the life of its session.          *)

Seen(s) == [status |-> binding[s].status, ref |-> binding[s].ref,
            sequence |-> binding[s].sequence]
Sess == [s \in SessionNode |-> Seen(s)]

\* One binding changes: so does its session, and no other.
LEMMA OneSession ==
    ASSUME NEW s \in SessionNode, OthersSame(s), NEW b, Seen(s)' = b
    PROVE  /\ Sess' = [Sess EXCEPT ![s] = b]
           /\ Sess[s] = Seen(s)
<1>1. \A t \in SessionNode \ {s} : Seen(t)' = Seen(t)
    BY DEF OthersSame, Seen
<1>2. QED
    BY <1>1 DEF Sess

\* A binding gets another status: the session is suspended with a name,
\* orphaned while it was open, closed when suspended, or has it already.
LEMMA RestatusIsLife ==
    ASSUME TypeOK, NEW s \in SessionNode, NEW st \in Statuses, SetStatus(s, st),
           \/ st = binding[s].status
           \/ st = "active" /\ binding[s].status = "allocated"
           \/ st = "suspended" /\ binding[s].status = "active" /\ binding[s].ref # NoRef
           \/ st = "orphaned" /\ binding[s].status \in {"allocated", "active"}
           \/ st = "closed" /\ binding[s].status = "suspended"
    PROVE  [Contract!Next]_Sess
<1>1. Restatused(s, st)
    BY SetStatusGives DEF TypeOK, BindingTyped
<1> DEFINE b == [Seen(s) EXCEPT !.status = st]
<1>2. b = [status |-> st, ref |-> binding[s].ref, sequence |-> binding[s].sequence]
    BY DEF Seen
<1>3. Seen(s)' = b
    BY <1>1, <1>2 DEF Seen, Restatused
<1>4. Sess' = [Sess EXCEPT ![s] = b] /\ Sess[s] = Seen(s)
    BY <1>1, <1>3, OneSession DEF Restatused
<1>5. CASE st = binding[s].status
    <2>1. b = Sess[s]
        BY <1>2, <1>4, <1>5 DEF Seen
    <2>2. Sess' = Sess
        BY <1>4, <2>1 DEF Sess
    <2>3. QED
        BY <2>2
<1>6. Seen(s).status = binding[s].status /\ Seen(s).ref = binding[s].ref
    BY DEF Seen
<1> HIDE DEF b
<1>7. CASE st = "active" /\ binding[s].status = "allocated"
    <2>1. Contract!Activate(s)
        BY <1>4, <1>6, <1>7 DEF Contract!Activate, Contract!Becomes, b, Sess, Seen
    <2>2. QED
        BY <2>1 DEF Contract!Next
<1>8. CASE st = "suspended" /\ binding[s].status = "active" /\ binding[s].ref # NoRef
    <2>1. Contract!Suspend(s)
        BY <1>4, <1>6, <1>8 DEF Contract!Suspend, Contract!Becomes, b, Sess, Seen
    <2>2. QED
        BY <2>1 DEF Contract!Next
<1>9. CASE st = "orphaned" /\ binding[s].status \in {"allocated", "active"}
    <2>1. Contract!Orphan(s)
        BY <1>4, <1>6, <1>9 DEF Contract!Orphan, Contract!Becomes, b, Sess, Seen
    <2>2. QED
        BY <2>1 DEF Contract!Next
<1>10. CASE st = "closed" /\ binding[s].status = "suspended"
    <2>1. Contract!Close(s)
        BY <1>4, <1>6, <1>10 DEF Contract!Close, Contract!Becomes, b, Sess, Seen
    <2>2. QED
        BY <2>1 DEF Contract!Next
<1>11. QED
    BY <1>5, <1>7, <1>8, <1>9, <1>10

\* An activation starts the session, or continues it from a proven boundary
\* under its own reference.
LEMMA BeginIsLife ==
    ASSUME IInv, BeginActivation PROVE [Contract!Next]_Sess
<1> USE DEF IInv
<1>1. CASE UNCHANGED binding
    BY <1>1 DEF Sess, Seen
<1>2. ASSUME Continuable(Here), NEW r \in RefFor(Mine, Here),
             Write(Mine, [status |-> "allocated", ref |-> r,
                          sequence |-> Here.sequence + 1, attempt |-> ctx.attempt])
      PROVE  [Contract!Next]_Sess
    <2>1. PICK s \in SessionNode : s = Mine
        BY <1>2 DEF BeginActivation, ActivationOK
    <2>1a. Here = binding[s] /\ binding \in [SessionNode -> Binding]
        BY <2>1 DEF TypeOK, Here
    <2> DEFINE b == [status |-> "allocated", ref |-> r, sequence |-> Here.sequence + 1]
    <2>2. Seen(s)' = [status |-> binding'[s].status, ref |-> binding'[s].ref,
                         sequence |-> binding'[s].sequence]
        BY DEF Seen
    <2>3. Seen(s)' = b /\ OthersSame(s)
        BY <1>2, <2>1, <2>1a, <2>2 DEF Write, OthersSame
    <2> HIDE DEF b
    <2>4. Sess' = [Sess EXCEPT ![s] = b] /\ Sess[s] = Seen(s)
        BY <2>1, <2>1a, <2>3, OneSession
    <2>5. CASE Here.status = "none"
        <3>1. Here = NoBinding
            BY <2>1, <2>1a, <2>5 DEF Durable, BindingOK
        <3>2. r \in Ref \cup {NoRef} /\ b = [status |-> "allocated", ref |-> r, sequence |-> 1]
            BY <1>2, <3>1 DEF RefFor, Unused, NoBinding, b
        <3>3. Sess[s].status = "none"
            BY <2>1, <2>1a, <2>4, <2>5 DEF Seen
        <3>4. Contract!Start(s)
            BY <2>4, <3>2, <3>3 DEF Contract!Start, Contract!Becomes, Sess, Seen
        <3>5. QED
            BY <2>1, <2>1a, <3>4 DEF Contract!Next
    <2>6. CASE Here.status = "suspended"
        <3>1. r = Here.ref
            BY <1>2, <2>1, <2>1a, <2>6 DEF Durable, SuspendedIsProven, RefFor
        <3>2. Sess[s].status = "suspended" /\ Sess[s].ref = r
              /\ Sess[s].sequence = Here.sequence
            BY <2>1, <2>1a, <2>4, <2>6, <3>1 DEF Seen
        <3>3. b = [status |-> "allocated", ref |-> Sess[s].ref,
                   sequence |-> Sess[s].sequence + 1]
            BY <3>2 DEF b
        <3>4. Contract!Continue(s)
            BY <2>4, <3>2, <3>3 DEF Contract!Continue, Contract!Becomes, Sess, Seen
        <3>5. QED
            BY <2>1, <2>1a, <3>4 DEF Contract!Next
    <2>7. QED
        BY <1>2, <2>5, <2>6 DEF Continuable
<1>3. QED
    BY <1>1, <1>2 DEF BeginActivation

\* A reply names the session of an active binding that had no name.
LEMMA BindIsLife ==
    ASSUME IInv, BindReturned PROVE [Contract!Next]_Sess
<1> USE DEF IInv
<1>0. PICK s \in SessionNode : s = Mine
    BY DEF BindReturned, ActivationOK, Activating
<1>1. /\ Here = binding[s] /\ Here.status = "active" /\ Here \in Binding
      /\ binding \in [SessionNode -> Binding]
    BY <1>0 DEF BindReturned, ActivationOK, Activating, TypeOK, Here
<1>2. CASE UNCHANGED binding
    BY <1>2 DEF Sess, Seen
<1>3. ASSUME NEW reply \in Replies(Mine, Here), reply.ref # NoRef,
             Here.ref \in {NoRef, reply.ref},
             Write(Mine, [Here EXCEPT !.ref = reply.ref])
      PROVE  [Contract!Next]_Sess
    <2> DEFINE r == reply.ref
               b == [status |-> "active", ref |-> r, sequence |-> Here.sequence]
    <2>1. Seen(s)' = [status |-> binding'[s].status, ref |-> binding'[s].ref,
                         sequence |-> binding'[s].sequence]
        BY DEF Seen
    <2>2. binding'[s].status = "active" /\ binding'[s].ref = r
          /\ binding'[s].sequence = Here.sequence /\ OthersSame(s)
        BY <1>0, <1>1, <1>3 DEF Write, OthersSame, Binding
    <2>3. Seen(s)' = b
        BY <2>1, <2>2
    <2>4. Seen(s) = [status |-> "active", ref |-> Here.ref, sequence |-> Here.sequence]
        BY <1>0, <1>1 DEF Seen
    <2>5. Sess' = [Sess EXCEPT ![s] = b] /\ Sess[s] = Seen(s)
        BY <1>0, <1>1, <2>2, <2>3, OneSession
    <2>6. CASE Here.ref = reply.ref
        <3>1. Sess' = Sess
            BY <2>4, <2>5, <2>6 DEF Sess
        <3>2. QED
            BY <3>1
    <2>7. CASE Here.ref = NoRef
        <3>1. binding'[s] \in Binding
            <4>1. TypeOK'
                BY BindReturnedKeeps
            <4>2. QED
                BY <1>0, <1>1, <4>1 DEF TypeOK
        <3>2. r \in Ref
            BY <1>3, <2>2, <3>1 DEF Binding
        <3>3. Sess[s].status = "active" /\ Sess[s].ref = NoRef
              /\ [Sess[s] EXCEPT !.ref = r] = b
            BY <2>4, <2>5, <2>7
        <3>4. Contract!Bind(s)
            BY <2>5, <3>2, <3>3 DEF Contract!Bind, Contract!Becomes, Sess, Seen
        <3>5. QED
            BY <1>0, <1>1, <3>4 DEF Contract!Next
    <2>8. QED
        BY <1>3, <2>6, <2>7
<1>4. QED
    BY <1>2, <1>3 DEF BindReturned

\* Each step of the model is a step of at most one session.
LEMMA StepIsLife ==
    ASSUME IInv, [Next]_vars PROVE [Contract!Next]_Sess
<1> USE DEF IInv
<1>1. CASE BeginActivation
    BY <1>1, BeginIsLife
<1>2. CASE BindReturned
    BY <1>2, BindIsLife
<1>3. CASE Activate \/ FinishActivation \/ OrphanActivation
    <2>1. Mine \in SessionNode /\ Here = binding[Mine]
        BY <1>3 DEF Activate, FinishActivation, OrphanActivation, ActivationOK, Activating, Here
    <2>2. QED
        BY <1>3, <2>1, RestatusIsLife DEF Activate, FinishActivation, OrphanActivation,
           ActivationOK, Activating, Statuses
<1>4. CASE RecoverCompleted
    <2>1. Mine \in SessionNode /\ Here = binding[Mine]
        BY <1>4 DEF RecoverCompleted, Completed, SessionNode, TypeOK, Run, Mine, Here
    <2>2. CASE Recoverable /\ SetStatus(Mine, "suspended")
        BY <2>1, <2>2, RestatusIsLife DEF Recoverable, Statuses
    <2>3. CASE Here.status # "none" /\ Here.ref = NoRef /\ SetStatus(Mine, "orphaned")
        <3>1. Here.status \in {"allocated", "active", "orphaned"}
            BY <2>1, <2>3, BindingFields DEF TypeOK, Durable, SuspendedIsProven, Statuses
        <3>2. QED
            BY <2>1, <2>3, <3>1, RestatusIsLife DEF Statuses
    <2>4. CASE UNCHANGED binding
        BY <2>4 DEF Sess, Seen
    <2>5. QED
        BY <1>4, <2>2, <2>3, <2>4 DEF RecoverCompleted
<1>5. CASE StepOrphan
    <2>1. CASE UNCHANGED binding
        BY <2>1 DEF Sess, Seen
    <2>2. CASE Kind[Mine] = "session" /\ Here.status \in {"allocated", "active"}
               /\ SetStatus(Mine, "orphaned")
        <3>1. Mine \in SessionNode /\ Here = binding[Mine]
            BY <2>2 DEF SessionNode, TypeOK, Run, Mine, Here
        <3>2. QED
            BY <2>2, <3>1, RestatusIsLife DEF Statuses
    <2>3. QED
        BY <1>5, <2>1, <2>2 DEF StepOrphan
<1>6. CASE CloseBindings \/ CancelOrphans
    <2>1. CASE UNCHANGED binding
        BY <2>1 DEF Sess, Seen
    <2>2. ASSUME NEW s \in Closable, SetStatus(s, "closed") PROVE [Contract!Next]_Sess
        BY <2>2, RestatusIsLife DEF Closable, With, Statuses
    <2>3. ASSUME NEW s \in Interrupted, SetStatus(s, "orphaned") PROVE [Contract!Next]_Sess
        BY <2>3, RestatusIsLife DEF Interrupted, With, Statuses
    <2>4. QED
        BY <1>6, <2>1, <2>2, <2>3 DEF CloseBindings, CancelOrphans
<1>7. CASE \/ Resume \/ Retry \/ Start \/ Work \/ Fail \/ StoreFailed \/ Finish
           \/ Select \/ Save \/ Leave \/ Invoke \/ Complete
           \/ Cancel \/ CancelSave \/ Crash \/ UNCHANGED vars
    <2>1. UNCHANGED binding
        BY <1>7 DEF Resume, Retry, Start, Work, Fail, StoreFailed, Finish, Select,
           Save, Leave, Invoke, Complete, Cancel, CancelSave, Crash, vars
    <2>2. QED
        BY <2>1 DEF Sess, Seen
<1>8. ASSUME NEW g, AgentWrites(g) \/ AgentEnds(g) PROVE [Contract!Next]_Sess
    BY <1>8 DEF AgentWrites, AgentEnds, Sess, Seen
<1>9. QED
    BY <1>1, <1>2, <1>3, <1>4, <1>5, <1>6, <1>7, <1>8 DEF Next, Runner

\* A run is recorded as done only when each of its sessions is closed, however
\* it was resumed and wherever it was killed.
THEOREM DoneRunsAreClosed == Spec => []DoneIsClosed
<1>1. LifeInv => DoneIsClosed
    BY DEF LifeInv, RunnerOK, AllClosed, DoneIsClosed
<1> QED BY <1>1, LifeHolds, PTL

\* Until a second kill, an activation is open only while the run stands at its
\* state and attempt.
THEOREM OpenActivationsAreCurrent == Spec => []OpenIsCurrent
<1>1. LifeInv => OpenIsCurrent
    BY DEF LifeInv, OpenOK, OpenIsCurrent
<1> QED BY <1>1, LifeHolds, PTL

\* The bindings of a run implement the life of a session (SessionContract).
THEOREM BindingsLiveAsSessions == Spec => ImplementsSessions
<1> DEFINE Mapped == [s \in SessionNode |-> [status |-> binding[s].status,
                                             ref |-> binding[s].ref,
                                             sequence |-> binding[s].sequence]]
<1>1. Sess = Mapped
    BY DEF Sess, Seen
<1>2. Init => Contract!Init
    BY DEF Init, Contract!Init, NoBinding
<1>3. IInv /\ [Next]_vars => [Contract!Next]_Mapped
    BY StepIsLife DEF Sess, Seen
<1>4. QED
    BY <1>2, <1>3, InvariantHolds, PTL DEF Spec, ImplementsSessions, Contract!Spec
=============================================================================
