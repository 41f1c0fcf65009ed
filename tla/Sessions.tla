------------------------------- MODULE Sessions -------------------------------
(***************************************************************************)
(* The resumable agent sessions of one run (sessions.clj): a binding file  *)
(* per state, the executors that are sent prompts, and the parts of the    *)
(* engine that begin, finish, recover, orphan and close activations.  One  *)
(* runner or cancel works on the run at a time (RunEngine is about         *)
(* several); it may be killed between any two file operations, and an      *)
(* executor's process may outlive it.                                      *)
(***************************************************************************)
EXTENDS Naturals, Sequences, FiniteSets

CONSTANTS
    Node, Initial,  \* the workflow's states and its initial one
    Kind,           \* Node -> "session", "work" or "terminal"
    Successors,     \* Node -> the nodes its transitions lead to
    Executor,       \* Node -> "pi", "claude" or "opencode"
    Ref, NoRef,     \* exact session references; a reference not known
    MaxAttempt,     \* bound: attempts, whether by transition or by retry
    MaxCrashes      \* bound: runners killed by the environment

SessionNode == {n \in Node : Kind[n] = "session"}

ASSUME SessionAssumption ==
    /\ Initial \in Node
    /\ Kind \in [Node -> {"session", "work", "terminal"}]
    /\ Successors \in [Node -> SUBSET Node]
    /\ Executor \in [Node -> {"pi", "claude", "opencode"}]
    /\ NoRef \notin Ref
    /\ MaxAttempt \in Nat \ {0} /\ MaxCrashes \in Nat

VARIABLES
    run,        \* state.edn: [state, status, attempt]
    started,    \* (state, attempt) pairs with a node.started in the log
    ended,      \* ... with node.finished, node.failed or node.orphaned
    binding,    \* sessions/<state>/binding.json
    outputs,    \* (state, attempt) pairs whose stamped outputs are all there
    agents,     \* executor processes, by the delivery they work on
    prompts,    \* history: deliveries in the order executors took them
    pc,         \* the next operation of the runner or the cancel
    ctx,        \* the run in its memory
    crashes     \* runners killed so far

vars == <<run, started, ended, binding, outputs, agents, prompts, pc, ctx,
          crashes>>
node == <<started, ended>>
world == <<outputs, agents, prompts>>

Id == Node \X (1..MaxAttempt)
Run == [state : Node, status : {"running", "done", "failed", "cancelled"},
        attempt : 1..MaxAttempt]
IdOf(c) == <<c.state, c.attempt>>

\* A binding file as far as anything depends on it; `attempt` is that of the
\* last activation.  "none": there is no file.
NoBinding == [status |-> "none", ref |-> NoRef, sequence |-> 0, attempt |-> 0]
Binding == [status : {"none", "allocated", "active", "suspended", "orphaned",
                      "closed"},
            ref : Ref \cup {NoRef}, sequence : 0..MaxAttempt,
            attempt : 0..MaxAttempt]
Delivery == [id : Id, operation : {"start", "resume"}, ref : Ref \cup {NoRef}]

Init ==
    /\ run = [state |-> Initial, status |-> "running", attempt |-> 1]
    /\ started = {} /\ ended = {}
    /\ binding = [s \in SessionNode |-> NoBinding]
    /\ outputs = {} /\ agents = {} /\ prompts = <<>>
    /\ pc = "idle" /\ ctx = run
    /\ crashes = 0

Mine == ctx.state
Here == binding[Mine]
Write(s, b) == binding' = [binding EXCEPT ![s] = b]
SetStatus(s, status) == Write(s, [binding[s] EXCEPT !.status = status])

\* References nobody has been given yet: a random UUID is none of these.
Unused == Ref \ ({binding[s].ref : s \in SessionNode}
                 \cup {prompts[i].ref : i \in DOMAIN prompts})

----------------------------------------------------------------------------
(* The runner: core.clj around one node.                                   *)

\* run resume, and run retry of a failed or cancelled run.
Resume ==
    /\ pc = "idle" /\ run.status = "running"
    /\ ctx' = run
    /\ pc' = "step"
    /\ UNCHANGED <<run, node, binding, world, crashes>>

Retry ==
    /\ pc = "idle" /\ run.status \in {"failed", "cancelled"}
    /\ run.attempt < MaxAttempt
    /\ ctx' = [run EXCEPT !.status = "running", !.attempt = @ + 1]
    /\ run' = ctx'
    /\ pc' = "step"
    /\ UNCHANGED <<node, binding, world, crashes>>

Completed == Kind[Mine] = "session" /\ IdOf(ctx) \in outputs
InFlight == IdOf(ctx) \in started /\ IdOf(ctx) \notin ended

\* execute-node!: node.started, then the node's own work.
Start ==
    /\ pc = "step" /\ ~Completed /\ ~InFlight
    /\ started' = started \cup {IdOf(ctx)}
    /\ pc' = IF Kind[Mine] = "session" THEN "begin" ELSE "work"
    /\ UNCHANGED <<run, ended, binding, world, ctx, crashes>>

\* A node without a session does its work, or fails.
Work ==
    /\ pc = "work"
    /\ pc' \in {"finished", "failing"}
    /\ UNCHANGED <<run, node, binding, world, ctx, crashes>>

\* fail-run!: node.failed, then the failed context, then the exception.
Fail ==
    /\ pc = "failing"
    /\ ended' = ended \cup {IdOf(ctx)}
    /\ ctx' = [ctx EXCEPT !.status = "failed"]
    /\ pc' = "storefail"
    /\ UNCHANGED <<run, started, binding, world, crashes>>

StoreFailed ==
    /\ pc = "storefail"
    /\ run' = ctx
    /\ pc' = "threw"
    /\ UNCHANGED <<node, binding, world, ctx, crashes>>

\* node.finished.
Finish ==
    /\ pc = "finished"
    /\ ended' = ended \cup {IdOf(ctx)}
    /\ pc' = "select"
    /\ UNCHANGED <<run, started, binding, world, ctx, crashes>>

\* A transition is taken, or none matches the result and step! throws.
Select ==
    /\ pc = "select"
    /\ \/ /\ ctx.attempt < MaxAttempt
          /\ \E n \in Successors[Mine] :
              /\ ctx' = [ctx EXCEPT !.state = n, !.attempt = @ + 1]
              /\ pc' = IF Kind[n] = "terminal" THEN "close" ELSE "save"
       \/ pc' = "threw" /\ UNCHANGED ctx
    /\ UNCHANGED <<run, node, binding, world, crashes>>

Save ==
    /\ pc = "save"
    /\ run' = ctx
    /\ pc' = IF ctx.status = "running" THEN "step" ELSE "idle"
    /\ UNCHANGED <<node, binding, world, ctx, crashes>>

\* The process ends with the exception.
Leave ==
    /\ pc = "threw"
    /\ pc' = "idle"
    /\ UNCHANGED <<run, node, binding, world, ctx, crashes>>

----------------------------------------------------------------------------
(* One activation: run-activation!.                                        *)

\* Mutant of Continuable: every binding may be continued.
ContinuableAlways(b) == TRUE

\* activation-plan refuses a binding that is not at a suspended boundary.
Continuable(b) == b.status \in {"none", "suspended"}

\* Mutant of RefFor: a fresh reference for every activation.
RefForFresh(n, b) == Unused

\* The reference of an activation: the bound one; for a first activation a
\* preallocated one, or none yet when the executor emits it.
RefFor(n, b) ==
    IF b.ref # NoRef THEN {b.ref}
    ELSE IF Executor[n] = "opencode" THEN {NoRef} ELSE Unused

\* begin-activation!: refused, or because the configuration or the template
\* has changed (the environment's choice), or the binding is allocated ...
BeginActivation ==
    /\ pc = "begin"
    /\ \/ pc' = "failing" /\ UNCHANGED binding
       \/ /\ Continuable(Here)
          /\ \E r \in RefFor(Mine, Here) :
              Write(Mine, [status |-> "allocated", ref |-> r,
                           sequence |-> Here.sequence + 1,
                           attempt |-> ctx.attempt])
          /\ pc' = "allocated"
    /\ UNCHANGED <<run, node, world, ctx, crashes>>

\* ... and then active.
Activate ==
    /\ pc = "allocated"
    /\ SetStatus(Mine, "active")
    /\ pc' = "invoke"
    /\ UNCHANGED <<run, node, world, ctx, crashes>>

\* invoke: the executor's process takes the prompt.
Invoke ==
    /\ pc = "invoke"
    /\ prompts' = Append(prompts,
          [id |-> IdOf(ctx), ref |-> Here.ref,
           operation |-> IF Here.sequence = 1 THEN "start" ELSE "resume"])
    /\ agents' = agents \cup {IdOf(ctx)}
    /\ pc' = "running"
    /\ UNCHANGED <<run, node, binding, outputs, ctx, crashes>>

\* It may put its outputs in place, the last of them while it still runs ...
AgentWrites(g) ==
    /\ g \notin outputs
    /\ outputs' = outputs \cup {g}
    /\ UNCHANGED <<run, node, binding, agents, prompts, pc, ctx, crashes>>

\* ... and ends by itself or is killed, sooner or later.
AgentEnds(g) ==
    /\ agents' = agents \ {g}
    /\ UNCHANGED <<run, node, binding, outputs, prompts, pc, ctx, crashes>>

\* What run-agent-session-node! of each executor returns or, as a result
\* without a reference that is not ok, throws.
Reply(oks, refs) == [ok : oks, ref : refs]
Thrown == [ok |-> FALSE, ref |-> NoRef]
PiReplies(b) == Reply(BOOLEAN, {b.ref})
ClaudeReplies(b) == Reply(BOOLEAN, {b.ref}) \cup {Thrown}
OpenCodeReplies(b) ==
    IF b.ref = NoRef THEN Reply(BOOLEAN, Unused \cup {NoRef})
    ELSE Reply(BOOLEAN, {b.ref, NoRef})
Replies(n, b) == CASE Executor[n] = "pi"       -> PiReplies(b)
                   [] Executor[n] = "claude"   -> ClaudeReplies(b)
                   [] Executor[n] = "opencode" -> OpenCodeReplies(b)

\* bind-returned-reference!: a reply without the expected reference orphans
\* the activation, a first reference is written down; then its outputs decide.
BindReturned ==
    /\ pc = "running" /\ IdOf(ctx) \notin agents
    /\ \E reply \in Replies(Mine, Here) :
        IF reply.ref = NoRef \/ Here.ref \notin {NoRef, reply.ref}
          THEN pc' = "orphaning" /\ UNCHANGED binding
          ELSE /\ Write(Mine, [Here EXCEPT !.ref = reply.ref])
               /\ pc' = IF reply.ok THEN "complete" ELSE "orphaning"
    /\ UNCHANGED <<run, node, world, ctx, crashes>>

\* Mutant of Complete: the executor's word is taken for its outputs.
CompleteOnReply ==
    /\ pc = "complete"
    /\ pc' = "suspending"
    /\ UNCHANGED <<run, node, binding, world, ctx, crashes>>

\* complete-agent-result!: the status artifact and every required output.
Complete ==
    /\ pc = "complete"
    /\ pc' = IF IdOf(ctx) \in outputs THEN "suspending" ELSE "orphaning"
    /\ UNCHANGED <<run, node, binding, world, ctx, crashes>>

\* finish-activation!; the status artifact may still report an error.
FinishActivation ==
    /\ pc = "suspending"
    /\ SetStatus(Mine, "suspended")
    /\ pc' \in {"finished", "failing"}
    /\ UNCHANGED <<run, node, world, ctx, crashes>>

\* orphan-activation!, then the exception reaches execute-node!.
OrphanActivation ==
    /\ pc = "orphaning"
    /\ SetStatus(Mine, "orphaned")
    /\ pc' = "failing"
    /\ UNCHANGED <<run, node, world, ctx, crashes>>

----------------------------------------------------------------------------
(* What a resume finds after an interruption.                              *)

\* Mutant of Recoverable: the outputs of any activation will do.
RecoverableAlways == TRUE

\* recover-completed-activation! without an exception.
Recoverable == /\ Here.status \in {"active", "suspended"}
               /\ Here.ref # NoRef
               /\ Here.attempt = ctx.attempt

\* The outputs are there: the activation is finished without its executor, or
\* step! throws because the binding is not recoverable or the configuration
\* has changed, after orphaning a compatible binding that has no reference.
RecoverCompleted ==
    /\ pc = "step" /\ Completed
    /\ \/ /\ Recoverable
          /\ SetStatus(Mine, "suspended")
          /\ pc' = "finished"
       \/ /\ Here.status # "none" /\ Here.ref = NoRef
          /\ SetStatus(Mine, "orphaned")
          /\ pc' = "threw"
       \/ /\ pc' = "threw"
          /\ UNCHANGED binding
    /\ UNCHANGED <<run, node, world, ctx, crashes>>

\* orphan-active-activation!, then orphan-run!.
StepOrphan ==
    /\ pc = "step" /\ ~Completed /\ InFlight
    /\ IF Kind[Mine] = "session" /\ Here.status \in {"allocated", "active"}
         THEN SetStatus(Mine, "orphaned") ELSE UNCHANGED binding
    /\ pc' = "failing"
    /\ UNCHANGED <<run, node, world, ctx, crashes>>

----------------------------------------------------------------------------
(* The end of a run.                                                       *)

With(statuses) == {s \in SessionNode : binding[s].status \in statuses}

\* Mutant of Closable: only the session that was active last is closed.
ClosableLast == {s \in With({"suspended"}) : binding[s].attempt = ctx.attempt - 1}

\* Bindings the end of the run closes, and those it may not finish over.
Closable == With({"suspended"})
Blocking == With({"allocated", "active", "orphaned"})

\* close-bindings! before run.finished: the binding files one by one, until
\* all are closed or one is met that is not suspended.
CloseBindings ==
    /\ pc = "close"
    /\ \/ \E s \in Closable : SetStatus(s, "closed") /\ UNCHANGED <<pc, ctx>>
       \/ /\ Closable = {} \/ Blocking # {}
          /\ pc' = IF Blocking = {} THEN "save" ELSE "threw"
          /\ ctx' = [ctx EXCEPT !.status = IF Blocking = {} THEN "done" ELSE @]
          /\ UNCHANGED binding
    /\ UNCHANGED <<run, node, world, crashes>>

\* cancel!: the runner and its executors are killed, the run is reloaded, ...
Cancel ==
    /\ pc \notin {"cancel", "cancelsave"} /\ run.status = "running"
    /\ agents' = {}
    /\ ctx' = [run EXCEPT !.status = "cancelled"]
    /\ pc' = "cancel"
    /\ UNCHANGED <<run, node, binding, outputs, prompts, crashes>>

\* Mutant of CancelOrphans: the bindings are left as they are.
CancelForgets ==
    /\ pc = "cancel"
    /\ pc' = "cancelsave"
    /\ UNCHANGED <<run, node, binding, world, ctx, crashes>>

Interrupted == With({"allocated", "active"})

\* ... orphan-active-bindings! ...
CancelOrphans ==
    /\ pc = "cancel"
    /\ \/ /\ \E s \in Interrupted : SetStatus(s, "orphaned")
          /\ UNCHANGED pc
       \/ /\ Interrupted = {}
          /\ pc' = "cancelsave" /\ UNCHANGED binding
    /\ UNCHANGED <<run, node, world, ctx, crashes>>

\* ... and save-context!.
CancelSave ==
    /\ pc = "cancelsave"
    /\ run' = ctx
    /\ pc' = "idle"
    /\ UNCHANGED <<node, binding, world, ctx, crashes>>

Crash ==
    /\ pc # "idle" /\ crashes < MaxCrashes
    /\ crashes' = crashes + 1
    /\ pc' = "idle"
    /\ UNCHANGED <<run, node, binding, world, ctx>>

Runner ==
    \/ Resume \/ Retry \/ Start \/ Work \/ Fail \/ StoreFailed
    \/ Finish \/ Select \/ Save \/ Leave
    \/ BeginActivation \/ Activate \/ Invoke \/ BindReturned \/ Complete
    \/ FinishActivation \/ OrphanActivation \/ RecoverCompleted \/ StepOrphan
    \/ CloseBindings

Next == \/ Runner \/ Cancel \/ CancelOrphans \/ CancelSave \/ Crash
        \/ \E g \in agents : AgentWrites(g) \/ AgentEnds(g)

Spec == Init /\ [][Next]_vars

----------------------------------------------------------------------------
(* Properties.                                                             *)

Labels == {"idle", "step", "work", "begin", "allocated", "invoke", "running",
           "complete", "suspending", "orphaning", "finished", "failing",
           "storefail", "threw", "select", "close", "save", "cancel",
           "cancelsave"}

\* The values each variable may take.
TypeOK ==
    /\ run \in Run /\ ctx \in Run
    /\ started \subseteq Id /\ ended \subseteq Id
    /\ binding \in [SessionNode -> Binding]
    /\ outputs \subseteq Id /\ agents \subseteq Id
    /\ prompts \in Seq(Delivery)
    /\ pc \in Labels
    /\ crashes \in 0..MaxCrashes

\* SPEC.md: a prompt is never redelivered.  No executor takes the same
\* delivery twice, although a crash after node.failed makes the engine start
\* the same attempt again.
PromptDeliveredOnce ==
    \A i, j \in DOMAIN prompts : prompts[i].id = prompts[j].id => i = j

\* Every visit to a state continues the one session that its first visit
\* started, under the same exact reference; there is no replacement session.
ContinuesOneSession ==
    \A i, j \in DOMAIN prompts :
        i < j /\ prompts[i].id[1] = prompts[j].id[1] =>
            /\ prompts[j].operation = "resume" /\ prompts[j].ref # NoRef
            /\ prompts[i].ref \in {NoRef, prompts[j].ref}

\* An activation is open only while the run stands at that very state and
\* attempt: whatever failed, was cancelled or was killed, binding and state.edn
\* agree.  It takes two kills to part them: after one between node.failed and
\* the save the attempt is started again (RunEngine!NoDuplicateStart), and
\* after one within that activation its closing event hides the orphan, so the
\* next activation is refused and the run fails with the binding left open.
OpenIsCurrent ==
    crashes < 2 =>
        \A s \in Interrupted :
            run.status = "running" /\ IdOf(run) = <<s, binding[s].attempt>>

\* A boundary counts as safe to continue from only when the outputs of the
\* activation before it exist.
SuspendedIsProven ==
    \A s \in SessionNode :
        binding[s].status \in {"suspended", "closed"} =>
            /\ <<s, binding[s].attempt>> \in outputs
            /\ binding[s].ref # NoRef

\* A run is recorded as done only when each of its sessions is closed.
DoneIsClosed == run.status = "done" => With({"none", "closed"}) = SessionNode

\* Each binding file goes through the life of a session, step for step.
Contract == INSTANCE SessionContract WITH
    Session <- SessionNode,
    session <- [s \in SessionNode |-> [status |-> binding[s].status,
                                       ref |-> binding[s].ref,
                                       sequence |-> binding[s].sequence]]
ImplementsSessions == Contract!Spec

\* RESUMABLE_SESSIONS.md: if session orchestration fails after node.started,
\* the attempt is always closed with node.failed or orphan evidence.
OrchestrationFailureCloses ==
    pc = "threw" /\ IdOf(ctx) \in started => IdOf(ctx) \in ended

=============================================================================
