------------------------------ MODULE RunEngine ------------------------------
(***************************************************************************)
(* One durable run and the operating-system processes that work on it.     *)
(* A process is one command: resume (or run), the unregistered resume and  *)
(* step of `run apply`, retry, cancel or decide.  Its memory is the        *)
(* context it loaded; what processes share is the run directory, changed   *)
(* one file operation at a time, so that a crash or another process can    *)
(* fall between any two of them.                                           *)
(***************************************************************************)
EXTENDS Integers, Sequences, FiniteSets

CONSTANTS
    Node, Initial,  \* the workflow's states and its initial one
    Kind,           \* Node -> "work", "agent", "approval" or "terminal";
                    \*   "work" is deterministic, process, timer and router
    Transitions,    \* Node -> sequence of [when, next, effects]
    Outcome,        \* what :when predicates tell apart in a result
    Stamp,          \* Node -> the run field its status path is rendered with
    MaxRounds,      \* :defaults :max-rounds
    Proc,           \* processes
    DeadPid,        \* the pid, in a file, of a process that was killed
    NoPid,          \* the file that would hold a pid is absent
    NoValue,        \* an event without a value, a process without a result
    Budgets,        \* the values of --max-steps
    MaxLaunches,    \* bound: commands issued
    MaxCrashes      \* bound: processes killed by the environment

Kinds == {"work", "agent", "approval", "terminal"}
Transition == [when : SUBSET Outcome, next : Node,
               effects : SUBSET {"inc-round", "fail-run"}]

ASSUME WorkflowAssumption ==
    /\ Initial \in Node
    /\ Kind \in [Node -> Kinds]
    /\ Transitions \in [Node -> Seq(Transition)]
    /\ Stamp \in [Node -> {"attempt", "round"}]
    /\ MaxRounds \in Nat \ {0}

ASSUME ProcessAssumption ==
    /\ DeadPid \notin Proc /\ NoPid \notin Proc /\ NoPid # DeadPid
    /\ Budgets \subseteq Nat \ {0} /\ MaxLaunches \in Nat /\ MaxCrashes \in Nat

VARIABLES
    disk,       \* state.edn: [state, status, attempt, round]
    log,        \* events.jsonl, the events about nodes and the run's status
    marker,     \* runtime-process.json: pid of the registered runner
    lock,       \* holder of .runtime-mutation.lock
    requests,   \* approvals/<state>-<attempt>.json
    decisions,  \* approvals/<state>-<attempt>-decision.json
    artifacts,  \* status artifacts, with the required outputs beside them
    agents,     \* agent child processes, which may outlive their runner
    pc,         \* the next file operation of each process
    cmd,        \* its command
    ctx,        \* the context it holds in memory
    steps,      \* steps run-until-done! may still start
    value,      \* the node result waiting for its transition
    ask,        \* decide's arguments: [id, decision]
    launches,   \* commands issued so far
    crashes,    \* processes killed by the environment so far
    breach      \* history: "orphaned" once a holder of the lock was killed,
                \*   "overlapped" once two decisions were inside together

shared == <<disk, log, marker, lock, requests, decisions, artifacts, agents>>
local == <<cmd, ctx, steps, value, ask>>
vars == <<shared, pc, local, launches, crashes, breach>>

----------------------------------------------------------------------------
(* Contexts, events and files.                                             *)

Statuses == {"running", "blocked", "done", "failed", "cancelled"}
Context == [state : Node, status : Statuses, attempt : Nat \ {0},
            round : Nat \ {0}]
Id == Node \X (Nat \ {0})
IdOf(c) == <<c.state, c.attempt>>

\* terminal-run-statuses; nothing writes its fourth member, "error".
IsTerminal(c) == c.status \in {"done", "failed", "cancelled"}

\* What init-context builds and start! saves.
Context0 == [state |-> Initial, status |-> "running", attempt |-> 1,
             round |-> 1]

EventNames == {"node.started", "node.finished", "node.failed", "node.orphaned",
               "node.recovered", "approval.requested", "approval.decided",
               "transition.selected", "effect.fail-run", "run.finished",
               "run.max-rounds-exceeded", "run.recovery", "run.cancelled"}
EventType == [event : EventNames, state : Node, attempt : Nat \ {0},
              value : Outcome \cup Node \cup {NoValue}]

\* An event and, for the history, the state and attempt the run was in when it
\* was appended.  On disk node.* and approval.* events carry both; run.finished
\* and run.max-rounds-exceeded only the state, transition.selected where it
\* leads from and to, and effect.applied nothing but the effect.
Event(name, c, v) ==
    [event |-> name, state |-> c.state, attempt |-> c.attempt, value |-> v]
Append1(name, c, v) == log' = Append(log, Event(name, c, v))

Logged(name, c) ==
    \E i \in DOMAIN log : /\ log[i].event = name
                          /\ log[i].state = c.state
                          /\ log[i].attempt = c.attempt

\* Mutant of KeyOf: a status path that names neither attempt nor round.
KeyFixed(n, c) == <<n, 0>>

\* artifact-path of a node's :status output, as far as two paths differ.
KeyOf(n, c) == <<n, IF Stamp[n] = "attempt" THEN c.attempt ELSE c.round>>
ArtifactsAt(k) == {x \in artifacts : x.key = k}

----------------------------------------------------------------------------
(* Choosing and taking a transition (transitions.clj).                     *)

Matching(n, o) ==
    {i \in DOMAIN Transitions[n] : o \in Transitions[n][i].when}

\* Mutant of Chosen: every transition of the node matches.
ChosenAny(n, o) == {Transitions[n][i] : i \in DOMAIN Transitions[n]}

\* choose-transition: the first transition whose :when matches the result;
\* the empty set when the code throws "No transition matched result".
Chosen(n, o) ==
    {Transitions[n][i] :
        i \in {i \in Matching(n, o) : \A j \in Matching(n, o) : i <= j}}

\* Mutant of Advance: a move that keeps the attempt number.
AdvanceSameAttempt(c, tr) ==
    [state |-> tr.next, status |-> c.status, attempt |-> c.attempt,
     round |-> c.round]

\* advance, with the effects that change the run record.
Advance(c, tr) ==
    [state   |-> tr.next,
     status  |-> IF "fail-run" \in tr.effects THEN "failed" ELSE c.status,
     attempt |-> c.attempt + 1,
     round   |-> IF "inc-round" \in tr.effects THEN c.round + 1 ELSE c.round]

\* finish-if-terminal: arriving at a terminal node is success, whatever an
\* effect of the transition said.
FinishIfTerminal(c) ==
    IF Kind[c.state] = "terminal" THEN [c EXCEPT !.status = "done"] ELSE c

\* The events of taking tr from c: transition.selected and effect.applied of a
\* :fail-run before the move, run.finished after it.
TakingEvents(c, tr) ==
    <<Event("transition.selected", c, tr.next)>>
    \o (IF "fail-run" \in tr.effects
          THEN <<Event("effect.fail-run", c, NoValue)>> ELSE <<>>)
    \o (IF Kind[tr.next] = "terminal"
          THEN <<Event("run.finished", Advance(c, tr), NoValue)>> ELSE <<>>)

----------------------------------------------------------------------------
(* Processes.                                                              *)

Commands == {"resume", "background", "step", "retry", "cancel", "decide"}
Labels == {"idle", "load", "guard", "retrysave", "recovery", "register",
           "enter", "loop", "step", "run", "select", "store", "storefail",
           "save", "leave", "stop", "unmark", "reload", "cancelevent",
           "cancelsave", "lock", "reclaim", "validate", "record", "unlock"}

NoAsk == [id |-> <<Initial, 1>>, decision |-> NoValue]

Init ==
    /\ disk = Context0
    /\ log = <<>>
    /\ marker = NoPid
    /\ lock = NoPid
    /\ requests = {} /\ decisions = {} /\ artifacts = {} /\ agents = {}
    /\ pc = [p \in Proc |-> "idle"]
    /\ cmd = [p \in Proc |-> "resume"]
    /\ ctx = [p \in Proc |-> Context0]
    /\ steps = [p \in Proc |-> 0]
    /\ value = [p \in Proc |-> NoValue]
    /\ ask = [p \in Proc |-> NoAsk]
    /\ launches = 0 /\ crashes = 0 /\ breach = "none"

Goto(p, l) == pc' = [pc EXCEPT ![p] = l]
SetCtx(p, c) == ctx' = [ctx EXCEPT ![p] = c]

\* The process is gone, and its memory with it.
Forget(p) ==
    /\ cmd' = [cmd EXCEPT ![p] = "resume"]
    /\ ctx' = [ctx EXCEPT ![p] = Context0]
    /\ steps' = [steps EXCEPT ![p] = 0]
    /\ value' = [value EXCEPT ![p] = NoValue]
    /\ ask' = [ask EXCEPT ![p] = NoAsk]
Exit(p) == Goto(p, "idle") /\ Forget(p)

\* Where step! returns to, and where its exceptions go: run-registered! and
\* with-run-lock have a `finally`, the commands of `run apply` have not.
Registered(p) == cmd[p] \in {"resume", "retry"}
Returned(p) == IF cmd[p] = "decide" THEN "unlock" ELSE "save"
Throw(p) ==
    CASE Registered(p)       -> Goto(p, "leave") /\ UNCHANGED local
      [] cmd[p] = "decide"   -> Goto(p, "unlock") /\ UNCHANGED local
      [] OTHER               -> Exit(p)

\* An operator or the control plane issues a command; decide names an approval
\* that has been requested and a decision, the commands that run until done a
\* number of steps.
Launch(p, c) ==
    /\ pc[p] = "idle"
    /\ launches < MaxLaunches
    /\ launches' = launches + 1
    /\ cmd' = [cmd EXCEPT ![p] = c]
    /\ IF c = "decide"
         THEN /\ \E id \in requests, d \in Outcome :
                    ask' = [ask EXCEPT ![p] = [id |-> id, decision |-> d]]
              /\ Goto(p, "lock")
         ELSE Goto(p, "load") /\ UNCHANGED ask
    /\ IF c \in {"resume", "background", "retry"}
         THEN \E n \in Budgets : steps' = [steps EXCEPT ![p] = n]
         ELSE UNCHANGED steps
    /\ UNCHANGED <<shared, ctx, value, crashes, breach>>

AfterLoad == [resume |-> "register", background |-> "enter", step |-> "step",
              retry |-> "guard", decide |-> "validate"]

\* load-context, by every command; cancel! returns at once from a run that
\* has ended.
Load(p) ==
    /\ pc[p] = "load"
    /\ IF cmd[p] = "cancel"
         THEN IF IsTerminal(disk) THEN Exit(p)
              ELSE Goto(p, "stop") /\ UNCHANGED local
         ELSE /\ SetCtx(p, disk)
              /\ Goto(p, AfterLoad[cmd[p]])
              /\ UNCHANGED <<cmd, steps, value, ask>>
    /\ UNCHANGED <<shared, launches, crashes, breach>>

----------------------------------------------------------------------------
(* retry! (lifecycle.clj).                                                 *)

\* The context a retry continues with.
NextAttempt(c) == [state |-> c.state, status |-> "running",
                   attempt |-> c.attempt + 1, round |-> c.round]

\* Mutant of RetryGuard: any run that is not done may be retried.
RetryGuardAnyStatus(p) ==
    /\ pc[p] = "guard"
    /\ marker \notin Proc
    /\ ctx[p].status # "done"
    /\ SetCtx(p, NextAttempt(ctx[p]))
    /\ Goto(p, "retrysave")
    /\ UNCHANGED <<shared, cmd, steps, value, ask, launches, crashes, breach>>

\* Refuse a live marker, a run that neither failed nor was cancelled, and a
\* workflow file that is missing, unreadable or changed without --repin (the
\* environment's choice); else prepare the next attempt.
RetryGuard(p) ==
    /\ pc[p] = "guard"
    /\ \/ Exit(p)
       \/ /\ marker \notin Proc
          /\ ctx[p].status \in {"failed", "cancelled"}
          /\ SetCtx(p, NextAttempt(ctx[p]))
          /\ Goto(p, "retrysave")
          /\ UNCHANGED <<cmd, steps, value, ask>>
    /\ UNCHANGED <<shared, launches, crashes, breach>>

\* save-context! comes before the audit event.
RetrySave(p) ==
    /\ pc[p] = "retrysave"
    /\ disk' = ctx[p]
    /\ Goto(p, "recovery")
    /\ UNCHANGED <<log, marker, lock, requests, decisions, artifacts, agents,
                   local, launches, crashes, breach>>

RetryEvent(p) ==
    /\ pc[p] = "recovery"
    /\ Append1("run.recovery", ctx[p], NoValue)
    /\ Goto(p, "register")
    /\ UNCHANGED <<disk, marker, lock, requests, decisions, artifacts, agents,
                   local, launches, crashes, breach>>

----------------------------------------------------------------------------
(* run-registered! and run-until-done!.                                    *)

\* register!: the marker names this process, whatever it named before.
Register(p) ==
    /\ pc[p] = "register"
    /\ marker' = p
    /\ Goto(p, "enter")
    /\ UNCHANGED <<disk, log, lock, requests, decisions, artifacts, agents,
                   local, launches, crashes, breach>>

\* run-until-done! first saves the context it was given.
EnterLoop(p) ==
    /\ pc[p] = "enter"
    /\ disk' = ctx[p]
    /\ Goto(p, "loop")
    /\ UNCHANGED <<log, marker, lock, requests, decisions, artifacts, agents,
                   local, launches, crashes, breach>>

\* Ended, waiting for a decision, or out of budget.
Parked(p) ==
    \/ IsTerminal(ctx[p]) \/ ctx[p].status = "blocked"
    \/ steps[p] <= 0

Loop(p) ==
    /\ pc[p] = "loop"
    /\ IF ~Parked(p) THEN Goto(p, "step") /\ UNCHANGED local
       ELSE IF Registered(p) THEN Goto(p, "leave") /\ UNCHANGED local
       ELSE Exit(p)
    /\ UNCHANGED <<shared, launches, crashes, breach>>

\* Mutant of Save: the last step of the budget is taken without a save.
SaveUnlessSpent(p) ==
    /\ pc[p] = "save"
    /\ disk' = IF steps[p] > 1 THEN ctx[p] ELSE disk
    /\ IF cmd[p] = "step" THEN Exit(p)
       ELSE /\ steps' = [steps EXCEPT ![p] = @ - 1]
            /\ Goto(p, "loop")
            /\ UNCHANGED <<cmd, ctx, value, ask>>
    /\ UNCHANGED <<log, marker, lock, requests, decisions, artifacts, agents,
                   launches, crashes, breach>>

\* (save-context! (step! wf ctx)), once for `step`, in the loop otherwise.
Save(p) ==
    /\ pc[p] = "save"
    /\ disk' = ctx[p]
    /\ IF cmd[p] = "step" THEN Exit(p)
       ELSE /\ steps' = [steps EXCEPT ![p] = @ - 1]
            /\ Goto(p, "loop")
            /\ UNCHANGED <<cmd, ctx, value, ask>>
    /\ UNCHANGED <<log, marker, lock, requests, decisions, artifacts, agents,
                   launches, crashes, breach>>

\* The `finally` of run-registered!: reap the agents of a run that has ended,
\* and drop the marker if it is still this process's.
Leave(p) ==
    /\ pc[p] = "leave"
    /\ agents' = IF IsTerminal(disk) THEN {} ELSE agents
    /\ marker' = IF marker = p THEN NoPid ELSE marker
    /\ Exit(p)
    /\ UNCHANGED <<disk, log, lock, requests, decisions, artifacts, launches,
                   crashes, breach>>

----------------------------------------------------------------------------
(* step! (core.clj): the first of its branches that applies.               *)

AtStep(p) == pc[p] = "step" /\ ~IsTerminal(ctx[p])
OverRounds(p) == ctx[p].round > MaxRounds

\* A run that has ended is returned as it is.
StepEnded(p) ==
    /\ pc[p] = "step"
    /\ IsTerminal(ctx[p])
    /\ Goto(p, Returned(p))
    /\ UNCHANGED <<shared, local, launches, crashes, breach>>

\* fail-max-rounds! returns the failed context instead of throwing.
StepMaxRounds(p) ==
    /\ AtStep(p) /\ OverRounds(p)
    /\ Append1("run.max-rounds-exceeded", ctx[p], NoValue)
    /\ SetCtx(p, [ctx[p] EXCEPT !.status = "failed"])
    /\ Goto(p, "store")
    /\ UNCHANGED <<disk, marker, lock, requests, decisions, artifacts, agents,
                   cmd, steps, value, ask, launches, crashes, breach>>

\* A retry at a terminal node finishes the run again.
StepTerminal(p) ==
    /\ AtStep(p) /\ ~OverRounds(p)
    /\ Kind[ctx[p].state] = "terminal"
    /\ Append1("run.finished", ctx[p], NoValue)
    /\ SetCtx(p, FinishIfTerminal(ctx[p]))
    /\ Goto(p, Returned(p))
    /\ UNCHANGED <<disk, marker, lock, requests, decisions, artifacts, agents,
                   cmd, steps, value, ask, launches, crashes, breach>>

AtApproval(p) ==
    AtStep(p) /\ ~OverRounds(p) /\ Kind[ctx[p].state] = "approval"
Decided(p) == {x \in decisions : x.id = IdOf(ctx[p])}

\* step-approval! without a decision: request it once, block, save.
StepRequest(p) ==
    /\ AtApproval(p)
    /\ Decided(p) = {}
    /\ requests' = requests \cup {IdOf(ctx[p])}
    /\ IF IdOf(ctx[p]) \in requests THEN UNCHANGED log
       ELSE Append1("approval.requested", ctx[p], NoValue)
    /\ SetCtx(p, [ctx[p] EXCEPT !.status = "blocked"])
    /\ Goto(p, "store")
    /\ UNCHANGED <<disk, marker, lock, decisions, artifacts, agents, cmd,
                   steps, value, ask, launches, crashes, breach>>

\* step-approval! with one: through the transition it selects, or an
\* exception when there is none.
StepDecided(p) ==
    /\ AtApproval(p)
    /\ \E x \in Decided(p) :
        \/ /\ Chosen(ctx[p].state, x.decision) = {}
           /\ Throw(p)
           /\ UNCHANGED log
        \/ \E tr \in Chosen(ctx[p].state, x.decision) :
            /\ log' = Append(log, Event("approval.decided", ctx[p], x.decision))
                      \o TakingEvents(ctx[p], tr)
            /\ SetCtx(p, FinishIfTerminal(
                            Advance([ctx[p] EXCEPT !.status = "running"], tr)))
            /\ Goto(p, "store")
            /\ UNCHANGED <<cmd, steps, value, ask>>
    /\ UNCHANGED <<disk, marker, lock, requests, decisions, artifacts, agents,
                   launches, crashes, breach>>

AtNode(p) ==
    AtStep(p) /\ ~OverRounds(p) /\ Kind[ctx[p].state] \in {"work", "agent"}
StatusArtifact(p) ==
    {x \in ArtifactsAt(KeyOf(ctx[p].state, ctx[p])) :
        Kind[ctx[p].state] = "agent"}

\* recover-completed-agent-node: the artifacts are there, so the node is
\* finished without being run, whoever wrote them.
StepRecover(p) ==
    /\ AtNode(p)
    /\ \E x \in StatusArtifact(p) :
        /\ value' = [value EXCEPT ![p] = x.outcome]
        /\ log' = log \o <<Event("node.recovered", ctx[p], x.outcome),
                           Event("node.finished", ctx[p], x.outcome)>>
    /\ Goto(p, "select")
    /\ UNCHANGED <<disk, marker, lock, requests, decisions, artifacts, agents,
                   cmd, ctx, steps, ask, launches, crashes, breach>>

\* Mutant of InFlight: an orphan is never noticed.
InFlightNever(c) == FALSE

\* orphaned-current-attempt?: the log shows the node started and not ended.
InFlight(c) ==
    /\ Logged("node.started", c)
    /\ \A e \in {"node.finished", "node.failed", "node.orphaned"} :
        ~Logged(e, c)

\* orphan-run!, then an exception.
StepOrphan(p) ==
    /\ AtNode(p)
    /\ StatusArtifact(p) = {}
    /\ InFlight(ctx[p])
    /\ Append1("node.orphaned", ctx[p], NoValue)
    /\ SetCtx(p, [ctx[p] EXCEPT !.status = "failed"])
    /\ Goto(p, "storefail")
    /\ UNCHANGED <<disk, marker, lock, requests, decisions, artifacts, agents,
                   cmd, steps, value, ask, launches, crashes, breach>>

\* execute-node!: node.started is durable before the work begins, and an
\* agent is a child process that knows where to put its status.
StepStart(p) ==
    /\ AtNode(p)
    /\ StatusArtifact(p) = {}
    /\ ~InFlight(ctx[p])
    /\ Append1("node.started", ctx[p], NoValue)
    /\ agents' = IF Kind[ctx[p].state] = "agent"
                   THEN agents \cup {[key |-> KeyOf(ctx[p].state, ctx[p]),
                                      runner |-> p]}
                   ELSE agents
    /\ Goto(p, "run")
    /\ UNCHANGED <<disk, marker, lock, requests, decisions, artifacts, local,
                   launches, crashes, breach>>

----------------------------------------------------------------------------
(* Executing a node, and what follows.                                     *)

OwnAgent(p) == [key |-> KeyOf(ctx[p].state, ctx[p]), runner |-> p]

\* An agent child ends by itself, with or without its status artifact; its
\* runner may be gone.
AgentEnds(g) ==
    /\ agents' = agents \ {g}
    /\ \/ UNCHANGED artifacts
       \/ \E o \in Outcome :
            artifacts' = (artifacts \ ArtifactsAt(g.key))
                         \cup {[key |-> g.key, outcome |-> o]}
    /\ UNCHANGED <<disk, log, marker, lock, requests, decisions, pc, local,
                   launches, crashes, breach>>

\* What a node that has run returns: anything, or for an agent whose process
\* has exited the content of the status artifact.
Result(p) ==
    IF Kind[ctx[p].state] = "work" THEN Outcome
    ELSE IF OwnAgent(p) \in agents THEN {}
    ELSE {x.outcome : x \in StatusArtifact(p)}

\* The work returned, its outputs are in place: node.finished.
Complete(p) ==
    /\ pc[p] = "run"
    /\ \E o \in Result(p) :
        /\ value' = [value EXCEPT ![p] = o]
        /\ Append1("node.finished", ctx[p], o)
    /\ Goto(p, "select")
    /\ UNCHANGED <<disk, marker, lock, requests, decisions, artifacts, agents,
                   cmd, ctx, steps, ask, launches, crashes, breach>>

\* Mutants of Break: the run is failed without a word in the log, and an
\* agent that exits without its status artifact is waited for.
BreakSilently(p) ==
    /\ pc[p] = "run" /\ OwnAgent(p) \notin agents
    /\ SetCtx(p, [ctx[p] EXCEPT !.status = "failed"])
    /\ Goto(p, "storefail")
    /\ UNCHANGED <<disk, log, marker, lock, requests, decisions, artifacts,
                   agents, cmd, steps, value, ask, launches, crashes, breach>>
BreakWorkOnly(p) ==
    /\ pc[p] = "run" /\ Kind[ctx[p].state] = "work"
    /\ Append1("node.failed", ctx[p], NoValue)
    /\ SetCtx(p, [ctx[p] EXCEPT !.status = "failed"])
    /\ Goto(p, "storefail")
    /\ UNCHANGED <<disk, marker, lock, requests, decisions, artifacts, agents,
                   cmd, steps, value, ask, launches, crashes, breach>>

\* It reported an error, threw, or its process exited without an output that
\* is required: fail-run! appends node.failed, then saves, and it throws.
\* Nothing limits how long a node may take.
Break(p) ==
    /\ pc[p] = "run" /\ OwnAgent(p) \notin agents
    /\ Append1("node.failed", ctx[p], NoValue)
    /\ SetCtx(p, [ctx[p] EXCEPT !.status = "failed"])
    /\ Goto(p, "storefail")
    /\ UNCHANGED <<disk, marker, lock, requests, decisions, artifacts, agents,
                   cmd, steps, value, ask, launches, crashes, breach>>

\* choose-transition, its events, advance and finish-if-terminal; without a
\* match it throws, and neither the log nor state.edn says that it did.
Select(p) ==
    /\ pc[p] = "select"
    /\ \/ /\ Chosen(ctx[p].state, value[p]) = {}
          /\ Throw(p)
          /\ UNCHANGED log
       \/ \E tr \in Chosen(ctx[p].state, value[p]) :
          /\ log' = log \o TakingEvents(ctx[p], tr)
          /\ SetCtx(p, FinishIfTerminal(Advance(ctx[p], tr)))
          /\ value' = [value EXCEPT ![p] = NoValue]
          /\ Goto(p, Returned(p))
          /\ UNCHANGED <<cmd, steps, ask>>
    /\ UNCHANGED <<disk, marker, lock, requests, decisions, artifacts, agents,
                   launches, crashes, breach>>

\* save-context! inside step!, which then returns ...
Store(p) ==
    /\ pc[p] = "store"
    /\ disk' = ctx[p]
    /\ Goto(p, Returned(p))
    /\ UNCHANGED <<log, marker, lock, requests, decisions, artifacts, agents,
                   local, launches, crashes, breach>>

\* ... or throws.
StoreFailed(p) ==
    /\ pc[p] = "storefail"
    /\ disk' = ctx[p]
    /\ Throw(p)
    /\ UNCHANGED <<log, marker, lock, requests, decisions, artifacts, agents,
                   launches, crashes, breach>>

----------------------------------------------------------------------------
(* decide! (core.clj), under the run lock, whose rounds of waiting RunLock  *)
(* models one by one.                                                      *)

\* The decisions that have passed the lock.
Inside == {p \in Proc : cmd[p] = "decide" /\ pc[p] \notin {"idle", "lock",
                                                          "reclaim"}}

\* Created; or found over a minute old, so that its holder is dead; or given
\* up after ten seconds.
Lock(p) ==
    /\ pc[p] = "lock"
    /\ \/ /\ lock = NoPid
          /\ lock' = p
          /\ breach' = IF Inside = {} THEN breach ELSE "overlapped"
          /\ Goto(p, "load") /\ UNCHANGED local
       \/ /\ lock = DeadPid
          /\ Goto(p, "reclaim")
          /\ UNCHANGED <<lock, local, breach>>
       \/ /\ lock # NoPid
          /\ Exit(p)
          /\ UNCHANGED <<lock, breach>>
    /\ UNCHANGED <<disk, log, marker, requests, decisions, artifacts, agents,
                   launches, crashes>>

\* The file is deleted, though it may be another's by now, and then there is
\* a next try or none left.
Reclaim(p) ==
    /\ pc[p] = "reclaim"
    /\ lock' = NoPid
    /\ \/ Goto(p, "lock") /\ UNCHANGED local
       \/ Exit(p)
    /\ UNCHANGED <<disk, log, marker, requests, decisions, artifacts, agents,
                   launches, crashes, breach>>

\* Mutant of Acceptable: the conflict check is forgotten.
AcceptableTwice(p) ==
    /\ Kind[ctx[p].state] = "approval"
    /\ ctx[p].status = "blocked"
    /\ ask[p].id = IdOf(ctx[p])
    /\ Chosen(ctx[p].state, ask[p].decision) # {}

\* The checks of decide!: not_approval, approval_not_pending, stale_approval,
\* conflict, invalid_decision.
Acceptable(p) ==
    /\ Kind[ctx[p].state] = "approval"
    /\ ctx[p].status = "blocked"
    /\ ask[p].id = IdOf(ctx[p])
    /\ Decided(p) = {}
    /\ Chosen(ctx[p].state, ask[p].decision) # {}

\* A refusal is returned, not thrown.
Validate(p) ==
    /\ pc[p] = "validate"
    /\ Goto(p, IF Acceptable(p) THEN "record" ELSE "unlock")
    /\ UNCHANGED <<shared, local, launches, crashes, breach>>

\* The decision file is written at its path, replacing any that is there;
\* step! then sees it.
Record(p) ==
    /\ pc[p] = "record"
    /\ decisions' = {x \in decisions : x.id # ask[p].id} \cup {ask[p]}
    /\ Goto(p, "step")
    /\ UNCHANGED <<disk, log, marker, lock, requests, artifacts, agents, local,
                   launches, crashes, breach>>

\* The lock file is deleted, whoever has made it.
Unlock(p) ==
    /\ pc[p] = "unlock"
    /\ lock' = NoPid
    /\ Exit(p)
    /\ UNCHANGED <<disk, log, marker, requests, decisions, artifacts, agents,
                   launches, crashes, breach>>

----------------------------------------------------------------------------
(* cancel! (lifecycle.clj, process.clj).                                   *)

\* What is left of process q when it is killed, beside the marker.
Kill(q) ==
    /\ lock' = IF lock = q THEN DeadPid ELSE lock
    /\ breach' = IF q \in Inside /\ breach = "none" THEN "orphaned" ELSE breach
    /\ Forget(q)

\* stop!: kill the process the marker names, then every agent of this run.
Stop(p) ==
    /\ pc[p] = "stop"
    /\ agents' = {}
    /\ IF marker \in Proc
         THEN /\ pc' = [pc EXCEPT ![p] = "unmark", ![marker] = "idle"]
              /\ marker' = DeadPid
              /\ Kill(marker)
         ELSE /\ Goto(p, "unmark")
              /\ UNCHANGED <<marker, lock, local, breach>>
    /\ UNCHANGED <<disk, log, requests, decisions, artifacts, launches, crashes>>

\* ... and delete the marker, whoever has registered by now.
Unmark(p) ==
    /\ pc[p] = "unmark"
    /\ marker' = NoPid
    /\ Goto(p, "reload")
    /\ UNCHANGED <<disk, log, lock, requests, decisions, artifacts, agents,
                   local, launches, crashes, breach>>

\* Mutant of Cancelled: a status outside terminal-run-statuses.
CancelledMisspelt == [disk EXCEPT !.status = "canceled"]

\* The status is replaced whatever the reload finds.
Cancelled == [disk EXCEPT !.status = "cancelled"]

Reload(p) ==
    /\ pc[p] = "reload"
    /\ SetCtx(p, Cancelled)
    /\ Goto(p, "cancelevent")
    /\ UNCHANGED <<shared, cmd, steps, value, ask, launches, crashes, breach>>

CancelEvent(p) ==
    /\ pc[p] = "cancelevent"
    /\ Append1("run.cancelled", ctx[p], NoValue)
    /\ Goto(p, "cancelsave")
    /\ UNCHANGED <<disk, marker, lock, requests, decisions, artifacts, agents,
                   local, launches, crashes, breach>>

CancelSave(p) ==
    /\ pc[p] = "cancelsave"
    /\ disk' = ctx[p]
    /\ Exit(p)
    /\ UNCHANGED <<log, marker, lock, requests, decisions, artifacts, agents,
                   launches, crashes, breach>>

----------------------------------------------------------------------------
(* The system.                                                             *)

\* A process is killed by something other than cancel!; the files keep its pid.
Crash(p) ==
    /\ pc[p] # "idle"
    /\ crashes < MaxCrashes
    /\ crashes' = crashes + 1
    /\ marker' = IF marker = p THEN DeadPid ELSE marker
    /\ Goto(p, "idle") /\ Kill(p)
    /\ UNCHANGED <<disk, log, requests, decisions, artifacts, agents, launches>>

Step(p) ==
    \/ Load(p) \/ RetryGuard(p) \/ RetrySave(p) \/ RetryEvent(p)
    \/ Register(p) \/ EnterLoop(p) \/ Loop(p) \/ Save(p) \/ Leave(p)
    \/ StepEnded(p) \/ StepMaxRounds(p) \/ StepTerminal(p)
    \/ StepRequest(p) \/ StepDecided(p)
    \/ StepRecover(p) \/ StepOrphan(p) \/ StepStart(p)
    \/ Complete(p) \/ Break(p) \/ Select(p) \/ Store(p) \/ StoreFailed(p)
    \/ Lock(p) \/ Reclaim(p) \/ Validate(p) \/ Record(p) \/ Unlock(p)
    \/ Stop(p) \/ Unmark(p) \/ Reload(p) \/ CancelEvent(p) \/ CancelSave(p)

\* Commands one at a time, except that decisions may come together, and that
\* a registered runner may be cancelled while it works.
Busy == {p \in Proc : pc[p] # "idle"}
Orderly(c) ==
    \/ Busy = {}
    \/ c = "decide" /\ \A q \in Busy : cmd[q] = "decide"
    \/ c = "cancel" /\ Busy = {marker}

OrderlyLaunch(p, c) == Orderly(c) /\ Launch(p, c)

Progress == \/ \E p \in Proc : Step(p) \/ Crash(p)
            \/ \E g \in agents : AgentEnds(g)

\* Any command at any time, which is what the code admits ...
FreeNext == Progress \/ \E p \in Proc, c \in Commands : Launch(p, c)
FreeSpec == Init /\ [][FreeNext]_vars

\* ... and commands given as the documentation asks.
Next == Progress \/ \E p \in Proc, c \in Commands : OrderlyLaunch(p, c)
Spec == Init /\ [][Next]_vars

\* A process waits for the work of its node, or for its agent to exit: the
\* children are waited for without a limit.
Waits(p) ==
    pc[p] = "run" /\ (Kind[ctx[p].state] = "work" \/ OwnAgent(p) \in agents)

\* A process that is not waiting keeps running until it is killed.  No node
\* and no agent need ever end.
Fairness == \A p \in Proc : WF_vars(~Waits(p) /\ Step(p))
FairSpec == Spec /\ Fairness

----------------------------------------------------------------------------
(* Properties.                                                             *)

\* Every variable holds what the code can put there.
TypeOK ==
    /\ disk \in Context
    /\ log \in Seq(EventType)
    /\ marker \in Proc \cup {NoPid, DeadPid}
    /\ lock \in Proc \cup {NoPid, DeadPid}
    /\ requests \subseteq Id
    /\ decisions \subseteq [id : Id, decision : Outcome]
    /\ artifacts \subseteq [key : Node \X Nat, outcome : Outcome]
    /\ agents \subseteq [key : Node \X Nat, runner : Proc]
    /\ pc \in [Proc -> Labels]
    /\ cmd \in [Proc -> Commands]
    /\ ctx \in [Proc -> Context]
    /\ steps \in [Proc -> Int]
    /\ value \in [Proc -> Outcome \cup {NoValue}]
    /\ ask \in [Proc -> [id : Id, decision : Outcome \cup {NoValue}]]
    /\ launches \in Nat
    /\ crashes \in Nat
    /\ breach \in {"none", "orphaned", "overlapped"}

Closing == {"node.finished", "node.failed", "node.orphaned"}
SameId(e, f) == e.state = f.state /\ e.attempt = f.attempt

\* A node that was in flight when its runner died is not silently started a
\* second time under the same attempt: a closing event comes first
\* (liveness.clj orphaned-current-attempt?).  That event need not stand between
\* the two starts: one that was durable before a kill or an exception kept the
\* run from being saved hides every later orphan of the attempt.
InFlightNeverRerun ==
    \A i, j \in DOMAIN log :
        /\ i < j /\ SameId(log[i], log[j])
        /\ log[i].event = "node.started" /\ log[j].event = "node.started"
        => \E k \in 1..j : SameId(log[k], log[i]) /\ log[k].event \in Closing

\* An attempt number belongs to one node of the workflow: artifacts, logs and
\* approvals named after an attempt are never another node's.
AttemptNamesOneState ==
    \A i, j \in DOMAIN log :
        /\ log[i].event = "node.started" /\ log[j].event = "node.started"
        /\ log[i].attempt = log[j].attempt
        => log[i].state = log[j].state

\* A run recorded as failed says why in its own log, whatever was killed in
\* between: at the node and attempt it failed at, or at the node where the
\* rounds were used up (lifecycle.clj last-terminal-evidence looks for these),
\* or by a transition to where it stands followed by the effect :fail-run,
\* which a retry does not look for.
FailureHasEvidence ==
    disk.status = "failed" =>
        \/ Logged("node.failed", disk) \/ Logged("node.orphaned", disk)
        \/ \E i \in DOMAIN log : /\ log[i].event = "run.max-rounds-exceeded"
                                 /\ log[i].state = disk.state
        \/ \E i, j \in DOMAIN log : /\ i < j
                                    /\ log[i].event = "transition.selected"
                                    /\ log[i].value = disk.state
                                    /\ log[j].event = "effect.fail-run"

\* A status artifact stamped with the attempt never lets a node count as
\* finished that was not started under that attempt, however late an agent of
\* an earlier attempt writes.
StampedIsFresh ==
    \A j \in DOMAIN log :
        /\ log[j].event = "node.finished"
        /\ Kind[log[j].state] = "agent" /\ Stamp[log[j].state] = "attempt"
        => \E i \in 1..j : SameId(log[i], log[j]) /\ log[i].event = "node.started"

\* As long as no two decisions were inside the lock together, no approval is
\* passed except along a transition for the decision that stands in its
\* decision file.
GateOpensByDecision ==
    breach # "overlapped" => \A i \in DOMAIN log :
        /\ log[i].event = "transition.selected"
        /\ Kind[log[i].state] = "approval"
        => \E x \in decisions :
            /\ x.id = <<log[i].state, log[i].attempt>>
            /\ \E t \in DOMAIN Transitions[log[i].state] :
                /\ x.decision \in Transitions[log[i].state][t].when
                /\ Transitions[log[i].state][t].next = log[i].value

\* decide!: repeated or stale decisions never overwrite the accepted record,
\* also when the process that accepted it dies before the run advances, as
\* long as no two decisions were inside the lock together.
DecisionIsFinal ==
    [][breach' # "overlapped" => decisions \subseteq decisions']_vars

\* with-run-lock: two decisions are inside together only after a process was
\* killed inside (RunLock, and the run run_lock_reclaim, say how).
OverlapNeedsKill == [][breach = "none" => breach' # "overlapped"]_vars

\* run-until-done!: a runner that has used up its steps leaves the run at a
\* node nobody has started under its attempt, so that the next resume neither
\* takes it for an orphan nor runs it twice.
StopsBetweenNodes ==
    \A p \in Proc :
        pc[p] = "leave" /\ steps[p] <= 0 /\ disk.status = "running"
        => ~Logged("node.started", disk)

\* A command whose nodes all end returns: no runner waits for an artifact that
\* will not come any more, and no decision for a lock nobody will release.
CommandsReturn ==
    \A p \in Proc : []<>~Waits(p) => (pc[p] # "idle" ~> pc[p] = "idle")

\* What RunContract speaks of.
RunRecord == [state |-> disk.state, status |-> disk.status,
              attempt |-> disk.attempt]

\* The durable record of the run obeys its contract, step for step, as long as
\* no two decisions were inside the lock together.
Contract == INSTANCE RunContract WITH
    Edge <- {e \in Node \X Node :
                \E i \in DOMAIN Transitions[e[1]] :
                    Transitions[e[1]][i].next = e[2]},
    Terminal <- {n \in Node : Kind[n] = "terminal"},
    run <- RunRecord
ImplementsContract ==
    /\ Contract!Init
    /\ [][breach' # "overlapped" => Contract!Next]_RunRecord

\* WORKFLOW_RUNS.md: no duplicate node.started for the same (state, attempt).
NoDuplicateStart ==
    \A i, j \in DOMAIN log :
        /\ log[i].event = "node.started" /\ log[j].event = "node.started"
        /\ SameId(log[i], log[j])
        => i = j

\* lifecycle.clj cancel!: nothing that was running when the run was cancelled
\* overwrites the cancellation; only a retry leaves it.
CancellationSticks ==
    [][disk.status = "cancelled" /\ disk' # disk
        => \E p \in Proc : RetrySave(p)]_vars

\* liveness.clj: a resume after a decision record was written advances the
\* run; it does not come back with the run still blocked on that decision.
ResumeHonoursDecision ==
    \A p \in Proc :
        pc[p] = "leave" /\ cmd[p] = "resume" /\ disk.status = "blocked"
        => \A x \in decisions : x.id # IdOf(disk)

=============================================================================
