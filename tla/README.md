# Tesseraft in TLA+

A verification development for Tesseraft, the workflow engine under `src/`: models of
its runtime and of its Web console and server, the checks TLC makes of them on small
instances, and theorems about them that TLAPS has proved for every instance. Paths below
are relative to the repository; `runtime/…` stands for `src/tesseraft/runtime/…` and
`web/…` for the console's sources, server included.

Contents: 1 the system, 2 the modules, 3 the runs, 4 the proofs, 5 abstractions and what
is not modelled, 6 findings, 7 the plan.

## 1. The system

Tesseraft executes a *workflow* (a graph of states with typed nodes: deterministic,
process, timer, router, agent, approval, fragment, terminal) as a *run*. A run is a
directory. There is no server that owns it: every command (`run resume`, `run retry`,
`run cancel`, `approvals decide`, the control plane's operations, the Web server's
routes) is an operating-system process that loads files from the directory, works, and
writes files back. What makes the system hard is therefore that

- processes overlap, and only decisions take a lock;
- a process may be killed between any two file operations, and nothing is
  transactional across `state.edn`, `events.jsonl`, approval records and bindings;
- agents are child processes that outlive a killed runner and write their artifacts late;
- `resume` and `retry` must tell from the files alone what has already happened.

The Web console adds a second kind of difficulty. Its server is one process that awaits
child processes, an SDK and a filesystem between the lines of every route; its views are
React components that stay mounted while what they asked for is on its way. Answers come
in any order and are applied when they come, streams break and reconnect, another tab
decides what this one shows, and a dialog may be closed and opened again before its first
answer is there. Each view therefore has to make sure, by resets, effects and flags, that
what is shown, drafted or posted belongs to what is selected *now*.

### Components

| Component | Code | State it keeps | Operations | Talks to | Correct when |
|---|---|---|---|---|---|
| Run lock | `runtime/store.clj` `with-run-lock` | `.runtime-mutation.lock`, its age | take, wait, reclaim after a minute, give up, release | decide!, other processes | one mutation at a time unless a holder is killed; nobody waits for ever; an abandoned lock goes away |
| Engine | `runtime/core.clj`, `transitions.clj`, `liveness.clj` | `state.edn` (state, status, attempt, round), `events.jsonl`, status artifacts | step, execute, fail, recover, orphan, transition, park | executors, handlers, approvals, sessions, fragments | moves only along edges under fresh attempts; in-flight work is not silently rerun; failures leave evidence; a runner stops between nodes; stale artifacts are not taken for new ones |
| Lifecycle and processes | `runtime/lifecycle.clj`, `process.clj`, `cli.clj`, `operations.clj` | `runtime-process.json` | start, resume, retry, cancel, stop | engine, operating system | a terminal run moves only by retry; a cancel is not overwritten |
| Approvals | `runtime/approvals.clj`, `core.clj` `decide!` | request and decision records | request, park, decide, advance | lock, engine, reviewers | one final decision per gate; a gate opens only along it |
| Resumable sessions | `runtime/sessions.clj` | `sessions/<state>/binding.json` | begin, bind, finish, orphan, recover, close | executors, engine, cancel | no prompt redelivered; one session per state; closed at the end |
| Agent executors | `executors/*`, `capabilities/executors.clj` | child processes | start, resume a session | agent CLIs | a reply names its session |
| Fragments | `runtime/fragment.clj` | nested run directories, `pin.json`, exit-output index | pin, run, resume, mirror events, finish, cancel | engine (recursively), parent's log | a nested run is resumed and never restarted; outputs have one owner; cancel reaches it |
| Durable files | `persistence/safe_write.clj` | temporary siblings | replace, append, backup once | everyone | a reader sees the old or the new file |
| Run queries | `control_plane/runs.clj` | none | attempts from events, liveness, delete | engine's files | what is executing is not deleted |
| Projects, connections, registry | `control_plane/projects.clj`, `project/*` | `registry.json`, `project.json` | create, update, unregister | safe write | no update lost, no half-made project |
| Credentials, preferences | `credentials/*`, `preferences/*` | `credentials.json`, `preferences.json` | put, delete, resolve | safe write | no update lost |
| Packages | `package/transaction.clj`, `fragment/cli.clj`, `node/cli.clj` | workflow file and installed assets | import, roll back, export | safe write | all or nothing |
| Migrations | `migration/*` | backups | inspect, apply, restore | safe write | either migrated or restored, and repeatable |
| Work tracker | `work_tracker/*` | none locally | transition, comment, retry | Plane, GitHub, Jira | bounded retries |
| Handlers | `handlers/*` | external (git, GitHub, Web) | per node | outside world | — |
| Contract, linter | `spec.clj`, `contract/*`, `lint/*` | none | parse, match, check | workflow files | what passes lint can run |
| Workflow catalog, doctor, identity | `control_plane/workflows.clj`, `doctor.clj`, `identity/*` | workflow files | discover, save, diagnose | — | — |
| Web server | `web/src-server/server.ts`, `routes/*`, `lib/*` | pollers of streams | routes that run commands, `streamRun`, decide and resume, Studio files | command line, browsers, filesystem | pollers end; a decision resumes once; acknowledged saves survive |
| Pi sessions | `piSessionAdapter.ts`, `routes/piSessions.ts` | sessions and their event logs, in memory | create, prompt, list, stream | Pi SDK, panel, composer | a log only grows; an answer holds its prompt; readers miss nothing |
| Pi panel, prompt composer | `PiSessionsPanel.tsx`, `StudioDialogs.tsx` | selection, snapshot, stream | select, create, prompt, follow | Pi routes | what is shown settles on what is selected |
| Console data, run controls | `useConsoleData.ts`, `RunControls.tsx`, `ProjectSelector.tsx` | selected run, its detail, one stream | select, follow, mutate, switch project | run routes | what is shown settles on the selected run |
| Approvals view | `ApprovalInbox.tsx` | list, selection, preview, drafts | select, annotate, decide, reload | approval routes | drafts reach the approval they were written for |
| Start wizard | `StartWorkflowWizard.tsx` | form, flags | pick, fill, confirm, start | workflow and run routes | what is posted was meant |
| Studio | `studio/model.ts`, `WorkflowStudio.tsx`, `StudioDialogs.tsx` | a draft document, dialogs | add, rename, remove, connect, load, save | Studio routes | no edge to nowhere; forms follow ids |
| Graph layout | `graphLayout.ts` | none | depths, bands, positions, ends of edges | views of graphs | edges lead deeper, nothing overlaps |

`PROJECT.json` lists the same components with their status, and every hazard known in the
code at the line where it bites, with the properties that cover it or the reason why none
does yet.

## 2. The modules

| Module | What it is |
|---|---|
| `RunLock` | the lock file protocol: one process step per file operation |
| `RunLockProofs` | its type invariant and exclusion, proved |
| `RunContract` | abstract: what may happen to `state.edn`, with no processes and no files |
| `RunEngine` | one run directory and the processes that work on it |
| `RunEngineProofs` | types, decisions and when the lock fails them, what the log proves, and that `state.edn` obeys `RunContract`, proved |
| `SessionContract` | abstract: the life of a resumable session |
| `Sessions` | bindings, executors and the engine around them |
| `SessionsProofs` | that prompts are delivered once and to one session, that bindings agree with the run and obey `SessionContract`, proved |
| `PiSessions` | the Pi adapters of the Web server: logs, creates and prompts across awaits, readers |
| `PiConsole` | extends it by the panel and the prompt composer that follow a session over a stream |
| `PiConsoleProofs` | that logs grow, messages stay and readers miss nothing, and what the views rely on, proved |
| `RunConsole` | the runs view, its controls, and the server's streams and mutations |
| `RunConsoleProofs` | that one stream follows the selection and never falls behind what is shown, proved |
| `ApprovalInbox` | the approvals view and the route that decides and resumes |
| `StartWizard` | the dialog that starts runs |
| `RunDialogProofs` | of the two: that drafts and previews stay with their approval, a decision resumes once, and what the wizard posts is meant, proved |
| `StudioModel` | the Studio's reducer and node form as pure operators |
| `Studio` | the editor around it: dialogs, connect mode, load, save |
| `StudioFiles` | the Studio's files: routes, `safeWriteText`, kills and losses of power |
| `StudioProofs` | that edges resolve, in the editor and in the store, that forms follow ids, that acknowledged saves last and completed drafts were published, proved |
| `GraphLayout` | the layout algorithm as operators, over every small graph |
| `GraphLayoutProofs` | that every layout of every graph is readable, proved |
| `MCRunLock`, `MCRunEngine`, `MCSessions`, `MCPiSessions`, `MCRunConsole`, `MCWebParts` | instances for TLC |

Operators marked *Mutant of …* are alternative definitions, the way a plausible bug would
have them; with one in place of the original TLC finds the named property violated. They
take part in no specification.

### RunLock

`file` is the lock file (with its creator, which the code never records: a history value
that no guard reads), `old` whether its modification time is more than 60 s ago, `pc` and
`tries` the acquire loop. `ReadAge` and `Reclaim` are two steps because the code reads the
age and deletes the file in two calls; `Leave` deletes whatever file is there, as `finally`
does. `Age` makes a file old only while its creator is not inside: the code's own assumption
(`runtime/store.clj:85`) that a mutation takes milliseconds. A holder that is alive and
inside for over a minute is assumed not to be, here and in `RunEngine`.

### RunEngine and RunContract

Variables and files: `disk` is `state.edn`, `log` the events about nodes and the run's
status, `marker` is `runtime-process.json`, `lock` the run lock, `requests`, `decisions` and
`artifacts` the files of those names, `agents` the child processes. Per process: `cmd`,
`pc` (the next file operation), `ctx` (the context in its memory), `steps` (what is left of the
command's `--max-steps` in `run-until-done!`), `value` (the node result on its way to a transition), `ask` (the
arguments of a decision). `breach` is a history of the lock: whether a process was killed
inside it, and whether two decisions were inside together since.

| Actions | Code |
|---|---|
| `Launch`, `Load` | a command line starts; `load-context`, and the early returns that depend on it |
| `RetryGuard`, `RetrySave`, `RetryEvent` | `retry!`: guard, `save-context!`, `run.recovery` |
| `Register`, `EnterLoop`, `Loop`, `Save`, `Leave` | `run-registered!`, `run-until-done!` |
| `StepEnded` … `StepStart` | the branches of `step!` in their order: terminal status, round budget, terminal node, approval (request, or decided), recovery from artifacts, orphan, start |
| `Complete`, `Break`, `Select`, `Store`, `StoreFailed` | the end of `execute-node!`, `fail-run!`, `advance` and `finish-if-terminal`, the saves |
| `Lock`, `Reclaim`, `Load`, `Validate`, `Record`, `Unlock` | `decide!` under the lock, taken, found abandoned and deleted (two steps, whoever's file it is by then), given up, released |
| `Stop`, `Unmark`, `Reload`, `CancelEvent`, `CancelSave` | `cancel!` with `stop!` |
| `AgentEnds`, `Crash` | the environment |

`FreeSpec` admits any command at any time, which is all the code enforces. `Spec` restricts
`Launch` to the documented discipline (`Orderly`): one command at a time, except that
decisions may come together and that a registered runner may be cancelled.
`ImplementsContract` maps `disk` to the variable of `RunContract`. Nothing limits how long
a node or an agent takes, as nothing in the code does; `Waits` says which process is held up
by one.

Events carry in the model the state and attempt the run was in when they were appended. On
disk `node.*` and `approval.*` events carry both, `run.finished` and
`run.max-rounds-exceeded` the state, `transition.selected` its two ends and `effect.applied`
only the effect's name, and no property reads more of an event than that.

### Sessions and SessionContract

Here one runner or cancel works at a time; the subject is the order of writes to *two*
durable records. `run` is `state.edn`, `binding` the binding files, `started` and `ended`
what the log says of each attempt, `outputs` the attempt-stamped outputs, `agents` the
executor processes. `prompts` is a history variable: each delivery an executor took, with
the reference and operation of its request. Each write of a binding is a step of its own
(`BeginActivation`, `Activate`, `BindReturned`, `FinishActivation`, `OrphanActivation`,
`CloseBindings`, `CancelOrphans`), with `Crash` possible between any two. `Replies` gives what each
executor's `run-agent-session-node!` can answer: Pi always the expected reference, Claude
also an exception, OpenCode whatever its event stream said.

### PiSessions and PiConsole

`log` and `status` are the sessions of the adapter's Map, `creating` how far each POST has
got (an id is chosen before or after the SDK's session is made, but looked up and
registered only then), `prompting` the prompts the SDK works on, `reader` an API client
that reads with `?after=`. `FakeTurn` and `RealTurn` are the two adapters' `sendPrompt` up
to the await; `PromptEnds`, `PromptFails` and `SdkEvent` are what follows, in any order.
`Messages` is `derivePiChatMessages`, a fold over the log. `PiConsole` adds one client, the
panel or the composer: `selected`, `shown`, its `stream` (what the server sent last on it
and what is on its way), `loads`, `composer`. `OpenStream` is a React effect and runs after
the render that asked for it, so that `Deliver` can come first.

### RunConsole

`run` is what the runtime has for each run (status and a revision), `conn` the
server's side of each stream, whose poller may outlive its client: `ReadSnapshot` and
`WriteSnapshot` are apart, as the code awaits between them. `selected`, `detail`, `source`
and `due` (effects that have to run) are the view's; `gets` its fetches, at most
`MaxGets` at once; `control` the mutations whose answer or refresh is waited for (a start
that ends clears `busy`, so that there may be more than one), `starting` the start, and
`busy` the flag they share. A project is the one on display; runs belong to `Home`.

### ApprovalInbox, StartWizard, Studio, StudioFiles, GraphLayout

`ApprovalInbox`: `pending` is what the server lists, `approvals` and `selectedKey` what the
view has; `SelectionEffects` are its two effects, run after a render that changed the
selection; drafts remember for which approval they were written (`of`, or the set of
approvals in `message`), which the code does not. `StartWizard`: a value is represented by
the workflow on whose form it was given, and `last` is what was posted. `StudioModel`
translates the reducer action by action over `Doc(states, initial, placed, dirty)`; `Studio`
adds the modal with its `autoRef` (as `own` and the id texts are derived from), menus, connect
mode, loads that answer late and saves that are served at one moment. A composed prompt is
saved in two steps, `ComposeSave` and `ComposeDone`, between which the composer may be closed
and the form changed (`composing`; `overtaken` collects the paths that came late). A dialog
whose node a load takes away is gone with what it waits for, and `EditModal` opens it anew
when another load brings the node back. A draft saved without states is stored as `Bare`, since
`cleanDraft` drops the empty map; the view that loads it throws (`ViewThrows`). `StudioFiles` splits
a save: make the directory, open, write, sync, rename, sync directory, with several browsers,
`Kill` and `LosePower`; `certain` and `since` say what a loss of power may leave of the
sidecar, `folder` whether the directory's own entry, which nothing syncs, is on disk, and
`exposed` which saves a loss of power was free to take. `GraphLayout` has one
action, which draws an edge; the layout is computed from the graph by operators. `visit`
calls itself along every edge but to no node of its `seen`, so what it reaches are the ends
of the simple paths (`Ways`) from where it starts, each at the path's length; a node's depth
is the greatest, as the code overwrites a smaller one. `EdgesLead` compares depths, which are
columns counted across bands: from the last column of a band to the first of the next an edge
goes left on the screen. The two loops over `visit` are `Roots`
and the recursive function in `Starts`, the bands' running top the one in `BandTops`.

## 3. The runs

| Run | States | Shows |
|---|---|---|
| `run_lock` | 27 thousand | exclusion until a holder dies; every waiter returns; an abandoned lock is reclaimed |
| `run_lock_reclaim` | violation | after a holder died two waiters can be inside together |
| `engine` | 386 thousand | under the documented discipline: a started attempt is started again only after a closing event, attempts name one state, a runner out of budget stops between two nodes, every command returns whose nodes end; while no two decisions were inside the lock together, refinement of `RunContract`, gates open by decision, decisions are final |
| `engine_free` | 1.0 million | with any three commands at any time: evidence of failures, freshness of attempt-stamped artifacts |
| `engine_duplicate` | violation | a kill between closing event and save starts a node twice |
| `engine_cancel` | violation | the resume of `run apply` overwrites a cancellation |
| `engine_decided` | violation | a decision whose process died is not honoured by a resume |
| `sessions` | 204 thousand | no redelivery, one session per state, bindings agree with `state.edn`, done means closed, refinement of `SessionContract` |
| `sessions_close` | violation | a failed recovery closes no attempt and leaves the run running |
| `pi_sessions` | 287 thousand | logs only grow, also when creates race for an id; answers hold their prompts; messages a reader has seen stay; the panel and the composer settle on their session over lost connections |
| `run_console` | 303 thousand | an active run on display has one stream, of the selection, with nothing older than what is shown; the selected run ends up shown as it is; no poller outlives its run |
| `web_parts` | 703 thousand | drafts and previews stay with their approval, a decision resumes once; what the wizard posts is meant; edges resolve and forms follow ids; acknowledged saves survive as far as the code has synced them, completed drafts were published; every layout is readable |

**Bounds.** `run_lock`: three processes (two waiters and a holder), one kill, and two
retries of the loop instead of 400: its tries are independent of each other, and two reach
both the retry and the timeout. `engine`: two processes, four commands, two kills, two
rounds; the workflow has an agent, a gate with a rejecting edge that fails the run and
increments the round, a working node that no transition covers when it fails, and a
terminal node. That is the least in which a kill, a retry, a decision and a cancel meet; the
second kill is for a run that is resumed after a kill and killed again within the node it
has just started, where a rerun would go unnoticed with one. Four commands are enough for a
resume that parks at the gate, a decision killed inside the lock, and two more that both
find the file abandoned and are inside together. A runner has a budget of one step, which
ends it after any node, or of three, which leads it from the start to its end.
Artifacts are stamped with the round there, the harder case, and with the attempt in
`engine_free`, where freshness is checked. `engine_free` has three commands, one round and
one kill, with processes taken as interchangeable (it has no liveness property).
`sessions`: four attempts (a session is started, continued, left and returned to), two
kills, two sessions (one with a preallocated reference, one whose executor emits it), and
three references, so that a wrong reply has a stranger to name; references are
interchangeable. `MaxLaunches`, `MaxAttempt` and `MaxCrashes` bound counters in guards only. Deadlock is not checked where the bounds make a system stop: in `engine*` when no
command is left, in `sessions*` when no attempt is, in the Web's runs when the user's acts
are used up.

The bounds of the Web's runs are *worlds*: a constant is a set of bounds, and a behaviour
starts with one of them, so that one run covers several small situations instead of one
that is large in every direction. `pi_sessions`: a chat with every kind of event and two
prompts; API clients with two creates that ask for one id; the panel; and the composer with
three events; in each a stream is lost at most `MaxDrops` times. `run_console`: two
selections; one with a lost connection; one with a switch of projects; one with a mutation;
one with a start; two runs, two fetches, one mutation and three connections at once, and one
change of a run besides its end. Two runs are enough for an answer of the wrong one, and a
third connection for one that the server still serves after the view has left two. `web_parts`
checks five parts that share no variable, each in behaviours of its own (`part`): two
approvals of two runs that have the same id, another tab that decides, one draft; two
workflows that share the name of an input, two openings and up to three loads; a Studio
workflow with a loop and one whose nodes have no id of their own, four acts, or two with a
save and a create; two browsers with up to four requests, one kill and one loss of power;
all graphs of up to four nodes and five edges, parallel ones among them, with two columns to
a band.

**Fairness.** `RunLock` and `RunEngine` assume weak fairness of each process's next step (a
process that is not killed keeps running); `RunLock` also that time passes. In `RunEngine` a
process that waits for its node's work or for its agent to exit is excepted (`Waits`): the
child is waited for without a limit (`executors/process.clj:7`, `runtime/process.clj:43`), a
node's timeout in the workflow is never read, and so it may wait for ever.
`CommandsReturn` is accordingly about a process that is not held up so from some time on.
Nothing is assumed about commands being issued, kills, nodes or agents that end, or which
branch is taken.

`PiConsole` and `RunConsole` assume weak fairness of what needs no one's decision: React
runs an effect that is due (`OpenStream`, `StreamEffect`), the event loop delivers a message
or an answer that has arrived (`Deliver`, `OnSnapshot`, `Loaded`, `Load`), the server's
timer polls and a child process it runs returns, as `lib/cli.ts` kills it otherwise (`Poll`,
`Server`), and the browser's pending mutation goes on (`Mutations`). An EventSource that
loses its connection opens another by itself, also in the composer, whose message says to
reopen it (`StudioDialogs.tsx:309`); `Drop` and `Break` do so in the same step.
Not assumed: that the user acts, that a run goes on, that a connection breaks or holds, or
that a prompt is answered.

## 4. The proofs

For every value of the constants that satisfies the ASSUMEs of the modules, which say no
more than that a workflow is well formed, that what was stored before was accepted by the
linter, and that pids, absent files and sessions are told apart. Every safety property of a
passing run is a theorem, and so are both refinements. The types of `Sessions` and of
`PiConsole` are proved and in no run.

**The run lock** (`RunLockProofs`). `LockTypeCorrect`, `LockExclusive`: exclusion as long as
no holder was killed, for any number of processes and tries. `ExclusiveUntilHolderDies` is
not inductive: it needs `FileIsHolders` (whoever is inside created the file that is there
now, the file is not old, and nobody believes that it is). The latter is what the
reclaiming branch needs to be harmless, and what a killed holder breaks.

**The engine** (`RunEngineProofs`), for any workflow, processes, commands and kills, along
three invariants:

- `IInv` gives `EngineTypeCorrect`, `OverlapsNeedKills` and `DecisionsFinal` under
  `FreeSpec`, where any command may be given at any time. `LockInv` says that no two decisions
  are inside the lock together unless `breach` says so, and that until a process was killed
  inside the lock file names whoever is: a file is taken for abandoned only if its creator was
  killed, so that two can only be inside after that (`OverlapsNeedKills`). While no two were,
  an accepted decision is not replaced, because one about to record has an id for which there
  is no record (`RecordsAreNew`), which holds as all other recorders are kept out.
  `DeciderInv` says where a decision can be and what it holds.
- `LogInv` gives `FailuresEvident`, `ArtifactsFresh` and `GatesOpenByDecision` (the last on
  the same condition as `DecisionsFinal`) under `FreeSpec`. These speak of files, but what breaks them is what a process carries in memory
  between two of its steps: a context that says "failed" has its reason in the log before it
  is saved (`Evident`, of every context), a node is executed only after its start was logged
  (`Executing`), and a child process left behind writes under an attempt that was started
  (`Asked`). The log only grows, so that a step has to justify no more than the events
  it appends (`Recorded`).
- `DisciplineInv` gives `AttemptsNameStates` and `EngineObeysContract` under `Spec`, the
  documented discipline. A refinement is proved step by step, and a save refines a step of
  `RunContract` only if what is saved was computed from what is still on disk. `Disciplined`
  says who may be at work together and `Labelled` at which steps; `Holds` how the memory of
  each process relates to `state.edn` at each step of its program: equal to it, one step of
  the contract ahead of it, or irrelevant. Once two decisions were inside the lock together
  theirs may be old (`Tracks`, `Exempt`), and the contract is no longer asked for
  (`StaleWorks`, `StaleKept`); attempts still name one state. `StartedInv` keeps every start in the log at or
  before the attempt on disk, so a new attempt number is one no state has used.
- `BudgetInv` beside it gives `BudgetsEndBetweenNodes`: what a registered runner does until its
  next save has a step left to spend (`Unspent`), and what it saves while the run goes on has an
  attempt that nobody has started (`Untouched`), which is `StartedInv` one attempt later.
- `StartsAreClosed` follows from `LogInv` and is stated under `Spec` (section 5).
  `OrderlyIsFree` is a lemma for it: `Spec` only restricts `FreeSpec`, and inherits what is
  proved of it.

`DecisionsFinal`, `GatesOpenByDecision` and `EngineObeysContract` share one condition, that no
two decisions were inside the lock together (`breach # "overlapped"`). Without it they are
false of the code: after a process was killed inside, `run_lock_reclaim` shows how two get in,
and `RunEngine` lets them. Both then validate; the second replaces the first's record, and
each may move the run along its own decision under the same attempt number.
`OverlapsNeedKills` says that nothing short of such a kill makes the condition fail.

**Sessions** (`SessionsProofs`), for every workflow, any numbers of attempts and kills, any
answers of the executors, one runner at a time:

- `SessionsTypeCorrect`, `PromptsDeliveredOnce`, `OneSessionContinued`, `SuspensionsProven`.
  The properties of prompts speak of their history and say nothing of what the next step
  may send. The invariant `IInv` adds that the runner's memory agrees with `state.edn` until
  it has selected a transition (`CtxOK`); that during an activation the binding is that
  activation's (`ActivationOK`); that a binding never runs ahead of the run (`BindingOK`);
  and that every prompt taken so far belongs to the session its binding names, under an
  earlier attempt than an activation about to send one (`PromptsOK`).
- `DoneRunsAreClosed`, `OpenActivationsAreCurrent`. The second invariant, `LifeInv`, relates
  bindings to the log: no attempt there is ahead of `state.edn` (`LoggedOK`); before the
  first kill no activation begins under an attempt that was closed (`UnbrokenOK`); and until
  the second kill whatever leaves an activation open leaves its attempt open in the log,
  where the next resume looks (`OpenOK`).
- `BindingsLiveAsSessions`: bindings refine `SessionContract`, whose steps ask for what
  `IInv` says of the binding before each write.

**The Web's server and views**, for any numbers of sessions, approvals, workflows, browsers,
requests and acts of the user:

- `PiConsoleProofs`. `PiInv` ties together what the code keeps on both sides of an await: an
  event's number is its place in the log (`LogOK`), no two creates of a view were answered
  with one session, which exists (`CreatingOK`), a prompt that waits remembers the place of
  its own event (`PromptingOK`), and what a reader has is the beginning of the log it
  follows (`ReaderOK`); the rest is types (`ViewOK`). From it
  `RunningMeansPrompted`, `AnswersStartWithPrompt`, `ConsoleTypes`, and, as properties of
  steps, `LogsOnlyGrow` and `LateSessionsIgnored`. `ReaderMissesNothing` and `MessagesStay`
  are about functions that recurse over a log of any length, and are proved by induction:
  the library's induction theorem takes an operator, but well-foundedness of the numbers
  (`NatLessThanWellFounded`, `WFMin`) gives a version about sets, `AllFromZero`.
- `RunConsoleProofs`: `StreamAlwaysFollows`, `StreamAlwaysAhead`. Answers to loads may
  overtake each other, so that what is shown may go back for a moment; the two properties
  say why the view recovers. `ConsoleInv` adds to them that whatever anyone holds of a run
  (the view, a load, a poller, a stream) was read in its past (`AllSeen`), so that a stream
  opened by an effect after the last change of the detail reads nothing older than it; that
  what a poller has read and not yet written is not older either (`AheadOf`); and that only
  the open source has a client (`OneClient`), which every step that replaces it has to
  close. Steps of one part are proved once for all of them (`RunsStep`, `ConnStep`,
  `BrowserStep`, `StreamShut`, `StreamOpened`), and each action is one of these.
- `RunDialogProofs`, of the approvals view: `DraftsNeverStray`, `PreviewsMatch`, `ResumedOnce`. The view does
  not note for which approval drafts were written. `InboxInv` says why it need not: drafts
  that are there were written for the approval seen last, and what has been previewed or is
  being fetched is of it (`DraftsOfSeen`, `EvidenceOfSeen`), because the effects of a
  change of the selection run before the user can act again. `QueueOK` is about the server:
  an approval is listed once, and its decision is taken by one client, before it is resumed.
- `RunDialogProofs`, of the wizard: `StartsAlwaysMeant`. The invariant `WizardInv` adds that values cover
  the form on display and were given on it (`ValuesFit`), because they are replaced together
  with it; that `confirm` is only set when the user ticked since the dialog was opened; and
  that `busy`, which alone survives the dialog's closing, is set while a start is on its way
  (`OneStart`).
- `StudioProofs`, of the editor: `EdgesAlwaysResolve`, `StoreAlwaysResolves`: `EdgesResolve` speaks of the
  draft on display, and a load replaces that by what an earlier save stored, so it is not
  inductive. `DraftsSound` says it of every draft there is, in the store, in a save and in
  answers to loads; each reducer action has a lemma that it keeps a sound document sound.
  Targets that a dialog submits although no node has their id are collected in `strayed` and
  excepted, in both theorems: those of a form or a connection whose node a load took away
  meanwhile, as the form offers only nodes but is not offered anew when one goes; and the old
  id of a renamed node in its own transitions, which the rename leaves. So what is proved is
  that no other edge leads nowhere, and a draft that is saved may hold such a one.
  `FormsFollowIds` has the same shape, as a dialog opens on whatever texts a draft carries:
  `FormsInv` says that in every draft a node's texts are empty, the user's own or derived
  from its id, and that the dialog's note of what it derived fits the form in it. The path
  that the composer sets after its await is excepted where it is late (`overtaken`): then it
  may be one of an id given up, or replace what the user wrote, and be saved so.
- `StudioProofs`, of the files: `AckedSavesLast`, `CompletedWerePublished`. A load gets one content,
  but a loss of power may bring back others. `FilesInv` speaks of all of them: which saves
  have reached each (`Lasting`), what a stage of a save has already synced (`Synced`), and
  that a completed sidecar is nowhere before `workflow.edn` is (`PublishedFirst`). A loss of
  power is free to take a save after which no sync of the directory succeeded, for whatever
  reason it failed, and every save in a directory whose own entry was not on disk
  (`exposed`); the code acknowledges both.

**The graph layout** (`GraphLayoutProofs`), for graphs of any size: `LayoutsReadable`. The
state says little (`LayoutInv`: edges are finitely many and leave nodes of the graph); the
work is in lemmas about the operators.

- *Depths* (`EdgesAlwaysLead`). Every node ends some way, because each is a root, was reached
  before its turn came, or starts a visit of its own (`StartsReachAll`, by induction over the
  loop). So a node has a greatest depth and a way that attains it (`DepthOfWay`,
  `DeepestWay`). If the far end of an edge is not on that way, the way goes on along the edge
  (`WayExtended`) and makes the far end deeper; if it is, its rest (`WayFrom`) closes a cycle.
- *Places* (`NodesAlwaysApart`). Two nodes of a column differ in their row (`RowsFall`), two
  columns of a band in x (`BandsWrap`), and a later band begins below the last row of an
  earlier one (`BandsFall`, `BandsHold`).
- *Ends of edges* (`EndsApart`): arithmetic of `SpreadEndpoint`.
- That `Starts` and `BandTops`, defined by recursive functions, are what their equations say
  is not given: `RecursionUpto` shows that such a function exists, from `AllFromZero`.

**Only model-checked**: liveness (`WaitersReturn`, `AbandonedIsReclaimed`, `CommandsReturn`,
`SelectionSettles`, `ComposerCatchesUp`, `DetailSettles`, `StreamsEnd`), since fairness and
ENABLED are out of the prover's reach; and the five properties of section 6, which the code
violates.

## 5. Abstractions

- Results are reduced to the `Outcome` that `:when` predicates tell apart; JSON, prompts,
  templates, redaction and configuration hashes are left out. That a configuration may have
  changed between two visits is a choice of the environment in `Sessions`.
- `RunEngine!Leave` reads the state, reaps and deletes the marker in one step; the events of
  one transition are appended in one step; an approval request and its event are one step.
  A save of `state.edn` and an append to `events.jsonl` are atomic (`SafeWrite` is to say when).
- `StepStart` finds an attempt not in flight and appends its start in one step. Two runners
  of one run, which the documentation forbids, could both find it so; `StartsAreClosed` is
  therefore stated of `Spec`, where one works at a time, although its invariant holds of
  `FreeSpec` as it is modelled.
- `stop!` kills the registered process and its agents at once.
- A pid in a file is the process itself, or `DeadPid` once it was killed: pids are not reused.
- `Sessions` assumes well-formed status files when the outputs are there, and one runner at a time.
- A node's work may never end, and nothing but a cancel or a kill then ends its runner.
- A command that runs until done has a budget of at least one step, as the control plane and
  the operations ask; the command line would take 0, and start nothing.
- `PiSessions`: texts are kinds of events (a delta, an empty one, one that is hidden from the
  chat); clocks are left out. Of settings, only whether a model resolves.
- `RunConsole`: a run is its status and a revision; a snapshot's four reads happen at one
  moment; lists, events and artifacts are left out, as they are set together with the detail.
- `StudioModel`: a text is the id it is derived from, `Own` (written by the user) or none;
  transitions are a set, positions the set of nodes that have one. A text of the user's
  that happens to be what is derived from some other id is `Own`, so `StudioAssumption` has
  each text of a package empty, `Own` or derived from its node's id. In `Studio` a create is
  one step, as its file is the subject of `StudioFiles`.
- `StudioFiles`: the control plane's write of `workflow.edn` is one step that may succeed
  although the server never learns of it, and after a loss of power holds any version renamed
  since the directory was last synced; a file
  that was not synced may be torn by a loss of power, and a torn sidecar is read as if there were none.
- `StartWizard`: run id, step budget and focus are left out; `SetGitUser` chooses whether
  name and email are valid.
- `GraphLayout`: a visit's map of depths is the set of (node, depth) pairs it reaches; edges
  of a face are taken in some order. Edges between the same two nodes are told apart by a
  number, as the code tells them apart as objects.

Not modelled: the components marked so in `PROJECT.json`, each with its reason there. Of the
Web's side these are panels that render, or wrap one command in a form (settings, git user,
connections, work tracker, artifacts, browsing), the lint preview, and the drawing of edges
and arcs between the points `GraphLayout` computes.

## 6. Findings

Each is the violation of one property, a line of the documentation, by what the code does.

1. *Lock reclaim* (`runtime/store.clj:88`): age check and deletion are two operations, and
   the file names no owner, so of two waiters on an abandoned lock one deletes the other's.
2. *Duplicate start* (`runtime/core.clj:197`): closing event before save; a kill between
   them makes the next resume start the attempt again.
3. *Cancel overwritten* (`runtime/operations.clj:26`): the resume of `run apply` has no marker.
4. *Decision not honoured* (`runtime/core.clj:539`): a resume returns at once from a blocked
   run even when its decision is recorded, and a second decision is refused.
5. *Recovery that fails is not recorded* (`runtime/core.clj:311`): the exception of
   `recover-completed-activation!` passes by the handler that fails a node.

Facts without a run of their own. `OpenIsCurrent` holds up to one kill: after two, as a
consequence of finding 2, a run can fail with its binding still `active`, because
`orphaned-current-attempt?` takes the attempt for closed. By the same test a kill in an
attempt that finding 2 has started twice is not seen: the next resume starts it a third time
with no closing event in between, only one before the second start. `InFlightNeverRerun` says
what is kept, that some closing event comes before any start but the first. And between `close-bindings!` and
the save of a finished run a kill leaves closed sessions in a run that goes on; the next
visit to such a state fails.

### Weaknesses that no property states

Met while modelling, and known to be reachable; no property could be stated that the code
keeps and that would say something about them. Those of the engine are in `PROJECT.json`.

- A retry of the same round finds artifacts stamped with the round only (`runtime/core.clj:46`);
  `StampedIsFresh` is about attempt-stamped ones. `retry!` saves before it appends
  `run.recovery` (`runtime/lifecycle.clj:109`), and of a run that `:fail-run` failed it records
  an older piece of evidence or none, as it does not look for `effect.applied` (74), and an approval's request file is written
  before its event (`runtime/approvals.clj:141`). An executor may still work in a session
  whose outputs were all there (`runtime/sessions.clj:351`).
- Packages: an asset is noted as installed before it is moved into place
  (`package/transaction.clj:56`). Migrations: `backup-once!` copies without a temporary file
  (`persistence/safe_write.clj:98`). Projects: create-project's compensation deletes a
  descriptor that may be in use (`control_plane/projects.clj:536`). Work tracker: a request
  that timed out is sent again (`work_tracker/retry.clj:15`).
- Pi: a GET's answer that is older than a snapshot replaces it
  (`PiSessionsPanel.tsx:42`); a create that loses the race for its id leaves an SDK session
  behind (`piSessionAdapter.ts:363`); sessions live in memory and end with the server; a
  follow-up's `finally` clears the composer's `busy` of a later one (`StudioDialogs.tsx:277`).
- Runs view: the detail of another run that is over stays, as no stream is opened over it;
  a mutation's refresh asks the project that was left (`useConsoleData.ts:140`); a snapshot
  is four reads at different moments (`runs.ts:41`); every snapshot opens the stream anew
  (`useConsoleData.ts:128`); the first of two starts to end clears `busy` (`RunControls.tsx:76`).
- Wizard: `start` posts the selected workflow's name with the inputs of the form on display,
  which an earlier pick's late answer may have brought (`StartWorkflowWizard.tsx:173,214`);
  `confirm` survives Back and another pick; a late success closes a dialog opened again.
- Approvals view: an anchor is kept when another artifact is opened (`ApprovalInbox.tsx:95`);
  a reload that was asked for earlier shows a decided approval again.
- Studio: a node without an `id` field becomes `undefined` when it is edited
  (`WorkflowStudio.tsx:91`, `model.ts:224`); a rename leaves the node's own loop at its old id
  when the form does, and replaces a node that has the new one; `saved` clears `dirty` over
  edits made meanwhile (`model.ts:276`); an empty draft is stored without its states
  (`routes/studio.ts:30`), and the view that loads it throws (`model.ts:44`); a composed prompt's
  path is set over an id or path changed meanwhile (`StudioDialogs.tsx:290`); a late load replaces the draft of the workflow opened
  since and can be saved under its name (`WorkflowStudio.tsx:51`); a GET prefers an older
  sidecar draft to a newer package (`studio.ts:70`); a create looks for the file before it
  writes it (`studio.ts:61`), and a control plane killed at its timeout may have written.
- Settings: a project's connections are updated without a lock
  (`control_plane/projects.clj:852`), and a late load of one project's connections is shown
  under another (`ProjectConnectionsPanel.tsx:41`).

## 7. The plan

The engine, its lock and its sessions came first, then the Web console and server, whose
races are the most numerous in this code. What is left, in this order:

1. Proofs of what the modules below will promise. Of the modules there are, every safety
   property is proved.
2. `Fragment` (`runtime/fragment.clj`): parent and nested run, each obeying `RunContract`
   (instantiated twice); pin before state, resume, mirrored events, nested cancel, exit
   outputs.
3. `UserStores` (registry, descriptors, credentials, preferences): what unlocked
   read-modify-write keeps and loses, and create-project's compensation. `PackageImport` and
   `Migration`: commit, roll back and repeat, with a failure or a kill at each step.
4. `RunQuery` (`control_plane/runs.clj`, heartbeats): liveness and deletion against a live
   runner. `WorkflowGraph`: transition matching as pure operators. `TrackerRetry`.
