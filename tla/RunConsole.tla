------------------------------ MODULE RunConsole ------------------------------
(***************************************************************************)
(* The runs view of the Web console: the hook useConsoleData, the run      *)
(* controls, and the server's side of a run's event stream (runs.ts).      *)
(* Answers to fetches, snapshots of a stream, the user and the runs        *)
(* themselves all proceed at their own pace.  A run's effects and files    *)
(* are those of RunEngine; here a run is a status and a revision.          *)
(***************************************************************************)
EXTENDS Naturals, Sequences, FiniteSets

CONSTANTS
    Run, NoRun,
    Project, Home,   \* the project whose runs Run are
    MaxRev,          \* bound: changes of a run before it ends
    Acts,            \* the bounds of a behaviour, one of which it starts with:
                     \* how often the user selects a run, switches project,
                     \* uses the controls and starts runs, and how many
                     \* connections break
    MaxGets,         \* bound: runs being loaded at once
    MaxControls,     \* bound: mutations RunControls waits for at once
    MaxConns         \* bound: stream connections the server has at once

ASSUME ConsoleAssumption ==
    /\ NoRun \notin Run /\ Home \in Project
    /\ MaxRev \in Nat
    /\ Acts \subseteq [{"select", "switch", "control", "start", "break"} -> Nat]
    /\ MaxGets \in Nat \ {0} /\ MaxConns \in Nat \ {0}
    /\ MaxControls \in Nat

VARIABLES
    run,       \* run -> its status and revision
    conn,      \* stream connections, as the server knows them
    project, selected, detail,    \* projectId, selectedRun and runDetail
    source,    \* the connection of the open EventSource, 0 if none
    due,       \* a render has been made whose effects have not run
    gets,      \* loads of runs on their way
    control,   \* the mutations RunControls waits for
    starting,  \* the start it waits for
    busy,
    left       \* the acts that are left of the bounds

service == <<run, conn>>
browser == <<project, selected, detail, source, due, gets>>
controls == <<control, starting, busy>>
consoleVars == <<service, browser, controls, left>>

Terminal(status) == status \in {"done", "failed", "cancelled"}
NoDetail == [run |-> NoRun, status |-> "absent", rev |-> 0]
Unsent == [run |-> NoRun, status |-> "unsent", rev |-> 0]
Current(r) == [run |-> r, status |-> run[r].status, rev |-> run[r].rev]

\* What the control plane says of a run of a project: NoDetail is its 404.
Lookup(p, r) == IF p = Home /\ run[r].status # "absent" THEN Current(r)
                ELSE NoDetail

Slot == 1..MaxGets
Conn == 1..MaxConns
Mutating == 1..MaxControls
Idle == [stage |-> "idle", run |-> NoRun, project |-> Home, answer |-> NoDetail]
Free == [stage |-> "free", run |-> NoRun, project |-> Home, read |-> Unsent,
         last |-> Unsent, wire |-> <<>>, client |-> FALSE, heard |-> FALSE]
NoMutation == [op |-> "none", run |-> NoRun, project |-> Home, stage |-> "none",
               slot |-> 0]

ConsoleInit ==
    /\ run \in [Run -> [status : {"absent", "running", "done"}, rev : {0}]]
    /\ \E r \in Run : run[r].status = "running"
    /\ conn = [c \in Conn |-> Free]
    /\ project = Home /\ selected = NoRun /\ detail = NoDetail
    /\ source = 0 /\ due = FALSE
    /\ gets = [i \in Slot |-> Idle]
    /\ control = [m \in Mutating |-> NoMutation] /\ starting = NoMutation
    /\ busy = FALSE
    /\ left \in Acts

----------------------------------------------------------------------------
(* The run itself, carried on by the background runner.                    *)

SetRun(r, status) ==
    run' = [run EXCEPT ![r] = [status |-> status, rev |-> @.rev + 1]]

Advance(r) ==
    /\ run[r].status = "running"
    /\ \/ run[r].rev < MaxRev /\ SetRun(r, "running")
       \/ SetRun(r, "done")
    /\ UNCHANGED <<conn, browser, controls, left>>

----------------------------------------------------------------------------
(* streamRun: send reads a snapshot, writes it if it differs from the last *)
(* and ends the response of a run that is over; it is called once before   *)
(* the interval and the close handler are set up, then every second.       *)

FreeConns == {c \in Conn : conn[c].stage = "free"}
NextConn == CHOOSE c \in FreeConns : \A d \in FreeConns : c <= d
Opened(p, r) == [Free EXCEPT !.stage = "idle", !.run = r, !.project = p,
                             !.client = TRUE]

\* A poll that finds nothing new sends a heartbeat, which changes nothing.
ReadSnapshot(c) ==
    /\ conn[c].stage = "idle"
    /\ LET snapshot == Lookup(conn[c].project, conn[c].run) IN
       /\ snapshot # conn[c].last
       /\ conn' = [conn EXCEPT ![c].stage = "read", ![c].read = snapshot]
    /\ UNCHANGED <<run, browser, controls, left>>

\* A client that has gone before the first snapshot is written is not
\* noticed: the handler for its close is registered only now.
Written(k) ==
    [k EXCEPT !.last = k.read, !.read = Unsent,
              !.wire = IF k.client THEN Append(@, k.read) ELSE @,
              !.heard = @ \/ (k.last = Unsent /\ k.client),
              !.stage = IF Terminal(k.read.status) THEN "ended" ELSE "idle"]

\* Mutant of WriteSnapshot: a stream is not ended with its run, as clients
\* close it anyway.
WriteSnapshotOnly(c) ==
    /\ conn[c].stage = "read"
    /\ conn' = [conn EXCEPT ![c] = [Written(@) EXCEPT !.stage = "idle"]]
    /\ UNCHANGED <<run, browser, controls, left>>

WriteSnapshot(c) ==
    /\ conn[c].stage = "read"
    /\ conn' = [conn EXCEPT ![c] = Written(@)]
    /\ UNCHANGED <<run, browser, controls, left>>

\* close, heard of by the server: nothing it polls meanwhile is seen.  The
\* response of a run that is over is ended, whether or not a client is left.
Left(k) == IF k.heard \/ k.stage = "ended" THEN Free
           ELSE [k EXCEPT !.client = FALSE, !.wire = <<>>]

EndConn(c) ==
    /\ conn[c].stage = "ended" /\ ~conn[c].client
    /\ conn' = [conn EXCEPT ![c] = Free]
    /\ UNCHANGED <<run, browser, controls, left>>

----------------------------------------------------------------------------
(* useConsoleData.                                                         *)

Act(kind) == left[kind] > 0 /\ left' = [left EXCEPT ![kind] = @ - 1]

\* The part of selectRun before its await.
Ask(p, r, slot) ==
    /\ gets[slot].stage = "idle"
    /\ gets' = [gets EXCEPT ![slot] = [Idle EXCEPT !.stage = "asked",
                                                   !.run = r, !.project = p]]
    /\ selected' = r /\ detail' = NoDetail /\ due' = TRUE
FreeSlot(slot) == gets[slot].stage = "idle" /\
                  \A i \in Slot : gets[i].stage = "idle" => slot <= i

\* A row is clicked, with all effects run.
SelectRun(r) ==
    /\ ~due /\ Act("select") /\ r # selected
    /\ \E slot \in Slot : FreeSlot(slot) /\ Ask(project, r, slot)
    /\ UNCHANGED <<service, project, source, controls>>

\* The reset of another project, of a collapsed row and of a deleted run.
Deselect == selected' = NoRun /\ detail' = NoDetail

CollapseRun ==
    /\ ~due /\ Act("select") /\ selected # NoRun
    /\ Deselect /\ due' = TRUE
    /\ UNCHANGED <<service, project, source, gets, controls>>

AnswerGet(slot) ==
    /\ gets[slot].stage = "asked"
    /\ gets' = [gets EXCEPT ![slot].stage = "answered",
                   ![slot].answer = Lookup(gets[slot].project, gets[slot].run)]
    /\ UNCHANGED <<service, project, selected, detail, source, due, controls,
                   left>>

\* applyRunSnapshot: whatever run the answer is of, it is shown.
RunLoaded(slot) ==
    /\ gets[slot].stage = "answered"
    /\ gets' = [gets EXCEPT ![slot] = Idle]
    /\ IF gets[slot].answer = NoDetail THEN UNCHANGED <<detail, due>>
       ELSE detail' = gets[slot].answer /\ due' = TRUE
    /\ UNCHANGED <<service, project, selected, source, controls, left>>

Streamed == selected # NoRun /\ detail # NoDetail /\ ~Terminal(detail.status)

\* Mutant of Closed: the effect has no cleanup.
ClosedNever == conn

Closed == IF source = 0 THEN conn ELSE [conn EXCEPT ![source] = Left(@)]

\* Mutant of StreamEffect: a stream that is open on the selected run is kept.
StreamEffectKept ==
    /\ due /\ due' = FALSE
    /\ IF Streamed /\ source # 0 /\ conn[source].run = selected
       THEN UNCHANGED <<source, conn>>
       ELSE IF Streamed
       THEN /\ FreeConns # {}
            /\ source' = NextConn
            /\ conn' = [Closed EXCEPT ![NextConn] = Opened(project, selected)]
       ELSE source' = 0 /\ conn' = Closed
    /\ UNCHANGED <<run, project, selected, detail, gets, controls, left>>

\* The effect on [projectId, runDetail, selectedRun].  Every snapshot is a
\* new runDetail, so that each one closes the stream and opens another.
StreamEffect ==
    /\ due /\ due' = FALSE
    /\ IF Streamed
       THEN /\ FreeConns # {}
            /\ source' = NextConn
            /\ conn' = [Closed EXCEPT ![NextConn] = Opened(project, selected)]
       ELSE source' = 0 /\ conn' = Closed
    /\ UNCHANGED <<run, project, selected, detail, gets, controls, left>>

\* onSnapshot: a 404 carries no run; the snapshot of a run that is over
\* closes the source.
OnSnapshot ==
    /\ source # 0 /\ conn[source].wire # <<>>
    /\ LET snapshot == Head(conn[source].wire) IN
       /\ IF snapshot = NoDetail THEN UNCHANGED <<detail, due>>
          ELSE detail' = snapshot /\ due' = TRUE
       /\ IF Terminal(snapshot.status)
          THEN conn' = Closed /\ source' = 0
          ELSE /\ conn' = [conn EXCEPT ![source].wire = Tail(@)]
               /\ UNCHANGED source
    /\ UNCHANGED <<run, project, selected, gets, controls, left>>

\* A connection breaks; the browser opens another for the same source.
Break ==
    /\ source # 0 /\ Act("break") /\ FreeConns # {}
    /\ source' = NextConn
    /\ conn' = [Closed EXCEPT ![NextConn] =
                    Opened(conn[source].project, conn[source].run)]
    /\ UNCHANGED <<run, project, selected, detail, due, gets, controls>>

\* Another project is chosen: the stream's effect runs once more with the
\* old selection before the reset of the first effect is rendered, and the
\* stream it opens is closed at once, whether or not the server has seen it.
SwitchProject(p) ==
    /\ ~due /\ Act("switch") /\ p # project
    /\ project' = p /\ Deselect
    /\ source' = 0 /\ due' = FALSE
    /\ \/ conn' = Closed
       \/ /\ Streamed /\ FreeConns # {}
          /\ conn' = [Closed EXCEPT ![NextConn] = Left(Opened(p, selected))]
    /\ UNCHANGED <<run, gets, controls>>

----------------------------------------------------------------------------
(* RunControls, with mutateRun, startRun and the deletion of runs.ts.      *)

Mutation(op, r) == [NoMutation EXCEPT !.op = op, !.run = r,
                                      !.project = project, !.stage = "sent"]

\* A confirmed button: Step, Resume, Cancel or Delete.  The end of a start
\* makes the buttons free while a mutation may still be waited for.
Mutate(op) ==
    /\ ~due /\ Act("control") /\ selected # NoRun /\ ~busy
    /\ op = "cancel" => ~Terminal(detail.status)
    /\ \E m \in Mutating :
          /\ control[m] = NoMutation
          /\ control' = [control EXCEPT ![m] = Mutation(op, selected)]
    /\ busy' = TRUE
    /\ UNCHANGED <<service, browser, starting>>

\* The wizard's start does not ask whether the controls are busy.
StartRun(r) ==
    /\ ~due /\ Act("start") /\ starting = NoMutation
    /\ busy' = TRUE /\ starting' = Mutation("start", r)
    /\ UNCHANGED <<service, browser, control>>

\* The operation in the control plane, refused where the run is not there,
\* has ended (a start: exists already) or is executing (a delete).
Permitted(m) ==
    CASE m.op = "start" -> m.project = Home /\ run[m.run].status = "absent"
      [] m.op = "delete" -> Lookup(m.project, m.run) # NoDetail
      [] OTHER -> Lookup(m.project, m.run).status = "running"
Effect(m) ==
    CASE m.op = "start" -> SetRun(m.run, "running")
      [] m.op = "delete" -> SetRun(m.run, "absent")
      [] m.op = "cancel" -> SetRun(m.run, "cancelled")
      [] m.op = "resume" -> UNCHANGED run
      [] OTHER -> SetRun(m.run, "done") \/ UNCHANGED run
Answered(m) == [m EXCEPT !.stage = "answered"]
Refused(m) == [m EXCEPT !.stage = "refused"]

\* The control plane is killed when its time is up; the operation is answered
\* as an error, whether or not it has been done.
Outcomes(m) == {Answered(m), Refused(m)}

ServeControl(m) ==
    /\ control[m].stage = "sent"
    /\ \/ /\ Permitted(control[m]) /\ Effect(control[m])
          /\ \E outcome \in Outcomes(control[m]) :
                control' = [control EXCEPT ![m] = outcome]
       \/ control' = [control EXCEPT ![m] = Refused(@)] /\ UNCHANGED run
    /\ UNCHANGED <<conn, browser, starting, busy, left>>

\* A start that is permitted may be refused all the same, and its time may be
\* up when the run has been created.
ServeStart ==
    /\ starting.stage = "sent"
    /\ \/ Permitted(starting) /\ Effect(starting) /\ starting' \in Outcomes(starting)
       \/ starting' = Refused(starting) /\ UNCHANGED run
    /\ UNCHANGED <<conn, browser, control, busy, left>>

\* mutate goes on to refreshAfterMutation as it was when the button was
\* pressed: the run is selected again, in the project it was selected in,
\* and the controls are busy until it is loaded.
Refresh(m) ==
    /\ control[m].stage = "answered" /\ control[m].op # "delete"
    /\ \E slot \in Slot :
          /\ FreeSlot(slot) /\ Ask(control[m].project, control[m].run, slot)
          /\ control' = [control EXCEPT ![m].stage = "refreshing",
                                        ![m].slot = slot]
    /\ UNCHANGED <<service, project, source, starting, busy, left>>

CollapseDeleted(m) ==
    /\ control[m].stage = "answered" /\ control[m].op = "delete"
    /\ Deselect /\ due' = TRUE
    /\ control' = [control EXCEPT ![m] = NoMutation] /\ busy' = FALSE
    /\ UNCHANGED <<service, project, source, gets, starting, left>>

EndMutation(m) ==
    /\ \/ control[m].stage = "refused"
       \/ control[m].stage = "refreshing" /\ gets[control[m].slot].stage = "idle"
    /\ control' = [control EXCEPT ![m] = NoMutation] /\ busy' = FALSE
    /\ UNCHANGED <<service, browser, starting, left>>

\* startRun does not wait for the refresh it begins.
Started ==
    /\ starting.stage \in {"answered", "refused"}
    /\ starting' = NoMutation /\ busy' = FALSE
    /\ IF starting.stage = "refused"
       THEN UNCHANGED <<gets, selected, detail, due>>
       ELSE \E slot \in Slot :
               FreeSlot(slot) /\ Ask(starting.project, starting.run, slot)
    /\ UNCHANGED <<service, project, source, control, left>>

----------------------------------------------------------------------------

Server(c) == ReadSnapshot(c) \/ WriteSnapshot(c) \/ EndConn(c)
Load(slot) == AnswerGet(slot) \/ RunLoaded(slot)
Mutations ==
    \/ \E m \in Mutating : ServeControl(m) \/ Refresh(m) \/ CollapseDeleted(m)
                            \/ EndMutation(m)
    \/ ServeStart \/ Started
User == \/ \E r \in Run : SelectRun(r) \/ StartRun(r)
        \/ CollapseRun
        \/ \E p \in Project : SwitchProject(p)
        \/ \E op \in {"step", "resume", "cancel", "delete"} : Mutate(op)

ConsoleNext ==
    \/ \E r \in Run : Advance(r)
    \/ \E c \in Conn : Server(c)
    \/ \E slot \in Slot : Load(slot)
    \/ StreamEffect \/ OnSnapshot \/ Break
    \/ Mutations
    \/ User

\* The server's timers and handlers run, requests are answered, the browser
\* runs effects and delivers what arrived.  Nothing makes a user act or a
\* run end.
ConsoleFairness ==
    /\ \A c \in Conn : WF_consoleVars(Server(c))
    /\ \A slot \in Slot : WF_consoleVars(Load(slot))
    /\ WF_consoleVars(StreamEffect) /\ WF_consoleVars(OnSnapshot)
    /\ WF_consoleVars(Mutations)

ConsoleSpec == ConsoleInit /\ [][ConsoleNext]_consoleVars /\ ConsoleFairness

----------------------------------------------------------------------------
(* Properties.                                                             *)

\* With all effects run, a run that is shown as active is followed, by one
\* stream, which is of the run that is selected and of its project; and no
\* other stream has a client, ever.
StreamFollowsSelection ==
    /\ \A c \in Conn : conn[c].client => c = source
    /\ ~due => (source # 0 <=> Streamed)
    /\ ~due /\ source # 0 => conn[source].run = selected
                             /\ conn[source].project = project

\* What that stream has still to deliver of the run that is shown is not
\* older than what is shown, whatever answers overtook each other before.
StreamIsAhead ==
    ~due /\ source # 0 =>
        \A i \in DOMAIN conn[source].wire :
            conn[source].wire[i].run = detail.run =>
                conn[source].wire[i].rev >= detail.rev

\* Once the user and the runs are quiet, the run that is selected is shown as
\* it is, whatever late answers and snapshots were shown over it meanwhile.
\* Two cases are left out, which the code does not handle: another run's
\* detail stays if that run is over, and so does the detail of a run selected
\* by the refresh of a mutation from a project that was left meanwhile.
DetailSettles ==
    <>[](/\ selected # NoRun /\ project = Home
         /\ run[selected].status # "absent" /\ detail # NoDetail
         => \/ detail = Current(selected)
            \/ detail.run # selected /\ Terminal(detail.status))

\* The server stops polling for every stream of a run that is over, also of
\* those whose client it did not hear leave.
Overdue(c) == /\ conn[c].stage \in {"idle", "read"} /\ conn[c].project = Home
              /\ \E r \in Run : conn[c].run = r /\ Terminal(run[r].status)
StreamsEnd == (\E c \in Conn : Overdue(c)) ~> (\A c \in Conn : ~Overdue(c))
===============================================================================
