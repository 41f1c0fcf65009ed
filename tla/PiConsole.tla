------------------------------ MODULE PiConsole ------------------------------
(***************************************************************************)
(* A browser view over the sessions of PiSessions: the Pi Sessions panel,  *)
(* or the studio's prompt composer.  Either has a session, an EventSource  *)
(* on its stream, and what it shows.  Setting the session and opening its  *)
(* stream are two steps (a state update, then the effect), and the answers *)
(* to fetches arrive in any order, also between snapshots of the stream.   *)
(***************************************************************************)
EXTENDS PiSessions

CONSTANTS
    Node,        \* workflow nodes the studio composes a prompt for
    ViewOf,      \* the view a behaviour with given bounds is about
    MaxLoads,    \* bound: GET answers in flight at once
    MaxDrops     \* bound: stream connections lost

ASSUME ViewAssumption ==
    /\ ViewOf \in [Limit -> {"panel", "composer", "none"}]
    /\ MaxLoads \in Nat /\ MaxDrops \in Nat

VARIABLES
    view,       \* "panel", "composer" or "none"
    selected,   \* selectedSessionId of the panel, sessionId of the composer
    shown,      \* the snapshot on display
    loads,      \* answers to GET /pi-sessions/:id on their way
    stream,     \* the open EventSource and the server's side of it
    composer,   \* the node composed for, and whether the composer is busy
    drops       \* connections lost so far

client == <<view, selected, shown, loads, stream, composer, drops>>
consoleVars == <<piVars, client>>

NoPrompt == [session |-> NoSession, before |-> 0]
NoSnapshot == [id |-> NoSession, status |-> "absent", events |-> 0]

\* Mutant of Stream: a stream opened anew is taken to know what the session
\* looks like already.
StreamPrimed(s) ==
    [of |-> s, wire |-> <<>>,
     last |-> IF s = NoSession THEN NoSnapshot ELSE Snapshot(s)]

\* Of a stream: whose it is, what the server wrote last (lastPayload), and
\* what it wrote that has not arrived yet.
Stream(s) == [of |-> s, last |-> NoSnapshot, wire |-> <<>>]

ConsoleInit ==
    /\ PiInit
    /\ view = ViewOf[bound]
    /\ selected = NoSession /\ shown = NoSnapshot
    /\ loads = {} /\ stream = Stream(NoSession)
    /\ composer \in [node : Node, busy : {FALSE},
                     seed : {NoPrompt}, follow : {NoPrompt}]
    /\ drops = 0

----------------------------------------------------------------------------
(* The stream: stream() of piSessions.ts and the effect that opens it.     *)

\* The effect after a render in which the session has changed: the old
\* source is closed and one for the new session opened.
OpenStream ==
    /\ stream.of # selected
    /\ stream' = Stream(selected)
    /\ UNCHANGED <<piVars, view, selected, shown, loads, composer, drops>>

\* Mutant of Poll: a snapshot is taken for new only if it has more events.
PollCounting ==
    /\ stream.of # NoSession /\ Snapshot(stream.of).events # stream.last.events
    /\ LET now == Snapshot(stream.of) IN
       stream' = [stream EXCEPT !.last = now, !.wire = Append(@, now)]
    /\ UNCHANGED <<piVars, view, selected, shown, loads, composer, drops>>

\* send: write the snapshot unless it is the one written last.
Poll ==
    /\ stream.of # NoSession /\ Snapshot(stream.of) # stream.last
    /\ LET now == Snapshot(stream.of) IN
       stream' = [stream EXCEPT !.last = now, !.wire = Append(@, now)]
    /\ UNCHANGED <<piVars, view, selected, shown, loads, composer, drops>>

\* The snapshot listener shows what arrives, whatever is selected by now.
Deliver ==
    /\ stream.wire # <<>>
    /\ shown' = Head(stream.wire)
    /\ stream' = [stream EXCEPT !.wire = Tail(@)]
    /\ UNCHANGED <<piVars, view, selected, loads, composer, drops>>

\* A lost connection loses what it carried; the EventSource connects again
\* and the server starts over with nothing written.
Drop ==
    /\ stream.of # NoSession /\ drops < MaxDrops
    /\ drops' = drops + 1
    /\ stream' = Stream(stream.of)
    /\ UNCHANGED <<piVars, view, selected, shown, loads, composer>>

----------------------------------------------------------------------------
(* PiSessionsPanel.                                                        *)

\* loadSession: a click on a session of the list, Refresh, Refresh chat, or
\* the end of a create.
Fetch(s) ==
    /\ Cardinality(loads) < MaxLoads
    /\ loads' = loads \cup {Snapshot(s)}

Load(s) ==
    /\ view = "panel" /\ Exists(s)
    /\ Fetch(s)
    /\ UNCHANGED <<piVars, view, selected, shown, stream, composer, drops>>

\* Its answer selects the session and shows what it brought.
Loaded(answer) ==
    /\ answer \in loads
    /\ loads' = loads \ {answer}
    /\ selected' = answer.id
    /\ shown' = answer
    /\ UNCHANGED <<piVars, view, stream, composer, drops>>

PanelCreate(c) ==
    /\ view = "panel"
    /\ StartCreate(c, NoSession, "view")
    /\ UNCHANGED <<bound, adapter, log, status, prompting, sent, reader, client>>

\* createSession goes on to load the session it was given.
PanelCreated(c) ==
    /\ view = "panel"
    /\ creating[c].stage = "created" /\ creating[c].from = "view"
    /\ Stage(c, "told")
    /\ Fetch(Requested(c))
    /\ UNCHANGED <<bound, adapter, log, status, prompting, sent, reader,
                   view, selected, shown, stream, composer, drops>>

PanelPrompt ==
    /\ view = "panel" /\ selected # NoSession
    /\ SendPrompt(selected)
    /\ UNCHANGED <<bound, adapter, creating, reader, client>>

----------------------------------------------------------------------------
(* PromptComposerModal.                                                    *)

Prompted(s) == [session |-> s, before |-> Len(log[s])]

\* The effect that creates and seeds a session, run on opening and when the
\* workflow, the node or its title has changed: what the run before it
\* still waits for is cancelled.
Compose(c) ==
    /\ view = "composer" /\ creating[c].stage = "idle"
    /\ \E n \in Node :
          composer' = [composer EXCEPT !.node = n, !.busy = TRUE,
                                       !.seed = NoPrompt]
    /\ creating' = [d \in Call |->
          IF d = c THEN [stage |-> "loading", id |-> NoSession,
                         from |-> "view"]
          ELSE IF creating[d].from = "view"
               THEN [creating[d] EXCEPT !.from = "past"] ELSE creating[d]]
    /\ UNCHANGED <<bound, adapter, log, status, prompting, sent, reader,
                   view, selected, shown, loads, stream, drops>>

\* Mutant of Cancelled: the flag the effect's cleanup sets is not looked at.
CancelledNever(c) == FALSE

\* The answer to its create: a cancelled run leaves the session alone.
Cancelled(c) == creating[c].from = "past"

SeedSession(c) ==
    /\ view = "composer" /\ creating[c].stage = "created"
    /\ creating[c].from # "api" /\ ~Cancelled(c)
    /\ Stage(c, "told")
    /\ selected' = Requested(c)
    /\ SendPrompt(Requested(c))
    /\ composer' = [composer EXCEPT !.seed = Prompted(Requested(c))]
    /\ UNCHANGED <<bound, adapter, reader, view, shown, loads, stream, drops>>

CreateRefused(c) ==
    /\ view = "composer" /\ creating[c].stage = "refused"
    /\ creating[c].from # "api" /\ ~Cancelled(c)
    /\ Stage(c, "told")
    /\ composer' = [composer EXCEPT !.busy = FALSE]
    /\ UNCHANGED <<bound, adapter, log, status, prompting, sent, reader,
                   view, selected, shown, loads, stream, drops>>

FollowUp ==
    /\ view = "composer" /\ selected # NoSession /\ ~composer.busy
    /\ SendPrompt(selected)
    /\ composer' = [composer EXCEPT !.busy = TRUE,
                                    !.follow = Prompted(selected)]
    /\ UNCHANGED <<bound, adapter, creating, reader, view, selected, shown, loads,
                   stream, drops>>

\* The answer to the seed or to a follow-up, whether it succeeded or failed.
Answered ==
    /\ \E field \in {"seed", "follow"} :
          /\ composer[field] # NoPrompt /\ composer[field] \notin prompting
          /\ composer' = [composer EXCEPT ![field] = NoPrompt, !.busy = FALSE]
    /\ UNCHANGED <<piVars, view, selected, shown, loads, stream, drops>>

----------------------------------------------------------------------------

Adapter ==
    \/ \E c \in Call : Resolve(c) \/ Register(c)
    \/ \E s \in Session : SdkEvent(s)
    \/ /\ \E p \in prompting : PromptEnds(p) \/ PromptFails(p)
       /\ UNCHANGED <<bound, adapter, creating, sent>>

\* Other clients of the API, and the one that follows a log.
OtherClients ==
    /\ view = "none"
    /\ \/ \E c \in Call : ApiCreate(c)
       \/ \E s \in Session : ApiPrompt(s)
       \/ Read

ConsoleNext ==
    \/ Adapter /\ UNCHANGED client
    \/ OtherClients /\ UNCHANGED client
    \/ OpenStream \/ Poll \/ Deliver \/ Drop
    \/ \E s \in Session : Load(s)
    \/ \E answer \in loads : Loaded(answer)
    \/ \E c \in Call : PanelCreate(c) \/ PanelCreated(c)
    \/ PanelPrompt
    \/ \E c \in Call : Compose(c) \/ SeedSession(c) \/ CreateRefused(c)
    \/ FollowUp \/ Answered

\* Effects run after a render, the stream polls every second, and what was
\* sent over a connection that stays up arrives.
ConsoleFairness ==
    /\ WF_consoleVars(OpenStream) /\ WF_consoleVars(Poll)
    /\ WF_consoleVars(Deliver)
    /\ WF_consoleVars(\E answer \in loads : Loaded(answer))

ConsoleSpec == ConsoleInit /\ [][ConsoleNext]_consoleVars /\ ConsoleFairness

----------------------------------------------------------------------------
(* Properties.                                                             *)

\* The types of the sessions' and of the view's state.
TypeOK ==
    /\ PiTypeOK
    /\ selected \in Session \cup {NoSession}
    /\ shown.id \in Session \cup {NoSession}
    /\ stream.of \in Session \cup {NoSession}
    /\ composer.node \in Node

\* The composer never takes over a session that was created for a node, a
\* title or a workflow it has been moved away from, however late it arrives.
LateSessionIgnored ==
    [][view = "composer" /\ selected' # selected =>
          \A c \in Call : creating[c].id = selected' =>
                            creating[c].from # "past"]_selected

\* A snapshot of the session selected before may still be shown over the
\* answer that selected another (the effect that closes its stream runs
\* later); the view always comes back to the session that is selected.
SelectionSettles == (shown.id # selected) ~> (shown.id = selected)

\* The composer, which shows nothing but its stream, ends up showing the last
\* state of its session, over lost connections too.
ComposerCatchesUp ==
    <>[](view = "composer" /\ selected # NoSession =>
            shown = Snapshot(selected))
=============================================================================
