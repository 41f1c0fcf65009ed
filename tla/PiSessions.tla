------------------------------ MODULE PiSessions ------------------------------
(***************************************************************************)
(* The chat sessions the Web server keeps in memory (piSessionAdapter.ts)  *)
(* behind the routes of piSessions.ts.  Handlers of one Node process       *)
(* interleave at their awaits: creating a session awaits the SDK, a prompt *)
(* awaits the model, and meanwhile the SDK's subscription appends events.  *)
(***************************************************************************)
EXTENDS Naturals, Sequences, FiniteSets

CONSTANTS
    Session,     \* session ids
    NoSession,   \* no session id
    Call,        \* POST /pi-sessions requests
    Limit        \* the bounds of a behaviour, one of which it starts with:
                 \*   calls    creates that are asked for
                 \*   named    ids callers ask for; the SDK makes up others
                 \*   kinds    kinds of events the SDK emits
                 \*   events   events of a log that the SDK emits up to
                 \*   prompts  prompts sent
                 \*   followed logs an API client may follow

ASSUME PiAssumption ==
    /\ NoSession \notin Session
    /\ \A limit \in Limit :
          /\ limit.named \cup limit.followed \subseteq Session
          /\ limit.calls \subseteq Call
          /\ limit.kinds \subseteq {"delta", "empty", "notice", "hidden"}
          /\ limit.events \in Nat /\ limit.prompts \in Nat

VARIABLES
    bound,      \* the bounds of this behaviour
    adapter,    \* "fake" or "real": what the server was configured with
    log,        \* session -> its events; <<>> if there is no such session
    status,     \* session -> its status; "absent" if there is none
    creating,   \* call -> how far the create it asked for has got
    prompting,  \* prompts the SDK is working on
    sent,       \* number of prompts sent
    reader      \* an API client that follows one log with ?after=

server == <<bound, adapter, log, status, creating, prompting, sent>>
piVars == <<server, reader>>

EventKind == {"created", "prompt", "answer", "error",
              "delta", "empty", "notice", "hidden"}
Event == [kind : EventKind, sequence : Nat]
Exists(s) == status[s] # "absent"

\* appendEvent, the same in the fake and in the real adapter: the sequence
\* number is the position in the log.
Stamp(s, kind) == [kind |-> kind, sequence |-> Len(log[s]) + 1]
With(s, kind) == Append(log[s], Stamp(s, kind))

PiInit ==
    /\ bound \in Limit
    /\ adapter \in {"fake", "real"}
    /\ log = [s \in Session |-> <<>>]
    /\ status = [s \in Session |-> "absent"]
    /\ creating = [c \in Call |-> [stage |-> "idle", id |-> NoSession,
                                   from |-> "api"]]
    /\ prompting = {}
    /\ sent = 0
    /\ reader \in [of : bound.followed, got : {<<>>}]

----------------------------------------------------------------------------
(* Chat messages (derivePiChatMessages).                                   *)

\* The role an event is shown with: its own, or that of its kind; "hidden"
\* events have none, "notice" is any other event named session.*.
RoleOf(e) ==
    CASE e.kind \in {"created", "error", "notice"} -> "system"
      [] e.kind = "prompt" -> "user"
      [] e.kind \in {"delta", "empty", "answer"} -> "assistant"
      [] OTHER -> "none"
Visible(e) == RoleOf(e) # "none" /\ e.kind # "empty"
Merges(e) == RoleOf(e) = "assistant" /\ e.kind # "answer"

\* A message names the events whose text it is made of.
Message(e) == [role |-> RoleOf(e), parts |-> <<e.sequence>>,
               failed |-> e.kind = "error"]

\* Mutant of AddMessage: text goes to the assistant's last message, wherever
\* it is, and not only if that message is the last.
AddMessageAnywhere(messages, e) ==
    LET speaking == {i \in DOMAIN messages : messages[i].role = "assistant"} IN
    IF ~Visible(e) THEN messages
    ELSE IF Merges(e) /\ speaking # {}
    THEN [messages EXCEPT ![CHOOSE i \in speaking : \A j \in speaking : j <= i]
                              .parts = Append(@, e.sequence)]
    ELSE Append(messages, Message(e))

AddMessage(messages, e) ==
    LET n == Len(messages) IN
    IF ~Visible(e) THEN messages
    ELSE IF Merges(e) /\ n > 0 /\ messages[n].role = "assistant"
    THEN [messages EXCEPT ![n].parts = Append(@, e.sequence)]
    ELSE Append(messages, Message(e))

Messages(events) ==
    LET upTo[n \in 0..Len(events)] ==
            IF n = 0 THEN <<>> ELSE AddMessage(upTo[n - 1], events[n])
    IN  upTo[Len(events)]

----------------------------------------------------------------------------
(* POST /pi-sessions: the settings are read and resolved, the SDK makes a  *)
(* session, and only then is the id looked up and taken.                   *)

Requested(c) == creating[c].id
Stage(c, stage) == creating' = [creating EXCEPT ![c].stage = stage]

\* The id of the new session: the one asked for, or one never seen before,
\* and any of those is like any other.
Unseen == {s \in Session \ bound.named : ~Exists(s)}
IdsFor(c) == IF Requested(c) # NoSession THEN {Requested(c)}
             ELSE IF Unseen = {} THEN {} ELSE {CHOOSE s \in Unseen : TRUE}

\* A create of the view or of another API client reaches the adapter.
StartCreate(c, id, from) ==
    /\ c \in bound.calls /\ creating[c].stage = "idle"
    /\ creating' = [creating EXCEPT
                        ![c] = [stage |-> "loading", id |-> id, from |-> from]]

\* loadSdk, readPiDefaults and resolveSettingsModel: a configured model that
\* cannot be resolved refuses the create; the fake adapter skips all of it.
Resolve(c) ==
    /\ creating[c].stage = "loading"
    /\ \/ Stage(c, "resolved")
       \/ adapter = "real" /\ Stage(c, "refused")
    /\ UNCHANGED <<bound, adapter, log, status, prompting, sent, reader>>

\* Mutant of Register: the id was looked up before the SDK was awaited.
RegisterUnchecked(c) ==
    /\ creating[c].stage = "resolved"
    /\ \E s \in IdsFor(c) :
          /\ creating' = [creating EXCEPT ![c].stage = "created", ![c].id = s]
          /\ status' = [status EXCEPT ![s] = "idle"]
          /\ log' = [log EXCEPT ![s] = <<[kind |-> "created", sequence |-> 1]>>]
    /\ UNCHANGED <<bound, adapter, prompting, sent, reader>>

\* The session is entered in the map with its first event, by either adapter.
Enter(c, s) ==
    /\ creating' = [creating EXCEPT
                        ![c] = [stage |-> "created", id |-> s, from |-> @.from]]
    /\ status' = [status EXCEPT ![s] = "idle"]
    /\ log' = [log EXCEPT ![s] = With(s, "created")]

\* There is no await between the lookup of the id and its entry in the map.
Register(c) ==
    /\ creating[c].stage = "resolved"
    /\ \E s \in IdsFor(c) :
          IF Exists(s)
          THEN Stage(c, "refused") /\ UNCHANGED <<log, status>>
          ELSE Enter(c, s)
    /\ UNCHANGED <<bound, adapter, prompting, sent, reader>>

ApiCreate(c) ==
    /\ \E id \in bound.named \cup {NoSession} : StartCreate(c, id, "api")
    /\ UNCHANGED <<bound, adapter, log, status, prompting, sent, reader>>

----------------------------------------------------------------------------
(* POST /pi-sessions/:id/prompts.                                          *)

\* Mutant of RealTurn: the length is taken after prompt.sent was appended.
RealTurnLate(s) ==
    /\ log' = [log EXCEPT ![s] = With(s, "prompt")]
    /\ status' = [status EXCEPT ![s] = "running"]
    /\ prompting' = prompting \cup {[session |-> s, before |-> Len(log[s]) + 1]}

\* The fake adapter answers at once.
FakeTurn(s) ==
    /\ log' = [log EXCEPT ![s] = With(s, "prompt") \o
                   <<[kind |-> "answer", sequence |-> Len(@) + 2]>>]
    /\ status' = [status EXCEPT ![s] = "done"]
    /\ UNCHANGED prompting

\* The real one awaits sdkSession.prompt and remembers the length its log had
\* before.
RealTurn(s) ==
    /\ log' = [log EXCEPT ![s] = With(s, "prompt")]
    /\ status' = [status EXCEPT ![s] = "running"]
    /\ prompting' = prompting \cup {[session |-> s, before |-> Len(log[s])]}

SendPrompt(s) ==
    /\ Exists(s) /\ sent < bound.prompts
    /\ sent' = sent + 1
    /\ IF adapter = "fake" THEN FakeTurn(s) ELSE RealTurn(s)

\* What sendPrompt answers: the events since the prompt was sent.
AnswerOf(p) == SubSeq(log[p.session], p.before + 1, Len(log[p.session]))

PromptEnds(p) ==
    /\ p \in prompting
    /\ prompting' = prompting \ {p}
    /\ status' = [status EXCEPT ![p.session] = "done"]
    /\ UNCHANGED <<log, reader>>

\* Mutant of PromptFails: the status is left as it was.
PromptFailsSilently(p) ==
    /\ p \in prompting
    /\ prompting' = prompting \ {p}
    /\ log' = [log EXCEPT ![p.session] = With(p.session, "error")]
    /\ UNCHANGED <<status, reader>>

PromptFails(p) ==
    /\ p \in prompting
    /\ prompting' = prompting \ {p}
    /\ status' = [status EXCEPT ![p.session] = "error"]
    /\ log' = [log EXCEPT ![p.session] = With(p.session, "error")]
    /\ UNCHANGED reader

\* The subscription of the SDK: events of any turn, at any time.
SdkEvent(s) ==
    /\ adapter = "real" /\ Exists(s) /\ Len(log[s]) < bound.events
    /\ \E kind \in bound.kinds : log' = [log EXCEPT ![s] = With(s, kind)]
    /\ UNCHANGED <<bound, adapter, status, creating, prompting, sent, reader>>

ApiPrompt(s) ==
    /\ SendPrompt(s)
    /\ UNCHANGED <<bound, adapter, creating, reader>>

----------------------------------------------------------------------------
(* GET /pi-sessions/:id/events?after=N: the reader asks for what comes     *)
(* after the last sequence number it has.                                  *)

LastRead == IF reader.got = <<>> THEN 0
            ELSE reader.got[Len(reader.got)].sequence

\* Mutant of ListEvents: the event named by ?after= is sent again.
ListEventsFrom(s, after) ==
    LET newer(e) == e.sequence >= after IN SelectSeq(log[s], newer)

ListEvents(s, after) ==
    LET newer[n \in 0..Len(log[s])] ==
            IF n = 0 THEN <<>>
            ELSE IF log[s][n].sequence > after THEN Append(newer[n - 1], log[s][n])
            ELSE newer[n - 1]
    IN  newer[Len(log[s])]

Read ==
    /\ Exists(reader.of)
    /\ reader' = [reader EXCEPT !.got = @ \o ListEvents(reader.of, LastRead)]
    /\ UNCHANGED server

----------------------------------------------------------------------------
(* What GET /pi-sessions/:id and the stream send: logs only grow, so the   *)
(* status and the number of events stand for the whole answer.             *)

Snapshot(s) == [id |-> s, status |-> status[s], events |-> Len(log[s])]
----------------------------------------------------------------------------
(* Properties.                                                             *)

\* The types of the adapter's state.
PiTypeOK ==
    /\ adapter \in {"fake", "real"}
    /\ \A s \in Session : \A i \in DOMAIN log[s] : log[s][i] \in Event
    /\ status \in [Session -> {"absent", "idle", "running", "done", "error"}]
    /\ creating \in [Call -> [stage : {"idle", "loading", "resolved",
                                       "created", "refused", "told"},
                              id : Session \cup {NoSession},
                              from : {"api", "view", "past"}]]
    /\ prompting \subseteq [session : Session, before : Nat]
    /\ sent \in 0..bound.prompts
    /\ reader.of \in Session

\* Creates that wait for the SDK at the same time and ask for the same id
\* never replace a session: the log of a session is only ever extended.
LogGrows ==
    [][\A s \in Session :
          Len(log[s]) <= Len(log'[s]) /\ SubSeq(log'[s], 1, Len(log[s])) = log[s]]_log

\* A message that was shown stays where it was: later events only extend the
\* text of the last one, and only if the assistant is still speaking.
Extends(new, old) ==
    \/ new = old
    \/ /\ old.role = "assistant"
       /\ new = [old EXCEPT !.parts = new.parts]
       /\ SubSeq(new.parts, 1, Len(old.parts)) = old.parts
Continues(new, old) ==
    /\ Len(old) <= Len(new)
    /\ \A i \in DOMAIN old :
          IF i = Len(old) THEN Extends(new[i], old[i]) ELSE new[i] = old[i]
MessagesStable ==
    [][\A s \in Session : Continues(Messages(log'[s]), Messages(log[s]))]_log

\* However prompts to one session overlap and end, a session that is shown
\* as running has a prompt the SDK still works on.
RunningIsPrompted ==
    \A s \in Session : status[s] = "running" =>
        \E p \in prompting : p.session = s

\* The answer to a prompt starts with that prompt, whatever the subscription
\* and other prompts have appended meanwhile.
AnswerHasOwnPrompt ==
    \A p \in prompting :
        /\ AnswerOf(p) # <<>> /\ AnswerOf(p)[1].kind = "prompt"
        /\ AnswerOf(p)[1].sequence = p.before + 1

\* A client that polls /events with the last sequence number it has misses
\* no event and gets none twice.
ReaderSeesAll ==
    /\ Len(reader.got) <= Len(log[reader.of])
    /\ reader.got = SubSeq(log[reader.of], 1, Len(reader.got))
===============================================================================
