--------------------------- MODULE RunConsoleProofs ---------------------------
(***************************************************************************)
(* What the runs view guarantees for any number of runs, projects, loads,  *)
(* connections and mutations, with answers and snapshots in any order: one *)
(* stream, of the run that is selected, and none that falls back behind    *)
(* what is shown.                                                          *)
(***************************************************************************)
EXTENDS RunConsole, TLAPS, WellFoundedInduction

-----------------------------------------------------------------------------
(* The inductive invariant.                                                *)

Status == {"absent", "running", "done", "cancelled"}
Operation == {"step", "resume", "cancel", "delete", "start"}

\* What the control plane may say of a run.
Snapshots == {NoDetail} \cup [run : Run, status : Status, rev : Nat]

\* A load, a connection and a mutation are of a run unless their place is free.
LoadOK(g) ==
    /\ g \in [stage : {"idle", "asked", "answered"}, run : Run \cup {NoRun},
              project : Project, answer : Snapshots]
    /\ g.stage # "idle" => g.run \in Run
Connection ==
    [stage : {"free", "idle", "read", "ended"}, run : Run \cup {NoRun},
     project : Project, read : Snapshots \cup {Unsent},
     last : Snapshots \cup {Unsent}, wire : Seq(Snapshots),
     client : BOOLEAN, heard : BOOLEAN]
ConnOK(k) ==
    /\ k \in Connection
    /\ k.stage # "free" => k.run \in Run
    /\ k.stage = "read" => k.read \in Snapshots
MutationOK(m) ==
    /\ m \in [op : Operation \cup {"none"}, run : Run \cup {NoRun},
              project : Project, slot : Slot \cup {0},
              stage : {"none", "sent", "answered", "refused", "refreshing"}]
    /\ m.stage # "none" => m.run \in Run

RunsTyped == run \in [Run -> [status : Status, rev : Nat]]
ConnsTyped ==
    /\ conn = [c \in Conn |-> conn[c]]
    /\ \A c \in Conn : ConnOK(conn[c])
BrowserTyped ==
    /\ project \in Project /\ selected \in Run \cup {NoRun}
    /\ detail \in Snapshots
    /\ source \in Conn \cup {0} /\ due \in BOOLEAN
    /\ gets = [i \in Slot |-> gets[i]]
    /\ \A i \in Slot : LoadOK(gets[i])
ControlsTyped ==
    /\ control = [m \in Mutating |-> control[m]]
    /\ \A m \in Mutating : MutationOK(control[m])
    /\ MutationOK(starting) /\ busy \in BOOLEAN
ConsoleTyped == RunsTyped /\ ConnsTyped /\ BrowserTyped /\ ControlsTyped

\* A snapshot is of the past: the run has gone on since, and never back.
Seen(v) == v.run \in Run => v.rev <= run[v.run].rev
ConnSeen(k) == Seen(k.read) /\ \A i \in DOMAIN k.wire : Seen(k.wire[i])
AllSeen ==
    /\ Seen(detail)
    /\ \A i \in Slot : Seen(gets[i].answer)
    /\ \A c \in Conn : ConnSeen(conn[c])

\* The open source is the only connection that has a client.
OneClient ==
    /\ \A c \in Conn : conn[c].client => c = source /\ conn[c].stage # "free"
    /\ source # 0 => conn[source].client

Followed ==
    ~due => /\ source # 0 <=> Streamed
            /\ source # 0 => conn[source].run = selected
                             /\ conn[source].project = project

\* Neither what is on its way on a connection nor what its poller has read is
\* older than v.
AheadOf(v, k) ==
    /\ \A i \in DOMAIN k.wire : k.wire[i].run = v.run => k.wire[i].rev >= v.rev
    /\ k.read.run = v.run => k.read.rev >= v.rev
Ahead == ~due /\ source # 0 => AheadOf(detail, conn[source])

ConsoleInv == ConsoleTyped /\ AllSeen /\ OneClient /\ Followed /\ Ahead

-----------------------------------------------------------------------------
(* What the operators of the model give.                                   *)

LEMMA NextConnIsFree ==
    ASSUME FreeConns # {}
    PROVE  NextConn \in Conn /\ conn[NextConn].stage = "free"
<1>1. FreeConns \subseteq Nat
  BY ConsoleAssumption DEF FreeConns, Conn
<1>2. PICK n \in FreeConns : \A m \in FreeConns : ~ (<<m, n>> \in OpToRel(<, Nat))
  BY <1>1, NatLessThanWellFounded, WFMin
<1>3. ASSUME NEW m \in FreeConns PROVE n <= m
  <2>1. m \in Nat /\ n \in Nat
    BY <1>1
  <2>2. ASSUME m < n PROVE FALSE
    <3>1. <<m, n>> \in OpToRel(<, Nat)
      BY <2>1, <2>2 DEF OpToRel
    <3> QED
      BY <1>2, <3>1
  <2> QED
    BY <2>1, <2>2
<1>4. NextConn \in FreeConns
  BY <1>2, <1>3 DEF NextConn
<1> QED
  BY <1>4 DEF FreeConns

LEMMA ViewsHere ==
    /\ NoDetail \in Snapshots /\ Seen(NoDetail)
    /\ Seen(Unsent)
    /\ \A v \in Snapshots : v.run \notin Run => v = NoDetail
    /\ \A v \in Snapshots : v.run \in Run \cup {NoRun} /\ v.rev \in Nat
    /\ Unsent \notin Snapshots /\ Unsent.run = NoRun
  BY ConsoleAssumption DEF Snapshots, NoDetail, Unsent, Seen, Status

\* What the control plane says now is not older than anything it has said.
LEMMA LookupIsLatest ==
    ASSUME RunsTyped, NEW p, NEW r \in Run
    PROVE  /\ Lookup(p, r) \in Snapshots /\ Seen(Lookup(p, r))
           /\ \A v \in Snapshots :
                 Seen(v) /\ Lookup(p, r).run = v.run => Lookup(p, r).rev >= v.rev
<1>1. CASE Lookup(p, r) = NoDetail
  <2>1. \A v \in Snapshots : v.run = NoRun => v = NoDetail
    BY ViewsHere, ConsoleAssumption
  <2> QED
    BY <1>1, <2>1, ViewsHere DEF NoDetail
<1>2. CASE Lookup(p, r) = Current(r)
  <2>1. Current(r) \in Snapshots
    BY DEF RunsTyped, Current, Snapshots
  <2>2. Current(r).run = r /\ Current(r).rev = run[r].rev /\ run[r].rev \in Nat
    BY DEF RunsTyped, Current
  <2> QED
    BY <1>2, <2>1, <2>2, ViewsHere DEF Seen
<1> QED
  BY <1>1, <1>2 DEF Lookup

LEMMA FreshRecords ==
    /\ ConnOK(Free) /\ ConnSeen(Free) /\ ~Free.client
    /\ \A p \in Project, r \in Run :
              /\ ConnOK(Opened(p, r)) /\ ConnSeen(Opened(p, r))
              /\ Opened(p, r).client /\ Opened(p, r).stage = "idle"
              /\ Opened(p, r).run = r /\ Opened(p, r).project = p
              /\ \A v \in Snapshots : AheadOf(v, Opened(p, r))
    /\ LoadOK(Idle) /\ Seen(Idle.answer) /\ MutationOK(NoMutation)
<1>1. /\ Free.stage = "free" /\ Free.run = NoRun /\ Free.project = Home
      /\ Free.read = Unsent /\ Free.last = Unsent /\ Free.wire = <<>>
      /\ Free.client = FALSE /\ Free.heard = FALSE
  BY DEF Free
<1>2. <<>> \in Seq(Snapshots) /\ DOMAIN <<>> = {}
  OBVIOUS
<1>3. ConnOK(Free) /\ ConnSeen(Free) /\ ~Free.client
  BY <1>2, ViewsHere, ConsoleAssumption DEF Free, ConnOK, Connection, ConnSeen
<1>4. ASSUME NEW p \in Project, NEW r \in Run
      PROVE  /\ ConnOK(Opened(p, r)) /\ ConnSeen(Opened(p, r))
             /\ Opened(p, r).client /\ Opened(p, r).stage = "idle"
             /\ Opened(p, r).run = r /\ Opened(p, r).project = p
             /\ \A v \in Snapshots : AheadOf(v, Opened(p, r))
  <2>1. /\ Opened(p, r).stage = "idle" /\ Opened(p, r).run = r
        /\ Opened(p, r).project = p /\ Opened(p, r).read = Unsent
        /\ Opened(p, r).wire = <<>> /\ Opened(p, r).client = TRUE
    BY DEF Opened, Free
  <2>2. Opened(p, r) \in Connection
    BY <1>3 DEF Opened, ConnOK, Connection
  <2>4. ConnOK(Opened(p, r)) /\ ConnSeen(Opened(p, r))
    BY <1>2, <2>1, <2>2, ViewsHere DEF ConnOK, ConnSeen
  <2>3. ASSUME NEW v \in Snapshots PROVE AheadOf(v, Opened(p, r))
    <3>1. v.run = NoRun => v.rev = 0
      BY ViewsHere, ConsoleAssumption DEF NoDetail
    <3> QED
      BY <1>2, <2>1, <3>1 DEF AheadOf, Unsent
  <2> QED
    BY <2>1, <2>3, <2>4
<1>5. LoadOK(Idle) /\ Seen(Idle.answer)
  BY ViewsHere, ConsoleAssumption DEF LoadOK, Idle
<1>6. MutationOK(NoMutation)
  BY ConsoleAssumption DEF MutationOK, NoMutation
<1> QED
  BY <1>3, <1>4, <1>5, <1>6

\* A client that leaves takes nothing along but itself.
LEMMA LeftIs ==
    ASSUME NEW k, ConnOK(k), ConnSeen(k)
    PROVE  ConnOK(Left(k)) /\ ConnSeen(Left(k)) /\ ~Left(k).client
<1>1. CASE k.heard \/ k.stage = "ended"
  BY <1>1, FreshRecords DEF Left
<1>2. CASE ~(k.heard \/ k.stage = "ended")
  <2>1. Left(k) = [k EXCEPT !.client = FALSE, !.wire = <<>>]
    BY <1>2 DEF Left
  <2>2. <<>> \in Seq(Snapshots) /\ DOMAIN <<>> = {}
    OBVIOUS
  <2>3. Left(k).read = k.read /\ Left(k).wire = <<>> /\ Left(k).client = FALSE
    BY <2>1 DEF ConnOK, Connection
  <2>4. ConnOK(Left(k))
    BY <2>1, <2>2 DEF ConnOK, Connection
  <2> QED
    BY <2>2, <2>3, <2>4 DEF ConnSeen
<1> QED
  BY <1>1, <1>2

\* What has been read is written once, at the end of what is on its way.
LEMMA WrittenIs ==
    ASSUME NEW k, ConnOK(k), ConnSeen(k), k.stage = "read"
    PROVE  /\ ConnOK(Written(k)) /\ ConnSeen(Written(k))
           /\ Written(k).client = k.client /\ Written(k).stage # "free"
           /\ Written(k).run = k.run /\ Written(k).project = k.project
           /\ \A v \in Snapshots : AheadOf(v, k) => AheadOf(v, Written(k))
<1> DEFINE wire == IF k.client THEN Append(k.wire, k.read) ELSE k.wire
           over == IF Terminal(k.read.status) THEN "ended" ELSE "idle"
           heard == k.heard \/ (k.last = Unsent /\ k.client)
<1>1. /\ Written(k).stage = over /\ Written(k).run = k.run
      /\ Written(k).project = k.project /\ Written(k).read = Unsent
      /\ Written(k).last = k.read /\ Written(k).wire = wire
      /\ Written(k).client = k.client /\ Written(k).heard = heard
  BY DEF Written, ConnOK, Connection
<1>2. k.read \in Snapshots /\ k.wire \in Seq(Snapshots)
  BY DEF ConnOK, Connection
<1>3. /\ wire \in Seq(Snapshots)
      /\ \A i \in DOMAIN wire : \/ wire[i] = k.read
                                \/ i \in DOMAIN k.wire /\ wire[i] = k.wire[i]
  BY <1>2
<1>4. over \in {"ended", "idle"} /\ heard \in BOOLEAN
  BY DEF ConnOK, Connection
<1>8. Written(k) \in Connection
  BY <1>2, <1>3, <1>4, ViewsHere DEF Written, ConnOK, Connection
<1> HIDE DEF wire, over, heard
<1>5. ConnOK(Written(k))
  BY <1>1, <1>4, <1>8 DEF ConnOK
<1>6. ConnSeen(Written(k))
  <2>1. Written(k).read = Unsent /\ Written(k).wire = wire
    BY <1>1
  <2> QED
    BY <1>3, <2>1, ViewsHere DEF ConnSeen
<1>7. ASSUME NEW v \in Snapshots, AheadOf(v, k) PROVE AheadOf(v, Written(k))
  <2>1. v.run = NoRun => v.rev = 0
    BY ViewsHere, ConsoleAssumption DEF NoDetail
  <2>2. Written(k).read = Unsent /\ Written(k).wire = wire
    BY <1>1
  <2>3. Unsent.run = v.run => Unsent.rev >= v.rev
    BY <2>1 DEF Unsent
  <2> QED
    BY <1>3, <1>7, <2>2, <2>3 DEF AheadOf
<1> QED
  BY <1>1, <1>4, <1>5, <1>6, <1>7

-----------------------------------------------------------------------------
(* Steps of one part that leave the others as they are.                    *)

RunsGoOn == RunsTyped' /\ \A r \in Run : run'[r].rev >= run[r].rev

LEMMA SeenStays ==
    ASSUME RunsTyped, RunsGoOn, NEW v \in Snapshots \cup {Unsent}, Seen(v)
    PROVE  Seen(v)'
<1>1. SUFFICES ASSUME v.run \in Run PROVE v.rev <= run'[v.run].rev
  BY DEF Seen
<1>2. v.rev \in Nat
  BY <1>1, ViewsHere, ConsoleAssumption
<1>3. run[v.run].rev \in Nat /\ run'[v.run].rev \in Nat
  BY <1>1 DEF RunsGoOn, RunsTyped
<1> QED
  BY <1>1, <1>2, <1>3 DEF Seen, RunsGoOn

LEMMA ConnSeenStays ==
    ASSUME RunsTyped, RunsGoOn, NEW k, ConnOK(k), ConnSeen(k)
    PROVE  ConnSeen(k)'
<1>1. k.read \in Snapshots \cup {Unsent} /\ k.wire \in Seq(Snapshots)
  BY DEF ConnOK, Connection
<1>2. Seen(k.read)'
  BY <1>1, SeenStays DEF ConnSeen
<1>3. ASSUME NEW i \in DOMAIN k.wire PROVE Seen(k.wire[i])'
  <2>1. k.wire[i] \in Snapshots
    BY <1>1, <1>3
  <2> QED
    BY <1>3, <2>1, SeenStays DEF ConnSeen
<1> QED
  BY <1>2, <1>3 DEF ConnSeen

\* Runs go on, whatever is waited for.
LEMMA RunsStep ==
    ASSUME ConsoleInv, RunsGoOn, UNCHANGED <<conn, browser>>, ControlsTyped'
    PROVE  ConsoleInv'
<1> USE DEF ConsoleInv, ConsoleTyped
<1>1. /\ UNCHANGED <<conn, project, selected, detail, source, due, gets>>
  BY DEF browser
<1>2. ConsoleTyped'
  BY <1>1 DEF RunsGoOn, ConnsTyped, BrowserTyped
<1>3. AllSeen'
  <2>1. Seen(detail)'
    BY <1>1, SeenStays DEF AllSeen, BrowserTyped, Seen
  <2>2. ASSUME NEW i \in Slot PROVE Seen(gets[i].answer)'
    <3>1. gets[i].answer \in Snapshots
      BY DEF BrowserTyped, LoadOK
    <3>2. Seen(gets[i].answer)
      BY DEF AllSeen
    <3> QED
      BY <1>1, <3>1, <3>2, SeenStays DEF Seen
  <2>3. ASSUME NEW c \in Conn PROVE ConnSeen(conn[c])'
    <3>1. ConnOK(conn[c]) /\ ConnSeen(conn[c])
      BY DEF AllSeen, ConnsTyped
    <3> QED
      BY <1>1, <3>1, ConnSeenStays DEF ConnSeen, Seen
  <2> QED
    BY <2>1, <2>2, <2>3 DEF AllSeen
<1>4. OneClient' /\ Followed' /\ Ahead'
  BY <1>1 DEF OneClient, Followed, Ahead, AheadOf, Streamed
<1> QED
  BY <1>2, <1>3, <1>4

\* A connection is polled for.
LEMMA ConnStep ==
    ASSUME ConsoleInv, NEW c \in Conn, NEW k, ConnOK(k), ConnSeen(k),
           k.client = conn[c].client,
           k.client => /\ k.stage # "free" /\ k.run = conn[c].run
                       /\ k.project = conn[c].project,
           \A v \in Snapshots : Seen(v) /\ AheadOf(v, conn[c]) => AheadOf(v, k),
           conn' = [conn EXCEPT ![c] = k], UNCHANGED <<run, browser, controls>>
    PROVE  ConsoleInv'
<1> USE DEF ConsoleInv, ConsoleTyped
<1>1. UNCHANGED <<run, project, selected, detail, source, due, gets, control,
                  starting, busy>>
  BY DEF browser, controls
<1>2. conn' = [d \in Conn |-> conn'[d]] /\ conn'[c] = k
      /\ \A d \in Conn : d # c => conn'[d] = conn[d]
  BY DEF ConnsTyped
<1>3. ConsoleTyped'
  <2>1. \A d \in Conn : ConnOK(conn'[d])
    BY <1>2 DEF ConnsTyped
  <2> QED
    BY <1>1, <1>2, <2>1 DEF RunsTyped, ConnsTyped, BrowserTyped, ControlsTyped
<1>4. AllSeen'
  <2>1. \A d \in Conn : ConnSeen(conn'[d])
    BY <1>2 DEF AllSeen
  <2> QED
    BY <1>1, <2>1 DEF AllSeen, ConnSeen, Seen
<1>5. OneClient'
  BY <1>1, <1>2 DEF OneClient, BrowserTyped
<1>6. Followed'
  BY <1>1, <1>2 DEF OneClient, Followed, Streamed, BrowserTyped
<1>7. Ahead'
  <2>1. detail \in Snapshots /\ Seen(detail)
    BY DEF AllSeen, BrowserTyped
  <2>2. ASSUME ~due, source # 0 PROVE AheadOf(detail, conn'[source])
    BY <1>2, <2>1, <2>2 DEF Ahead, BrowserTyped
  <2> QED
    BY <1>1, <2>2 DEF Ahead
<1> QED
  BY <1>3, <1>4, <1>5, <1>6, <1>7

\* Something is shown or selected and its effects are due, or only loads and
\* mutations begin and end.
LEMMA BrowserStep ==
    ASSUME ConsoleInv, UNCHANGED <<run, conn, source, project>>,
           due' = TRUE \/ UNCHANGED <<due, selected, detail>>,
           due' \in BOOLEAN, selected' \in Run \cup {NoRun},
           detail' \in Snapshots, Seen(detail)',
           gets' = [i \in Slot |-> gets'[i]],
           \A i \in Slot : LoadOK(gets'[i]) /\ Seen(gets'[i].answer),
           ControlsTyped'
    PROVE  ConsoleInv'
<1> USE DEF ConsoleInv, ConsoleTyped
<1>1. ConsoleTyped'
  BY DEF RunsTyped, ConnsTyped, BrowserTyped
<1>2. AllSeen'
  BY DEF AllSeen, ConnSeen, Seen
<1>3. OneClient'
  BY DEF OneClient
<1>4. Followed' /\ Ahead'
  BY DEF Followed, Ahead, AheadOf, Streamed
<1> QED
  BY <1>1, <1>2, <1>3, <1>4

LEMMA ClosedIs ==
    ASSUME ConsoleInv
    PROVE  /\ Closed = [c \in Conn |-> Closed[c]]
           /\ \A c \in Conn : ConnOK(Closed[c]) /\ ConnSeen(Closed[c])
                              /\ ~Closed[c].client
<1> USE DEF ConsoleInv, ConsoleTyped
<1>1. \A c \in Conn : ConnOK(conn[c]) /\ ConnSeen(conn[c])
  BY DEF ConnsTyped, AllSeen
<1>2. CASE source = 0
  <2>1. \A c \in Conn : ~conn[c].client
    BY <1>2, ConsoleAssumption DEF OneClient, Conn
  <2> QED
    BY <1>1, <1>2, <2>1 DEF Closed, ConnsTyped
<1>3. CASE source # 0
  <2>1. source \in Conn
    BY <1>3 DEF BrowserTyped
  <2>2. Closed = [conn EXCEPT ![source] = Left(conn[source])]
    BY <1>3 DEF Closed
  <2>3. /\ ConnOK(Left(conn[source])) /\ ConnSeen(Left(conn[source]))
        /\ ~Left(conn[source]).client
    BY <1>1, <2>1, LeftIs
  <2>4. Closed[source] = Left(conn[source])
    BY <2>1, <2>2 DEF ConnsTyped
  <2>5. \A c \in Conn : c # source => Closed[c] = conn[c] /\ ~conn[c].client
    BY <2>2 DEF OneClient, ConnsTyped
  <2>6. Closed = [c \in Conn |-> Closed[c]]
    BY <2>2 DEF ConnsTyped
  <2> QED
    BY <1>1, <2>3, <2>4, <2>5, <2>6
<1> QED
  BY <1>2, <1>3

\* The stream is closed, and what is shown needs none or effects are due.
LEMMA StreamShut ==
    ASSUME ConsoleInv, UNCHANGED <<run, gets, controls>>, source' = 0,
           conn' = [c \in Conn |-> conn'[c]],
           \A c \in Conn : ConnOK(conn'[c]) /\ ConnSeen(conn'[c])
                           /\ ~conn'[c].client,
           project' \in Project, selected' \in Run \cup {NoRun},
           detail' \in Snapshots, Seen(detail)', due' \in BOOLEAN,
           due' \/ ~Streamed'
    PROVE  ConsoleInv'
<1> USE DEF ConsoleInv, ConsoleTyped
<1>1. UNCHANGED <<run, gets, control, starting, busy>>
  BY DEF controls
<1>2. ConsoleTyped'
  BY <1>1 DEF RunsTyped, ConnsTyped, BrowserTyped, ControlsTyped
<1>3. AllSeen'
  BY <1>1 DEF AllSeen, ConnSeen, Seen
<1>4. OneClient' /\ Followed' /\ Ahead'
  BY DEF OneClient, Followed, Ahead
<1> QED
  BY <1>2, <1>3, <1>4

\* Another stream is opened in place of the one there was.
LEMMA StreamOpened ==
    ASSUME ConsoleInv, FreeConns # {}, NEW p \in Project, NEW r \in Run,
           source' = NextConn,
           conn' = [Closed EXCEPT ![NextConn] = Opened(p, r)],
           UNCHANGED <<run, project, selected, detail, gets, controls>>,
           due' \in BOOLEAN,
           ~due' => Streamed /\ r = selected /\ p = project
    PROVE  ConsoleInv'
<1> USE DEF ConsoleInv, ConsoleTyped
<1>1. UNCHANGED <<run, project, selected, detail, gets, control, starting, busy>>
  BY DEF controls
<1>2. NextConn \in Conn /\ NextConn # 0
  BY NextConnIsFree, ConsoleAssumption DEF Conn
<1>3. /\ ConnOK(Opened(p, r)) /\ ConnSeen(Opened(p, r))
      /\ Opened(p, r).client /\ Opened(p, r).stage = "idle"
      /\ Opened(p, r).run = r /\ Opened(p, r).project = p
      /\ \A v \in Snapshots : AheadOf(v, Opened(p, r))
  BY FreshRecords
<1>4. /\ conn' = [c \in Conn |-> conn'[c]]
      /\ conn'[NextConn] = Opened(p, r)
      /\ \A c \in Conn : c # NextConn => conn'[c] = Closed[c]
  BY <1>2, ClosedIs
<1>5. \A c \in Conn : /\ ConnOK(conn'[c]) /\ ConnSeen(conn'[c])
                      /\ conn'[c].client => c = NextConn
  BY <1>3, <1>4, ClosedIs
<1>6. ConsoleTyped'
  BY <1>1, <1>2, <1>4, <1>5 DEF RunsTyped, ConnsTyped, BrowserTyped, ControlsTyped
<1>7. AllSeen'
  BY <1>1, <1>5 DEF AllSeen, ConnSeen, Seen
<1>8. OneClient'
  BY <1>2, <1>3, <1>4, <1>5 DEF OneClient
<1>9. Followed'
  BY <1>1, <1>2, <1>3, <1>4 DEF Followed, Streamed
<1>10. Ahead'
  <2>1. detail \in Snapshots
    BY DEF BrowserTyped
  <2> QED
    BY <1>1, <1>3, <1>4, <2>1 DEF Ahead
<1> QED
  BY <1>6, <1>7, <1>8, <1>9, <1>10

-----------------------------------------------------------------------------
(* The runs and the server.                                                *)

LEMMA SetRunGoesOn ==
    ASSUME RunsTyped, NEW r \in Run, NEW s \in Status, SetRun(r, s)
    PROVE  RunsGoOn
<1>1. run' = [run EXCEPT ![r] = [status |-> s, rev |-> run[r].rev + 1]]
  BY DEF SetRun
<1>2. \A q \in Run : run[q].rev \in Nat
  BY DEF RunsTyped
<1>3. [status |-> s, rev |-> run[r].rev + 1] \in [status : Status, rev : Nat]
  BY <1>2
<1>4. RunsTyped'
  BY <1>1, <1>3 DEF RunsTyped
<1>5. \A q \in Run : run'[q].rev >= run[q].rev
  BY <1>1, <1>2 DEF RunsTyped
<1> QED
  BY <1>4, <1>5 DEF RunsGoOn

LEMMA RunsStay == ASSUME RunsTyped, UNCHANGED run PROVE RunsGoOn
<1>1. \A r \in Run : run[r].rev \in Nat
  BY DEF RunsTyped
<1> QED
  BY <1>1 DEF RunsGoOn, RunsTyped

LEMMA EffectGoesOn ==
    ASSUME RunsTyped, NEW m, m.run \in Run, Effect(m)
    PROVE  RunsGoOn
<1>1. \/ \E s \in {"running", "absent", "cancelled", "done"} : SetRun(m.run, s)
      \/ UNCHANGED run
  BY DEF Effect
<1>2. {"running", "absent", "cancelled", "done"} \subseteq Status
  BY DEF Status
<1> QED
  BY <1>1, <1>2, SetRunGoesOn, RunsStay

LEMMA AdvanceKeeps ==
    ASSUME ConsoleInv, NEW r \in Run, Advance(r) PROVE ConsoleInv'
<1>1. RunsTyped
  BY DEF ConsoleInv, ConsoleTyped
<1>2. RunsGoOn
  <2>1. SetRun(r, "running") \/ SetRun(r, "done")
    BY DEF Advance
  <2> QED
    BY <1>1, <2>1, SetRunGoesOn DEF Status
<1>3. ControlsTyped'
  BY DEF Advance, controls, ControlsTyped, ConsoleInv, ConsoleTyped
<1> QED
  BY <1>2, <1>3, RunsStep DEF Advance

LEMMA ConnHere ==
    ASSUME ConsoleInv, NEW c \in Conn PROVE ConnOK(conn[c]) /\ ConnSeen(conn[c])
  BY DEF ConsoleInv, ConsoleTyped, ConnsTyped, AllSeen

LEMMA ReadSnapshotKeeps ==
    ASSUME ConsoleInv, NEW c \in Conn, ReadSnapshot(c) PROVE ConsoleInv'
<1> DEFINE now == Lookup(conn[c].project, conn[c].run)
           k == [conn[c] EXCEPT !.stage = "read", !.read = now]
<1>1. conn[c].stage = "idle"
  BY DEF ReadSnapshot
<1>2. conn' = [conn EXCEPT ![c] = k]
  BY DEF ReadSnapshot, ConsoleInv, ConsoleTyped, ConnsTyped
<1>3. ConnOK(conn[c]) /\ ConnSeen(conn[c]) /\ conn[c].run \in Run
  BY <1>1, ConnHere DEF ConnOK
<1>4. /\ now \in Snapshots /\ Seen(now)
      /\ \A v \in Snapshots : Seen(v) /\ now.run = v.run => now.rev >= v.rev
  BY <1>3, LookupIsLatest DEF ConsoleInv, ConsoleTyped
<1> HIDE DEF now
<1>5. /\ k.stage = "read" /\ k.read = now /\ k.wire = conn[c].wire
      /\ k.client = conn[c].client /\ k.run = conn[c].run
      /\ k.project = conn[c].project
  BY <1>3 DEF ConnOK, Connection
<1>6. ConnOK(k)
  BY <1>3, <1>4 DEF ConnOK, Connection
<1>7. ConnSeen(k)
  BY <1>3, <1>4, <1>5 DEF ConnSeen
<1>8. \A v \in Snapshots : Seen(v) /\ AheadOf(v, conn[c]) => AheadOf(v, k)
  BY <1>4, <1>5 DEF AheadOf
<1>9. UNCHANGED <<run, browser, controls>>
  BY DEF ReadSnapshot
<1> HIDE DEF k
<1> QED
  BY <1>2, <1>5, <1>6, <1>7, <1>8, <1>9, ConnStep

LEMMA WriteSnapshotKeeps ==
    ASSUME ConsoleInv, NEW c \in Conn, WriteSnapshot(c) PROVE ConsoleInv'
<1> DEFINE k == Written(conn[c])
<1>1. /\ conn' = [conn EXCEPT ![c] = k] /\ conn[c].stage = "read"
      /\ UNCHANGED <<run, browser, controls>>
  BY DEF WriteSnapshot
<1>2. /\ ConnOK(k) /\ ConnSeen(k) /\ k.client = conn[c].client
      /\ k.stage # "free" /\ k.run = conn[c].run /\ k.project = conn[c].project
      /\ \A v \in Snapshots : AheadOf(v, conn[c]) => AheadOf(v, k)
  BY <1>1, ConnHere, WrittenIs
<1> HIDE DEF k
<1> QED
  BY <1>1, <1>2, ConnStep

LEMMA EndConnKeeps ==
    ASSUME ConsoleInv, NEW c \in Conn, EndConn(c) PROVE ConsoleInv'
<1>1. /\ conn' = [conn EXCEPT ![c] = Free] /\ ~conn[c].client
      /\ UNCHANGED <<run, browser, controls>>
  BY DEF EndConn
<1>2. ConnOK(Free) /\ ConnSeen(Free) /\ Free.client = FALSE
  BY FreshRecords DEF Free
<1>3. Free.client = conn[c].client
  BY <1>1, <1>2, ConnHere DEF ConnOK, Connection
<1>4. \A v \in Snapshots : AheadOf(v, Free)
  <2>1. ASSUME NEW v \in Snapshots PROVE AheadOf(v, Free)
    <3>1. v.run = NoRun => v.rev = 0
      BY ViewsHere, ConsoleAssumption DEF NoDetail
    <3>2. Free.wire = <<>> /\ Free.read = Unsent /\ DOMAIN <<>> = {}
      BY DEF Free
    <3> QED
      BY <3>1, <3>2 DEF AheadOf, Unsent
  <2> QED
    BY <2>1
<1> QED
  BY <1>1, <1>2, <1>3, <1>4, ConnStep

-----------------------------------------------------------------------------
(* The hook useConsoleData.                                                *)

LEMMA LoadsHere ==
    ASSUME ConsoleInv
    PROVE  /\ gets = [i \in Slot |-> gets[i]]
           /\ \A i \in Slot : LoadOK(gets[i]) /\ Seen(gets[i].answer)
           /\ detail \in Snapshots /\ Seen(detail)
           /\ selected \in Run \cup {NoRun} /\ project \in Project
           /\ due \in BOOLEAN /\ source \in Conn \cup {0} /\ ControlsTyped
  BY DEF ConsoleInv, ConsoleTyped, BrowserTyped, AllSeen

\* A load takes a slot, or its answer or its end does.
LEMMA SlotTaken ==
    ASSUME ConsoleInv, NEW slot \in Slot, NEW g, LoadOK(g), Seen(g.answer),
           gets' = [gets EXCEPT ![slot] = g]
    PROVE  /\ gets' = [i \in Slot |-> gets'[i]]
           /\ \A i \in Slot : LoadOK(gets'[i]) /\ Seen(gets'[i].answer)
  BY LoadsHere

LEMMA AskIs ==
    ASSUME ConsoleInv, NEW p \in Project, NEW r \in Run, NEW slot \in Slot,
           Ask(p, r, slot)
    PROVE  /\ due' = TRUE /\ selected' \in Run \cup {NoRun}
           /\ detail' \in Snapshots /\ detail' = NoDetail
           /\ gets' = [i \in Slot |-> gets'[i]]
           /\ \A i \in Slot : LoadOK(gets'[i]) /\ Seen(gets'[i].answer)
<1> DEFINE g == [Idle EXCEPT !.stage = "asked", !.run = r, !.project = p]
<1>1. gets' = [gets EXCEPT ![slot] = g]
  BY DEF Ask
<1>2. g.stage = "asked" /\ g.run = r /\ g.answer = NoDetail
  BY DEF Idle
<1>3. LoadOK(g)
  BY FreshRecords DEF LoadOK
<1>4. Seen(g.answer)
  BY <1>2, ViewsHere
<1> HIDE DEF g
<1>5. /\ gets' = [i \in Slot |-> gets'[i]]
      /\ \A i \in Slot : LoadOK(gets'[i]) /\ Seen(gets'[i].answer)
  BY <1>1, <1>3, <1>4, SlotTaken
<1> QED
  BY <1>5, ViewsHere DEF Ask

LEMMA SelectRunKeeps ==
    ASSUME ConsoleInv, NEW r \in Run, SelectRun(r) PROVE ConsoleInv'
<1>1. PICK slot \in Slot : Ask(project, r, slot)
  BY DEF SelectRun
<1>2. UNCHANGED <<run, conn, source, project, control, starting, busy>>
  BY DEF SelectRun, service, controls
<1>3. Seen(NoDetail)'
  BY <1>2, ViewsHere DEF Seen
<1>4. ControlsTyped'
  BY <1>2, LoadsHere DEF ControlsTyped
<1> QED
  BY <1>1, <1>2, <1>3, <1>4, LoadsHere, AskIs, BrowserStep DEF Seen

LEMMA CollapseRunKeeps ==
    ASSUME ConsoleInv, CollapseRun PROVE ConsoleInv'
<1>1. /\ UNCHANGED <<run, conn, source, project, gets, control, starting, busy>>
      /\ selected' = NoRun /\ detail' = NoDetail /\ due' = TRUE
  BY DEF CollapseRun, Deselect, service, controls
<1>2. Seen(detail)'
  BY <1>1, ViewsHere DEF Seen
<1>3. ControlsTyped'
  BY <1>1, LoadsHere DEF ControlsTyped
<1> QED
  BY <1>1, <1>2, <1>3, LoadsHere, ViewsHere, BrowserStep

LEMMA AnswerGetKeeps ==
    ASSUME ConsoleInv, NEW slot \in Slot, AnswerGet(slot) PROVE ConsoleInv'
<1> DEFINE now == Lookup(gets[slot].project, gets[slot].run)
           g == [gets[slot] EXCEPT !.stage = "answered", !.answer = now]
<1>1. /\ gets[slot].stage = "asked"
      /\ gets' = [gets EXCEPT ![slot] = g]
      /\ UNCHANGED <<run, conn, source, project, selected, detail, due, control,
                     starting, busy>>
  BY LoadsHere DEF AnswerGet, service, controls
<1>2. LoadOK(gets[slot]) /\ gets[slot].run \in Run
  BY <1>1, LoadsHere DEF LoadOK
<1>3. now \in Snapshots /\ Seen(now)
  BY <1>2, LookupIsLatest DEF ConsoleInv, ConsoleTyped
<1> HIDE DEF now
<1>4. LoadOK(g) /\ g.answer = now
  BY <1>2, <1>3 DEF LoadOK
<1> HIDE DEF g
<1>5. /\ gets' = [i \in Slot |-> gets'[i]]
      /\ \A i \in Slot : LoadOK(gets'[i]) /\ Seen(gets'[i].answer)
  BY <1>1, <1>3, <1>4, SlotTaken
<1>6. ControlsTyped' /\ Seen(detail)'
  BY <1>1, LoadsHere DEF ControlsTyped, Seen
<1> QED
  BY <1>1, <1>5, <1>6, LoadsHere, BrowserStep

LEMMA RunLoadedKeeps ==
    ASSUME ConsoleInv, NEW slot \in Slot, RunLoaded(slot) PROVE ConsoleInv'
<1>1. /\ gets' = [gets EXCEPT ![slot] = Idle]
      /\ UNCHANGED <<run, conn, source, project, selected, control, starting,
                     busy>>
  BY DEF RunLoaded, service, controls
<1>2. \/ UNCHANGED <<detail, due>>
      \/ detail' = gets[slot].answer /\ due' = TRUE
  BY DEF RunLoaded
<1>3. /\ gets' = [i \in Slot |-> gets'[i]]
      /\ \A i \in Slot : LoadOK(gets'[i]) /\ Seen(gets'[i].answer)
  BY <1>1, FreshRecords, SlotTaken
<1>4. detail' \in Snapshots /\ Seen(detail)'
  BY <1>1, <1>2, LoadsHere DEF LoadOK, Seen
<1>5. ControlsTyped'
  BY <1>1, LoadsHere DEF ControlsTyped
<1> QED
  BY <1>1, <1>2, <1>3, <1>4, <1>5, LoadsHere, BrowserStep

LEMMA StreamEffectKeeps ==
    ASSUME ConsoleInv, StreamEffect PROVE ConsoleInv'
<1>1. /\ due' = FALSE
      /\ UNCHANGED <<run, project, selected, detail, gets, controls>>
  BY DEF StreamEffect
<1>2. CASE Streamed
  <2>1. /\ FreeConns # {} /\ source' = NextConn
        /\ conn' = [Closed EXCEPT ![NextConn] = Opened(project, selected)]
    BY <1>2 DEF StreamEffect
  <2>2. project \in Project /\ selected \in Run
    BY <1>2, LoadsHere DEF Streamed
  <2> QED
    BY <1>1, <1>2, <2>1, <2>2, StreamOpened
<1>3. CASE ~Streamed
  <2>1. source' = 0 /\ conn' = Closed
    BY <1>3 DEF StreamEffect
  <2>2. ~Streamed' /\ Seen(detail)'
    BY <1>1, <1>3, LoadsHere DEF Streamed, Seen
  <2> QED
    BY <1>1, <2>1, <2>2, ClosedIs, LoadsHere, StreamShut
<1> QED
  BY <1>2, <1>3

LEMMA BreakKeeps ==
    ASSUME ConsoleInv, Break PROVE ConsoleInv'
<1>1. /\ source # 0 /\ FreeConns # {} /\ source' = NextConn
      /\ conn' = [Closed EXCEPT ![NextConn] =
                      Opened(conn[source].project, conn[source].run)]
      /\ UNCHANGED <<run, project, selected, detail, due, gets, controls>>
  BY DEF Break
<1>2. source \in Conn
  BY <1>1, LoadsHere
<1>3. conn[source].stage # "free"
  BY <1>1, <1>2 DEF ConsoleInv, OneClient
<1>4. conn[source].project \in Project /\ conn[source].run \in Run
  BY <1>2, <1>3, ConnHere DEF ConnOK, Connection
<1>5. ~due => /\ Streamed /\ conn[source].run = selected
              /\ conn[source].project = project
  BY <1>1 DEF ConsoleInv, Followed
<1> QED
  BY <1>1, <1>4, <1>5, LoadsHere, StreamOpened

\* The next snapshot is one of those that were on their way.
LEMMA OnSnapshotKeeps ==
    ASSUME ConsoleInv, OnSnapshot PROVE ConsoleInv'
<1> DEFINE k == conn[source]
           snapshot == Head(k.wire)
           rest == [k EXCEPT !.wire = Tail(k.wire)]
<1>1. /\ source # 0 /\ k.wire # <<>>
      /\ UNCHANGED <<run, project, selected, gets, controls>>
  BY DEF OnSnapshot
<1>2. source \in Conn /\ ConnOK(k) /\ ConnSeen(k) /\ k.client
  BY <1>1, LoadsHere, ConnHere DEF ConsoleInv, OneClient
<1>3. k.wire \in Seq(Snapshots) /\ snapshot = k.wire[1] /\ 1 \in DOMAIN k.wire
  BY <1>1, <1>2 DEF ConnOK, Connection
<1>4. snapshot \in Snapshots /\ Seen(snapshot)
  BY <1>2, <1>3 DEF ConnSeen
<1>5. \/ snapshot = NoDetail /\ UNCHANGED <<detail, due>>
      \/ detail' = snapshot /\ due' = TRUE
  BY DEF OnSnapshot
<1>6. due' \in BOOLEAN /\ detail' \in Snapshots /\ Seen(detail)'
  BY <1>1, <1>4, <1>5, LoadsHere DEF Seen
<1>7. CASE Terminal(snapshot.status)
  <2>1. conn' = Closed /\ source' = 0
    BY <1>7 DEF OnSnapshot
  <2>2. due'
    BY <1>5, <1>7 DEF NoDetail, Terminal
  <2> QED
    BY <1>1, <1>6, <2>1, <2>2, ClosedIs, LoadsHere, StreamShut
<1>8. CASE ~Terminal(snapshot.status)
  <2>1. conn' = [conn EXCEPT ![source] = rest] /\ UNCHANGED source
    BY <1>2, <1>8 DEF OnSnapshot, ConsoleInv, ConsoleTyped, ConnsTyped
  <2>2. /\ Tail(k.wire) \in Seq(Snapshots)
        /\ \A i \in DOMAIN Tail(k.wire) :
              i + 1 \in DOMAIN k.wire /\ Tail(k.wire)[i] = k.wire[i + 1]
    BY <1>1, <1>3
  <2>3. /\ rest.wire = Tail(k.wire) /\ rest.read = k.read /\ rest.client = k.client
        /\ rest.run = k.run /\ rest.project = k.project /\ rest.stage = k.stage
    BY <1>2 DEF ConnOK, Connection
  <2>4. ConnOK(rest)
    BY <1>2, <2>2 DEF ConnOK, Connection
  <2>5. ConnSeen(rest)
    BY <1>2, <2>2, <2>3 DEF ConnSeen
  <2>6. \A v \in Snapshots : AheadOf(v, k) => AheadOf(v, rest)
    BY <2>2, <2>3 DEF AheadOf
  <2> HIDE DEF rest
  <2>7. /\ conn' = [c \in Conn |-> conn'[c]] /\ conn'[source] = rest
        /\ \A c \in Conn : c # source => conn'[c] = conn[c]
    BY <1>2, <2>1 DEF ConsoleInv, ConsoleTyped, ConnsTyped
  <2>8. ConsoleTyped'
    <3>1. \A c \in Conn : ConnOK(conn'[c])
      BY <2>4, <2>7, ConnHere
    <3>2. UNCHANGED <<run, project, selected, gets, source, control, starting,
                      busy>>
      BY <1>1, <2>1 DEF controls
    <3> QED
      BY <1>6, <2>7, <3>1, <3>2
      DEF ConsoleInv, ConsoleTyped, RunsTyped, ConnsTyped, BrowserTyped,
          ControlsTyped
  <2>9. AllSeen'
    <3>1. \A c \in Conn : ConnSeen(conn'[c])
      BY <2>5, <2>7, ConnHere
    <3> QED
      BY <1>1, <1>6, <3>1, LoadsHere DEF AllSeen, ConnSeen, Seen
  <2>10. OneClient'
    BY <2>1, <2>3, <2>7 DEF OneClient, ConsoleInv
  <2>11. Followed'
    <3>1. ASSUME ~due' PROVE UNCHANGED <<due, detail>>
      BY <1>5, <3>1
    <3> QED
      BY <1>1, <1>2, <2>1, <2>3, <2>7, <3>1 DEF Followed, Streamed, ConsoleInv
  <2>12. Ahead'
    <3>1. ASSUME ~due' PROVE UNCHANGED <<due, detail>>
      BY <1>5, <3>1
    <3>2. ASSUME ~due' PROVE AheadOf(detail, rest)
      BY <1>1, <2>6, <3>1, <3>2, LoadsHere DEF Ahead, ConsoleInv
    <3> QED
      BY <2>1, <2>7, <3>1, <3>2 DEF Ahead
  <2> QED
    BY <2>8, <2>9, <2>10, <2>11, <2>12 DEF ConsoleInv
<1> QED
  BY <1>7, <1>8

LEMMA SwitchProjectKeeps ==
    ASSUME ConsoleInv, NEW p \in Project, SwitchProject(p) PROVE ConsoleInv'
<1>1. /\ project' = p /\ selected' = NoRun /\ detail' = NoDetail
      /\ source' = 0 /\ due' = FALSE /\ UNCHANGED <<run, gets, controls>>
  BY DEF SwitchProject, Deselect
<1>2. ~Streamed' /\ Seen(detail)' /\ detail' \in Snapshots
  BY <1>1, ViewsHere DEF Streamed, Seen
<1>3. /\ conn' = [c \in Conn |-> conn'[c]]
      /\ \A c \in Conn : ConnOK(conn'[c]) /\ ConnSeen(conn'[c])
                         /\ ~conn'[c].client
  <2>1. CASE conn' = Closed
    BY <2>1, ClosedIs
  <2>2. CASE /\ Streamed /\ FreeConns # {}
             /\ conn' = [Closed EXCEPT ![NextConn] = Left(Opened(p, selected))]
    <3>1. selected \in Run
      BY <2>2, LoadsHere DEF Streamed
    <3>2. /\ ConnOK(Left(Opened(p, selected)))
          /\ ConnSeen(Left(Opened(p, selected)))
          /\ ~Left(Opened(p, selected)).client
      BY <3>1, FreshRecords, LeftIs
    <3> QED
      BY <2>2, <3>2, NextConnIsFree, ClosedIs
  <2> QED
    BY <2>1, <2>2 DEF SwitchProject
<1>4. \A c \in Conn : /\ ConnOK(conn'[c]) /\ ConnSeen(conn'[c])
                      /\ ~conn'[c].client
  BY <1>3
<1> QED
  BY <1>1, <1>2, <1>3, <1>4, LoadsHere, StreamShut

-----------------------------------------------------------------------------
(* The controls.                                                           *)

LEMMA ControlsHere ==
    ASSUME ConsoleInv
    PROVE  /\ control = [m \in Mutating |-> control[m]]
           /\ \A m \in Mutating : MutationOK(control[m])
           /\ MutationOK(starting) /\ busy \in BOOLEAN
  BY DEF ConsoleInv, ConsoleTyped, ControlsTyped

\* One mutation goes on.
LEMMA ControlSet ==
    ASSUME ConsoleInv, NEW m \in Mutating, NEW k, MutationOK(k),
           control' = [control EXCEPT ![m] = k], UNCHANGED starting,
           busy' \in BOOLEAN
    PROVE  ControlsTyped'
<1>1. /\ control' = [n \in Mutating |-> control'[n]]
      /\ \A n \in Mutating : MutationOK(control'[n])
  BY ControlsHere
<1> QED
  BY <1>1, ControlsHere DEF ControlsTyped

LEMMA MutationIs ==
    ASSUME ConsoleInv, NEW op \in Operation, NEW r \in Run
    PROVE  MutationOK(Mutation(op, r))
<1>1. project \in Project
  BY LoadsHere
<1>2. NoMutation \in [op : Operation \cup {"none"}, run : Run \cup {NoRun},
          project : Project, slot : Slot \cup {0},
          stage : {"none", "sent", "answered", "refused", "refreshing"}]
  BY FreshRecords DEF MutationOK
<1>3. Mutation(op, r).run = r
  BY DEF Mutation, NoMutation
<1> QED
  BY <1>1, <1>2, <1>3 DEF Mutation, MutationOK

LEMMA MutationGoesOn ==
    ASSUME NEW m, MutationOK(m), m.stage # "none"
    PROVE  /\ MutationOK(Answered(m)) /\ MutationOK(Refused(m))
           /\ \A slot \in Slot :
                 MutationOK([m EXCEPT !.stage = "refreshing", !.slot = slot])
           /\ m.run \in Run /\ m.project \in Project
  BY DEF MutationOK, Answered, Refused

LEMMA MutateKeeps ==
    ASSUME ConsoleInv, NEW op \in {"step", "resume", "cancel", "delete"},
           Mutate(op)
    PROVE  ConsoleInv'
<1>1. PICK m \in Mutating : control' = [control EXCEPT ![m] = Mutation(op, selected)]
  BY DEF Mutate
<1>2. /\ selected # NoRun /\ busy' = TRUE
      /\ UNCHANGED <<run, conn, project, selected, detail, source, due, gets,
                     starting>>
  BY DEF Mutate, service, browser
<1>3. MutationOK(Mutation(op, selected))
  <2>1. selected \in Run /\ op \in Operation
    BY <1>2, LoadsHere DEF Operation
  <2> QED
    BY <2>1, MutationIs
<1>4. ControlsTyped'
  BY <1>1, <1>2, <1>3, ControlSet
<1>5. Seen(detail)'
  BY <1>2, LoadsHere DEF Seen
<1> QED
  BY <1>2, <1>4, <1>5, LoadsHere, BrowserStep

LEMMA StartRunKeeps ==
    ASSUME ConsoleInv, NEW r \in Run, StartRun(r) PROVE ConsoleInv'
<1>1. /\ starting' = Mutation("start", r) /\ busy' = TRUE
      /\ UNCHANGED <<run, conn, project, selected, detail, source, due, gets,
                     control>>
  BY DEF StartRun, service, browser
<1>2. MutationOK(starting')
  BY <1>1, MutationIs DEF Operation
<1>3. ControlsTyped'
  BY <1>1, <1>2, ControlsHere DEF ControlsTyped
<1>4. Seen(detail)'
  BY <1>1, LoadsHere DEF Seen
<1> QED
  BY <1>1, <1>3, <1>4, LoadsHere, BrowserStep

LEMMA ServeControlKeeps ==
    ASSUME ConsoleInv, NEW m \in Mutating, ServeControl(m) PROVE ConsoleInv'
<1>1. /\ control[m].stage = "sent" /\ UNCHANGED <<conn, browser, starting, busy>>
  BY DEF ServeControl
<1>2. /\ MutationOK(Answered(control[m])) /\ MutationOK(Refused(control[m]))
      /\ control[m].run \in Run
  BY <1>1, ControlsHere, MutationGoesOn
<1>3. RunsTyped
  BY DEF ConsoleInv, ConsoleTyped
<1>4. RunsGoOn
  <2>1. Effect(control[m]) \/ UNCHANGED run
    BY DEF ServeControl
  <2> QED
    BY <1>2, <1>3, <2>1, EffectGoesOn, RunsStay
<1>5. ControlsTyped'
  <2>1. \/ control' = [control EXCEPT ![m] = Answered(control[m])]
        \/ control' = [control EXCEPT ![m] = Refused(control[m])]
    BY DEF ServeControl, Outcomes
  <2>2. busy' \in BOOLEAN
    BY <1>1, ControlsHere
  <2> QED
    BY <1>1, <1>2, <2>1, <2>2, ControlSet
<1> QED
  BY <1>1, <1>4, <1>5, RunsStep

LEMMA ServeStartKeeps ==
    ASSUME ConsoleInv, ServeStart PROVE ConsoleInv'
<1>1. starting.stage = "sent" /\ UNCHANGED <<conn, browser, control, busy>>
  BY DEF ServeStart
<1>2. /\ MutationOK(Answered(starting)) /\ MutationOK(Refused(starting))
      /\ starting.run \in Run
  BY <1>1, ControlsHere, MutationGoesOn
<1>3. RunsTyped
  BY DEF ConsoleInv, ConsoleTyped
<1>4. /\ Effect(starting) \/ UNCHANGED run
      /\ starting' \in {Answered(starting), Refused(starting)}
  BY DEF ServeStart, Outcomes
<1>5. RunsGoOn
  BY <1>2, <1>3, <1>4, EffectGoesOn, RunsStay
<1>6. ControlsTyped'
  BY <1>1, <1>2, <1>4, ControlsHere DEF ControlsTyped
<1> QED
  BY <1>1, <1>5, <1>6, RunsStep

LEMMA RefreshKeeps ==
    ASSUME ConsoleInv, NEW m \in Mutating, Refresh(m) PROVE ConsoleInv'
<1>1. PICK slot \in Slot :
         /\ Ask(control[m].project, control[m].run, slot)
         /\ control' = [control EXCEPT ![m].stage = "refreshing", ![m].slot = slot]
  BY DEF Refresh
<1> DEFINE k == [control[m] EXCEPT !.stage = "refreshing", !.slot = slot]
<1>2. control' = [control EXCEPT ![m] = k]
  BY <1>1, ControlsHere
<1>3. /\ control[m].stage = "answered"
      /\ UNCHANGED <<run, conn, project, source, starting, busy>>
  BY DEF Refresh, service
<1>4. MutationOK(k) /\ control[m].run \in Run /\ control[m].project \in Project
  BY <1>3, ControlsHere, MutationGoesOn
<1> HIDE DEF k
<1>5. ControlsTyped'
  BY <1>2, <1>3, <1>4, ControlsHere, ControlSet
<1>6. Seen(NoDetail)'
  BY <1>3, ViewsHere DEF Seen
<1> QED
  BY <1>1, <1>3, <1>4, <1>5, <1>6, AskIs, BrowserStep DEF Seen

LEMMA CollapseDeletedKeeps ==
    ASSUME ConsoleInv, NEW m \in Mutating, CollapseDeleted(m) PROVE ConsoleInv'
<1>1. /\ UNCHANGED <<run, conn, source, project, gets, starting>>
      /\ selected' = NoRun /\ detail' = NoDetail /\ due' = TRUE
      /\ control' = [control EXCEPT ![m] = NoMutation] /\ busy' = FALSE
  BY DEF CollapseDeleted, Deselect, service
<1>2. Seen(detail)'
  BY <1>1, ViewsHere DEF Seen
<1>3. ControlsTyped'
  BY <1>1, FreshRecords, ControlSet
<1> QED
  BY <1>1, <1>2, <1>3, LoadsHere, ViewsHere, BrowserStep

LEMMA EndMutationKeeps ==
    ASSUME ConsoleInv, NEW m \in Mutating, EndMutation(m) PROVE ConsoleInv'
<1>1. /\ UNCHANGED <<run, conn, browser, starting>>
      /\ control' = [control EXCEPT ![m] = NoMutation] /\ busy' = FALSE
  BY DEF EndMutation, service
<1>2. ControlsTyped'
  BY <1>1, FreshRecords, ControlSet
<1>3. RunsGoOn
  BY <1>1, RunsStay DEF ConsoleInv, ConsoleTyped
<1> QED
  BY <1>1, <1>2, <1>3, RunsStep

LEMMA StartedKeeps ==
    ASSUME ConsoleInv, Started PROVE ConsoleInv'
<1>1. /\ starting.stage \in {"answered", "refused"}
      /\ starting' = NoMutation /\ busy' = FALSE
      /\ UNCHANGED <<run, conn, project, source, control>>
  BY DEF Started, service
<1>2. ControlsTyped'
  BY <1>1, ControlsHere, FreshRecords DEF ControlsTyped
<1>3. Seen(NoDetail)' /\ (Seen(detail) => (detail' = detail => Seen(detail)'))
  BY <1>1, ViewsHere DEF Seen
<1>4. CASE UNCHANGED <<gets, selected, detail, due>>
  BY <1>1, <1>2, <1>3, <1>4, LoadsHere, BrowserStep
<1>5. CASE \E slot \in Slot : Ask(starting.project, starting.run, slot)
  <2>1. PICK slot \in Slot : Ask(starting.project, starting.run, slot)
    BY <1>5
  <2>2. starting.project \in Project /\ starting.run \in Run
    BY <1>1, ControlsHere, MutationGoesOn
  <2> QED
    BY <1>1, <1>2, <1>3, <2>1, <2>2, AskIs, BrowserStep DEF Seen
<1> QED
  BY <1>4, <1>5 DEF Started

-----------------------------------------------------------------------------
(* All steps.                                                              *)

LEMMA InitConsoleInv == ASSUME ConsoleInit PROVE ConsoleInv
<1>1. RunsTyped
  BY DEF ConsoleInit, RunsTyped, Status
<1>2. ConnsTyped /\ \A c \in Conn : ConnSeen(conn[c]) /\ ~conn[c].client
  BY FreshRecords DEF ConsoleInit, ConnsTyped
<1>3. BrowserTyped /\ Seen(detail) /\ \A i \in Slot : Seen(gets[i].answer)
  BY FreshRecords, ViewsHere, ConsoleAssumption DEF ConsoleInit, BrowserTyped
<1>4. ControlsTyped
  BY FreshRecords DEF ConsoleInit, ControlsTyped
<1>5. AllSeen
  BY <1>2, <1>3 DEF AllSeen
<1>6. OneClient /\ Followed /\ Ahead
  BY <1>2, ViewsHere DEF ConsoleInit, OneClient, Followed, Ahead, Streamed
<1> QED
  BY <1>1, <1>2, <1>3, <1>4, <1>5, <1>6 DEF ConsoleInv, ConsoleTyped

LEMMA NextConsoleInv == ConsoleInv /\ [ConsoleNext]_consoleVars => ConsoleInv'
<1> SUFFICES ASSUME ConsoleInv, [ConsoleNext]_consoleVars PROVE ConsoleInv'
  OBVIOUS
<1>1. ASSUME NEW r \in Run, Advance(r) PROVE ConsoleInv'
  BY <1>1, AdvanceKeeps
<1>2. ASSUME NEW c \in Conn, Server(c) PROVE ConsoleInv'
  BY <1>2, ReadSnapshotKeeps, WriteSnapshotKeeps, EndConnKeeps DEF Server
<1>3. ASSUME NEW slot \in Slot, Load(slot) PROVE ConsoleInv'
  BY <1>3, AnswerGetKeeps, RunLoadedKeeps DEF Load
<1>4. CASE StreamEffect \/ OnSnapshot \/ Break
  BY <1>4, StreamEffectKeeps, OnSnapshotKeeps, BreakKeeps
<1>5. CASE Mutations
  BY <1>5, ServeControlKeeps, RefreshKeeps, CollapseDeletedKeeps,
     EndMutationKeeps, ServeStartKeeps, StartedKeeps DEF Mutations
<1>6. CASE User
  BY <1>6, SelectRunKeeps, StartRunKeeps, CollapseRunKeeps, SwitchProjectKeeps,
     MutateKeeps DEF User
<1>7. CASE UNCHANGED consoleVars
  BY <1>7
  DEF consoleVars, service, browser, controls, ConsoleInv, ConsoleTyped,
      RunsTyped, ConnsTyped, BrowserTyped, ControlsTyped, AllSeen, ConnSeen,
      Seen, OneClient, Followed, Streamed, Ahead, AheadOf
<1> QED
  BY <1>1, <1>2, <1>3, <1>4, <1>5, <1>6, <1>7 DEF ConsoleNext

LEMMA ConsoleInvHolds == ConsoleSpec => []ConsoleInv
<1>1. ConsoleInit => ConsoleInv
  BY InitConsoleInv
<1> QED
  BY <1>1, NextConsoleInv, PTL DEF ConsoleSpec

\* However selections, late answers, mutations, switches of the project and
\* lost connections interleave, there is never a second client (the cleanup of
\* the effect in useConsoleData), and with all effects run the stream is of the
\* run and the project that are selected if and only if an active run is shown.
THEOREM StreamAlwaysFollows == ConsoleSpec => []StreamFollowsSelection
<1>1. ConsoleInv => StreamFollowsSelection
  BY DEF ConsoleInv, OneClient, Followed, StreamFollowsSelection
<1> QED
  BY <1>1, ConsoleInvHolds, PTL

\* The stream never takes what is shown back: with all effects run, no snapshot
\* on its way (send of streamRun) is older than the detail shown, although
\* answers to loads may have overtaken each other and earlier streams.
THEOREM StreamAlwaysAhead == ConsoleSpec => []StreamIsAhead
<1>1. ConsoleInv => StreamIsAhead
  BY DEF ConsoleInv, Ahead, AheadOf, StreamIsAhead
<1> QED
  BY <1>1, ConsoleInvHolds, PTL
===============================================================================
