------------------------------ MODULE StudioFiles ------------------------------
(***************************************************************************)
(* How the Web server keeps a workflow of the Studio (routes/studio.ts and *)
(* lib/safeWrite.ts): the sidecar studio-state.json with the draft and     *)
(* workflow.edn, which the control plane writes, in one directory.         *)
(* Browsers create, save and load at once; the server's process and the    *)
(* machine may fail at any step.  Drafts are told apart by the request     *)
(* that brought them.                                                      *)
(***************************************************************************)
EXTENDS Naturals, FiniteSets

CONSTANTS
    Browser,
    Tasks           \* the bounds of a behaviour, one of which it starts with:
                    \* how often a workflow is created and saved (a draft or
                    \* completed), and how often the process is killed and the
                    \* machine loses power

ASSUME FilesAssumption ==
    Tasks \subseteq [{"create", "draft", "completed", "kill", "power"} -> Nat]

VARIABLES
    sidecar,        \* studio-state.json as it is read
    certain, since, \* what a loss of power leaves of it: the content whose
                    \* entry is known to be on disk, or one renamed since
    package,        \* the draft in workflow.edn, 0 if there is none
    remains,        \* what a loss of power may leave of it
    folder,         \* the workflow's directory: "absent", "made", or "certain"
                    \* once its entry in the directory above is on disk
    request,        \* browser -> its request
    acked,          \* saves that were answered with success
    before,         \* save -> those that were answered when it was asked for
    published,      \* drafts the control plane has written
    covered,        \* saves after which the directory was synced
    exposed,        \* saves that a loss of power was free to take
    tasks           \* the bounds that are left

files == <<sidecar, certain, since, package, remains, folder>>
history == <<acked, before, published, covered, exposed>>
filesVars == <<files, request, history, tasks>>

Absent == [draft |-> 0, status |-> "absent", synced |-> TRUE]
NoRequest == [op |-> "none", stage |-> "none", draft |-> 0, synced |-> FALSE]
Torn(content) == [content EXCEPT !.status = "torn", !.draft = 0]

FilesInit ==
    /\ sidecar = Absent /\ certain = Absent /\ since = {}
    /\ package = 0 /\ remains = {0}
    /\ folder \in {"absent", "certain"}
    /\ request = [b \in Browser |-> NoRequest]
    /\ acked = {} /\ before = <<>> /\ published = {}
    /\ covered = {} /\ exposed = {}
    /\ tasks \in Tasks

Stage(b, stage) == request' = [request EXCEPT ![b].stage = stage]

\* mkdir with its parents, of which none is synced.
MadeFolder == IF folder = "absent" THEN "made" ELSE folder
Task(kind) == tasks[kind] > 0 /\ tasks' = [tasks EXCEPT ![kind] = @ - 1]

----------------------------------------------------------------------------
(* The routes.                                                             *)

\* Mutant of FirstStage: a completed save writes the sidecar before all else.
SidecarFirst(op) == "open"

\* A completed save goes through the control plane first.
FirstStage(op) == IF op = "completed" THEN "publish" ELSE "open"

\* A request arrives; create looks whether the files exist, and the write it
\* goes on to replaces whatever has come to be there.
Receive(b, op) ==
    /\ request[b] = NoRequest /\ Task(op)
    /\ op = "create" => sidecar = Absent /\ package = 0
    /\ LET draft == Cardinality(DOMAIN before) + 1 IN
       /\ request' = [request EXCEPT ![b] = [op |-> op, stage |-> FirstStage(op),
                                             draft |-> draft, synced |-> FALSE]]
       /\ before' = [d \in DOMAIN before \cup {draft} |->
                        IF d = draft THEN acked ELSE before[d]]
    /\ UNCHANGED <<files, acked, published, covered, exposed>>

\* workflow.save: refused by the linter; or written, which the route does not
\* learn of if the operation's time is up.  The file is synced and renamed,
\* the directory is not synced.
Publish(b) ==
    /\ request[b].stage = "publish"
    /\ \/ Stage(b, "failed") /\ UNCHANGED <<package, remains, folder, published>>
       \/ /\ package' = request[b].draft /\ remains' = remains \cup {package'}
          /\ folder' = MadeFolder
          /\ published' = published \cup {request[b].draft}
          /\ Stage(b, "open") \/ Stage(b, "failed")
    /\ UNCHANGED <<sidecar, certain, since, acked, before, covered, exposed, tasks>>

\* The answer; a browser saves again only after it.
Answer(b) ==
    /\ request[b].stage \in {"done", "failed"}
    /\ acked' = IF request[b].stage = "done" THEN acked \cup {request[b].draft}
                ELSE acked
    /\ request' = [request EXCEPT ![b] = NoRequest]
    /\ UNCHANGED <<files, before, published, covered, exposed, tasks>>

\* What a load is shown: the draft of the sidecar, and without one (none is
\* read from a file that is torn) the package.
LoadGets == IF sidecar.draft # 0 THEN sidecar.draft ELSE package

----------------------------------------------------------------------------
(* safeWriteText.                                                          *)

\* The directory is made; the temporary file has a name of its own.  What
\* fails up to the rename removes the file and fails the request.
OpenAndWrite(b) ==
    /\ request[b].stage = "open"
    /\ \/ Stage(b, "written") /\ folder' = MadeFolder
       \/ Stage(b, "failed") /\ folder' \in {folder, MadeFolder}
    /\ UNCHANGED <<sidecar, certain, since, package, remains, history, tasks>>

\* Mutant of SyncFile: the temporary file is not synced.
SyncNothing(b) ==
    /\ request[b].stage = "written"
    /\ Stage(b, "rename")
    /\ UNCHANGED <<files, history, tasks>>

SyncFile(b) ==
    /\ request[b].stage = "written"
    /\ \/ request' = [request EXCEPT ![b].stage = "rename", ![b].synced = TRUE]
       \/ Stage(b, "failed")
    /\ UNCHANGED <<files, history, tasks>>

Content(r) == [draft |-> r.draft, synced |-> r.synced,
               status |-> IF r.op = "completed" THEN "completed" ELSE "draft"]

Rename(b) ==
    /\ request[b].stage = "rename"
    /\ \/ /\ sidecar' = Content(request[b])
          /\ since' = since \cup {sidecar'}
          /\ Stage(b, "sync directory")
       \/ Stage(b, "failed") /\ UNCHANGED <<sidecar, since>>
    /\ UNCHANGED <<certain, package, remains, folder, history, tasks>>

\* All renames in the directory are on disk then, though not its own entry in
\* the one above.  A sync that fails, for whatever reason, is no failure.
SyncDirectory(b) ==
    /\ request[b].stage = "sync directory"
    /\ \/ /\ certain' = sidecar /\ since' = {} /\ remains' = {package}
          /\ covered' = covered \cup {request[b].draft}
       \/ UNCHANGED <<certain, since, remains, covered>>
    /\ Stage(b, "done")
    /\ UNCHANGED <<sidecar, package, folder, acked, before, published, exposed, tasks>>

----------------------------------------------------------------------------
(* Failures.  Requests on their way are lost, and temporary files remain.  *)

\* A control plane that was started goes on without the server.
Kill ==
    /\ Task("kill")
    /\ request' = [b \in Browser |-> NoRequest]
    /\ package' \in {package} \cup {request[b].draft :
                          b \in {x \in Browser : request[x].stage = "publish"}}
    /\ remains' = remains \cup {package'}
    /\ folder' = IF package' = package THEN folder ELSE MadeFolder
    /\ published' = published \cup ({package'} \ {0})
    /\ UNCHANGED <<sidecar, certain, since, acked, before, covered, exposed>>

\* What is left of the directory: of each file what is certain or was renamed
\* since; a save was safe if the directory was synced after it.
LeftOver ==
    /\ \E content \in {certain} \cup since :
          sidecar' \in {content} \cup
              (IF content.synced THEN {} ELSE {Torn(content)})
    /\ package' \in remains
    /\ folder' = IF folder = "absent" THEN "absent" ELSE "certain"
    /\ exposed' = exposed \cup (DOMAIN before \ covered)

\* A directory whose entry was not on disk is gone with all that was in it.
Vanished ==
    /\ folder = "made" /\ folder' = "absent"
    /\ sidecar' = Absent /\ package' = 0
    /\ exposed' = DOMAIN before

LosePower ==
    /\ Task("power")
    /\ LeftOver \/ Vanished
    /\ certain' = sidecar' /\ since' = {} /\ remains' = {package'}
    /\ request' = [b \in Browser |-> NoRequest]
    /\ UNCHANGED <<acked, before, published, covered>>

----------------------------------------------------------------------------

SafeWrite(b) == OpenAndWrite(b) \/ SyncFile(b) \/ Rename(b) \/ SyncDirectory(b)

FilesNext ==
    \/ \E b \in Browser :
          \/ \E op \in {"create", "draft", "completed"} : Receive(b, op)
          \/ Publish(b) \/ SafeWrite(b) \/ Answer(b)
    \/ Kill \/ LosePower

FilesSpec == FilesInit /\ [][FilesNext]_filesVars

----------------------------------------------------------------------------
(* Properties.                                                             *)

\* A save that was answered is never undone: a load gets its draft or one that
\* was not answered before it, whatever was killed meanwhile.  A loss of power
\* takes it only if the sync of the directory had failed, which is no failure
\* of the save, or if the directory was new and its own entry, which nothing
\* syncs, was not on disk yet.
NoAckedSaveLost ==
    \A d \in acked \ exposed : LoadGets # 0 /\ LoadGets \notin before[d]

\* A draft that counts as completed was accepted and written as workflow.edn.
CompletedWasPublished ==
    sidecar.status = "completed" => sidecar.draft \in published
===============================================================================
