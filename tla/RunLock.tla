------------------------------- MODULE RunLock -------------------------------
(***************************************************************************)
(* store.clj with-run-lock: the lock file that serialises decisions on one *)
(* run directory.  The file holds nothing, not even its owner; it is       *)
(* created atomically, deleted by whoever leaves, and reclaimed by a       *)
(* waiter that finds it more than a minute old.                            *)
(***************************************************************************)
EXTENDS Integers

CONSTANTS
    Proc,        \* operating-system processes that may take the lock
    NoProc,      \* the creator of a file that does not exist
    MaxTries,    \* the 400 of the acquire loop
    MaxCrashes   \* bound: processes killed during a behaviour

ASSUME LockAssumption == /\ NoProc \notin Proc
                         /\ MaxTries \in Nat
                         /\ MaxCrashes \in Nat

VARIABLES
    file,        \* creator of the lock file on disk (never read by the code)
    old,         \* the file's modification time is more than 60 s ago
    pc,          \* where each process stands in with-run-lock
    tries,       \* `remaining` of each process's acquire loop
    sawOld,      \* age-ms > 60000 as the process last read it
    crashes,     \* processes killed so far
    orphaned     \* history: some holder was killed before its `finally`

vars == <<file, old, pc, tries, sawOld, crashes, orphaned>>

Init ==
    /\ file = NoProc
    /\ old = FALSE
    /\ pc = [p \in Proc |-> "idle"]
    /\ tries = [p \in Proc |-> 0]
    /\ sawOld = [p \in Proc |-> FALSE]
    /\ crashes = 0
    /\ orphaned = FALSE

----------------------------------------------------------------------------
(* The acquire loop.                                                       *)

\* A process asks for the lock; the loop starts with 400 remaining.
Enter(p) ==
    /\ pc[p] = "idle"
    /\ pc' = [pc EXCEPT ![p] = "create"]
    /\ tries' = [tries EXCEPT ![p] = MaxTries]
    /\ UNCHANGED <<file, old, sawOld, crashes, orphaned>>

\* Files/createFile succeeds: the process owns the lock.
Acquire(p) ==
    /\ pc[p] = "create"
    /\ file = NoProc
    /\ file' = p
    /\ old' = FALSE
    /\ pc' = [pc EXCEPT ![p] = "mutate"]
    /\ UNCHANGED <<tries, sawOld, crashes, orphaned>>

\* FileAlreadyExistsException: go and look at the file's age.
FindHeld(p) ==
    /\ pc[p] = "create"
    /\ file # NoProc
    /\ pc' = [pc EXCEPT ![p] = "age"]
    /\ UNCHANGED <<file, old, tries, sawOld, crashes, orphaned>>

\* Mutants of IsOld: an age check that accepts every lock, and one that
\* accepts none.
IsOldAlways == file # NoProc
IsOldNever == FALSE

\* (> age-ms 60000); a file that has gone meanwhile reads as age 0.
IsOld == file # NoProc /\ old

\* getLastModifiedTime: what the process will act on.
ReadAge(p) ==
    /\ pc[p] = "age"
    /\ sawOld' = [sawOld EXCEPT ![p] = IsOld]
    /\ pc' = [pc EXCEPT ![p] = "reclaim"]
    /\ UNCHANGED <<file, old, tries, crashes, orphaned>>

\* The file at the lock path disappears, whoever created it.
DeleteIfExists ==
    /\ file' = NoProc
    /\ old' = FALSE

\* Mutant of Remaining: the loop forgets to count.
RemainingUncounted(p) == tries[p]

\* (zero? remaining) and (dec remaining).
Exhausted(p) == tries[p] = 0
Remaining(p) == tries[p] - 1

\* A lock that was old when its age was read is deleted; then the loop goes
\* round again, or throws when no try remains.
Reclaim(p) ==
    /\ pc[p] = "reclaim"
    /\ IF sawOld[p] THEN DeleteIfExists ELSE UNCHANGED <<file, old>>
    /\ sawOld' = [sawOld EXCEPT ![p] = FALSE]
    /\ IF Exhausted(p)
         THEN /\ pc' = [pc EXCEPT ![p] = "idle"]
              /\ UNCHANGED tries
         ELSE /\ pc' = [pc EXCEPT ![p] = "create"]
              /\ tries' = [tries EXCEPT ![p] = Remaining(p)]
    /\ UNCHANGED <<crashes, orphaned>>

\* `finally`: the file is deleted without asking whose it is.
Leave(p) ==
    /\ pc[p] = "mutate"
    /\ DeleteIfExists
    /\ pc' = [pc EXCEPT ![p] = "idle"]
    /\ UNCHANGED <<tries, sawOld, crashes, orphaned>>

----------------------------------------------------------------------------
(* The environment.                                                        *)

\* A process is killed: no `finally` runs, so a lock it holds stays behind.
Crash(p) ==
    /\ pc[p] # "idle"
    /\ crashes < MaxCrashes
    /\ crashes' = crashes + 1
    /\ orphaned' = (orphaned \/ pc[p] = "mutate")
    /\ pc' = [pc EXCEPT ![p] = "idle"]
    /\ sawOld' = [sawOld EXCEPT ![p] = FALSE]
    /\ UNCHANGED <<file, old, tries>>

\* A minute passes over a file whose creator is not inside: the mutation
\* takes milliseconds, so only an abandoned file gets that old.
Age ==
    /\ file # NoProc
    /\ pc[file] # "mutate"
    /\ old' = TRUE
    /\ UNCHANGED <<file, pc, tries, sawOld, crashes, orphaned>>

Step(p) == \/ Acquire(p) \/ FindHeld(p) \/ ReadAge(p) \/ Reclaim(p) \/ Leave(p)

Next == Age \/ \E p \in Proc : Enter(p) \/ Step(p) \/ Crash(p)

\* A process that has entered keeps running until it is killed; time passes.
Fairness == WF_vars(Age) /\ \A p \in Proc : WF_vars(Step(p))

Spec == Init /\ [][Next]_vars
FairSpec == Spec /\ Fairness

----------------------------------------------------------------------------
(* Properties.                                                             *)

\* The values each variable may take.
TypeOK ==
    /\ file \in Proc \cup {NoProc}
    /\ old \in BOOLEAN
    /\ pc \in [Proc -> {"idle", "create", "age", "reclaim", "mutate"}]
    /\ tries \in [Proc -> 0..MaxTries]
    /\ sawOld \in [Proc -> BOOLEAN]
    /\ crashes \in Nat
    /\ orphaned \in BOOLEAN

\* At most one process runs the mutation that with-run-lock serialises.
MutualExclusion ==
    \A p, q \in Proc : pc[p] = "mutate" /\ pc[q] = "mutate" => p = q

\* As long as no holder has been killed inside its mutation, the lock is
\* exclusive, although neither `finally` nor the reclaiming branch checks
\* whose file it deletes, and although waiters may be killed at any point.
ExclusiveUntilHolderDies == ~orphaned => MutualExclusion

\* Everyone who asks for the lock gets it or is told that it timed out.
WaitersReturn ==
    \A p \in Proc : pc[p] = "create" ~> pc[p] \in {"mutate", "idle"}

\* A file left behind by a killed holder does not lock the run for ever: once
\* it is a minute old and no more processes are killed, one waiter's loop is
\* enough to remove it, even on that waiter's last try.
AbandonedIsReclaimed ==
    \A p \in Proc :
        (old /\ pc[p] = "create" /\ crashes = MaxCrashes) ~> ~old

=============================================================================
