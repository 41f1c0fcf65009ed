---------------------------- MODULE RunLockProofs ----------------------------
(***************************************************************************)
(* with-run-lock is exclusive for any number of processes and any length   *)
(* of the acquire loop, as long as no holder dies inside its mutation.     *)
(* Deleting without an ownership check is safe up to then because the lock *)
(* file exists exactly while its creator is inside, so nobody ever reads   *)
(* an age above a minute: that is what IInv says.                          *)
(***************************************************************************)
EXTENDS RunLock, TLAPS

\* The file on disk is the holder's, and nobody means to delete it.
FileIsHolders ==
    /\ old = FALSE
    /\ \A p \in Proc : sawOld[p] = FALSE
    /\ \A p \in Proc : pc[p] = "mutate" <=> file = p

IInv == TypeOK /\ (~orphaned => FileIsHolders)

\* Every variable of with-run-lock keeps its type.
LEMMA TypingStep == ASSUME TypeOK, [Next]_vars PROVE TypeOK'
<1> USE LockAssumption DEF TypeOK
<1>1. CASE Age
  BY <1>1 DEF Age
<1>2. ASSUME NEW p \in Proc, Enter(p) PROVE TypeOK'
  BY <1>2 DEF Enter
<1>3. ASSUME NEW p \in Proc, Acquire(p) PROVE TypeOK'
  BY <1>3 DEF Acquire
<1>4. ASSUME NEW p \in Proc, FindHeld(p) PROVE TypeOK'
  BY <1>4 DEF FindHeld
<1>5. ASSUME NEW p \in Proc, ReadAge(p) PROVE TypeOK'
  BY <1>5 DEF ReadAge, IsOld
<1>6. ASSUME NEW p \in Proc, Reclaim(p) PROVE TypeOK'
  <2>1. file' \in Proc \cup {NoProc} /\ old' \in BOOLEAN
    BY <1>6 DEF Reclaim, DeleteIfExists
  <2>2. tries' \in [Proc -> 0..MaxTries]
    BY <1>6 DEF Reclaim, Exhausted, Remaining
  <2>3. QED
    BY <1>6, <2>1, <2>2 DEF Reclaim
<1>7. ASSUME NEW p \in Proc, Leave(p) PROVE TypeOK'
  BY <1>7 DEF Leave, DeleteIfExists
<1>8. ASSUME NEW p \in Proc, Crash(p) PROVE TypeOK'
  BY <1>8 DEF Crash
<1>9. CASE UNCHANGED vars
  BY <1>9 DEF vars
<1> QED
  BY <1>1, <1>2, <1>3, <1>4, <1>5, <1>6, <1>7, <1>8, <1>9 DEF Next, Step

\* No step puts the lock file and its holder out of step with each other.
LEMMA HolderStep ==
    ASSUME IInv, [Next]_vars, ~orphaned'
    PROVE  FileIsHolders'
<1> USE LockAssumption DEF IInv, TypeOK, FileIsHolders
<1>1. ~orphaned
  BY DEF Next, Step, Age, Enter, Acquire, FindHeld, ReadAge, Reclaim, Leave, Crash, vars
<1>2. CASE Age
  \* Its guard is false: the creator of the file is inside.
  BY <1>1, <1>2 DEF Age
<1>3. ASSUME NEW p \in Proc, Enter(p) PROVE FileIsHolders'
  BY <1>1, <1>3 DEF Enter
<1>4. ASSUME NEW p \in Proc, Acquire(p) PROVE FileIsHolders'
  BY <1>1, <1>4 DEF Acquire
<1>5. ASSUME NEW p \in Proc, FindHeld(p) PROVE FileIsHolders'
  BY <1>1, <1>5 DEF FindHeld
<1>6. ASSUME NEW p \in Proc, ReadAge(p) PROVE FileIsHolders'
  BY <1>1, <1>6 DEF ReadAge, IsOld
<1>7. ASSUME NEW p \in Proc, Reclaim(p) PROVE FileIsHolders'
  BY <1>1, <1>7 DEF Reclaim
<1>8. ASSUME NEW p \in Proc, Leave(p) PROVE FileIsHolders'
  BY <1>1, <1>8 DEF Leave, DeleteIfExists
<1>9. ASSUME NEW p \in Proc, Crash(p) PROVE FileIsHolders'
  BY <1>1, <1>9 DEF Crash
<1>10. CASE UNCHANGED vars
  BY <1>1, <1>10 DEF vars
<1> QED
  BY <1>2, <1>3, <1>4, <1>5, <1>6, <1>7, <1>8, <1>9, <1>10 DEF Next, Step

\* The inductive invariant.
LEMMA Inductive == Spec => []IInv
<1>1. Init => IInv
  <2> SUFFICES ASSUME Init PROVE IInv
    OBVIOUS
  <2> USE LockAssumption DEF Init
  <2>1. TypeOK
    <3>1. tries \in [Proc -> 0..MaxTries] /\ crashes \in Nat
      OBVIOUS
    <3>2. /\ file \in Proc \cup {NoProc}
          /\ pc \in [Proc -> {"idle", "create", "age", "reclaim", "mutate"}]
      OBVIOUS
    <3>3. old \in BOOLEAN /\ sawOld \in [Proc -> BOOLEAN] /\ orphaned \in BOOLEAN
      BY Zenon
    <3>4. QED
      BY <3>1, <3>2, <3>3 DEF TypeOK
  <2>2. FileIsHolders
    <3>1. \A p \in Proc : pc[p] = "mutate" <=> file = p
      OBVIOUS
    <3>2. old = FALSE /\ \A p \in Proc : sawOld[p] = FALSE
      BY Zenon
    <3>3. QED
      BY <3>1, <3>2 DEF FileIsHolders
  <2>3. QED
    BY <2>1, <2>2 DEF IInv
<1>2. IInv /\ [Next]_vars => IInv'
  BY TypingStep, HolderStep DEF IInv
<1> QED
  BY <1>1, <1>2, PTL DEF Spec

\* The variables of with-run-lock keep their types.
THEOREM LockTypeCorrect == Spec => []TypeOK
<1>1. IInv => TypeOK
  BY DEF IInv
<1> QED
  BY <1>1, Inductive, PTL

\* store.clj with-run-lock serialises the mutations of one run directory for
\* every number of processes and tries, until a holder is killed inside.
THEOREM LockExclusive == Spec => []ExclusiveUntilHolderDies
<1>1. IInv => ExclusiveUntilHolderDies
  BY DEF IInv, FileIsHolders, ExclusiveUntilHolderDies, MutualExclusion
<1> QED
  BY <1>1, Inductive, PTL

=============================================================================
