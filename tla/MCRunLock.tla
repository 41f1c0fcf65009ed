------------------------------ MODULE MCRunLock ------------------------------
(***************************************************************************)
(* The instance TLC checks: three processes, so that two of them can wait  *)
(* while the third holds; an acquire loop of three rounds (2 remaining);   *)
(* and one killed process, enough to leave a lock behind.                  *)
(***************************************************************************)
EXTENDS RunLock

CONSTANTS p1, p2, p3

MCProc == {p1, p2, p3}
=============================================================================
