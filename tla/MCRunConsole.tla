---------------------------- MODULE MCRunConsole ----------------------------
(***************************************************************************)
(* A small instance of RunConsole: two runs, two projects.  The user, the  *)
(* controls and the network act freely within one of a few bounds.         *)
(***************************************************************************)
EXTENDS RunConsole

Bound(selects, switches, controls_, starts, breaks) ==
    [select |-> selects, switch |-> switches, control |-> controls_,
     start |-> starts, break |-> breaks]

MCActs == {Bound(2, 0, 0, 0, 0), Bound(1, 0, 0, 0, 1), Bound(1, 1, 0, 0, 0),
           Bound(1, 0, 1, 0, 0), Bound(1, 0, 0, 1, 0)}
===============================================================================
