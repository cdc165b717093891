---------------------------- MODULE MCProcesses ----------------------------
(***************************************************************************)
(* Model of Processes for TLC: INIT and three entries to fork into.        *)
(***************************************************************************)
EXTENDS Processes

CONSTANTS mm_, init_, c1, c2, c3

MCProcs == {mm_, init_, c1, c2, c3}
MCSlots == <<c1, c2, c3>>
MCCalls == (init_ :> {"FORK", "WAIT"}) @@ (c1 :> {"FORK", "WAIT", "EXIT"}) @@
           (c2 :> {"FORK", "EXIT"}) @@ (c3 :> {"EXIT"})
MCZero  == Body("none", NO_TASK, 0)
=============================================================================
