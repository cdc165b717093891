----------------------------- MODULE MCSysTask -----------------------------
(***************************************************************************)
(* Model of SysTask for TLC: the system task and three clients; ticks      *)
(* wraps around after three clock interrupts.                              *)
(***************************************************************************)
EXTENDS SysTask

CONSTANTS sys, a, b, c

MCProcs    == {sys, a, b, c}
MCBodies   == [type : {"GET_TICKS", "GET_PID", "SYSCALL_RET"},
               val  : MCProcs \cup 0 .. MAX_TICKS - 1 \cup {NoVal}]
=============================================================================
