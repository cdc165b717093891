----------------------------- MODULE MCIpcIrq ------------------------------
(***************************************************************************)
(* Model of IpcIrq for TLC: the terminal, two clients, the disk task.      *)
(***************************************************************************)
EXTENDS IpcIrq

CONSTANTS tty, hd, a, b

MCProcs    == {tty, hd, a, b}
MCIntTasks == {tty, hd}
=============================================================================
