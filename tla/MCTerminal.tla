----------------------------- MODULE MCTerminal -----------------------------
(***************************************************************************)
(* Model of Terminal for TLC: two users, two terminals.                    *)
(***************************************************************************)
EXTENDS Terminal, TLC

CONSTANTS tty, fs, a, b

MCProcs == {tty, fs, a, b}
MCCall(type, cnt, dev) == [type |-> type, cnt |-> cnt, dev |-> dev]
MCRequests == (a :> {MCCall("READ", 2, 0), MCCall("READ", 0, 0)}) @@
              (b :> {MCCall("READ", 2, 0), MCCall("READ", 2, 1),
                     MCCall("WRITE", 1, 1), MCCall("OPEN", 0, 0)})
MCBodies == [type : {"OPEN", "READ", "WRITE", "DEV_OPEN", "DEV_READ", "DEV_WRITE",
                     "SUSPEND_PROC", "RESUME_PROC", "SYSCALL_RET"},
             cnt : 0 .. 2, proc : MCProcs \cup {NO_TASK}, dev : {0, 1}]
MCZero  == Body("none", 0, NO_TASK, 0)
MCInt   == Body("HARDWARE_INT", 0, NO_TASK, 0)
=============================================================================
