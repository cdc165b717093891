------------------------------ MODULE MCFiles ------------------------------
(***************************************************************************)
(* Model of Files for TLC: a process and the child it forks, three files,  *)
(* one console.                                                            *)
(***************************************************************************)
EXTENDS Files

CONSTANTS parent, child

MCProcs == {parent, child}
MCProc  == {parent}
MCTtys  == <<"dev_tty0">>

MCLength(name) ==
  CASE name \in {"/", ".", "a", "b", "c"} -> 1
    [] name = "middle" -> 6
    [] name = "dev_tty0" -> 8
    [] name \in {"long", "tail"} -> 12
    [] OTHER -> 0

MCstrcpy(old, name) == IF MCLength(old) > MCLength(name) THEN "tail" ELSE name

\* Bound: the third file is there only while there is one process.
MCThird == \E k \in Entries : dir[k].name \in {"middle", "tail"}
MCAlone == alive = {parent} /\ forking = NoFork

MCNext ==
  \/ \E p \in Procs :
       \/ \E name \in Names : (name = "middle" => MCAlone) /\ do_open(p, name, TRUE)
       \/ \E name \in Paths : do_open(p, name, FALSE) \/ do_unlink(p, name)
       \/ \E fd \in FDs : do_close(p, fd)
       \/ \E c \in Procs : ~MCThird /\ ForkCopies(p, c)
       \/ fs_exit(p)
  \/ fs_fork

MCSpec == Init /\ [][MCNext]_vars
=============================================================================
