------------------------------ MODULE MCSched ------------------------------
(***************************************************************************)
(* Model of Sched for TLC: three processes with different priorities, or   *)
(* with the priorities the source leaves in proc_table.                    *)
(***************************************************************************)
EXTENDS Sched

MCPriority == <<3, 1, 2>>

\* No statement of the source assigns PROCESS.priority; proc_table is zeroed.
SourcePriority == [p \in 1 .. N |-> 0]
=============================================================================
