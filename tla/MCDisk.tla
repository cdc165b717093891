------------------------------- MODULE MCDisk -------------------------------
(***************************************************************************)
(* Model of ReadWrite and HardDisk for TLC: two ways to divide the drive.  *)
(***************************************************************************)
EXTENDS ReadWrite

MCPart(sys, start, size, logical) ==
  [sys |-> sys, start |-> start, size |-> size, logical |-> logical]
MCRegion(start, size) == [start |-> start, size |-> size]

\* An extended partition alone, with one logical partition; and one behind
\* another with four, one more than the driver has entries for.
MCPlans == {<<MCPart("ext", 1, 13, <<MCRegion(2, 12)>>), MCPart("none", 0, 0, <<>>)>>,
            <<MCPart("ext", 4, 20, <<MCRegion(5, 12), MCRegion(18, 2), MCRegion(21, 1), MCRegion(23, 1)>>),
              MCPart("data", 1, 3, <<>>)>>}
=============================================================================
