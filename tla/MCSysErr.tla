------------------------------ MODULE MCSysErr ------------------------------
(* Instances of SysErr for TLC. *)
EXTENDS SysErr

\* What a call returned is read only by the step that makes it (as res'), so
\* that states which differ in it alone have the same behaviours.
WithoutResult == <<table, dir_location, pc, loaded, listed, alone, test>>
=============================================================================
