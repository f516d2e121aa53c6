--------------------------- MODULE MCSummariseJob ---------------------------
(***************************************************************************)
(* Calls on one API process, whose jobs compete for the worker's places.   *)
(***************************************************************************)
EXTENDS SummariseJobProperties

CONSTANTS j1, j2, p1

MCProcOf == [j \in Jobs |-> p1]
=============================================================================
