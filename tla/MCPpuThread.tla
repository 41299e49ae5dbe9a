---------------------------- MODULE MCPpuThread ----------------------------
(* Model-checking instances of PpuThread. *)
EXTENDS PpuThread

CONSTANTS t1, t2, t3
=============================================================================
