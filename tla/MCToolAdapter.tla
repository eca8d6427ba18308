--------------------------- MODULE MCToolAdapter ----------------------------
(* Model checking ToolAdapter: all of its constants are given in the cfgs. *)
EXTENDS ToolAdapter
=============================================================================
