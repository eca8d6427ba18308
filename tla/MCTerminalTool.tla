--------------------------- MODULE MCTerminalTool ---------------------------
(* Model checking TerminalTool: constants are given in the cfg.            *)
EXTENDS TerminalTool
=============================================================================
