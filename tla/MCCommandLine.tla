--------------------------- MODULE MCCommandLine ----------------------------
(* Model checking CommandLine: constants are given in the cfg.             *)
EXTENDS CommandLine
=============================================================================
