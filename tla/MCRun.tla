-------------------------------- MODULE MCRun -------------------------------
(* Run with two processes and the sizes at which 4096 * size changes.      *)
EXTENDS Run

MCArgs == {NoArg, 0, 1, 2, MaxWrite, IntPages, 2 * IntPages, 2 * IntPages + 1}
=============================================================================
