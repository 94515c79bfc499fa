---------------------------- MODULE MCIommuRing -----------------------------
(* IommuRing with base registers that differ at the edges of the fields.   *)
EXTENDS IommuRing

MCRegs == {{12, 50, 56}, {11, 12}, {1, 12}, {12, 51}, {20, 52, 59}}
=============================================================================
