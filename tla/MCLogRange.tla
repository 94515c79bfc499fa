----------------------------- MODULE MCLogRange -----------------------------
(* LogRange on small ranges: two values a word can take, a NULL start, an  *)
(* aligned and an unaligned one.                                           *)
EXTENDS LogRangeRefines

MCStarts == {0, 4, 64}
MCAligned == {64}
=============================================================================
