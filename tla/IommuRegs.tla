----------------------------- MODULE IommuRegs ------------------------------
(***************************************************************************)
(* The register fields of bust_open (main.c:137-189) and the GET_MASK      *)
(* macro (utils.h:46).  The table sizes of lines 141-142 and 169-170 are   *)
(* never used: left out.                                                   *)
(***************************************************************************)
EXTENDS Words

\* Faulty variant: the width of the upper shift is off by one.
GET_MASK_Wide(start, end) ==
  ShiftLeft(Word, start) \intersect ShiftRight(Word, 64 - end)

GET_MASK(start, end) ==
  ShiftLeft(Word, start) \intersect ShiftRight(Word, 64 - end - 1)

comTblBase(r) == r \intersect GET_MASK(12, 51)

\* eventLogBaseReg & ((1ull << 51) - 1): the bits below 51.
eventLogBase(r) == r \intersect {b \in Word : b < 51}

\* comTailPtr, comHeadPtr, eventLogTailPtr and eventLogHeadPtr.
RingPtr(r) == r \intersect GET_MASK(4, 18)
=============================================================================
