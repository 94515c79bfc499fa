-------------------------------- MODULE Mcfg --------------------------------
(***************************************************************************)
(* mcfg_r() of user.cpp: the base address of the first PCI segment, read   *)
(* byte by byte from the ACPI table MCFG.  No read is checked.  get()      *)
(* returns a byte, or -1 at the end of the table and when the file could   *)
(* not be opened (an empty table here); stored in an unsigned type, -1 is  *)
(* all ones of its width.                                                  *)
(***************************************************************************)
EXTENDS Words, Sequences

CONSTANT Tables  \* the tables the firmware may provide: sequences of bytes

Byte == SUBSET (0..7)

ASSUME TablesAssumption == Tables \subseteq Seq(Byte)

VARIABLES
  table,      \* the file's bytes
  pos,        \* calls of get() so far
  pc,         \* where mcfg_r is
  i,          \* loop index
  base, seg, bus_start, bus_end

vars == <<table, pos, pc, i, base, seg, bus_start, bus_end>>

Init ==
  /\ table \in Tables
  /\ pos = 0 /\ pc = "skip" /\ i = 0
  /\ base = {} /\ seg = {} /\ bus_start = {} /\ bus_end = {}

\* Faulty variant: nothing is stored at the end of the table.
ByteAtOrZero(k, width) == IF k < Len(table) THEN table[k + 1] ELSE {}

\* What get() returns for byte k, in a variable of the given width.
ByteAt(k, width) == IF k < Len(table) THEN table[k + 1] ELSE 0..(width - 1)

\* Faulty variant: the reserved bytes after the header are forgotten.
HEADER_Short == 36

\* Line 46: the table header and eight reserved bytes.
HEADER == 44

\* Lines 46-48.
SkipHeader ==
  /\ pc = "skip"
  /\ pos' = HEADER /\ pc' = "base"
  /\ UNCHANGED <<table, i, base, seg, bus_start, bus_end>>

\* Faulty variant: one byte too many.
BASE_BYTES_Nine == 9

BASE_BYTES == 8

\* Lines 49-52, one pass; the last one enters the loop over seg.
ReadBase ==
  /\ pc = "base"
  /\ base' = base \union ShiftLeft(ByteAt(pos, 64), i * 8)
  /\ pos' = pos + 1
  /\ IF i + 1 < BASE_BYTES
     THEN i' = i + 1 /\ UNCHANGED pc
     ELSE i' = 0 /\ pc' = "seg"
  /\ UNCHANGED <<table, seg, bus_start, bus_end>>

\* Lines 53-57, one pass: tmp << 8 is an int, cut to 16 bits by the "|=".
ReadSeg ==
  /\ pc = "seg"
  /\ seg' = (seg \union ShiftLeft(ByteAt(pos, 16), i * 8)) \intersect 0..15
  /\ pos' = pos + 1
  /\ IF i = 0
     THEN i' = 1 /\ UNCHANGED pc
     ELSE i' = 0 /\ pc' = "buses"
  /\ UNCHANGED <<table, base, bus_start, bus_end>>

\* Lines 60-65.
ReadBuses ==
  /\ pc = "buses"
  /\ bus_start' = ByteAt(pos, 8) /\ bus_end' = ByteAt(pos + 1, 8)
  /\ pos' = pos + 2 /\ pc' = "done"
  /\ UNCHANGED <<table, i, base, seg>>

Next == SkipHeader \/ ReadBase \/ ReadSeg \/ ReadBuses

Spec == Init /\ [][Next]_vars
-----------------------------------------------------------------------------
TypeOK ==
  /\ table \in Seq(Byte) /\ pos \in Nat
  /\ pc \in {"skip", "base", "seg", "buses", "done"} /\ i \in 0..7
  /\ base \subseteq Word /\ seg \subseteq 0..15
  /\ bus_start \in Byte /\ bus_end \in Byte

\* Bit b of a little-endian field that begins at byte k of the table.
BitOf(k, b) == (b % 8) \in table[k + (b \div 8) + 1]

(***************************************************************************)
(* user.cpp:40-42: of a table long enough to hold it, mcfg_r returns "the  *)
(* base address of the first PCI segment", bytes 44 to 51 of the table,    *)
(* low byte first, and it prints the segment and the bus range that follow.*)
(***************************************************************************)
EntryDecoded ==
  /\ pc = "done" /\ Len(table) >= 52 =>
       base = {b \in Word : BitOf(44, b)}
  /\ pc = "done" /\ Len(table) >= 56 =>
       /\ seg = {b \in 0..15 : BitOf(52, b)}
       /\ bus_start = table[55] /\ bus_end = table[56]

(***************************************************************************)
(* A table that ends within the base address, or is missing, is not taken  *)
(* for one with a small base: the -1 of line 50 sets every bit from the    *)
(* first missing byte up, and what was read below it is kept.              *)
(***************************************************************************)
ShortTableShows ==
  pc = "done" /\ Len(table) < 52 =>
    \A b \in Word : b \in base <=> (44 + (b \div 8) < Len(table) => BitOf(44, b))
=============================================================================
