----------------------------- MODULE McfgProofs -----------------------------
(***************************************************************************)
(* Proofs about Mcfg, for every table the firmware may provide: any length *)
(* and any bytes.                                                          *)
(***************************************************************************)
EXTENDS Mcfg, TLAPS

(***************************************************************************)
(* What the two loops have put together of a field that begins at byte k   *)
(* of the table once n of its bytes are read.                              *)
(***************************************************************************)
Gathered(k, width, n, bits) ==
  {b \in bits : \E j \in 0..(n - 1) : b - j * 8 \in ByteAt(k + j, width)}

(***************************************************************************)
(* The inductive invariant: where each loop is in the table, and that its  *)
(* field holds what was read so far.                                       *)
(***************************************************************************)
PlaceInv ==
  /\ pc = "skip" => i = 0 /\ base = {} /\ seg = {}
  /\ pc = "base" => pos = 44 + i /\ seg = {}
  /\ pc = "seg" => pos = 52 + i /\ i \in 0..1
  /\ pc = "buses" => pos = 54

FieldInv ==
  /\ pc = "base" => base = Gathered(44, 64, i, Word)
  /\ pc \in {"seg", "buses", "done"} => base = Gathered(44, 64, 8, Word)
  /\ pc = "seg" => seg = Gathered(52, 16, i, 0..15)
  /\ pc \in {"buses", "done"} => seg = Gathered(52, 16, 2, 0..15)
  /\ pc = "done" => bus_start = ByteAt(54, 8) /\ bus_end = ByteAt(55, 8)

DecodeInv == TypeOK /\ PlaceInv /\ FieldInv

\* A byte of the table is a byte, and so is the -1 of its end, cut to eight
\* bits.
LEMMA ByteType ==
  ASSUME table \in Seq(Byte), NEW k \in Nat
  PROVE  /\ k < Len(table) => ByteAt(k, 8) = table[k + 1] /\ table[k + 1] \in Byte
         /\ ByteAt(k, 8) \in Byte
<1>1. CASE k < Len(table)
  <2>1. k + 1 \in 1..Len(table)
    BY <1>1
  <2> QED
    BY <1>1, <2>1 DEF ByteAt
<1>2. CASE ~(k < Len(table))
  <2>1. ByteAt(k, 8) = 0..7
    BY <1>2 DEF ByteAt
  <2> QED
    BY <1>2, <2>1 DEF Byte
<1> QED
  BY <1>1, <1>2

\* Reading one more byte extends the field by one byte.
LEMMA GatherNext ==
  ASSUME NEW k \in Nat, NEW width, NEW n \in Nat, NEW bits \in SUBSET Word
  PROVE  Gathered(k, width, n + 1, bits)
           = (Gathered(k, width, n, bits) \union ShiftLeft(ByteAt(k + n, width), n * 8))
               \intersect bits
<1>1. ASSUME NEW b \in bits
      PROVE  (\E j \in 0..((n + 1) - 1) : b - j * 8 \in ByteAt(k + j, width))
               <=> \/ \E j \in 0..(n - 1) : b - j * 8 \in ByteAt(k + j, width)
                   \/ b - n * 8 \in ByteAt(k + n, width)
  <2>1. \A j : j \in 0..((n + 1) - 1) <=> j \in 0..(n - 1) \/ j = n
    OBVIOUS
  <2> QED
    BY <2>1, Zenon
<1>2. ASSUME NEW b \in bits
      PROVE  b \in ShiftLeft(ByteAt(k + n, width), n * 8)
               <=> b - n * 8 \in ByteAt(k + n, width)
  BY DEF ShiftLeft
<1> QED
  BY <1>1, <1>2 DEF Gathered

\* Nothing is gathered before the first byte is read.
LEMMA GatherNone ==
  ASSUME NEW k, NEW width, NEW bits PROVE Gathered(k, width, 0, bits) = {}
  BY DEF Gathered

LEMMA StepDecode == DecodeInv /\ [Next]_vars => DecodeInv'
<1> SUFFICES ASSUME DecodeInv, [Next]_vars PROVE DecodeInv'
  OBVIOUS
<1>0. TypeOK /\ PlaceInv /\ FieldInv
  BY DEF DecodeInv
<1>a. table' = table
  BY DEF Next, SkipHeader, ReadBase, ReadSeg, ReadBuses, vars
<1>b. \A k, width, n, bits : Gathered(k, width, n, bits)' = Gathered(k, width, n, bits)
  BY <1>a DEF Gathered, ByteAt
<1>c. \A k, width : ByteAt(k, width)' = ByteAt(k, width)
  BY <1>a DEF ByteAt
<1>1. CASE SkipHeader
  <2>1. /\ pc = "skip" /\ pc' = "base" /\ pos' = 44 /\ i' = 0 /\ base' = {}
        /\ seg' = {} /\ bus_start' = bus_start /\ bus_end' = bus_end
    BY <1>0, <1>1 DEF SkipHeader, HEADER, PlaceInv
  <2>2. FieldInv'
    BY <2>1, <1>b, GatherNone DEF FieldInv
  <2> QED
    BY <1>0, <1>a, <2>1, <2>2 DEF DecodeInv, TypeOK, PlaceInv
<1>2. CASE ReadBase
  <2>1. /\ pc = "base" /\ pos = 44 + i /\ i \in 0..7 /\ pos' = 44 + (i + 1)
        /\ base' = base \union ShiftLeft(ByteAt(44 + i, 64), i * 8)
        /\ seg' = {} /\ bus_start' = bus_start /\ bus_end' = bus_end
        /\ base = Gathered(44, 64, i, Word)
        /\ \/ i < 7 /\ i' = i + 1 /\ pc' = "base"
           \/ i = 7 /\ i' = 0 /\ pc' = "seg"
    BY <1>0, <1>2 DEF ReadBase, BASE_BYTES, PlaceInv, FieldInv, TypeOK
  <2>2. base' = Gathered(44, 64, i + 1, Word)
    <3>1. Gathered(44, 64, i + 1, Word)
            = (Gathered(44, 64, i, Word) \union ShiftLeft(ByteAt(44 + i, 64), i * 8))
                \intersect Word
      BY <2>1, GatherNext
    <3>2. /\ Gathered(44, 64, i, Word) \subseteq Word
          /\ ShiftLeft(ByteAt(44 + i, 64), i * 8) \subseteq Word
      BY DEF Gathered, ShiftLeft
    <3> QED
      BY <2>1, <3>1, <3>2
  <2>3. base' \subseteq Word
    BY <2>2 DEF Gathered
  <2>4. CASE i < 7 /\ i' = i + 1 /\ pc' = "base"
    BY <1>0, <1>a, <1>b, <2>1, <2>2, <2>3, <2>4
       DEF DecodeInv, TypeOK, PlaceInv, FieldInv
  <2>5. CASE i = 7 /\ i' = 0 /\ pc' = "seg"
    <3>1. base' = Gathered(44, 64, 8, Word)
      BY <2>2, <2>5
    <3> QED
      BY <1>0, <1>a, <1>b, <2>1, <2>3, <2>5, <3>1, GatherNone
         DEF DecodeInv, TypeOK, PlaceInv, FieldInv
  <2> QED
    BY <2>1, <2>4, <2>5
<1>3. CASE ReadSeg
  <2>1. /\ pc = "seg" /\ pos = 52 + i /\ i \in 0..1 /\ pos' = 52 + (i + 1)
        /\ seg' = (seg \union ShiftLeft(ByteAt(52 + i, 16), i * 8))
                    \intersect 0..15
        /\ base' = base /\ bus_start' = bus_start /\ bus_end' = bus_end
        /\ seg = Gathered(52, 16, i, 0..15)
        /\ base = Gathered(44, 64, 8, Word)
        /\ \/ i = 0 /\ i' = 1 /\ pc' = "seg"
           \/ i = 1 /\ i' = 0 /\ pc' = "buses"
    BY <1>0, <1>3 DEF ReadSeg, PlaceInv, FieldInv, TypeOK
  <2>2. seg' = Gathered(52, 16, i + 1, 0..15)
    <3>0. 0..15 \in SUBSET Word
      <4>1. \A x \in 0..15 : x \in 0..63
        OBVIOUS
      <4> QED
        BY <4>1, Zenon DEF Word
    <3>1. PICK bits \in SUBSET Word : bits = 0..15
      BY <3>0, Zenon
    <3>2. PICK n \in Nat : n = i
      BY <2>1
    <3>3. Gathered(52, 16, n + 1, bits)
            = (Gathered(52, 16, n, bits) \union ShiftLeft(ByteAt(52 + n, 16), n * 8))
                \intersect bits
      BY GatherNext
    <3> QED
      BY <2>1, <3>1, <3>2, <3>3
  <2>3. seg' \subseteq 0..15
    BY <2>1
  <2>4. CASE i = 0 /\ i' = 1 /\ pc' = "seg"
    <3>1. seg' = Gathered(52, 16, 1, 0..15)
      BY <2>2, <2>4
    <3> QED
      BY <1>0, <1>a, <1>b, <2>1, <2>3, <2>4, <3>1
         DEF DecodeInv, TypeOK, PlaceInv, FieldInv
  <2>5. CASE i = 1 /\ i' = 0 /\ pc' = "buses"
    <3>1. seg' = Gathered(52, 16, 2, 0..15)
      BY <2>2, <2>5
    <3> QED
      BY <1>0, <1>a, <1>b, <2>1, <2>3, <2>5, <3>1
         DEF DecodeInv, TypeOK, PlaceInv, FieldInv
  <2> QED
    BY <2>1, <2>4, <2>5
<1>4. CASE ReadBuses
  <2>1. /\ pc = "buses" /\ pos = 54 /\ pc' = "done" /\ pos' = 56
        /\ bus_start' = ByteAt(54, 8) /\ bus_end' = ByteAt(55, 8)
        /\ base' = base /\ seg' = seg /\ i' = i
    BY <1>0, <1>4 DEF ReadBuses, PlaceInv
  <2>2. bus_start' \in Byte /\ bus_end' \in Byte
    BY <1>0, <2>1, ByteType DEF TypeOK
  <2> QED
    BY <1>0, <1>a, <1>b, <1>c, <2>1, <2>2
       DEF DecodeInv, TypeOK, PlaceInv, FieldInv
<1>5. CASE UNCHANGED vars
  BY <1>0, <1>5, <1>b, <1>c DEF vars, DecodeInv, TypeOK, PlaceInv, FieldInv
<1> QED
  BY <1>1, <1>2, <1>3, <1>4, <1>5 DEF Next

LEMMA InitDecode == Init => DecodeInv
  BY TablesAssumption
     DEF TablesAssumption, Init, DecodeInv, TypeOK, PlaceInv, FieldInv, Byte

\* Type correctness: no field of the entry leaves its width, whatever the
\* table holds and wherever it ends.
THEOREM TypeCorrect == Spec => []TypeOK
<1>1. DecodeInv => TypeOK
  BY DEF DecodeInv
<1> QED
  BY <1>1, InitDecode, StepDecode, PTL DEF Spec

-----------------------------------------------------------------------------
\* Byte j holds bit b of a field exactly if it is byte b \div 8 and has bit
\* b % 8: the shifts of the other bytes miss b.
LEMMA ByteOfBit ==
  ASSUME NEW b \in Nat, NEW j \in Nat, NEW B \in SUBSET (0..7)
  PROVE  b - j * 8 \in B <=> j = b \div 8 /\ (b % 8) \in B
<1>1. /\ b = 8 * (b \div 8) + (b % 8) /\ (b % 8) \in 0..7 /\ b \div 8 \in Nat
  OBVIOUS
<1>2. CASE j = b \div 8
  <2>1. b - j * 8 = b % 8
    BY <1>1, <1>2
  <2> QED
    BY <1>2, <2>1
<1>3. CASE j # b \div 8
  <2>1. b - j * 8 \notin 0..7
    BY <1>1, <1>3
  <2> QED
    BY <1>3, <2>1
<1> QED
  BY <1>2, <1>3

\* A field whose bytes are all in the table is decoded bit by bit.
LEMMA GatherWhole ==
  ASSUME table \in Seq(Byte), NEW k \in Nat, NEW width, NEW n \in Nat,
         k + n <= Len(table), NEW b \in Nat, b \div 8 < n
  PROVE  (\E j \in 0..(n - 1) : b - j * 8 \in ByteAt(k + j, width)) <=> BitOf(k, b)
<1>1. ASSUME NEW j \in 0..(n - 1)
      PROVE  /\ ByteAt(k + j, width) = table[k + j + 1]
             /\ table[k + j + 1] \in SUBSET (0..7)
  <2>1. k + j < Len(table) /\ k + j + 1 \in 1..Len(table)
    OBVIOUS
  <2> QED
    BY <2>1, SMTT(30) DEF ByteAt, Byte
<1>2. ASSUME NEW j \in 0..(n - 1)
      PROVE  b - j * 8 \in ByteAt(k + j, width)
               <=> j = b \div 8 /\ (b % 8) \in table[k + j + 1]
  BY <1>1, ByteOfBit
<1>3. b \div 8 \in 0..(n - 1)
  OBVIOUS
<1> QED
  BY <1>2, <1>3 DEF BitOf

\* mcfg_r decodes the first entry of every table that is long enough to hold
\* it (user.cpp:46-65), low byte first.
THEOREM EntryIsDecoded == Spec => []EntryDecoded
<1>1. ASSUME DecodeInv PROVE EntryDecoded
  <2>0. TypeOK /\ FieldInv /\ table \in Seq(Byte) /\ Len(table) \in Nat
    BY <1>1 DEF DecodeInv, TypeOK
  <2>1. ASSUME pc = "done", Len(table) >= 52
        PROVE  base = {b \in Word : BitOf(44, b)}
    <3>1. base = Gathered(44, 64, 8, Word)
      BY <2>0, <2>1 DEF FieldInv
    <3>2. ASSUME NEW b \in Word
          PROVE  (\E j \in 0..(8 - 1) : b - j * 8 \in ByteAt(44 + j, 64))
                   <=> BitOf(44, b)
      <4>1. PICK n \in Nat : n = 8
        OBVIOUS
      <4>2. b \in Nat /\ b \div 8 < n /\ 44 \in Nat /\ 44 + n <= Len(table)
        BY <2>0, <2>1, <4>1 DEF Word
      <4>3. (\E j \in 0..(n - 1) : b - j * 8 \in ByteAt(44 + j, 64))
              <=> BitOf(44, b)
        BY <2>0, <4>2, GatherWhole
      <4> QED
        BY <4>1, <4>3
    <3> QED
      BY <3>1, <3>2 DEF Gathered
  <2>2. ASSUME pc = "done", Len(table) >= 56
        PROVE  /\ seg = {b \in 0..15 : BitOf(52, b)}
               /\ bus_start = table[55] /\ bus_end = table[56]
    <3>1. seg = Gathered(52, 16, 2, 0..15)
      BY <2>0, <2>2 DEF FieldInv
    <3>2. ASSUME NEW b \in 0..15
          PROVE  (\E j \in 0..(2 - 1) : b - j * 8 \in ByteAt(52 + j, 16))
                   <=> BitOf(52, b)
      <4>1. PICK n \in Nat : n = 2
        OBVIOUS
      <4>2. b \in Nat /\ b \div 8 < n /\ 52 \in Nat /\ 52 + n <= Len(table)
        BY <2>0, <2>2, <4>1
      <4>3. (\E j \in 0..(n - 1) : b - j * 8 \in ByteAt(52 + j, 16))
              <=> BitOf(52, b)
        BY <2>0, <4>2, GatherWhole
      <4> QED
        BY <4>1, <4>3
    <3>3. seg = {b \in 0..15 : BitOf(52, b)}
      BY <3>1, <3>2 DEF Gathered
    <3>4. bus_start = table[55] /\ bus_end = table[56]
      BY <2>0, <2>2, ByteType DEF FieldInv
    <3> QED
      BY <3>3, <3>4
  <2> QED
    BY <2>1, <2>2 DEF EntryDecoded
<1> QED
  BY <1>1, InitDecode, StepDecode, PTL DEF Spec

\* A table that ends within the base address shows: every bit from the first
\* missing byte up is set, and the bits below are the table's (user.cpp:49-52).
THEOREM ShortTablesShow == Spec => []ShortTableShows
<1>1. ASSUME DecodeInv PROVE ShortTableShows
  <2>0. FieldInv /\ table \in Seq(Byte) /\ Len(table) \in Nat
    BY <1>1 DEF DecodeInv, TypeOK
  <2> SUFFICES ASSUME pc = "done", Len(table) < 52, NEW b \in Word
               PROVE  b \in base <=> (44 + (b \div 8) < Len(table) => BitOf(44, b))
    BY DEF ShortTableShows
  <2> DEFINE d == b \div 8
  <2>1. /\ d \in 0..7 /\ b \in Nat /\ b = 8 * d + (b % 8) /\ (b % 8) \in 0..7
    BY DEF Word
  <2>2. b \in base <=> \E j \in 0..7 : b - j * 8 \in ByteAt(44 + j, 64)
    <3>1. b \in base
            <=> \E j \in 0..(8 - 1) : b - j * 8 \in ByteAt(44 + j, 64)
      BY <2>0 DEF FieldInv, Gathered
    <3>2. 0..(8 - 1) = 0..7
      OBVIOUS
    <3> QED
      BY <3>1, <3>2
  <2>3. CASE 44 + d < Len(table)
    <3>1. \A j \in 0..7 : j > d => b - j * 8 \notin 0..7 /\ b - j * 8 \notin 0..63
      BY <2>1
    <3>2. ASSUME NEW j \in 0..7, b - j * 8 \in ByteAt(44 + j, 64)
          PROVE  j \in 0..((d + 1) - 1)
      <4>1. ByteAt(44 + j, 64) \subseteq 0..63
        <5>1. CASE 44 + j < Len(table)
          <6>1. 44 + j + 1 \in 1..Len(table)
            BY <2>0, <5>1
          <6>2. table[44 + j + 1] \in SUBSET (0..7)
            BY <2>0, <6>1 DEF Byte
          <6>3. ByteAt(44 + j, 64) = table[44 + j + 1]
            BY <5>1 DEF ByteAt
          <6>4. \A x \in 0..7 : x \in 0..63
            OBVIOUS
          <6> QED
            BY <6>2, <6>3, <6>4
        <5>2. CASE ~(44 + j < Len(table))
          BY <5>2 DEF ByteAt
        <5> QED
          BY <5>1, <5>2
      <4>2. ~(j > d)
        BY <3>1, <3>2, <4>1
      <4> QED
        BY <2>1, <4>2
    <3>3. \A j \in 0..((d + 1) - 1) : j \in 0..7
      BY <2>1
    <3>4. (\E j \in 0..((d + 1) - 1) : b - j * 8 \in ByteAt(44 + j, 64))
            <=> BitOf(44, b)
      <4>1. d + 1 \in Nat /\ 44 + (d + 1) <= Len(table) /\ b \div 8 < d + 1
        BY <2>0, <2>1, <2>3
      <4> QED
        BY <2>0, <2>1, <4>1, GatherWhole, ZenonT(60)
    <3> QED
      BY <2>2, <2>3, <3>2, <3>3, <3>4
  <2>4. CASE ~(44 + d < Len(table))
    <3>1. ByteAt(44 + d, 64) = 0..63
      BY <2>4 DEF ByteAt
    <3>2. b - d * 8 \in 0..63
      BY <2>1
    <3> QED
      BY <2>1, <2>2, <2>4, <3>1, <3>2
  <2> QED
    BY <2>3, <2>4
<1> QED
  BY <1>1, InitDecode, StepDecode, PTL DEF Spec
=============================================================================
