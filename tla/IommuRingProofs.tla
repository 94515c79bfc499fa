-------------------------- MODULE IommuRingProofs ---------------------------
(***************************************************************************)
(* Proofs about IommuRing, for every ring size and every amount of         *)
(* history.                                                                *)
(***************************************************************************)
EXTENDS IommuRing, TLAPS

\* Quotient and remainder, for a ring size.
LEMMA DivMod ==
  ASSUME NEW x \in Int
  PROVE  /\ x = SIZE * (x \div SIZE) + (x % SIZE)
         /\ x % SIZE \in 0..(SIZE - 1)
         /\ x \div SIZE \in Int
  BY RingAssumption DEF RingAssumption

\* Within one turn of the ring, slots differ as entry numbers do.
LEMMA SameTurn ==
  ASSUME NEW x \in Int, NEW y \in Int, x \div SIZE = y \div SIZE
  PROVE  (x % SIZE) - (y % SIZE) = x - y
<1> DEFINE q == SIZE * (x \div SIZE)
<1>1. x = q + (x % SIZE) /\ y = q + (y % SIZE)
  BY DivMod
<1>2. q \in Int /\ x % SIZE \in Int /\ y % SIZE \in Int
  BY DivMod, RingAssumption DEF RingAssumption
<1> HIDE DEF q
<1> QED
  BY <1>1, <1>2

\* A multiple of the ring size that fits into x fits into its quotient.
LEMMA DivAtLeast ==
  ASSUME NEW x \in Int, NEW k \in Int, SIZE * k <= x
  PROVE  k <= x \div SIZE
<1> DEFINE q == x \div SIZE
<1>1. SIZE \in Nat \ {0}
  BY RingAssumption DEF RingAssumption
<1>2. q \in Int /\ x < SIZE * q + SIZE
  BY <1>1, DivMod
<1> HIDE DEF q
<1>3. SIZE * (k - q) < SIZE
  BY <1>1, <1>2
<1>4. k - q >= 1 => SIZE * (k - q) >= SIZE
  BY <1>1, <1>2
<1>5. k <= q
  BY <1>1, <1>2, <1>3, <1>4
<1> QED
  BY <1>5 DEF q

-----------------------------------------------------------------------------
\* The two shifts of utils.h:46 meet in exactly the bits of the field, for
\* every field a 64-bit register can have; for start > end the mask is empty.
THEOREM GetMaskExact ==
  \A start, end \in Word : GET_MASK(start, end) = start..end
<1> SUFFICES ASSUME NEW start \in Word, NEW end \in Word
             PROVE  GET_MASK(start, end) = start..end
  OBVIOUS
<1>1. \A b \in Word : b \in ShiftLeft(Word, start) <=> start <= b
  BY DEF ShiftLeft, Word
<1>2. \A b \in Word : b \in ShiftRight(Word, 64 - end - 1) <=> b <= end
  BY DEF ShiftRight, Word
<1>3. ShiftLeft(Word, start) \subseteq Word
  BY DEF ShiftLeft
<1>4. start..end \subseteq Word
  BY DEF Word
<1>5. \A b \in Word : b \in start..end <=> start <= b /\ b <= end
  BY DEF Word
<1> QED
  BY <1>1, <1>2, <1>3, <1>4, <1>5 DEF GET_MASK

\* A ring pointer is bits 18:4 of its register (main.c:153-158, 181-186): a
\* whole number of 16-byte entries, so log_range is never given a limit
\* between two quad words.
THEOREM RingPtrField ==
  ASSUME NEW r \in SUBSET Word PROVE RingPtr(r) = r \intersect 4..18
<1>1. GET_MASK(4, 18) = 4..18
  <2>1. 4 \in Word /\ 18 \in Word
    BY SMT DEF Word
  <2> QED
    BY <2>1, GetMaskExact
<1> QED
  BY <1>1 DEF RingPtr
-----------------------------------------------------------------------------
\* Entries are consumed no faster than produced, and a ring is never full.
LEMMA InitType == Init => TypeOK
  BY RingAssumption DEF RingAssumption, Init, TypeOK, NoDump

\* The window of a dump: its start may precede the table, its limit not.
LEMMA WindowType ==
  ASSUME TypeOK
  PROVE  WindowStart \in (-HISTORY)..(SIZE - 1) /\ WindowLimit \in 0..(SIZE - 1)
<1>1. headAt \in Nat /\ tailAt \in Nat /\ SIZE \in Nat /\ HISTORY \in Nat
  BY RingAssumption DEF RingAssumption, TypeOK
<1>2. headAt % SIZE \in 0..(SIZE - 1) /\ tailAt % SIZE \in 0..(SIZE - 1)
  BY <1>1, DivMod
<1> QED
  BY <1>1, <1>2 DEF WindowStart, WindowLimit

LEMMA StepType == TypeOK /\ [Next]_vars => TypeOK'
<1> SUFFICES ASSUME TypeOK, [Next]_vars PROVE TypeOK'
  OBVIOUS
<1> USE RingAssumption DEF RingAssumption
<1>1. CASE Produce
  BY <1>1 DEF Produce, bases, TypeOK, Running
<1>2. CASE Consume
  BY <1>2 DEF Consume, bases, TypeOK, Running
<1>3. CASE ReadTail
  BY <1>3 DEF ReadTail, bases, TypeOK
<1>7. CASE ReadBase
  <2>1. reg' \subseteq Word /\ base' \subseteq Word
    BY <1>7 DEF ReadBase, comTblBase, eventLogBase
  <2> QED
    BY <1>7, <2>1 DEF ReadBase, TypeOK, NoDump
<1>4. CASE ReadHead
  BY <1>4 DEF ReadHead, HeadRead, bases, TypeOK
<1>5. CASE Dump
  <2>1. /\ H' \in 0..MaxT /\ T' \in 0..MaxT /\ Running(H', T')
        /\ ring' \in {"COM", "EVNT"} /\ pc' \in {"base", "done"}
        /\ UNCHANGED <<reg, base, tailAt, headAt>>
    BY <1>5 DEF Dump, bases, TypeOK
  <2>2. dumped' = [res |-> IF Refused THEN "err" ELSE "ok",
                   start |-> WindowStart, limit |-> WindowLimit,
                   headAt |-> headAt, tailAt |-> tailAt, until |-> T]
    BY <1>5 DEF Dump
  <2>3. dumped' \in [res : {"none", "ok", "err"},
                     start : (-HISTORY)..(SIZE - 1), limit : 0..(SIZE - 1),
                     headAt : 0..MaxT, tailAt : 0..MaxT, until : 0..MaxT]
    BY <2>2, WindowType DEF TypeOK
  <2> QED
    BY <2>1, <2>3 DEF TypeOK
<1>6. CASE UNCHANGED vars
  BY <1>6 DEF vars, bases, TypeOK
<1> QED
  BY <1>1, <1>2, <1>3, <1>4, <1>5, <1>6, <1>7 DEF Next

\* The dumped window stays in the table but for HISTORY entries before it.
THEOREM TypeCorrect == Spec => []TypeOK
<1> QED
  BY InitType, StepType, PTL DEF Spec

-----------------------------------------------------------------------------
(***************************************************************************)
(* The reads in flight: what tailAt and headAt mean until Dump uses them.  *)
(* With it HeadNotOlder is inductive.                                      *)
(***************************************************************************)
ReadsInv ==
  /\ pc \in {"head", "dump"} => tailAt <= T
  /\ pc = "dump" => headAt <= H /\ tailAt < headAt + SIZE

BracketInv == ReadsInv /\ HeadNotOlder

LEMMA StepBracket == TypeOK /\ BracketInv /\ [Next]_vars => BracketInv'
<1> SUFFICES ASSUME TypeOK, BracketInv, [Next]_vars PROVE BracketInv'
  OBVIOUS
<1> USE RingAssumption
    DEF RingAssumption, TypeOK, Running, BracketInv, ReadsInv, HeadNotOlder
<1>1. CASE Produce
  BY <1>1 DEF Produce
<1>2. CASE Consume
  BY <1>2 DEF Consume
<1>3. CASE ReadTail
  BY <1>3 DEF ReadTail
<1>4. CASE ReadHead
  BY <1>4 DEF ReadHead, HeadRead
<1>7. CASE ReadBase
  BY <1>7 DEF ReadBase, NoDump
<1>5. CASE Dump
  <2>1. /\ dumped'.tailAt = tailAt /\ dumped'.headAt = headAt
        /\ dumped'.until = T
        /\ pc' \in {"base", "done"}
    BY <1>5 DEF Dump
  <2>2. headAt <= H /\ tailAt < headAt + SIZE
    BY <1>5 DEF Dump
  <2> QED
    BY <2>1, <2>2
<1>6. CASE UNCHANGED vars
  BY <1>6 DEF vars
<1> QED
  BY <1>1, <1>2, <1>3, <1>4, <1>5, <1>6, <1>7 DEF Next

\* Whatever driver and IOMMU do between the two register reads, the head is
\* less than a turn behind the tail it is used with (main.c:152-158).
THEOREM ReadsBracket == Spec => []HeadNotOlder
<1>1. Init => BracketInv
  BY DEF Init, BracketInv, ReadsInv, HeadNotOlder, NoDump
<1>2. BracketInv => HeadNotOlder
  BY DEF BracketInv
<1> QED
  BY <1>1, <1>2, InitType, StepType, StepBracket, PTL DEF Spec

-----------------------------------------------------------------------------
\* base is what bust_open computes from the register it read.
BaseInv ==
  pc # "base" =>
    base = IF ring = "COM" THEN comTblBase(reg) ELSE eventLogBase(reg)

LEMMA StepBase == BaseInv /\ [Next]_vars => BaseInv'
<1> SUFFICES ASSUME BaseInv, [Next]_vars PROVE BaseInv'
  OBVIOUS
<1>1. CASE Dump
  BY <1>1 DEF Dump, bases, BaseInv
<1>2. CASE ReadBase
  BY <1>2 DEF ReadBase, BaseInv
<1>3. CASE Produce \/ Consume \/ ReadTail \/ ReadHead \/ UNCHANGED vars
  BY <1>3 DEF Produce, Consume, ReadTail, ReadHead, vars, bases, BaseInv
<1> QED
  BY <1>1, <1>2, <1>3 DEF Next

\* The command buffer's address is bits 51:12 of its register.
LEMMA ComTblBaseField ==
  ASSUME NEW r \in SUBSET Word PROVE comTblBase(r) = r \intersect 12..51
<1>1. 12 \in Word /\ 51 \in Word
  BY SMT DEF Word
<1>2. GET_MASK(12, 51) = 12..51
  BY <1>1, GetMaskExact
<1> QED
  BY <1>2 DEF comTblBase

\* Only the event log's address can have one of bits 2:0, and then its
\* register does.
LEMMA LowBitsOfEventLog ==
  ASSUME TypeOK, BaseInv, pc = "dump", Unaligned
  PROVE  ring = "EVNT" /\ reg \intersect 0..2 # {}
<1>1. PICK b \in base : b \in 0..2
  BY DEF Unaligned
<1>2. CASE ring = "COM"
  <2>1. base = reg \intersect 12..51
    BY <1>2, ComTblBaseField DEF BaseInv, TypeOK
  <2>2. b \in 12..51 /\ b \in 0..2
    BY <1>1, <2>1
  <2> QED
    BY <2>2
<1>3. CASE ring = "EVNT"
  <2>1. base \subseteq reg
    BY <1>3 DEF BaseInv, eventLogBase
  <2> QED
    BY <1>1, <1>3, <2>1
<1> QED
  BY <1>2, <1>3 DEF TypeOK

-----------------------------------------------------------------------------
\* dumped records what WindowStart, WindowLimit and Refused said.
RecordInv ==
  dumped.res # "none" =>
    /\ dumped.start = (dumped.headAt % SIZE) - HISTORY
    /\ dumped.limit = dumped.tailAt % SIZE
    /\ dumped.res = "err" =>
         dumped.start > dumped.limit \/ (pc = "done" /\ reg \intersect 0..2 # {})

LEMMA StepRecord ==
  TypeOK /\ BaseInv /\ RecordInv /\ [Next]_vars => RecordInv'
<1> SUFFICES ASSUME TypeOK, BaseInv, RecordInv, [Next]_vars PROVE RecordInv'
  OBVIOUS
<1>1. CASE Dump
  <2>1. /\ dumped'.res = (IF Refused THEN "err" ELSE "ok")
        /\ dumped'.headAt = headAt /\ dumped'.tailAt = tailAt
        /\ dumped'.start = WindowStart /\ dumped'.limit = WindowLimit
        /\ pc = "dump" /\ reg' = reg /\ (ring = "EVNT" => pc' = "done")
    BY <1>1 DEF Dump, bases
  <2>2. Unaligned => pc' = "done" /\ reg' \intersect 0..2 # {}
    BY <2>1, LowBitsOfEventLog
  <2>3. Refused => \/ WindowStart > WindowLimit
                   \/ pc' = "done" /\ reg' \intersect 0..2 # {}
    BY <2>2 DEF Refused
  <2> QED
    BY <2>1, <2>3 DEF RecordInv, WindowStart, WindowLimit
<1>2. CASE Produce \/ Consume \/ UNCHANGED vars
  BY <1>2 DEF Produce, Consume, vars, bases, RecordInv
<1>3. CASE ReadTail \/ ReadHead
  BY <1>3 DEF ReadTail, ReadHead, RecordInv
<1>4. CASE ReadBase
  BY <1>4 DEF ReadBase, NoDump, RecordInv
<1> QED
  BY <1>1, <1>2, <1>3, <1>4 DEF Next

\* log_range refuses a ring (utils.c:52 and 70) only if it wrapped or was
\* consumed more than HISTORY entries past a stale tail, or if the event log's
\* base register has one of bits 2:0 set, which its mask lets through
\* (main.c:172); never for what else the command buffer's register holds.
THEOREM RefusalExplained == Spec => []RefusedOnlyIf
<1>1. Init => BaseInv /\ RecordInv
  BY DEF Init, BaseInv, RecordInv, NoDump
<1>2. TypeOK /\ RecordInv => RefusedOnlyIf
  <2> SUFFICES ASSUME TypeOK, RecordInv, dumped.res = "err", SameLap(dumped),
                      ~(pc = "done" /\ reg \intersect 0..2 # {})
               PROVE  dumped.headAt > dumped.tailAt + HISTORY
    BY DEF RefusedOnlyIf
  <2> DEFINE h == dumped.headAt
             t == dumped.tailAt
  <2>1. h \in Nat /\ t \in Nat /\ HISTORY \in Nat
    BY RingAssumption DEF RingAssumption, TypeOK
  <2>2. (h % SIZE) - (t % SIZE) = h - t
    BY <2>1, SameTurn DEF SameLap
  <2>3. (h % SIZE) - HISTORY > t % SIZE
    BY DEF RecordInv
  <2>4. h % SIZE \in Int /\ t % SIZE \in Int
    BY <2>1, DivMod
  <2> HIDE DEF h, t
  <2>5. h > t + HISTORY
    BY <2>1, <2>2, <2>3, <2>4
  <2> QED
    BY <2>5 DEF h, t
<1> QED
  BY <1>1, <1>2, InitType, StepType, StepBase, StepRecord, PTL DEF Spec

\* If head and tail were read in one turn of the ring, the window holds every
\* pending entry and the history asked for, as far as that turn goes back
\* (main.c:160 and 188), whatever happens between and after the reads.
THEOREM WindowShowsRecent == Spec => []ShowsRecent
<1>1. Init => BaseInv /\ RecordInv
  BY DEF Init, BaseInv, RecordInv, NoDump
<1>2. TypeOK /\ RecordInv => ShowsRecent
  <2> DEFINE h == dumped.headAt
             t == dumped.tailAt
  <2> SUFFICES ASSUME TypeOK, RecordInv, dumped.res = "ok",
                      h \div SIZE = t \div SIZE,
                      NEW e \in (h - HISTORY)..(t - 1),
                      e \div SIZE = h \div SIZE
               PROVE  dumped.start <= e % SIZE /\ e % SIZE < dumped.limit
    BY DEF ShowsRecent, SameLap
  <2>1. h \in Int /\ t \in Int /\ HISTORY \in Nat
    BY RingAssumption DEF RingAssumption, TypeOK
  <2>2. /\ dumped.start = (h % SIZE) - HISTORY
        /\ dumped.limit = t % SIZE
    BY DEF RecordInv
  <2> HIDE DEF h, t
  <2>3. e \in Int /\ h - HISTORY <= e /\ e < t
    BY <2>1
  <2>4. (e % SIZE) - (h % SIZE) = e - h /\ (e % SIZE) - (t % SIZE) = e - t
    BY <2>1, <2>3, SameTurn
  <2>5. e % SIZE \in Int /\ h % SIZE \in Int /\ t % SIZE \in Int
    BY <2>1, <2>3, DivMod
  <2> QED
    BY <2>1, <2>2, <2>3, <2>4, <2>5
<1> QED
  BY <1>1, <1>2, InitType, StepType, StepBase, StepRecord, PTL DEF Spec

-----------------------------------------------------------------------------
\* The tail a dump used had been produced when the dump was made.
ProducedInv ==
  /\ pc \in {"head", "dump"} => tailAt <= T
  /\ dumped.res # "none" => dumped.tailAt <= dumped.until

LEMMA StepProduced == TypeOK /\ ProducedInv /\ [Next]_vars => ProducedInv'
<1> SUFFICES ASSUME TypeOK, ProducedInv, [Next]_vars PROVE ProducedInv'
  OBVIOUS
<1> USE DEF ProducedInv, TypeOK
<1>1. CASE Dump
  <2>1. dumped'.tailAt = tailAt /\ dumped'.until = T /\ pc' \in {"base", "done"}
    BY <1>1 DEF Dump
  <2> QED
    BY <1>1, <2>1 DEF Dump
<1>2. CASE ReadBase
  BY <1>2 DEF ReadBase, NoDump
<1>3. CASE Produce \/ Consume \/ ReadTail \/ ReadHead \/ UNCHANGED vars
  BY <1>3 DEF Produce, Consume, ReadTail, ReadHead, vars
<1> QED
  BY <1>1, <1>2, <1>3 DEF Next

(***************************************************************************)
(* Within one dump: head h, tail t and u entries produced by the end.  A   *)
(* slot between the two pointers exists only if they lie in one turn, and  *)
(* the entry of that turn in it is at or after h.                          *)
(***************************************************************************)
LEMMA BetweenPointers ==
  ASSUME NEW h \in Nat, NEW t \in Nat, NEW u \in Nat, NEW s \in Nat,
         h <= t, t < h + SIZE, t <= u, h % SIZE <= s, s < t % SIZE
  PROVE  Newest(s, u) >= h
<1> DEFINE q == h \div SIZE
           p == t \div SIZE
           x == h % SIZE
           y == t % SIZE
<1>1. SIZE \in Nat \ {0}
  BY RingAssumption DEF RingAssumption
<1>2. /\ h = SIZE * q + x /\ t = SIZE * p + y
      /\ x \in 0..(SIZE - 1) /\ y \in 0..(SIZE - 1)
      /\ q \in Int /\ p \in Int
  BY <1>1, DivMod
<1>3. x <= s /\ s < y
  OBVIOUS
<1> HIDE DEF q, p, x, y
<1>4. SIZE * (p - q) < SIZE /\ SIZE * (p - q) > -SIZE
  BY <1>1, <1>2, <1>3
<1>5. p - q >= 1 => SIZE * (p - q) >= SIZE
  BY <1>1, <1>2
<1>6. p - q <= -1 => SIZE * (p - q) <= -SIZE
  BY <1>1, <1>2
<1>7. p = q
  BY <1>1, <1>2, <1>4, <1>5, <1>6
<1> DEFINE m == SIZE * q
<1>8. m \in Int /\ h = m + x /\ t = m + y
  BY <1>1, <1>2, <1>7
<1>9. q >= 0
  <2>1. q <= -1 => SIZE * q <= -SIZE
    BY <1>1, <1>2
  <2> QED
    BY <1>1, <1>2, <2>1
<1>10. m >= 0
  BY <1>1, <1>2, <1>9
<1> HIDE DEF m
<1>11. m <= u - 1 - s /\ s < u
  BY <1>2, <1>3, <1>8, <1>10
<1> DEFINE k == (u - 1 - s) \div SIZE
<1>12. q <= k
  BY <1>1, <1>2, <1>11, DivAtLeast DEF m
<1>13. k \in Int
  BY <1>1, DivMod
<1> HIDE DEF k
<1>14. SIZE * (k - q) >= 0
  BY <1>1, <1>2, <1>12, <1>13
<1>15. s + SIZE * k >= h
  <2>1. SIZE * k >= m
    BY <1>1, <1>2, <1>13, <1>14 DEF m
  <2> QED
    BY <1>1, <1>2, <1>3, <1>8, <1>13, <2>1
<1> QED
  BY <1>11, <1>15 DEF Newest, k

\* What looks pending in a dump is pending, unless the consumer passed the
\* stale tail between the two register reads (main.c:152-158).
THEOREM PendingIsReal == Spec => []PendingReal
<1>1. Init => BracketInv /\ BaseInv /\ RecordInv /\ ProducedInv
  BY DEF Init, BracketInv, ReadsInv, HeadNotOlder, BaseInv, RecordInv,
         ProducedInv, NoDump
<1>2. TypeOK /\ BracketInv /\ RecordInv /\ ProducedInv => PendingReal
  <2> SUFFICES ASSUME TypeOK, BracketInv, RecordInv, ProducedInv,
                      dumped.res = "ok", dumped.headAt <= dumped.tailAt,
                      NEW s \in (dumped.headAt % SIZE)..(dumped.limit - 1)
               PROVE  Newest(s, dumped.until) >= dumped.headAt
    BY DEF PendingReal
  <2>1. dumped.headAt \in Nat /\ dumped.tailAt \in Nat /\ dumped.until \in Nat
    BY DEF TypeOK
  <2>2. dumped.headAt % SIZE \in Nat /\ dumped.tailAt % SIZE \in Nat
    BY <2>1, DivMod
  <2>3. dumped.limit = dumped.tailAt % SIZE
    BY DEF RecordInv
  <2>4. s \in Nat /\ dumped.headAt % SIZE <= s /\ s < dumped.tailAt % SIZE
    BY <2>2, <2>3
  <2>5. dumped.tailAt < dumped.headAt + SIZE /\ dumped.tailAt <= dumped.until
    BY DEF BracketInv, HeadNotOlder, ProducedInv
  <2> QED
    BY <2>1, <2>4, <2>5, BetweenPointers
<1> QED
  BY <1>1, <1>2, InitType, StepType, StepBracket, StepBase, StepRecord,
     StepProduced, PTL DEF Spec

-----------------------------------------------------------------------------
\* Whatever the base registers hold, the command buffer's address is the
\* documented field, and the event log's is unless bits 11:0 or 51 are set.
THEOREM BasesDecoded == Spec => []BaseDecoded
<1>1. Init => BaseInv
  BY DEF Init, BaseInv
<1>2. TypeOK /\ BaseInv => BaseDecoded
  <2> SUFFICES ASSUME TypeOK, BaseInv, pc # "base",
                      ring = "EVNT" => reg \intersect (0..11 \union {51}) = {}
               PROVE  base = reg \intersect 12..51
    BY DEF BaseDecoded
  <2>1. CASE ring = "COM"
    BY <2>1, ComTblBaseField DEF BaseInv, TypeOK
  <2>2. CASE ring = "EVNT"
    <3>1. base = reg \intersect {b \in Word : b < 51}
      BY <2>2 DEF BaseInv, eventLogBase
    <3>2. \A b \in reg : b \in Word /\ b \notin 0..11 /\ b # 51
      BY <2>2 DEF TypeOK
    <3>3. \A b \in reg : b < 51 <=> b \in 12..51
      BY <3>2 DEF Word
    <3> QED
      BY <3>1, <3>2, <3>3
  <2> QED
    BY <2>1, <2>2 DEF TypeOK
<1> QED
  BY <1>1, <1>2, InitType, StepType, StepBase, PTL DEF Spec
=============================================================================
