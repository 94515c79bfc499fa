----------------------------- MODULE IommuRing ------------------------------
(***************************************************************************)
(* bust_open() of main.c against the running IOMMU.  Two rings are dumped, *)
(* the command buffer (the driver produces, the IOMMU consumes) and then   *)
(* the event log (the other way round).  For each, bust_open reads the     *)
(* base register, the tail register, the head register, then calls         *)
(* log_range on [base + head - HISTORY, base + tail), while both ends keep *)
(* moving.                                                                 *)
(*                                                                         *)
(* The unit is one 16-byte entry, since the pointer fields are bits 18:4.  *)
(* Entries are numbered from the start of time: T entries have been        *)
(* produced and H consumed, entry e lives in slot e % SIZE, and the        *)
(* registers show T % SIZE and H % SIZE.  Slots below 0 are the memory     *)
(* before the table: nothing in bust_open wraps around, although it reads  *)
(* the table's length.                                                     *)
(***************************************************************************)
EXTENDS IommuRegs

CONSTANTS
  SIZE,     \* entries of a ring: 512 on the dumped machine
  HISTORY,  \* entries shown before head: 256 in main.c
  Regs,     \* what a base register may hold
  MaxT      \* bound: entries ever produced in a ring

ASSUME RingAssumption ==
  /\ SIZE \in Nat \ {0}
  /\ HISTORY \in Nat
  /\ MaxT \in Nat
  /\ Regs \subseteq SUBSET Word

VARIABLES
  ring,    \* the ring bust_open is at
  T,       \* entries produced in it
  H,       \* entries consumed from it
  pc,      \* what bust_open does next: "base", "tail", "head", "dump", "done"
  reg,     \* the base register, as read
  base,    \* the table address taken from it
  tailAt,  \* T when the tail register was read
  headAt,  \* H when the head register was read
  dumped   \* the last call of log_range: its window and its outcome

bases == <<reg, base>>
vars == <<ring, T, H, pc, bases, tailAt, headAt, dumped>>

\* External: a ring's own rule.  Empty is T = H, so one slot stays free.
Running(h, t) == h <= t /\ t < h + SIZE /\ t <= MaxT

NoDump == [res |-> "none", start |-> 0, limit |-> 0, headAt |-> 0,
           tailAt |-> 0, until |-> 0]

Init ==
  /\ ring = "COM" /\ pc = "base" /\ reg = {} /\ base = {}
  /\ H \in 0..MaxT /\ T \in 0..MaxT /\ Running(H, T)
  /\ tailAt = 0 /\ headAt = 0
  /\ dumped = NoDump

\* External: the driver issues a command, or the IOMMU logs an event.
Produce ==
  /\ Running(H, T + 1)
  /\ T' = T + 1
  /\ UNCHANGED <<ring, H, pc, bases, tailAt, headAt, dumped>>

\* External: the IOMMU completes a command, or the driver handles an event.
Consume ==
  /\ H < T
  /\ H' = H + 1
  /\ UNCHANGED <<ring, T, pc, bases, tailAt, headAt, dumped>>

\* comBaseReg and eventLogBaseReg, masked differently.
ReadBase ==
  /\ pc = "base" /\ pc' = "tail"
  /\ reg' \in Regs
  /\ base' = IF ring = "COM" THEN comTblBase(reg') ELSE eventLogBase(reg')
  /\ dumped' = NoDump
  /\ UNCHANGED <<ring, T, H, tailAt, headAt>>

\* comTailReg and eventLogTailReg.
ReadTail ==
  /\ pc = "tail"
  /\ tailAt' = T /\ pc' = "head"
  /\ UNCHANGED <<ring, T, H, bases, headAt, dumped>>

\* Faulty variant: the head read for the first ring is used for both.
HeadReadOnce == IF ring = "COM" THEN H ELSE headAt

HeadRead == H

\* comHeadReg and eventLogHeadReg.
ReadHead ==
  /\ pc = "head"
  /\ headAt' = HeadRead /\ pc' = "dump"
  /\ UNCHANGED <<ring, T, H, bases, tailAt, dumped>>

\* Faulty variant: no history is asked for.
WindowStartAtHead == headAt % SIZE

\* The slots log_range is asked to dump: WindowStart up to WindowLimit - 1.
WindowStart == (headAt % SIZE) - HISTORY

\* Faulty variant: the slot the tail points at is included.
WindowLimitPastTail == (tailAt % SIZE) + 1

WindowLimit == tailAt % SIZE

\* BLOCK_BYTES, 32, in entries.
BLOCK_ENTRIES == 2

\* Bits 2:0 of the address log_range starts at: those of the base, since what
\* is added to it is whole entries and phys_to_virt moves whole pages.
Unaligned == base \intersect 0..2 # {}

\* Faulty variant: an empty window is refused too.
RefusedEmpty ==
  \/ WindowStart >= WindowLimit
  \/ Unaligned /\ WindowLimit - WindowStart >= BLOCK_ENTRIES

\* log_range prints an error and nothing else: "err:start > limit" (utils.c:52)
\* or, for a window that is not shorter than a block, "err:start not aligned"
\* (utils.c:70).
Refused ==
  \/ WindowStart > WindowLimit
  \/ Unaligned /\ WindowLimit - WindowStart >= BLOCK_ENTRIES

\* The call of log_range.  After the command buffer bust_open turns to the
\* event log, which has been running all the time.
Dump ==
  /\ pc = "dump"
  /\ dumped' = [res |-> IF Refused THEN "err" ELSE "ok",
                start |-> WindowStart, limit |-> WindowLimit,
                headAt |-> headAt, tailAt |-> tailAt, until |-> T]
  /\ \/ /\ ring = "COM" /\ ring' = "EVNT" /\ pc' = "base"
        /\ H' \in 0..MaxT /\ T' \in 0..MaxT /\ Running(H', T')
     \/ /\ ring = "EVNT" /\ pc' = "done"
        /\ UNCHANGED <<ring, H, T>>
  /\ UNCHANGED <<bases, tailAt, headAt>>

Next == Produce \/ Consume \/ ReadBase \/ ReadTail \/ ReadHead \/ Dump

Spec == Init /\ [][Next]_vars
-----------------------------------------------------------------------------
TypeOK ==
  /\ H \in 0..MaxT /\ T \in 0..MaxT /\ Running(H, T)
  /\ ring \in {"COM", "EVNT"} /\ pc \in {"base", "tail", "head", "dump", "done"}
  /\ reg \subseteq Word /\ base \subseteq Word
  /\ tailAt \in 0..MaxT /\ headAt \in 0..MaxT
  /\ dumped \in [res : {"none", "ok", "err"},
                 start : (-HISTORY)..(SIZE - 1), limit : 0..(SIZE - 1),
                 headAt : 0..MaxT, tailAt : 0..MaxT, until : 0..MaxT]

\* The newest of the first t entries in slot s, or a negative number.
Newest(s, t) ==
  IF t <= s THEN -1 ELSE s + SIZE * ((t - 1 - s) \div SIZE)

\* Head and tail were read in the same turn of the ring.
SameLap(d) == d.headAt \div SIZE = d.tailAt \div SIZE

(***************************************************************************)
(* What the dump is for: if head and tail lie in the same turn, the window *)
(* covers every entry still pending when the head was read that had been   *)
(* produced when the tail was, and the HISTORY entries consumed last, as   *)
(* far back as the turn goes (main.c:152-161 and 180-189).                 *)
(***************************************************************************)
ShowsRecent ==
  dumped.res = "ok" /\ SameLap(dumped) =>
    \A e \in (dumped.headAt - HISTORY)..(dumped.tailAt - 1) :
      e \div SIZE = dumped.headAt \div SIZE =>
        dumped.start <= e % SIZE /\ e % SIZE < dumped.limit

(***************************************************************************)
(* What looks pending is pending: a slot between the two pointers holds no *)
(* entry consumed before the head was read, unless the consumer passed the *)
(* stale tail between the two register reads (tail is read first,          *)
(* main.c:152-158).                                                        *)
(***************************************************************************)
PendingReal ==
  dumped.res = "ok" /\ dumped.headAt <= dumped.tailAt =>
    \A s \in (dumped.headAt % SIZE)..(dumped.limit - 1) :
      Newest(s, dumped.until) >= dumped.headAt

(***************************************************************************)
(* A dump is refused for three reasons only: the ring wrapped between head *)
(* and tail; the consumer got more than HISTORY entries past the stale     *)
(* tail while bust_open went from one register to the other; or it is the  *)
(* event log's, and its base register has one of bits 2:0 set, which line  *)
(* 172 takes for address bits.  Those bits of the command buffer's base    *)
(* register never cost a dump (utils.c:52, 70; main.c:139, 160, 188).      *)
(***************************************************************************)
RefusedOnlyIf ==
  dumped.res = "err" =>
    \/ ~SameLap(dumped)
    \/ dumped.headAt > dumped.tailAt + HISTORY
    \/ pc = "done" /\ reg \intersect 0..2 # {}

(***************************************************************************)
(* The two reads bracket: a head is never a turn or more behind the tail   *)
(* it is used with, because it is read later and from the same ring.       *)
(***************************************************************************)
HeadNotOlder ==
  /\ pc = "head" => tailAt < H + SIZE
  /\ dumped.res # "none" =>
       /\ dumped.tailAt < dumped.headAt + SIZE
       /\ dumped.headAt <= dumped.until

(***************************************************************************)
(* The window lies in the ring's own table: the base is bits 51:12 of the  *)
(* register (main.c:139 and 167), for the command buffer whatever else the *)
(* register holds, for the event log, which is masked with bits 50:0       *)
(* (line 172), as long as bits 11:0 and 51 are clear.                      *)
(***************************************************************************)
BaseDecoded ==
  pc # "base" /\ (ring = "EVNT" => reg \intersect (0..11 \union {51}) = {}) =>
    base = reg \intersect 12..51
=============================================================================
