------------------------------- MODULE Buster -------------------------------
(***************************************************************************)
(* buster_ini() of main.c and the functions under it: for every root       *)
(* complex it maps the IOMMU function's configuration page (map_conf),     *)
(* walks the capability list to dump it (get_cap_space), walks it a second *)
(* time to find IOMMU capability blocks (get_iommu_regs), maps the         *)
(* registers of the enabled ones, hands each mapping it has not seen to    *)
(* bust_open, and finally unmaps everything (freeall) and makes insmod     *)
(* fail on purpose.                                                        *)
(*                                                                         *)
(* A configuration page is the 4096 bytes the device answers with, and the *)
(* code's own offsets are kept.  A virtual address is a number, 0 being    *)
(* NULL; ioremap either fails or returns an address it has never returned  *)
(* before, since nothing is unmapped until freeall.  A physical base is    *)
(* the eight bytes it is read from.  What log_range and bust_open print is *)
(* the subject of LogRange and IommuRing; here their calls are recorded in *)
(* walked and opened.                                                      *)
(***************************************************************************)
EXTENDS Integers, Sequences, FiniteSets

CONSTANTS
  NMIOMMU,  \* buses probed: 4 in main.c
  N_VADDR,  \* slots of vaddrs: 50 in utils.h
  Devices,  \* what can answer configuration reads on a bus
  Conf      \* the configuration page of each device

Page == 4096
Byte == 0..255

ASSUME BusterAssumption ==
  /\ NMIOMMU \in Nat \ {0}
  /\ N_VADDR \in Nat \ {0}
  /\ Conf \in [Devices -> [0..(Page - 1) -> Byte]]

NULL == 0

\* Slots of seen_iommu_regs.
SEEN == NMIOMMU * 4

Buses == 0..(NMIOMMU - 1)

VARIABLES
  pc,        \* where buster_ini is
  bus,       \* i, the index into busnums
  conf,      \* the device behind each bus
  cur,       \* cap_ptr, as an offset into the configuration page
  first,     \* cap_ptr_init, likewise
  vaddrs,    \* table of the mappings to release
  idx,       \* next free slot of vaddrs
  live,      \* mappings that exist
  nva,       \* the next address ioremap returns
  seen,      \* seen_iommu_regs
  seen_idx,  \* seen_iommu_regs_idx
  walked,    \* history: offsets get_cap_space dumped, per bus
  probed,    \* history: offsets given to get_iommu_regs, per bus
  opened,    \* history: the calls of bust_open on a mapping
  overrun,   \* history: vaddrs was written past its end
  lost       \* history: get_mapping returned NULL

walk == <<bus, cur, first>>
maps == <<vaddrs, idx, live, nva, overrun, lost>>
regs == <<seen, seen_idx, opened>>
vars == <<pc, conf, walk, maps, regs, walked, probed>>

Init ==
  /\ pc = "map" /\ bus = 0
  /\ conf \in [Buses -> Devices]
  /\ cur = 0 /\ first = 0
  /\ vaddrs = [s \in 0..(N_VADDR - 1) |-> NULL] /\ idx = 0
  /\ live = {} /\ nva = N_VADDR + 1
  /\ seen = [s \in 0..(SEEN - 1) |-> 0] /\ seen_idx = 0
  /\ walked = [b \in Buses |-> {}]
  /\ probed = [b \in Buses |-> {}]
  /\ opened = << >>
  /\ overrun = FALSE /\ lost = FALSE

-----------------------------------------------------------------------------
(***************************************************************************)
(* get_mapping (utils.c:151-161) returning va.  The guard lets idx =       *)
(* N_VADDR through: that write goes to the word after vaddrs, which is idx *)
(* itself or log_buffer depending on how the build lays out the two.       *)
(***************************************************************************)
get_mapping(va) ==
  /\ va \in (IF idx > N_VADDR THEN {NULL} ELSE {NULL, nva})
  /\ lost' = (lost \/ va = NULL)
  /\ IF idx > N_VADDR
     THEN UNCHANGED <<vaddrs, idx, live, nva, overrun>>
     ELSE /\ nva' = nva + 1
          /\ live' = live \union ({va} \ {NULL})
          /\ vaddrs' = [vaddrs EXCEPT ![idx] = va]
          /\ overrun' = (overrun \/ idx = N_VADDR)
          /\ idx' \in {idx + 1} \union (IF idx = N_VADDR THEN {va + 1} ELSE {})

\* Faulty variants: the pointer is not masked to its low byte, or the byte is
\* taken for a signed one.
PtrAtUnmasked(d, o) == Conf[d][o] + 256 * Conf[d][o + 1]
PtrAtSigned(d, o) == Conf[d][o] - (IF Conf[d][o] > 127 THEN 256 ELSE 0)

\* A next-capability pointer: a dword read at o, masked with 0xff.
PtrAt(d, o) == Conf[d][o]

\* Lines 26-37, 46-57 and 209-212: map the page, fetch the list head.
MapConf ==
  /\ pc = "map" /\ bus < NMIOMMU
  /\ \E va \in {NULL, nva} :
       /\ get_mapping(va)
       /\ IF va = NULL
          THEN bus' = bus + 1 /\ UNCHANGED <<pc, cur, first>>
          ELSE /\ cur' = PtrAt(conf[bus], 52)
               /\ first' = cur' /\ pc' = "caps"
               /\ UNCHANGED bus
  /\ UNCHANGED <<conf, regs, walked, probed>>

\* Faulty variant: the next pointer is always read from the list's head.
LinkOfHead == first + 1

\* Where the block cap_ptr stands on keeps its next pointer, line 64.
Link == cur + 1

\* Lines 59-68: dump the block and follow its next pointer.
CapStep ==
  /\ pc = "caps" /\ cur # 0
  /\ walked' = [walked EXCEPT ![bus] = @ \union {cur}]
  /\ cur' = PtrAt(conf[bus], Link)
  /\ UNCHANGED <<pc, bus, first, conf, maps, regs, probed>>

\* Lines 70-74: after the list, offset 0 is dumped too; return the head.
CapEnd ==
  /\ pc = "caps" /\ cur = 0
  /\ walked' = [walked EXCEPT ![bus] = @ \union {0}]
  /\ cur' = first /\ pc' = "probe"
  /\ UNCHANGED <<bus, first, conf, maps, regs, probed>>

-----------------------------------------------------------------------------
\* The block's dwords 1 and 2 can be read: the mapping is one page, and the
\* page after it is not mapped.
InPage(o) == o + 11 < Page

Enabled(d, o) == Conf[d][o + 4] % 2 = 1

\* base_addr ^= 0x1, of an enabled block: the eight bytes, enable bit cleared.
BaseAddr(d, o) ==
  [k \in 0..7 |-> IF k = 0 THEN Conf[d][o + 4] - 1 ELSE Conf[d][o + 4 + k]]

Mappable(d, o) == Enabled(d, o) /\ \E k \in 0..7 : BaseAddr(d, o)[k] # 0

\* get_iommu_regs (main.c:77-108) at offset o, returning va.
get_iommu_regs(o, va) ==
  IF Mappable(conf[bus], o)
  THEN get_mapping(va)
  ELSE va = 0 /\ UNCHANGED maps

\* Faulty variant: the comparison is inverted.
IsOtherIn(val) == \E s \in 0..(SEEN - 1) : seen[s] # val

\* is_repeat_in (utils.c:164-171) over all the slots of seen_iommu_regs.
is_repeat_in(val) == \E s \in 0..(SEEN - 1) : seen[s] = val

Opened(o, va) == [va |-> va, bus |-> bus, base |-> BaseAddr(conf[bus], o)]

\* Faulty variant: the value is stored and the index forgotten.
SameSlot == seen_idx

\* Lines 220 and 235.
NextSlot == seen_idx + 1

(***************************************************************************)
(* Lines 216-222 and 230-237: a new mapping is recorded and opened.  With  *)
(* the table full the store would leave it; Full sends the step to "ub".   *)
(* bust_open returns at once on 0.                                         *)
(***************************************************************************)
Record(o, va) ==
  IF is_repeat_in(va)
  THEN UNCHANGED regs
  ELSE /\ seen' = [seen EXCEPT ![seen_idx] = va]
       /\ seen_idx' = NextSlot
       /\ opened' = IF va = 0 THEN opened ELSE Append(opened, Opened(o, va))

\* The store of a value that is not a repeat has no slot left.
Full(va) == ~is_repeat_in(va) /\ seen_idx = SEEN

\* get_iommu_regs at o and what buster_ini does with its result.
Probe(o, next) ==
  \E va \in {NULL, nva} :
    /\ get_iommu_regs(o, va)
    /\ probed' = [probed EXCEPT ![bus] = @ \union {o}]
    /\ IF Full(va) THEN UNCHANGED regs ELSE Record(o, va)
    /\ pc' = IF Full(va) THEN "ub" ELSE next

\* Lines 214-222: the block at the head of the list.
ProbeFirst ==
  /\ pc = "probe"
  /\ Probe(cur, "next")
  /\ UNCHANGED <<walk, conf, walked>>

\* Faulty variant: only 0xff ends the second walk.
LastUnlessAbsent(off) == off = 255

\* The loop condition of line 239.
LastBlock(off) == off = 0 \/ off = 255

(***************************************************************************)
(* Lines 224-239: one pass of the second walk.  The next pointer is added  *)
(* to cap_ptr itself, so cap_ptr only grows and may leave the page.        *)
(***************************************************************************)
ProbeNext ==
  LET off == PtrAt(conf[bus], cur + 1) IN
  /\ pc = "next" /\ InPage(cur + off)
  /\ Probe(cur + off, IF LastBlock(off) THEN "map" ELSE "next")
  /\ cur' = cur + off
  /\ bus' = IF LastBlock(off) THEN bus + 1 ELSE bus
  /\ UNCHANGED <<first, conf, walked>>

(***************************************************************************)
(* The same pass when the block does not lie in the mapped page.  The code *)
(* does not check: line 227 moves cap_ptr, and the read of the block under *)
(* it is a kernel oops.                                                    *)
(***************************************************************************)
ProbeFault ==
  LET off == PtrAt(conf[bus], cur + 1) IN
  /\ pc = "next" /\ ~InPage(cur + off)
  /\ cur' = cur + off
  /\ pc' = "oops"
  /\ UNCHANGED <<bus, first, conf, maps, regs, walked, probed>>

\* Faulty variant: freeall stops at the first slot that holds NULL.
FreedUntilNull ==
  {vaddrs[s] : s \in {t \in DOMAIN vaddrs : \A u \in 0..t : vaddrs[u] # NULL}}

\* What the loop of lines 17-20 unmaps.
Freed == {vaddrs[s] : s \in DOMAIN vaddrs}

\* freeall (main.c:11-21), then insmod fails with -1 (line 243): buster_fini
\* never runs.
FreeAll ==
  /\ pc = "map" /\ bus = NMIOMMU
  /\ live' = live \ Freed
  /\ pc' = "unloaded"
  /\ UNCHANGED <<walk, conf, vaddrs, idx, nva, overrun, lost, regs, walked,
                 probed>>

Next == MapConf \/ CapStep \/ CapEnd \/ ProbeFirst \/ ProbeNext \/ ProbeFault
          \/ FreeAll

\* insmod runs buster_ini in one kernel thread, which the scheduler runs.
Spec == Init /\ [][Next]_vars /\ WF_vars(Next)
-----------------------------------------------------------------------------
TypeOK ==
  /\ pc \in {"map", "caps", "probe", "next", "unloaded", "oops", "ub"}
  /\ bus \in 0..NMIOMMU
  /\ (pc \in {"caps", "probe", "next"} => bus \in Buses)
  /\ conf \in [Buses -> Devices]
  /\ cur \in Nat /\ first \in Nat
  /\ vaddrs \in [0..(N_VADDR - 1) -> Nat] /\ idx \in Nat
  /\ live \subseteq Nat /\ nva \in Nat
  /\ seen \in [0..(SEEN - 1) -> Nat] /\ seen_idx \in 0..SEEN
  /\ walked \in [Buses -> SUBSET Nat] /\ probed \in [Buses -> SUBSET Nat]
  /\ opened \in Seq([va : Nat, bus : Buses, base : [0..7 -> Byte]])
  /\ overrun \in BOOLEAN /\ lost \in BOOLEAN

(***************************************************************************)
(* cap_ptr never leaves the page in the first walk (main.c:57-72): all the *)
(* 0x18 bytes it dumps are there.  The second walk, which adds pointers up *)
(* (main.c:227), does leave it, and the read behind the page is an oops;   *)
(* but since it goes on only after a pointer of at most 0xfe, it has       *)
(* looked at 16 different blocks of the bus by then.                       *)
(***************************************************************************)
LeavesPageLate ==
  /\ pc = "caps" => cur + 24 <= Page
  /\ pc = "probe" => InPage(cur)
  /\ ~InPage(cur) => Cardinality(probed[bus]) >= 16

(***************************************************************************)
(* As long as vaddrs was not overrun, every mapping that exists has its    *)
(* slot, so freeall leaves none behind: failed ioremaps, which use slots   *)
(* up too, and skipped buses included (utils.c:150, main.c:11-21).         *)
(***************************************************************************)
FreedUnlessOverrun ==
  ~overrun =>
    /\ \A v \in live : \E s \in DOMAIN vaddrs : vaddrs[s] = v
    /\ pc = "unloaded" => live = {}

(***************************************************************************)
(* bust_open gets each mapping at most once and only while it exists, in   *)
(* the order seen_iommu_regs records them; 0 is never recorded while a     *)
(* slot is free, because free slots hold 0 and make it a repeat            *)
(* (main.c:216-237).                                                       *)
(***************************************************************************)
OpenedOnce ==
  /\ Len(opened) = seen_idx
  /\ \A k \in 1..Len(opened) :
       /\ opened[k].va = seen[k - 1]
       /\ pc # "unloaded" => opened[k].va \in live
       /\ \A l \in 1..Len(opened) :
            opened[l].va = opened[k].va => l = k
  /\ \A s \in seen_idx..(SEEN - 1) : seen[s] = 0

(***************************************************************************)
(* Nothing enabled is skipped: if every mapping succeeded, each enabled    *)
(* block with a base that buster_ini looked at, on any bus, was handed to  *)
(* bust_open.                                                              *)
(***************************************************************************)
EnabledOpened ==
  pc = "unloaded" /\ ~lost =>
    \A b \in Buses : \A o \in probed[b] :
      Mappable(conf[b], o) =>
        \E k \in 1..Len(opened) :
          /\ opened[k].bus = b
          /\ opened[k].base = BaseAddr(conf[b], o)

\* The enabled blocks with a base that were looked at on bus b.
Blocks(b) == {o \in probed[b] : Mappable(conf[b], o)}

(***************************************************************************)
(* seen_iommu_regs (main.c:205) is written past its end (main.c:219, 234)  *)
(* only if the walk met four different enabled blocks on one bus.  It      *)
(* takes a slot for every mapping, also for the last block of a list,      *)
(* which is looked at and mapped twice (line 239 tests the pointer after   *)
(* the fact), and once it is full even the 0 of a disabled block is        *)
(* stored; but the repeat ends the walk of its bus, so three blocks use    *)
(* the bus's share of four and no more.                                    *)
(***************************************************************************)
SeenHasRoom == pc = "ub" => \E b \in Buses : Cardinality(Blocks(b)) >= 4

(***************************************************************************)
(* With more slots in vaddrs than buses and seen_iommu_regs together (50   *)
(* against 20, utils.h and main.c:205), only a failed ioremap leads to the *)
(* store past vaddrs that utils.c:153 lets through: each page and each new *)
(* register area costs one slot, and both are counted elsewhere.           *)
(***************************************************************************)
OverrunNeedsFailure == N_VADDR > NMIOMMU + SEEN /\ overrun => lost

(***************************************************************************)
(* The devices whose capability list ends: following 256 links from its    *)
(* head, as hops[8] does, arrives at 0.                                    *)
(***************************************************************************)
EndingDevices ==
  {d \in Devices :
     LET hops[k \in 0..8] ==
           IF k = 0
           THEN [o \in Byte |-> IF o = 0 THEN 0 ELSE Conf[d][o + 1]]
           ELSE LET hop == hops[k - 1] IN [o \in Byte |-> hop[hop[o]]]
     IN  hops[8][Conf[d][52]] = 0}

(***************************************************************************)
(* If the capability list of every device ends, loading comes to an end:   *)
(* both walks of every bus do, although the second one follows other       *)
(* offsets than the list's (main.c:59-68 and 224-239).                     *)
(***************************************************************************)
LoadEnds ==
  (\A b \in Buses : conf[b] \in EndingDevices)
    ~> (pc \in {"unloaded", "oops", "ub"})

(***************************************************************************)
(* insmod returns (commands.txt:4 chains the dmesg dump behind it with     *)
(* "||"): both walks over every capability list end.                       *)
(***************************************************************************)
InitReturns == <>(pc \in {"unloaded", "oops", "ub"})

(***************************************************************************)
(* The second walk ends on any device whose list the first walk got        *)
(* through: every pass moves cap_ptr forward or is the last (line 239).    *)
(***************************************************************************)
SecondWalkEnds == (pc = "next") ~> (pc # "next")

(***************************************************************************)
(* main.c:224, "find all capability blocks": every block on the list,      *)
(* which the first walk dumped, is looked at by the second.                *)
(***************************************************************************)
FindsAllBlocks ==
  pc = "unloaded" => \A b \in Buses : walked[b] \ {0} \subseteq probed[b]

(***************************************************************************)
(* main.c:231, "print only unique mmio regs": no register area is opened,  *)
(* and so dumped, twice.                                                   *)
(***************************************************************************)
UniqueRegs ==
  \A k, l \in 1..Len(opened) : opened[k].base = opened[l].base => k = l

(***************************************************************************)
(* utils.c:150, "gets mapping via ioremap and adds the mapping to vaddrs": *)
(* every mapping has a slot from which freeall can release it.             *)
(***************************************************************************)
MappingsTracked == \A v \in live : \E s \in DOMAIN vaddrs : vaddrs[s] = v
=============================================================================
