---------------------------- MODULE BusterProofs ----------------------------
(***************************************************************************)
(* Proofs about Buster, for every number of buses, every table size and    *)
(* every content of the configuration pages.                               *)
(***************************************************************************)
EXTENDS Buster, FiniteSetTheorems, TLAPS

(***************************************************************************)
(* The cursor: a masked pointer is a byte, so the first walk stays in the  *)
(* first 256 bytes and hands over a head that does; only a step of the     *)
(* second walk that ends in an oops leaves the page.                       *)
(***************************************************************************)
CursorInv ==
  /\ first \in Byte
  /\ pc \in {"caps", "probe"} => cur \in Byte
  /\ pc # "oops" => InPage(cur)

LEMMA ByteRange == Byte \subseteq Nat /\ \A x \in Byte : x <= 255
BY DEF Byte

LEMMA ByteInPage == \A x \in Byte : InPage(x)
BY DEF Byte, InPage, Page

\* PtrAt reads a byte of the device's page.
LEMMA PointerIsByte ==
  ASSUME TypeOK, NEW b \in Buses, NEW o \in Nat, o < Page
  PROVE  PtrAt(conf[b], o) \in Byte
<1>1. conf[b] \in Devices
  BY DEF TypeOK
<1>2. Conf[conf[b]] \in [0..(Page - 1) -> Byte]
  BY <1>1, BusterAssumption DEF BusterAssumption
<1>3. o \in 0..(Page - 1)
  BY DEF Page
<1> QED
  BY <1>2, <1>3 DEF PtrAt

\* An enabled block's base is eight bytes.
LEMMA BaseIsBytes ==
  ASSUME TypeOK, NEW b \in Buses, NEW o \in Nat, InPage(o),
         Enabled(conf[b], o)
  PROVE  BaseAddr(conf[b], o) \in [0..7 -> Byte]
<1> DEFINE page == Conf[conf[b]]
<1>0. conf[b] \in Devices
  BY DEF TypeOK
<1>1. page \in [0..(Page - 1) -> Byte]
  BY <1>0, BusterAssumption DEF BusterAssumption
<1>2. \A k \in 0..7 : o + 4 + k \in 0..(Page - 1)
  BY DEF InPage, Page
<1>3. page[o + 4] \in Byte /\ page[o + 4] % 2 = 1
  <2>1. o + 4 \in 0..(Page - 1)
    BY DEF InPage, Page
  <2> QED
    BY <1>1, <2>1 DEF Enabled
<1>4. page[o + 4] - 1 \in Byte
  BY <1>3 DEF Byte
<1>5. \A k \in 0..7 : page[o + 4 + k] \in Byte
  BY <1>1, <1>2
<1> QED
  BY <1>4, <1>5 DEF BaseAddr

\* What get_mapping does to the table, whichever way it goes.
LEMMA MappingType ==
  ASSUME TypeOK, NEW va, get_mapping(va)
  PROVE  /\ va \in Nat
         /\ vaddrs' \in [0..(N_VADDR - 1) -> Nat] /\ idx' \in Nat
         /\ live' \subseteq Nat /\ nva' \in Nat
         /\ overrun' \in BOOLEAN /\ lost' \in BOOLEAN
<1>1. va \in Nat
  BY DEF get_mapping, TypeOK, NULL
<1>2. lost' \in BOOLEAN
  BY DEF get_mapping, TypeOK
<1>3. CASE idx > N_VADDR
  BY <1>1, <1>2, <1>3 DEF get_mapping, TypeOK
<1>4. CASE ~(idx > N_VADDR)
  <2>1. overrun' \in BOOLEAN
    BY <1>4 DEF get_mapping, TypeOK
  <2>2. vaddrs' \in [0..(N_VADDR - 1) -> Nat]
    BY <1>1, <1>4 DEF get_mapping, TypeOK
  <2>3. live' \subseteq Nat
    BY <1>1, <1>4 DEF get_mapping, TypeOK
  <2>4. nva' \in Nat /\ idx' \in Nat
    BY <1>1, <1>4 DEF get_mapping, TypeOK
  <2> QED
    BY <1>1, <1>2, <2>1, <2>2, <2>3, <2>4
<1> QED
  BY <1>3, <1>4

-----------------------------------------------------------------------------
\* Type correctness and the cursor are inductive together.
TypeInv == TypeOK /\ CursorInv

LEMMA InitType == Init => TypeInv
<1> SUFFICES ASSUME Init PROVE TypeInv
  OBVIOUS
<1>1. SEEN \in Nat /\ Buses \subseteq Nat
  BY BusterAssumption DEF BusterAssumption, SEEN, Buses
<1>2. seen \in [0..(SEEN - 1) -> Nat] /\ vaddrs \in [0..(N_VADDR - 1) -> Nat]
  BY <1>1 DEF Init, NULL
<1>3. 0 \in Byte
  BY DEF Byte
<1>4. walked \in [Buses -> SUBSET Nat] /\ probed \in [Buses -> SUBSET Nat]
  BY DEF Init
<1>5. overrun \in BOOLEAN /\ lost \in BOOLEAN
  BY DEF Init
<1>6. opened \in Seq([va : Nat, bus : Buses, base : [0..7 -> Byte]])
  BY DEF Init
<1>7. /\ pc = "map" /\ bus \in 0..NMIOMMU /\ conf \in [Buses -> Devices]
      /\ cur \in Nat /\ first \in Byte /\ idx \in Nat /\ live = {}
      /\ nva \in Nat /\ seen_idx \in 0..SEEN
  BY <1>1, <1>3, BusterAssumption DEF BusterAssumption, Init
<1>8. TypeOK
  BY <1>2, <1>4, <1>5, <1>6, <1>7, ByteRange DEF TypeOK
<1>9. InPage(cur)
  BY <1>3, ByteInPage DEF Init
<1> QED
  BY <1>7, <1>8, <1>9 DEF TypeInv, CursorInv

\* One probe keeps the tables typed and ends in the given place or in "ub".
LEMMA ProbeType ==
  ASSUME TypeOK, bus \in Buses, NEW o \in Nat, InPage(o), NEW next,
         Probe(o, next)
  PROVE  /\ vaddrs' \in [0..(N_VADDR - 1) -> Nat] /\ idx' \in Nat
         /\ live' \subseteq Nat /\ nva' \in Nat
         /\ seen' \in [0..(SEEN - 1) -> Nat] /\ seen_idx' \in 0..SEEN
         /\ probed' \in [Buses -> SUBSET Nat]
         /\ opened' \in Seq([va : Nat, bus : Buses, base : [0..7 -> Byte]])
         /\ overrun' \in BOOLEAN /\ lost' \in BOOLEAN
         /\ pc' \in {next, "ub"}
<1>1. PICK va \in {NULL, nva} :
        /\ get_iommu_regs(o, va)
        /\ probed' = [probed EXCEPT ![bus] = @ \union {o}]
        /\ IF Full(va) THEN UNCHANGED regs ELSE Record(o, va)
        /\ pc' = IF Full(va) THEN "ub" ELSE next
  BY DEF Probe
<1>2. /\ va \in Nat
      /\ vaddrs' \in [0..(N_VADDR - 1) -> Nat] /\ idx' \in Nat
      /\ live' \subseteq Nat /\ nva' \in Nat
      /\ overrun' \in BOOLEAN /\ lost' \in BOOLEAN
  <2>1. CASE Mappable(conf[bus], o)
    BY <1>1, <2>1, MappingType DEF get_iommu_regs
  <2>2. CASE ~Mappable(conf[bus], o)
    <3>1. va = 0 /\ UNCHANGED maps
      BY <1>1, <2>2 DEF get_iommu_regs
    <3>2. overrun' \in BOOLEAN /\ lost' \in BOOLEAN
      BY <3>1 DEF maps, TypeOK
    <3> QED
      BY <3>1, <3>2 DEF maps, TypeOK
  <2> QED
    BY <2>1, <2>2
<1>3. probed' \in [Buses -> SUBSET Nat]
  BY <1>1 DEF TypeOK
<1>4. SEEN \in Nat
  BY BusterAssumption DEF BusterAssumption, SEEN
<1>5. /\ seen' \in [0..(SEEN - 1) -> Nat] /\ seen_idx' \in 0..SEEN
      /\ opened' \in Seq([va : Nat, bus : Buses, base : [0..7 -> Byte]])
  <2>1. CASE Full(va) \/ is_repeat_in(va)
    BY <1>1, <2>1 DEF Record, regs, Full, TypeOK
  <2>2. CASE ~Full(va) /\ ~is_repeat_in(va)
    <3>1. seen_idx \in 0..(SEEN - 1)
      BY <2>2, <1>4 DEF Full, TypeOK
    <3>2. Record(o, va)
      BY <1>1, <2>2
    <3>3. seen' \in [0..(SEEN - 1) -> Nat] /\ seen_idx' \in 0..SEEN
      <4>1. seen' = [seen EXCEPT ![seen_idx] = va] /\ seen_idx' = seen_idx + 1
        BY <2>2, <3>2 DEF Record, NextSlot
      <4>2. seen \in [0..(SEEN - 1) -> Nat]
        BY DEF TypeOK
      <4>3. seen_idx' \in 0..SEEN
        BY <1>4, <3>1, <4>1
      <4>4. seen' \in [0..(SEEN - 1) -> Nat]
        BY <1>2, <4>1, <4>2
      <4> QED
        BY <4>3, <4>4
    <3>4. va # 0 => Mappable(conf[bus], o)
      BY <1>1 DEF get_iommu_regs
    <3>5. va # 0 => Opened(o, va) \in [va : Nat, bus : Buses,
                                        base : [0..7 -> Byte]]
      BY <3>4, <1>2, BaseIsBytes DEF Opened, Mappable
    <3>6. opened' \in Seq([va : Nat, bus : Buses, base : [0..7 -> Byte]])
      <4> DEFINE Call == [va : Nat, bus : Buses, base : [0..7 -> Byte]]
      <4>1. opened \in Seq(Call)
        BY DEF TypeOK
      <4>2. opened' = IF va = 0 THEN opened ELSE Append(opened, Opened(o, va))
        BY <3>2, <2>2 DEF Record
      <4>3. va # 0 => Opened(o, va) \in Call
        BY <3>5
      <4> HIDE DEF Call
      <4>4. opened' \in Seq(Call)
        BY <4>1, <4>2, <4>3
      <4> QED
        BY <4>4 DEF Call
    <3> QED
      BY <3>3, <3>6
  <2> QED
    BY <2>1, <2>2
<1> QED
  BY <1>1, <1>2, <1>3, <1>5

LEMMA StepType == TypeInv /\ [Next]_vars => TypeInv'
<1> SUFFICES ASSUME TypeInv, [Next]_vars PROVE TypeInv'
  OBVIOUS
<1>0. TypeOK /\ CursorInv
  BY DEF TypeInv
<1>a. /\ NMIOMMU \in Nat \ {0}
      /\ \A b : b \in Buses <=> b \in Nat /\ b < NMIOMMU
  BY BusterAssumption DEF BusterAssumption, Buses
<1>1. CASE MapConf
  <2>1. PICK va \in {NULL, nva} :
          /\ get_mapping(va)
          /\ IF va = NULL
             THEN bus' = bus + 1 /\ UNCHANGED <<pc, cur, first>>
             ELSE /\ cur' = PtrAt(conf[bus], 52)
                  /\ first' = cur' /\ pc' = "caps"
                  /\ UNCHANGED bus
    BY <1>1 DEF MapConf
  <2>2. bus \in Buses
    <3>1. bus \in 0..NMIOMMU /\ bus < NMIOMMU
      BY <1>0, <1>1 DEF MapConf, TypeOK
    <3> QED
      BY <3>1, <1>a
  <2>3. PtrAt(conf[bus], 52) \in Byte
    BY <1>0, <2>2, PointerIsByte DEF Page
  <2>4. /\ vaddrs' \in [0..(N_VADDR - 1) -> Nat] /\ idx' \in Nat
        /\ live' \subseteq Nat /\ nva' \in Nat
        /\ overrun' \in BOOLEAN /\ lost' \in BOOLEAN
    BY <1>0, <2>1, MappingType
  <2>5. CASE va = NULL
    BY <1>0, <1>1, <1>a, <2>1, <2>2, <2>4, <2>5
       DEF MapConf, TypeInv, TypeOK, CursorInv, regs
  <2>6. CASE va # NULL
    <3>1. cur' \in Byte /\ first' \in Byte /\ pc' = "caps" /\ bus' = bus
      BY <2>1, <2>3, <2>6
    <3>2. CursorInv'
      BY <3>1, ByteInPage DEF CursorInv, InPage
    <3>3. TypeOK'
      BY <1>0, <1>1, <1>a, <2>2, <2>4, <3>1, ByteRange DEF MapConf, TypeOK, regs
    <3> QED
      BY <3>2, <3>3 DEF TypeInv
  <2> QED
    BY <2>5, <2>6
<1>2. CASE CapStep
  <2>1. bus \in Buses /\ cur \in Byte
    BY <1>0, <1>2 DEF CapStep, TypeOK, CursorInv
  <2>2. cur' \in Byte
    BY <1>0, <1>2, <2>1, PointerIsByte DEF CapStep, Link, Byte, Page
  <2> QED
    <3>1. CursorInv'
      BY <1>0, <1>2, <2>2, ByteInPage DEF CapStep, CursorInv, InPage
    <3>2. TypeOK'
      BY <1>0, <1>2, <2>1, <2>2, ByteRange DEF CapStep, TypeOK, maps, regs
    <3> QED
      BY <3>1, <3>2 DEF TypeInv
<1>3. CASE CapEnd
  <2>1. CursorInv'
    BY <1>0, <1>3, ByteInPage DEF CapEnd, CursorInv, InPage
  <2>2. TypeOK'
    BY <1>0, <1>3, ByteRange DEF CapEnd, CursorInv, TypeOK, maps, regs
  <2> QED
    BY <2>1, <2>2 DEF TypeInv
<1>4. CASE ProbeFirst
  <2>1. bus \in Buses /\ cur \in Nat /\ InPage(cur)
    BY <1>0, <1>4 DEF ProbeFirst, TypeOK, CursorInv, InPage, Byte, Page
  <2>2. pc' \in {"next", "ub"} /\ cur' = cur /\ bus' = bus
    BY <1>0, <1>4, <2>1, ProbeType DEF ProbeFirst, walk
  <2>3. CursorInv'
    BY <1>0, <1>4, <2>1, <2>2 DEF ProbeFirst, CursorInv, walk, InPage
  <2>4. TypeOK'
    BY <1>0, <1>4, <2>1, <2>2, ProbeType DEF ProbeFirst, TypeOK, walk
  <2> QED
    BY <2>3, <2>4 DEF TypeInv
<1>5. CASE ProbeNext
  <2> DEFINE off == PtrAt(conf[bus], cur + 1)
             next == IF LastBlock(off) THEN "map" ELSE "next"
  <2>1. bus \in Buses /\ cur \in Nat /\ InPage(cur)
    BY <1>0, <1>5 DEF ProbeNext, TypeOK, CursorInv
  <2>2. off \in Byte
    BY <1>0, <2>1, PointerIsByte DEF InPage, Page
  <2>3. /\ cur + off \in Nat /\ InPage(cur + off)
        /\ cur' = cur + off /\ Probe(cur + off, next)
        /\ bus' = (IF LastBlock(off) THEN bus + 1 ELSE bus)
        /\ UNCHANGED <<first, conf, walked>>
    <3>0. \A x \in Byte : cur + x \in Nat
      BY <2>1, ByteRange
    <3>1. cur + off \in Nat
      BY <2>2, <3>0
    <3>2. /\ InPage(cur + off) /\ Probe(cur + off, next)
          /\ cur' = cur + off
          /\ bus' = (IF LastBlock(off) THEN bus + 1 ELSE bus)
          /\ UNCHANGED <<first, conf, walked>>
      BY <1>5, Zenon DEF ProbeNext
    <3> QED
      BY <3>1, <3>2, Zenon
  <2> HIDE DEF off
  <2>4. pc' \in {next, "ub"}
    BY <1>0, <2>1, <2>3, ProbeType
  <2>5. CursorInv'
    BY <1>0, <2>3, <2>4 DEF CursorInv, InPage
  <2>6. bus' \in 0..NMIOMMU /\ (pc' = "next" => bus' \in Buses)
    BY <1>0, <1>a, <2>1, <2>3, <2>4 DEF TypeOK
  <2>7. TypeOK'
    BY <1>0, <2>1, <2>3, <2>4, <2>6, ProbeType DEF TypeOK
  <2> QED
    BY <2>5, <2>7 DEF TypeInv
<1>6. CASE ProbeFault
  <2>1. bus \in Buses /\ cur \in Nat /\ cur + 1 \in Nat /\ cur + 1 < Page
    BY <1>0, <1>6 DEF ProbeFault, TypeOK, CursorInv, InPage, Page
  <2>2. PICK off \in Nat : off = PtrAt(conf[bus], cur + 1)
    BY <1>0, <2>1, PointerIsByte, ByteRange
  <2>3. cur' = cur + off /\ cur' \in Nat
    BY <1>6, <2>1, <2>2 DEF ProbeFault
  <2> QED
    BY <1>0, <1>6, <2>3
       DEF ProbeFault, TypeInv, TypeOK, CursorInv, maps, regs
<1>7. CASE FreeAll
  BY <1>0, <1>7 DEF FreeAll, TypeInv, TypeOK, CursorInv, walk, regs
<1>8. CASE UNCHANGED vars
  BY <1>0, <1>8
     DEF vars, walk, maps, regs, TypeInv, TypeOK, CursorInv, InPage
<1> QED
  BY <1>1, <1>2, <1>3, <1>4, <1>5, <1>6, <1>7, <1>8 DEF Next

\* The module's state stays typed, whatever the devices answer.
THEOREM TypeCorrect == Spec => []TypeOK
<1>1. TypeInv => TypeOK
  BY DEF TypeInv
<1> QED
  BY <1>1, InitType, StepType, PTL DEF Spec

-----------------------------------------------------------------------------
(***************************************************************************)
(* LeavesPageLate needs the history of the second walk: the blocks looked  *)
(* at on this bus lie at or below cap_ptr, so that a pass which moves it   *)
(* looks at a new one, and every one of them has moved it by 254 at most.  *)
(* The buses ahead are untouched.                                          *)
(***************************************************************************)
ReachInv ==
  /\ \A b \in Buses : IsFiniteSet(probed[b])
  /\ \A b \in Buses :
       b > bus \/ (b = bus /\ pc \in {"map", "caps", "probe"})
         => probed[b] = {}
  /\ pc = "next" =>
       /\ \A o \in probed[bus] : o <= cur
       /\ Cardinality(probed[bus]) >= 1
       /\ cur <= 1 + 254 * Cardinality(probed[bus])
  /\ pc = "oops" => Cardinality(probed[bus]) >= 16

\* A pass of the second walk: the last one of its bus, or one that moves on.
LEMMA Pass ==
  ASSUME TypeInv, ProbeNext
  PROVE  \E off \in Byte :
           /\ bus \in Buses /\ cur \in Nat /\ cur + off \in Nat
           /\ InPage(cur + off) /\ cur' = cur + off /\ conf' = conf
           /\ pc = "next"
           /\ \/ /\ off \in {0, 255} /\ bus' = bus + 1
                 /\ Probe(cur + off, "map")
              \/ /\ off \in 1..254 /\ bus' = bus
                 /\ Probe(cur + off, "next")
<1>0. TypeOK /\ CursorInv
  BY DEF TypeInv
<1>1. bus \in Buses /\ cur + 1 \in Nat /\ cur + 1 < Page /\ cur \in Nat
  BY <1>0 DEF ProbeNext, TypeOK, CursorInv, InPage, Page
<1>2. PICK off \in Byte : off = PtrAt(conf[bus], cur + 1)
  BY <1>0, <1>1, PointerIsByte
<1>3. cur + off \in Nat
  BY <1>1, <1>2, ByteRange
<1>4. /\ InPage(cur + off) /\ cur' = cur + off /\ conf' = conf
      /\ pc = "next"
      /\ Probe(cur + off, IF LastBlock(off) THEN "map" ELSE "next")
      /\ bus' = IF LastBlock(off) THEN bus + 1 ELSE bus
  BY <1>2 DEF ProbeNext
<1>5. ~LastBlock(off) => off \in 1..254
  BY DEF LastBlock, Byte
<1>6. LastBlock(off) => off \in {0, 255}
  BY DEF LastBlock
<1>7. CASE LastBlock(off)
  BY <1>1, <1>3, <1>4, <1>6, <1>7
<1>8. CASE ~LastBlock(off)
  BY <1>1, <1>3, <1>4, <1>5, <1>8
<1> QED
  BY <1>7, <1>8

\* What a probe at o adds to the history.
LEMMA ProbeHistory ==
  ASSUME TypeOK, ReachInv, bus \in Buses, NEW o, NEW next, Probe(o, next)
  PROVE  /\ probed' = [probed EXCEPT ![bus] = @ \union {o}]
         /\ probed'[bus] = probed[bus] \union {o}
         /\ \A b \in Buses : b # bus => probed'[b] = probed[b]
         /\ \A b \in Buses : IsFiniteSet(probed'[b])
         /\ o \notin probed[bus] =>
              Cardinality(probed'[bus]) = Cardinality(probed[bus]) + 1
         /\ pc' = next \/ pc' = "ub"
<1>1. probed' = [probed EXCEPT ![bus] = @ \union {o}]
  BY DEF Probe
<1>2. /\ probed'[bus] = probed[bus] \union {o}
      /\ \A b \in Buses : b # bus => probed'[b] = probed[b]
  BY <1>1 DEF TypeOK
<1>3. /\ IsFiniteSet(probed[bus] \union {o})
      /\ o \notin probed[bus] =>
           Cardinality(probed[bus] \union {o}) = Cardinality(probed[bus]) + 1
  BY FS_AddElement DEF ReachInv
<1>4. \A b \in Buses : IsFiniteSet(probed'[b])
  BY <1>2, <1>3 DEF ReachInv
<1>5. pc' = next \/ pc' = "ub"
  BY DEF Probe
<1> QED
  BY <1>1, <1>2, <1>3, <1>4, <1>5

\* Sixteen strides of at most 254 bytes are needed to leave the page.
LEMMA Strides ==
  ASSUME NEW n \in Nat, NEW at \in Nat, NEW off \in Nat,
         at <= 1 + 254 * n, off <= 255, ~(at + off + 11 < 4096)
  PROVE  n >= 16
  BY SMT

LEMMA StepReach == TypeInv /\ ReachInv /\ [Next]_vars => ReachInv'
<1> SUFFICES ASSUME TypeInv, ReachInv, [Next]_vars PROVE ReachInv'
  OBVIOUS
<1>0. TypeOK /\ CursorInv /\ bus \in Nat
  BY BusterAssumption DEF TypeInv, TypeOK, BusterAssumption
<1>a. \A b \in Buses : b \in Nat
  BY BusterAssumption DEF BusterAssumption, Buses
\* Steps that look at no block.
<1>b. ASSUME probed' = probed, pc' # "next", pc' # "oops",
             \A b \in Buses :
               b > bus' \/ (b = bus' /\ pc' \in {"map", "caps", "probe"})
                 => b > bus \/ (b = bus /\ pc \in {"map", "caps", "probe"})
      PROVE  ReachInv'
  BY <1>b DEF ReachInv
<1>1. CASE MapConf
  <2>1. /\ probed' = probed /\ pc = "map" /\ pc' \in {"map", "caps"}
        /\ bus' = bus \/ bus' = bus + 1
    BY <1>1 DEF MapConf
  <2>2. ASSUME NEW b \in Buses, b > bus' \/ b = bus'
        PROVE  b > bus \/ b = bus
    BY <1>0, <1>a, <2>1, <2>2
  <2> QED
    BY <1>b, <2>1, <2>2
<1>2. CASE CapStep \/ CapEnd
  <2>1. /\ probed' = probed /\ pc = "caps" /\ pc' \in {"caps", "probe"}
        /\ bus' = bus
    BY <1>2 DEF CapStep, CapEnd
  <2> QED
    BY <1>b, <2>1
<1>3. CASE ProbeFirst
  <2>1. /\ bus \in Buses /\ cur \in Byte /\ pc = "probe" /\ Probe(cur, "next")
        /\ cur' = cur /\ bus' = bus
    BY <1>0, <1>3 DEF ProbeFirst, TypeOK, CursorInv, walk
  <2>2. probed[bus] = {}
    BY <2>1 DEF ReachInv
  <2>3. /\ probed'[bus] = {cur}
        /\ \A b \in Buses : b # bus => probed'[b] = probed[b]
        /\ \A b \in Buses : IsFiniteSet(probed'[b])
        /\ Cardinality(probed'[bus]) = Cardinality(probed[bus]) + 1
        /\ pc' = "next" \/ pc' = "ub"
    BY <1>0, <2>1, <2>2, ProbeHistory
  <2>4. Cardinality(probed'[bus]) = 1
    BY <2>2, <2>3, FS_EmptySet
  <2>5. \A o \in probed'[bus] : o <= cur
    BY <2>1, <2>3, ByteRange
  <2>6. cur <= 1 + 254 * 1
    BY <2>1, ByteRange
  <2>7. ASSUME NEW b \in Buses, b > bus PROVE probed'[b] = {}
    BY <1>0, <1>a, <2>3, <2>7 DEF ReachInv
  <2> QED
    BY <2>1, <2>3, <2>4, <2>5, <2>6, <2>7 DEF ReachInv
<1>4. CASE ProbeNext
  <2>1. PICK off \in Byte :
          /\ bus \in Buses /\ cur \in Nat /\ cur + off \in Nat
          /\ cur' = cur + off /\ pc = "next"
          /\ \/ /\ off \in {0, 255} /\ bus' = bus + 1
                /\ Probe(cur + off, "map")
             \/ /\ off \in 1..254 /\ bus' = bus
                /\ Probe(cur + off, "next")
    BY <1>4, Pass
  <2>2. /\ probed'[bus] = probed[bus] \union {cur + off}
        /\ \A b \in Buses : b # bus => probed'[b] = probed[b]
        /\ \A b \in Buses : IsFiniteSet(probed'[b])
        /\ cur + off \notin probed[bus] =>
             Cardinality(probed'[bus]) = Cardinality(probed[bus]) + 1
    BY <1>0, <2>1, ProbeHistory
  <2>3. /\ \A o \in probed[bus] : o <= cur
        /\ Cardinality(probed[bus]) >= 1
        /\ cur <= 1 + 254 * Cardinality(probed[bus])
    BY <2>1 DEF ReachInv
  <2>4. ASSUME NEW b \in Buses, b > bus PROVE probed'[b] = {}
    BY <1>0, <1>a, <2>2, <2>4 DEF ReachInv
  <2>5. CASE off \in {0, 255} /\ bus' = bus + 1 /\ Probe(cur + off, "map")
    <3>1. pc' = "map" \/ pc' = "ub"
      BY <1>0, <2>1, <2>5, ProbeHistory
    <3>2. ASSUME NEW b \in Buses, b > bus' \/ b = bus' PROVE b > bus
      BY <1>0, <1>a, <2>5, <3>2
    <3> QED
      BY <2>2, <2>4, <3>1, <3>2 DEF ReachInv
  <2>6. CASE off \in 1..254 /\ bus' = bus /\ Probe(cur + off, "next")
    <3>1. pc' = "next" \/ pc' = "ub"
      BY <1>0, <2>1, <2>6, ProbeHistory
    <3>2. probed[bus] \in SUBSET Nat /\ off \in Nat /\ off >= 1 /\ off <= 254
      BY <1>0, <2>1, <2>6 DEF TypeOK
    <3>3. \A o \in probed[bus] : o <= cur + off /\ o # cur + off
      BY <2>1, <2>3, <3>2
    <3>4. Cardinality(probed'[bus]) = Cardinality(probed[bus]) + 1
      BY <2>2, <3>3
    <3>5. \A o \in probed'[bus] : o <= cur'
      BY <2>1, <2>2, <3>3
    <3>6. Cardinality(probed[bus]) \in Nat
      BY <2>1, FS_CardinalityType DEF ReachInv
    <3>7. Cardinality(probed'[bus]) >= 1
      BY <3>4, <3>6
    <3>8. cur' <= 1 + 254 * Cardinality(probed'[bus])
      BY <2>1, <2>3, <3>2, <3>4, <3>6
    <3> QED
      BY <2>2, <2>4, <2>6, <3>1, <3>5, <3>7, <3>8 DEF ReachInv
  <2> QED
    BY <2>1, <2>5, <2>6
<1>5. CASE ProbeFault
  <2>1. bus \in Buses /\ cur \in Nat /\ cur + 1 \in Nat /\ cur + 1 < Page
    BY <1>0, <1>5 DEF ProbeFault, TypeOK, CursorInv, InPage, Page
  <2>2. PICK off \in Nat : off = PtrAt(conf[bus], cur + 1) /\ off <= 255
    BY <1>0, <2>1, PointerIsByte, ByteRange
  <2>3. /\ pc = "next" /\ pc' = "oops" /\ probed' = probed /\ bus' = bus
        /\ ~(cur + off + 11 < 4096)
    BY <1>5, <2>2 DEF ProbeFault, InPage, Page
  <2>4. /\ Cardinality(probed[bus]) \in Nat
        /\ cur <= 1 + 254 * Cardinality(probed[bus])
    BY <2>1, <2>3, FS_CardinalityType DEF ReachInv
  <2>5. Cardinality(probed[bus]) >= 16
    BY <2>1, <2>2, <2>3, <2>4, Strides
  <2> QED
    BY <2>3, <2>5 DEF ReachInv
<1>6. CASE FreeAll
  <2>1. probed' = probed /\ pc = "map" /\ pc' = "unloaded" /\ bus' = bus
    BY <1>6 DEF FreeAll, walk
  <2> QED
    BY <1>b, <2>1
<1>7. CASE UNCHANGED vars
  BY <1>7 DEF vars, walk, ReachInv
<1> QED
  BY <1>1, <1>2, <1>3, <1>4, <1>5, <1>6, <1>7 DEF Next

LEMMA InitReach == Init => ReachInv
<1> SUFFICES ASSUME Init PROVE ReachInv
  OBVIOUS
<1>1. \A b \in Buses : probed[b] = {}
  BY DEF Init
<1> QED
  BY <1>1, FS_EmptySet DEF Init, ReachInv

\* The first walk stays in the page and the second leaves it only behind the
\* sixteenth block of a bus (main.c:57-74, 224-239), whatever the devices hold.
THEOREM PageIsLeftLate == Spec => []LeavesPageLate
<1>1. TypeInv /\ ReachInv => LeavesPageLate
  <2> SUFFICES ASSUME TypeInv, ReachInv PROVE LeavesPageLate
    OBVIOUS
  <2>1. CursorInv
    BY DEF TypeInv
  <2>2. pc = "caps" => cur + 24 <= Page
    BY <2>1 DEF CursorInv, Byte, Page
  <2>3. pc # "oops" => InPage(cur)
    BY <2>1 DEF CursorInv
  <2>4. pc = "oops" => Cardinality(probed[bus]) >= 16
    BY DEF ReachInv
  <2> QED
    BY <2>2, <2>3, <2>4 DEF LeavesPageLate
<1> QED
  BY <1>1, InitType, StepType, InitReach, StepReach, PTL DEF Spec
-----------------------------------------------------------------------------
(***************************************************************************)
(* FreedUnlessOverrun is not inductive: a mapping must keep its slot while *)
(* later ones are stored.  It does because, until vaddrs is overrun, every *)
(* mapping sits below idx, and idx is where the next one goes.             *)
(***************************************************************************)
TableInv ==
  /\ \A v \in live : v # 0 /\ v < nva
  /\ ~overrun =>
       /\ idx <= N_VADDR
       /\ \A v \in live : \E s \in 0..(idx - 1) : vaddrs[s] = v
       /\ pc = "unloaded" => live = {}

\* A slot below idx is a slot of the table.
LEMMA TrackedInTable ==
  ASSUME TypeOK, TableInv, ~overrun
  PROVE  \A v \in live : \E s \in DOMAIN vaddrs : vaddrs[s] = v
<1>1. idx <= N_VADDR /\ idx \in Nat /\ N_VADDR \in Nat
  BY BusterAssumption DEF BusterAssumption, TypeOK, TableInv
<1>2. DOMAIN vaddrs = 0..(N_VADDR - 1)
  BY DEF TypeOK
<1>3. \A s \in 0..(idx - 1) : s \in DOMAIN vaddrs
  BY <1>1, <1>2
<1>4. \A v \in live : \E s \in 0..(idx - 1) : vaddrs[s] = v
  BY DEF TableInv
<1> QED
  BY <1>3, <1>4

\* get_mapping stores the new mapping without disturbing another one's slot.
LEMMA MappingTable ==
  ASSUME TypeOK, TableInv, pc # "unloaded", pc' # "unloaded", NEW va,
         get_mapping(va), nva > 0
  PROVE  TableInv'
<1>0. N_VADDR \in Nat
  BY BusterAssumption DEF BusterAssumption
<1>1. CASE idx > N_VADDR
  BY <1>1 DEF get_mapping, TableInv, TypeOK
<1>2. CASE ~(idx > N_VADDR)
  <2>1. va = NULL \/ va = nva
    BY <1>2 DEF get_mapping
  <2>2. /\ nva' = nva + 1
        /\ live' = live \union ({va} \ {NULL})
        /\ vaddrs' = [vaddrs EXCEPT ![idx] = va]
        /\ overrun' = (overrun \/ idx = N_VADDR)
        /\ idx' \in {idx + 1} \union (IF idx = N_VADDR THEN {va + 1} ELSE {})
    BY <1>2 DEF get_mapping
  <2>3. \A v \in live' : v # 0 /\ v < nva'
    BY <2>1, <2>2 DEF TableInv, TypeOK, NULL
  <2>4. ASSUME ~overrun'
        PROVE  /\ idx' <= N_VADDR
               /\ \A v \in live' : \E s \in 0..(idx' - 1) : vaddrs'[s] = v
    <3>0. ~overrun /\ idx # N_VADDR
      BY <2>2, <2>4
    <3>1. ~overrun /\ idx < N_VADDR /\ idx' = idx + 1 /\ idx \in Nat
      BY <1>0, <1>2, <2>2, <3>0 DEF TypeOK
    <3>2. vaddrs'[idx] = va /\ idx \in 0..(idx' - 1)
      BY <1>0, <2>2, <3>1 DEF TypeOK
    <3>3. \A s \in 0..(idx - 1) : vaddrs'[s] = vaddrs[s] /\ s \in 0..(idx' - 1)
      BY <1>0, <2>2, <3>1 DEF TypeOK
    <3>4. \A v \in live : \E s \in 0..(idx - 1) : vaddrs[s] = v
      BY <3>1 DEF TableInv
    <3>5. \A v \in live : \E s \in 0..(idx' - 1) : vaddrs'[s] = v
      BY <3>3, <3>4
    <3> QED
      BY <1>0, <2>2, <3>1, <3>2, <3>5
  <2> QED
    BY <2>3, <2>4 DEF TableInv
<1> QED
  BY <1>1, <1>2

\* The address ioremap returns next is never NULL.
LEMMA FreshStep ==
  ASSUME TypeOK, nva > 0, [Next]_vars
  PROVE  nva' > 0
<1>1. ASSUME NEW va, get_mapping(va) PROVE nva' > 0
  BY <1>1 DEF get_mapping, TypeOK
<1>2. ASSUME NEW o, NEW next, Probe(o, next) PROVE nva' > 0
  BY <1>1, <1>2 DEF Probe, get_iommu_regs, maps
<1> QED
  BY <1>1, <1>2 DEF Next, MapConf, CapStep, CapEnd, ProbeFirst, ProbeNext,
                    ProbeFault, FreeAll, vars, maps

LEMMA StepTable ==
  TypeInv /\ nva > 0 /\ TableInv /\ [Next]_vars => TableInv'
<1> SUFFICES ASSUME TypeInv, nva > 0, TableInv, [Next]_vars PROVE TableInv'
  OBVIOUS
<1>0. TypeOK
  BY DEF TypeInv
<1>a. ASSUME NEW o, NEW next, Probe(o, next), next # "unloaded",
             pc # "unloaded"
      PROVE  TableInv'
  <2>1. PICK va \in {NULL, nva} :
          get_iommu_regs(o, va) /\ pc' = (IF Full(va) THEN "ub" ELSE next)
    BY <1>a DEF Probe
  <2>2. pc' # "unloaded"
    BY <1>a, <2>1
  <2>3. CASE Mappable(conf[bus], o)
    BY <1>0, <1>a, <2>1, <2>2, <2>3, MappingTable DEF get_iommu_regs
  <2>4. CASE ~Mappable(conf[bus], o)
    BY <1>a, <2>1, <2>2, <2>4 DEF get_iommu_regs, maps, TableInv
  <2> QED
    BY <2>3, <2>4
<1>1. CASE MapConf
  <2>1. PICK va : get_mapping(va) /\ pc' \in {"map", "caps"}
    BY <1>1 DEF MapConf
  <2> QED
    BY <1>0, <1>1, <2>1, MappingTable DEF MapConf
<1>2. CASE CapStep
  BY <1>2 DEF CapStep, maps, TableInv
<1>3. CASE CapEnd
  BY <1>3 DEF CapEnd, maps, TableInv
<1>4. CASE ProbeFirst
  BY <1>4, <1>a DEF ProbeFirst
<1>5. CASE ProbeNext
  <2>1. PICK o, next : Probe(o, next) /\ next \in {"map", "next"}
    BY <1>5 DEF ProbeNext
  <2> QED
    BY <1>5, <1>a, <2>1 DEF ProbeNext
<1>6. CASE ProbeFault
  BY <1>6 DEF ProbeFault, maps, TableInv
<1>7. CASE FreeAll
  <2>1. live' \subseteq live /\ UNCHANGED <<vaddrs, idx, nva, overrun>>
    BY <1>7 DEF FreeAll
  <2>2. ~overrun => live' = {}
    <3>1. ASSUME ~overrun, NEW v \in live
          PROVE  \E s \in DOMAIN vaddrs : vaddrs[s] = v
      BY <1>0, <3>1, TrackedInTable
    <3> QED
      BY <1>7, <3>1 DEF FreeAll, Freed
  <2> QED
    BY <2>1, <2>2 DEF TableInv
<1>8. CASE UNCHANGED vars
  BY <1>8 DEF vars, maps, TableInv
<1> QED
  BY <1>1, <1>2, <1>3, <1>4, <1>5, <1>6, <1>7, <1>8 DEF Next

\* Unless vaddrs is overrun, freeall releases every mapping ever made: the
\* table of get_mapping and the loop of freeall agree (utils.c:151-161,
\* main.c:11-21), for every table size and every pattern of ioremap failures.
THEOREM NothingLeaks == Spec => []FreedUnlessOverrun
<1>1. Init => nva > 0 /\ TableInv
  BY BusterAssumption DEF BusterAssumption, Init, TableInv
<1>2. TypeInv /\ nva > 0 /\ [Next]_vars => (nva > 0)'
  BY FreshStep DEF TypeInv
<1>3. TypeInv /\ TableInv => FreedUnlessOverrun
  BY TrackedInTable DEF TypeInv, TableInv, FreedUnlessOverrun
<1> QED
  BY <1>1, <1>2, <1>3, InitType, StepType, StepTable, PTL DEF Spec
-----------------------------------------------------------------------------
(***************************************************************************)
(* OpenedOnce, given the types and TableInv, is inductive.  The heart is   *)
(* RecordOpens: a value that is not a repeat while a slot is free is not 0 *)
(* (the free slot holds 0), so it is the address ioremap just returned,    *)
(* above every address in use.                                             *)
(***************************************************************************)
\* A mapping get_mapping returns exists, and no other one is taken away.
LEMMA MappingLive ==
  ASSUME NEW va, get_mapping(va)
  PROVE  live \subseteq live' /\ (va # 0 => va = nva /\ va \in live')
  BY DEF get_mapping, NULL

LEMMA RecordOpens ==
  ASSUME TypeOK, TableInv, OpenedOnce, pc # "unloaded", NEW o \in Nat,
         NEW va, get_iommu_regs(o, va), ~Full(va), ~is_repeat_in(va),
         Record(o, va)
  PROVE  OpenedOnce'
<1>0. SEEN \in Nat
  BY BusterAssumption DEF BusterAssumption, SEEN
<1>1. seen_idx \in 0..(SEEN - 1)
  BY <1>0 DEF Full, TypeOK
<1>2. va # 0
  BY <1>1 DEF OpenedOnce, is_repeat_in
<1>3. va = nva /\ va \in live' /\ live \subseteq live'
  BY <1>2, MappingLive DEF get_iommu_regs
<1>4. /\ seen' = [seen EXCEPT ![seen_idx] = va]
      /\ seen_idx' = seen_idx + 1
      /\ opened' = Append(opened, Opened(o, va))
  BY <1>2 DEF Record, NextSlot
<1> DEFINE n == Len(opened)
<1>5. n \in Nat /\ n = seen_idx /\ nva \in Nat
  BY DEF OpenedOnce, TypeOK
<1>6. /\ Len(opened') = n + 1
      /\ opened'[n + 1].va = va
      /\ \A k \in 1..n : opened'[k] = opened[k]
  BY <1>4 DEF TypeOK, Opened
<1>7. /\ seen'[n] = va
      /\ \A k \in 0..(SEEN - 1) : k # n => seen'[k] = seen[k]
  BY <1>1, <1>4, <1>5 DEF TypeOK
<1>8. \A k \in 1..n : opened[k].va = seen[k - 1] /\ opened[k].va \in live
  BY DEF OpenedOnce
<1>9. \A k \in 1..n : opened[k].va # va
  BY <1>3, <1>5, <1>8 DEF TableInv
<1>10. \A k \in 1..(n + 1) : opened'[k].va = seen'[k - 1]
  <2>1. \A k \in 1..n : k - 1 \in 0..(SEEN - 1) /\ k - 1 # n
    BY <1>0, <1>1, <1>5
  <2>2. \A k \in 1..n : opened'[k].va = seen'[k - 1]
    BY <1>6, <1>7, <1>8, <2>1
  <2> QED
    BY <1>5, <1>6, <1>7, <2>2
<1>11. \A k \in 1..(n + 1) : opened'[k].va \in live'
  BY <1>3, <1>5, <1>6, <1>8
<1>12. \A k, l \in 1..n : opened[l].va = opened[k].va => l = k
  BY DEF OpenedOnce
<1>13. \A k, l \in 1..(n + 1) : opened'[l].va = opened'[k].va => l = k
  BY <1>5, <1>6, <1>9, <1>12
<1>14. \A s \in seen_idx'..(SEEN - 1) : seen'[s] = 0
  BY <1>0, <1>1, <1>4, <1>5, <1>7 DEF OpenedOnce
<1> HIDE DEF n
<1>15. Len(opened') = seen_idx'
  BY <1>4, <1>5, <1>6
<1> QED
  BY <1>6, <1>10, <1>11, <1>13, <1>14, <1>15 DEF OpenedOnce

\* Steps that neither record nor release anything.
LEMMA OpenFrame ==
  ASSUME OpenedOnce, UNCHANGED regs, pc # "unloaded", live \subseteq live'
  PROVE  OpenedOnce'
  BY DEF OpenedOnce, regs

LEMMA ProbeOpens ==
  ASSUME TypeOK, TableInv, OpenedOnce, pc # "unloaded", NEW o \in Nat,
         NEW next, Probe(o, next)
  PROVE  OpenedOnce'
<1>1. PICK va \in {NULL, nva} :
        /\ get_iommu_regs(o, va)
        /\ IF Full(va) THEN UNCHANGED regs ELSE Record(o, va)
  BY DEF Probe
<1>2. live \subseteq live'
  BY <1>1, MappingLive DEF get_iommu_regs, maps
<1>3. CASE Full(va) \/ is_repeat_in(va)
  <2>1. UNCHANGED regs
    BY <1>1, <1>3 DEF Record
  <2> QED
    BY <1>2, <2>1, OpenFrame
<1>4. CASE ~Full(va) /\ ~is_repeat_in(va)
  BY <1>1, <1>4, RecordOpens
<1> QED
  BY <1>3, <1>4

LEMMA StepOpens ==
  TypeInv /\ TableInv /\ OpenedOnce /\ [Next]_vars => OpenedOnce'
<1> SUFFICES ASSUME TypeInv, TableInv, OpenedOnce, [Next]_vars
             PROVE  OpenedOnce'
  OBVIOUS
<1>0. TypeOK /\ CursorInv
  BY DEF TypeInv
<1>1. CASE MapConf
  <2>1. PICK va : get_mapping(va)
    BY <1>1 DEF MapConf
  <2> QED
    BY <1>1, <2>1, MappingLive, OpenFrame DEF MapConf
<1>2. CASE CapStep
  BY <1>2, OpenFrame DEF CapStep, maps
<1>3. CASE CapEnd
  BY <1>3, OpenFrame DEF CapEnd, maps
<1>4. CASE ProbeFirst
  BY <1>0, <1>4, ProbeOpens DEF ProbeFirst, TypeOK
<1>5. CASE ProbeNext
  <2>1. bus \in Buses /\ cur + 1 \in Nat /\ cur + 1 < Page /\ cur \in Nat
    BY <1>0, <1>5 DEF ProbeNext, TypeOK, CursorInv, InPage, Page
  <2>2. PICK off : off = PtrAt(conf[bus], cur + 1)
    OBVIOUS
  <2>3. off \in Byte
    BY <1>0, <2>1, <2>2, PointerIsByte
  <2>4. cur + off \in Nat
    BY <2>1, <2>3, ByteRange
  <2>5. PICK next : Probe(cur + off, next)
    BY <1>5, <2>2 DEF ProbeNext
  <2> QED
    BY <1>0, <1>5, <2>4, <2>5, ProbeOpens DEF ProbeNext
<1>6. CASE ProbeFault
  BY <1>6, OpenFrame DEF ProbeFault, maps
<1>7. CASE FreeAll
  BY <1>7 DEF FreeAll, OpenedOnce, regs
<1>8. CASE UNCHANGED vars
  BY <1>8 DEF vars, maps, regs, OpenedOnce
<1> QED
  BY <1>1, <1>2, <1>3, <1>4, <1>5, <1>6, <1>7, <1>8 DEF Next

LEMMA InitOpens == Init => nva > 0 /\ TableInv /\ OpenedOnce
<1> SUFFICES ASSUME Init PROVE nva > 0 /\ TableInv /\ OpenedOnce
  OBVIOUS
<1>1. nva > 0 /\ TableInv
  BY BusterAssumption DEF BusterAssumption, Init, TableInv
<1>2. SEEN \in Nat
  BY BusterAssumption DEF BusterAssumption, SEEN
<1>3. OpenedOnce
  BY <1>2 DEF Init, OpenedOnce
<1> QED
  BY <1>1, <1>3

\* bust_open never gets a mapping twice, never one that is gone, and never
\* NULL through a recorded slot (main.c:214-237), for every device content.
THEOREM EachMappingOpenedOnce == Spec => []OpenedOnce
<1>1. TypeInv /\ nva > 0 /\ [Next]_vars => (nva > 0)'
  BY FreshStep DEF TypeInv
<1> QED
  BY <1>1, InitOpens, InitType, StepType, StepTable, StepOpens, PTL DEF Spec
-----------------------------------------------------------------------------
(***************************************************************************)
(* What one probe does to the calls of bust_open: it adds one, for a       *)
(* mapping just made on this bus, or none; and none for a mappable block   *)
(* only because its mapping failed or no slot was left.                    *)
(***************************************************************************)
NewCallOf(o) == [va |-> nva, bus |-> bus, base |-> BaseAddr(conf[bus], o)]

LEMMA ProbeEffect ==
  ASSUME TypeOK, TableInv, OpenedOnce, nva > 0, pc # "unloaded",
         NEW o \in Nat, NEW next, next # "ub", Probe(o, next)
  PROVE  /\ probed' = [probed EXCEPT ![bus] = @ \union {o}]
         /\ lost' \/ ~lost
         /\ pc' = "ub" => opened' = opened /\ Len(opened) = SEEN
         /\ \/ /\ opened' = opened
               /\ Mappable(conf[bus], o) => lost' \/ pc' = "ub"
            \/ /\ opened' = Append(opened, NewCallOf(o))
               /\ Mappable(conf[bus], o)
<1>1. PICK va \in {NULL, nva} :
        /\ get_iommu_regs(o, va)
        /\ probed' = [probed EXCEPT ![bus] = @ \union {o}]
        /\ IF Full(va) THEN UNCHANGED regs ELSE Record(o, va)
        /\ pc' = IF Full(va) THEN "ub" ELSE next
  BY DEF Probe
<1>2. lost' \/ ~lost
  BY <1>1 DEF get_iommu_regs, get_mapping, maps
<1>3. pc' = "ub" => Full(va) /\ opened' = opened /\ Len(opened) = SEEN
  BY <1>1 DEF Full, OpenedOnce, regs
<1>4. CASE Full(va)
  BY <1>1, <1>2, <1>3, <1>4 DEF regs
<1>5. CASE ~Full(va) /\ va = 0
  <2>1. opened' = opened
    BY <1>1, <1>5 DEF Record, regs
  <2>2. Mappable(conf[bus], o) => lost'
    BY <1>1, <1>5 DEF get_iommu_regs, get_mapping, NULL
  <2> QED
    BY <1>1, <1>2, <1>3, <2>1, <2>2
<1>6. CASE ~Full(va) /\ va # 0
  <2>1. va = nva /\ nva \in Nat /\ SEEN \in Nat
    BY <1>1, <1>6, BusterAssumption
       DEF NULL, TypeOK, BusterAssumption, SEEN
  <2>2. ASSUME NEW s \in 0..(SEEN - 1) PROVE seen[s] # nva
    <3>1. CASE s < seen_idx
      <4>1. s + 1 \in 1..Len(opened)
        BY <2>1, <3>1 DEF OpenedOnce, TypeOK
      <4>2. opened[s + 1].va = seen[(s + 1) - 1] /\ opened[s + 1].va \in live
        BY <4>1 DEF OpenedOnce
      <4>3. seen[s] \in live
        BY <2>1, <4>2
      <4> QED
        BY <2>1, <4>3 DEF TableInv
    <3>2. CASE ~(s < seen_idx)
      <4>1. s \in seen_idx..(SEEN - 1)
        BY <2>1, <3>2 DEF TypeOK
      <4> QED
        BY <4>1 DEF OpenedOnce
    <3> QED
      BY <3>1, <3>2
  <2>3. ~is_repeat_in(va)
    BY <2>1, <2>2 DEF is_repeat_in
  <2>4. opened' = Append(opened, NewCallOf(o)) /\ Mappable(conf[bus], o)
    BY <1>1, <1>6, <2>1, <2>3 DEF Record, Opened, NewCallOf, get_iommu_regs
  <2> QED
    BY <1>1, <1>2, <1>3, <2>4
<1> QED
  BY <1>4, <1>5, <1>6

\* The second walk's probes, as ProbeEffect takes them.
LEMMA ProbesAt ==
  ASSUME TypeInv, ProbeFirst \/ ProbeNext
  PROVE  /\ bus \in Buses /\ conf' = conf /\ pc # "unloaded" /\ pc # "ub"
         /\ \E o \in Nat, next \in {"map", "next"} :
              Probe(o, next) /\ (pc' = "ub" \/ pc' = next)
         /\ bus' = bus \/ bus' = bus + 1
<1>0. TypeOK /\ CursorInv
  BY DEF TypeInv
<1>1. CASE ProbeFirst
  BY <1>0, <1>1 DEF ProbeFirst, Probe, TypeOK, walk
<1>2. CASE ProbeNext
  <2>1. bus \in Buses /\ cur + 1 \in Nat /\ cur + 1 < Page /\ cur \in Nat
    BY <1>0, <1>2 DEF ProbeNext, TypeOK, CursorInv, InPage, Page
  <2>2. PICK off : off = PtrAt(conf[bus], cur + 1)
    OBVIOUS
  <2>3. off \in Byte
    BY <1>0, <2>1, <2>2, PointerIsByte
  <2>4. cur + off \in Nat
    BY <2>1, <2>3, ByteRange
  <2>5. PICK next \in {"map", "next"} : Probe(cur + off, next)
    BY <1>2, <2>2 DEF ProbeNext
  <2>6. pc' = "ub" \/ pc' = next
    BY <2>5 DEF Probe
  <2> QED
    BY <1>2, <2>1, <2>4, <2>5, <2>6 DEF ProbeNext
<1> QED
  BY <1>1, <1>2

-----------------------------------------------------------------------------
(***************************************************************************)
(* EnabledOpened speaks of the end only; what is inductive is that no step *)
(* ever leaves a mappable block behind, until a mapping is lost or a slot  *)
(* is missing.                                                             *)
(***************************************************************************)
IsOpened(b, o) ==
  \E k \in 1..Len(opened) :
    opened[k].bus = b /\ opened[k].base = BaseAddr(conf[b], o)

ProbedOpened ==
  \A b \in Buses : \A o \in probed[b] : Mappable(conf[b], o) => IsOpened(b, o)

OpenedInv == lost \/ pc = "ub" \/ ProbedOpened

LEMMA StepEnabled ==
  TypeInv /\ nva > 0 /\ TableInv /\ OpenedOnce /\ OpenedInv /\ [Next]_vars
    => OpenedInv'
<1> SUFFICES ASSUME TypeInv, nva > 0, TableInv, OpenedOnce, OpenedInv,
                    [Next]_vars
             PROVE  OpenedInv'
  OBVIOUS
<1>0. TypeOK
  BY DEF TypeInv
<1>a. ASSUME UNCHANGED <<conf, probed, opened>>, ProbedOpened
      PROVE  ProbedOpened'
  BY <1>a DEF ProbedOpened, IsOpened
<1>1. CASE ProbeFirst \/ ProbeNext
  <2>1. /\ bus \in Buses /\ conf' = conf /\ pc # "unloaded" /\ pc # "ub"
        /\ \E o \in Nat, next \in {"map", "next"} : Probe(o, next)
    BY <1>1, ProbesAt
  <2>2. PICK o \in Nat, next \in {"map", "next"} : Probe(o, next)
    BY <2>1
  <2>3. /\ probed' = [probed EXCEPT ![bus] = @ \union {o}]
        /\ lost' \/ ~lost
        /\ \/ /\ opened' = opened
              /\ Mappable(conf[bus], o) => lost' \/ pc' = "ub"
           \/ opened' = Append(opened, NewCallOf(o))
    BY <1>0, <2>1, <2>2, ProbeEffect
  <2>4. SUFFICES ASSUME ~lost', pc' # "ub", NEW b \in Buses,
                        NEW x \in probed'[b], Mappable(conf[b], x)
                 PROVE  /\ \E k \in 1..Len(opened') :
                             /\ opened'[k].bus = b
                             /\ opened'[k].base = BaseAddr(conf[b], x)
    BY <2>1 DEF OpenedInv, ProbedOpened, IsOpened
  <2>5. ProbedOpened
    BY <2>1, <2>3, <2>4 DEF OpenedInv
  <2>6. x \in probed[b] \/ (b = bus /\ x = o)
    BY <1>0, <2>3, <2>4 DEF TypeOK
  <2>7. Len(opened) \in Nat
    BY <1>0 DEF TypeOK
  <2>8. CASE opened' = opened
    BY <2>3, <2>4, <2>5, <2>6, <2>8 DEF ProbedOpened, IsOpened
  <2>9. CASE opened' = Append(opened, NewCallOf(o))
    <3>1. /\ Len(opened') = Len(opened) + 1
          /\ opened'[Len(opened) + 1] = NewCallOf(o)
          /\ \A k \in 1..Len(opened) : opened'[k] = opened[k]
      BY <1>0, <2>9 DEF TypeOK
    <3>2. CASE x \in probed[b]
      <4>1. PICK k \in 1..Len(opened) :
              opened[k].bus = b /\ opened[k].base = BaseAddr(conf[b], x)
        BY <2>4, <2>5, <3>2 DEF ProbedOpened, IsOpened
      <4>2. k \in 1..Len(opened')
        BY <2>7, <3>1
      <4> QED
        BY <3>1, <4>1, <4>2
    <3>3. CASE b = bus /\ x = o
      <4>1. Len(opened) + 1 \in 1..Len(opened')
        BY <2>7, <3>1
      <4>2. /\ opened'[Len(opened) + 1].bus = b
            /\ opened'[Len(opened) + 1].base = BaseAddr(conf[b], x)
        BY <3>1, <3>3 DEF NewCallOf
      <4> QED
        BY <4>1, <4>2
    <3> QED
      BY <2>6, <3>2, <3>3
  <2> QED
    BY <2>3, <2>8, <2>9
<1>2. CASE MapConf
  <2>1. PICK va : get_mapping(va)
    BY <1>2 DEF MapConf
  <2>2. lost' \/ ~lost
    BY <2>1 DEF get_mapping
  <2> QED
    BY <1>2, <1>a, <2>2 DEF MapConf, regs, OpenedInv
<1>3. CASE CapStep \/ CapEnd \/ ProbeFault
  BY <1>3, <1>a DEF CapStep, CapEnd, ProbeFault, maps, regs, OpenedInv
<1>4. CASE FreeAll
  BY <1>4, <1>a DEF FreeAll, regs, OpenedInv
<1>5. CASE UNCHANGED vars
  BY <1>5, <1>a DEF vars, maps, regs, OpenedInv
<1> QED
  BY <1>1, <1>2, <1>3, <1>4, <1>5 DEF Next

\* If every mapping succeeded, each enabled block with a base that buster_ini
\* looked at, on any bus, was handed to bust_open (main.c:214-239), for every
\* device content, number of buses and table size.
THEOREM EnabledAreOpened == Spec => []EnabledOpened
<1>1. Init => nva > 0 /\ TableInv /\ OpenedOnce /\ OpenedInv
  <2> SUFFICES ASSUME Init PROVE nva > 0 /\ TableInv /\ OpenedOnce /\ OpenedInv
    OBVIOUS
  <2>1. OpenedInv
    BY DEF Init, OpenedInv, ProbedOpened
  <2> QED
    BY <2>1, InitOpens
<1>2. TypeInv /\ nva > 0 /\ [Next]_vars => (nva > 0)'
  BY FreshStep DEF TypeInv
<1>3. OpenedInv => EnabledOpened
  BY DEF OpenedInv, ProbedOpened, IsOpened, EnabledOpened
<1> QED
  BY <1>1, <1>2, <1>3, InitType, StepType, StepTable, StepOpens, StepEnabled,
     PTL DEF Spec
-----------------------------------------------------------------------------
(***************************************************************************)
(* SeenHasRoom counts: while no bus shows four enabled blocks, each bus    *)
(* left behind has used at most four slots, one for each of its blocks and *)
(* one for the repeat that ended its walk, and the present one as many as  *)
(* it has shown blocks.                                                    *)
(***************************************************************************)
Sparse == \A b \in Buses : Cardinality(Blocks(b)) < 4

OnThisBus == IF pc = "next" THEN Cardinality(Blocks(bus)) ELSE 0

CountInv ==
  /\ SeenHasRoom
  /\ Sparse /\ pc \notin {"ub", "oops"} => Len(opened) <= 4 * bus + OnThisBus

\* A probe takes no block away, and adds the one it looked at if that is new.
LEMMA ProbeBlocks ==
  ASSUME TypeOK, ReachInv, bus \in Buses, conf' = conf, NEW o, NEW next,
         Probe(o, next)
  PROVE  /\ \A b \in Buses : /\ Cardinality(Blocks(b)) \in Nat
                             /\ Cardinality(Blocks(b)') \in Nat
                             /\ Cardinality(Blocks(b)) <= Cardinality(Blocks(b)')
         /\ \A b \in Buses :
              b = bus /\ o \notin probed[b] /\ Mappable(conf[b], o)
                => Cardinality(Blocks(b)') = Cardinality(Blocks(b)) + 1
<1>1. /\ probed'[bus] = probed[bus] \union {o}
      /\ \A b \in Buses : b # bus => probed'[b] = probed[b]
      /\ \A b \in Buses : IsFiniteSet(probed'[b])
  BY ProbeHistory
<1>2. ASSUME NEW b \in Buses
      PROVE  /\ Blocks(b)' = {x \in probed'[b] : Mappable(conf[b], x)}
             /\ Blocks(b) \subseteq Blocks(b)'
             /\ IsFiniteSet(Blocks(b)') /\ IsFiniteSet(Blocks(b))
  <2>1. Blocks(b)' = {x \in probed'[b] : Mappable(conf[b], x)}
    BY DEF Blocks
  <2>2. probed[b] \subseteq probed'[b]
    BY <1>1
  <2>3. Blocks(b) \subseteq Blocks(b)'
    BY <2>1, <2>2 DEF Blocks
  <2>4. Blocks(b)' \subseteq probed'[b] /\ IsFiniteSet(probed'[b])
    BY <1>1, <2>1
  <2>5. IsFiniteSet(Blocks(b)')
    BY <2>4, FS_Subset
  <2>6. IsFiniteSet(Blocks(b))
    BY <2>3, <2>5, FS_Subset
  <2> QED
    BY <2>1, <2>3, <2>5, <2>6
<1>3. ASSUME NEW b \in Buses
      PROVE  /\ Cardinality(Blocks(b)) \in Nat
             /\ Cardinality(Blocks(b)') \in Nat
             /\ Cardinality(Blocks(b)) <= Cardinality(Blocks(b)')
  <2>1. /\ IsFiniteSet(Blocks(b)') /\ IsFiniteSet(Blocks(b))
        /\ Blocks(b) \in SUBSET Blocks(b)'
    BY <1>2
  <2> QED
    BY <2>1, FS_CardinalityType, FS_Subset
<1>4. ASSUME NEW b \in Buses, b = bus, o \notin probed[b],
             Mappable(conf[b], o)
      PROVE  Cardinality(Blocks(b)') = Cardinality(Blocks(b)) + 1
  <2>1. Blocks(b)' = Blocks(b) \union {o}
    BY <1>1, <1>2, <1>4 DEF Blocks
  <2>2. o \notin Blocks(b) /\ IsFiniteSet(Blocks(b))
    BY <1>2, <1>4 DEF Blocks
  <2> QED
    BY <2>1, <2>2, FS_AddElement
<1> QED
  BY <1>3, <1>4

\* One more call, on the same bus for a new block or as the last of its bus.
LEMMA Share ==
  ASSUME NEW n \in Nat, NEW n2 \in Nat, NEW b \in Nat, NEW k \in Nat,
         NEW k2 \in Nat, n <= 4 * b + k
  PROVE  /\ n2 = n + 1 /\ k2 = k + 1 => n2 <= 4 * b + k2
         /\ n2 = n /\ k <= k2 => n2 <= 4 * b + k2
         /\ n2 <= n + 1 /\ k < 4 => n2 <= 4 * (b + 1)
  BY SMT

LEMMA StepCount ==
  TypeInv /\ ReachInv /\ nva > 0 /\ TableInv /\ OpenedOnce /\ CountInv
    /\ [Next]_vars => CountInv'
<1> SUFFICES ASSUME TypeInv, ReachInv, nva > 0, TableInv, OpenedOnce,
                    CountInv, [Next]_vars
             PROVE  CountInv'
  OBVIOUS
<1>0. TypeOK /\ CursorInv /\ Len(opened) \in Nat
  BY DEF TypeInv, TypeOK
<1>b. /\ NMIOMMU \in Nat \ {0} /\ Buses = 0..(NMIOMMU - 1)
      /\ SEEN = NMIOMMU * 4
  BY BusterAssumption DEF BusterAssumption, Buses, SEEN
\* Every probe: it overflows the table only on a crowded bus, and otherwise
\* the block it maps is counted.
<1>c. ASSUME bus \in Buses, conf' = conf, pc \in {"probe", "next"},
             NEW o \in Nat, NEW next \in {"map", "next"}, Probe(o, next),
             next = "next" => o \notin probed[bus] /\ bus' = bus,
             next = "map" => pc = "next" /\ bus' = bus + 1,
             pc = "probe" => probed[bus] = {}
      PROVE  CountInv'
  <2>1. /\ pc' = "ub" => opened' = opened /\ Len(opened) = SEEN
        /\ \/ opened' = opened
           \/ /\ opened' = Append(opened, NewCallOf(o))
              /\ Mappable(conf[bus], o)
    BY <1>0, <1>c, ProbeEffect
  <2>2. \A b \in Buses : /\ Cardinality(Blocks(b)) \in Nat
                        /\ Cardinality(Blocks(b)') \in Nat
                        /\ Cardinality(Blocks(b)) <= Cardinality(Blocks(b)')
    BY <1>0, <1>c, ProbeBlocks
  <2>3. PICK at \in Buses : at = bus
    BY <1>c
  <2>4. PICK k \in Nat : k = Cardinality(Blocks(at))
    BY <2>2
  <2>5. PICK k2 \in Nat : k2 = Cardinality(Blocks(at)')
    BY <2>2
  <2>6. k <= k2
    BY <2>2, <2>4, <2>5
  <2>7. Sparse' => Sparse
    BY <2>2 DEF Sparse
  <2>8. Sparse => k < 4
    BY <2>4 DEF Sparse
  <2>9. ASSUME Sparse PROVE Len(opened) <= 4 * at + k
    <3>1. Len(opened) <= 4 * bus + OnThisBus
      BY <1>c, <2>9 DEF CountInv
    <3>2. CASE pc = "next"
      BY <2>3, <2>4, <3>1, <3>2 DEF OnThisBus
    <3>3. CASE pc = "probe"
      <4>1. OnThisBus = 0 /\ at \in Nat
        BY <1>b, <3>3 DEF OnThisBus
      <4> QED
        BY <1>0, <2>3, <2>4, <3>1, <4>1
    <3> QED
      BY <1>c, <3>2, <3>3
  <2>10. at \in Nat /\ at < NMIOMMU
    BY <1>b, <2>3
  <2>11. PICK n2 \in Nat : n2 = Len(opened')
    <3>1. opened' \in Seq([va : Nat, bus : Buses, base : [0..7 -> Byte]])
      BY StepType DEF TypeInv, TypeOK
    <3> QED
      BY <3>1
  <2>12. CASE pc' = "ub"
    <3>1. ~Sparse
      <4> SUFFICES ASSUME Sparse PROVE FALSE
        OBVIOUS
      <4>1. Len(opened) <= 4 * at + k /\ k < 4 /\ Len(opened) = NMIOMMU * 4
        BY <1>b, <2>1, <2>8, <2>9, <2>12
      <4> QED
        BY <1>b, <2>4, <2>10, <4>1
    <3>2. PICK b \in Buses : ~(Cardinality(Blocks(b)') < 4)
      BY <2>7, <3>1 DEF Sparse
    <3>3. Cardinality(Blocks(b)') >= 4
      BY <2>2, <3>2
    <3>4. SeenHasRoom'
      BY <3>3 DEF SeenHasRoom
    <3> QED
      BY <2>12, <3>4 DEF CountInv
  <2>13. CASE pc' # "ub"
    <3>1. SeenHasRoom' /\ pc' = next
      BY <1>c, <2>13 DEF SeenHasRoom, Probe
    <3> SUFFICES ASSUME Sparse' PROVE n2 <= 4 * bus' + OnThisBus'
      BY <2>11, <3>1 DEF CountInv
    <3>2. Len(opened) <= 4 * at + k /\ k < 4
      BY <2>7, <2>8, <2>9
    <3>3. \/ n2 = Len(opened)
          \/ n2 = Len(opened) + 1 /\ Mappable(conf[at], o)
      <4>1. CASE opened' = opened
        BY <2>11, <4>1
      <4>2. CASE opened' = Append(opened, NewCallOf(o))
                   /\ Mappable(conf[bus], o)
        <5>1. Len(opened') = Len(opened) + 1
          BY <1>0, <4>2 DEF TypeOK
        <5> QED
          BY <2>3, <2>11, <4>2, <5>1
      <4> QED
        BY <2>1, <4>1, <4>2
    <3>4. CASE next = "map"
      <4>1. bus' = at + 1 /\ OnThisBus' = 0 /\ n2 <= Len(opened) + 1
        BY <1>0, <1>c, <2>3, <2>11, <3>1, <3>3, <3>4 DEF OnThisBus
      <4>2. n2 <= 4 * (at + 1)
        BY <1>0, <2>4, <2>5, <2>10, <2>11, <3>2, <4>1, Share
      <4> QED
        BY <2>10, <2>11, <4>1, <4>2
    <3>5. CASE next = "next"
      <4>1. o \notin probed[at] /\ bus' = at
        BY <1>c, <2>3, <3>5
      <4>2. OnThisBus' = k2
        <5>1. OnThisBus' = Cardinality(Blocks(bus)')
          BY <3>1, <3>5 DEF OnThisBus
        <5>2. Blocks(bus)' = Blocks(at)'
          BY <4>1 DEF Blocks
        <5> QED
          BY <2>5, <5>1, <5>2
      <4>3. Mappable(conf[at], o) => k2 = k + 1
        BY <1>0, <1>c, <2>3, <2>4, <2>5, <4>1, ProbeBlocks
      <4>4. n2 <= 4 * at + k2
        BY <1>0, <2>4, <2>5, <2>6, <2>10, <2>11, <3>2, <3>3, <4>3, Share
      <4> QED
        BY <4>1, <4>2, <4>4
    <3> QED
      BY <1>c, <3>4, <3>5
  <2> QED
    BY <2>12, <2>13
\* A step that neither looks at a block nor makes a call.
<1>d. ASSUME UNCHANGED <<opened, probed, conf>>, pc # "ub", pc # "oops",
             pc # "next", pc' # "ub", pc' # "next", bus \in Nat,
             bus' = bus \/ bus' = bus + 1
      PROVE  CountInv'
  <2>1. (Sparse' <=> Sparse) /\ SeenHasRoom'
    BY <1>d DEF Sparse, Blocks, SeenHasRoom
  <2>2. OnThisBus = 0
    BY <1>d DEF OnThisBus
  <2>3. OnThisBus' = 0
    BY <1>d DEF OnThisBus
  <2>4. Sparse => Len(opened) <= 4 * bus' + 0
    BY <1>0, <1>d, <2>2 DEF CountInv
  <2> QED
    BY <1>d, <2>1, <2>3, <2>4 DEF CountInv
<1>1. CASE ProbeFirst
  <2>1. /\ bus \in Buses /\ cur \in Nat /\ pc = "probe" /\ conf' = conf
        /\ bus' = bus /\ Probe(cur, "next")
    BY <1>0, <1>1 DEF ProbeFirst, TypeOK, walk
  <2>2. probed[bus] = {}
    BY <2>1 DEF ReachInv
  <2> QED
    BY <1>c, <2>1, <2>2
<1>2. CASE ProbeNext
  <2>1. PICK off \in Byte :
          /\ bus \in Buses /\ cur \in Nat /\ cur + off \in Nat
          /\ conf' = conf /\ pc = "next"
          /\ \/ bus' = bus + 1 /\ Probe(cur + off, "map")
             \/ /\ off \in 1..254 /\ bus' = bus
                /\ Probe(cur + off, "next")
    BY <1>2, Pass
  <2>2. CASE bus' = bus + 1 /\ Probe(cur + off, "map")
    BY <1>c, <2>1, <2>2
  <2>3. CASE off \in 1..254 /\ bus' = bus /\ Probe(cur + off, "next")
    <3>1. \A o \in probed[bus] : o <= cur
      BY <2>1 DEF ReachInv
    <3>2. cur + off \notin probed[bus]
      BY <2>1, <2>3, <3>1
    <3> QED
      BY <1>c, <2>1, <2>3, <3>2
  <2> QED
    BY <2>1, <2>2, <2>3
<1>3. CASE MapConf
  <2>1. /\ UNCHANGED <<opened, probed, conf>> /\ pc = "map"
        /\ pc' \in {"map", "caps"} /\ (bus' = bus \/ bus' = bus + 1)
    BY <1>3 DEF MapConf, regs
  <2>2. bus \in Nat
    BY <1>0, <1>b DEF TypeOK
  <2> QED
    BY <1>d, <2>1, <2>2
<1>4. CASE CapStep \/ CapEnd \/ FreeAll
  <2>1. /\ UNCHANGED <<opened, probed, conf, bus>> /\ pc \in {"map", "caps"}
        /\ pc' \in {"caps", "probe", "unloaded"}
    BY <1>4 DEF CapStep, CapEnd, FreeAll, regs, walk
  <2>2. bus \in Nat
    BY <1>0, <1>b DEF TypeOK
  <2> QED
    BY <1>d, <2>1, <2>2
<1>5. CASE ProbeFault
  BY <1>5 DEF ProbeFault, CountInv, SeenHasRoom
<1>6. CASE UNCHANGED vars
  BY <1>6 DEF vars, walk, regs, CountInv, SeenHasRoom, Sparse, Blocks,
              OnThisBus
<1> QED
  BY <1>1, <1>2, <1>3, <1>4, <1>5, <1>6 DEF Next

\* seen_iommu_regs runs out of its NMIOMMU * 4 slots (main.c:205) only on a
\* machine where the walk met four different enabled blocks on one bus, for
\* every number of buses, every device content and every pattern of failing
\* ioremaps: the block that line 239 makes it look at twice costs one slot.
THEOREM OverflowNeedsFourBlocks == Spec => []SeenHasRoom
<1>1. Init => CountInv
  <2> SUFFICES ASSUME Init PROVE CountInv
    OBVIOUS
  <2>1. Len(opened) = 0 /\ bus = 0 /\ OnThisBus = 0 /\ SeenHasRoom
    BY DEF Init, OnThisBus, SeenHasRoom
  <2> QED
    BY <2>1 DEF CountInv
<1>2. TypeInv /\ nva > 0 /\ [Next]_vars => (nva > 0)'
  BY FreshStep DEF TypeInv
<1>3. CountInv => SeenHasRoom
  BY DEF CountInv
<1> QED
  BY <1>1, <1>2, <1>3, InitOpens, InitType, InitReach, StepType, StepReach,
     StepTable, StepOpens, StepCount, PTL DEF Spec
-----------------------------------------------------------------------------
(***************************************************************************)
(* OverrunNeedsFailure needs an account of the slots: as long as nothing   *)
(* failed, each slot of vaddrs in use holds the page of a bus or a mapping *)
(* that has its slot in seen_iommu_regs too.                               *)
(***************************************************************************)
PageMapped == IF pc \in {"map", "unloaded"} THEN 0 ELSE 1

Accounted == pc # "ub" => idx <= bus + PageMapped + seen_idx

AccountInv ==
  N_VADDR > NMIOMMU + SEEN /\ ~lost => ~overrun /\ Accounted

\* get_mapping takes one slot while there is one.
LEMMA MappingTakesSlot ==
  ASSUME TypeOK, NEW va, get_mapping(va), ~overrun, idx < N_VADDR
  PROVE  ~overrun' /\ idx' = idx + 1 /\ (lost' \/ ~lost)
<1>1. idx \in Nat /\ N_VADDR \in Nat
  BY BusterAssumption DEF BusterAssumption, TypeOK
<1>2. ~(idx > N_VADDR) /\ idx # N_VADDR
  BY <1>1
<1>3. idx' \in {idx + 1} \union {} /\ (overrun' <=> overrun)
  BY <1>2 DEF get_mapping, TypeOK
<1>4. lost' \/ ~lost
  BY DEF get_mapping
<1> QED
  BY <1>3, <1>4

\* A probe takes a slot of vaddrs only with one of seen_iommu_regs.
LEMMA ProbeAccounts ==
  ASSUME TypeOK, TableInv, OpenedOnce, OpenedOnce', nva > 0, pc # "unloaded",
         ~overrun, idx < N_VADDR, ~lost',
         NEW o \in Nat, NEW next, next # "ub", Probe(o, next)
  PROVE  /\ ~lost /\ ~overrun'
         /\ pc' # "ub" => idx' - idx <= seen_idx' - seen_idx
<1>0. idx \in Nat /\ Len(opened) \in Nat
  BY DEF TypeOK
<1>1. /\ lost' \/ ~lost
      /\ \/ opened' = opened /\ (Mappable(conf[bus], o) => lost' \/ pc' = "ub")
         \/ opened' = Append(opened, NewCallOf(o))
  BY ProbeEffect
<1>2. seen_idx = Len(opened) /\ seen_idx' = Len(opened')
  BY DEF OpenedOnce
<1>3. PICK va : get_iommu_regs(o, va)
  BY DEF Probe
<1>4. CASE Mappable(conf[bus], o)
  <2>1. ~overrun' /\ idx' = idx + 1
    BY <1>3, <1>4, MappingTakesSlot DEF get_iommu_regs
  <2>2. pc' # "ub" => Len(opened') = Len(opened) + 1
    BY <1>1, <1>4 DEF TypeOK
  <2> QED
    BY <1>0, <1>1, <1>2, <2>1, <2>2
<1>5. CASE ~Mappable(conf[bus], o)
  <2>1. ~overrun' /\ idx' = idx
    BY <1>3, <1>5 DEF get_iommu_regs, maps
  <2>2. Len(opened') = Len(opened) \/ Len(opened') = Len(opened) + 1
    BY <1>1 DEF TypeOK
  <2> QED
    BY <1>0, <1>1, <1>2, <2>1, <2>2
<1> QED
  BY <1>4, <1>5

\* What is in use grows no faster than what it is accounted to.
LEMMA Balance ==
  ASSUME NEW use \in Nat, NEW use2 \in Nat, NEW b \in Nat, NEW b2 \in Nat,
         NEW m \in Nat, NEW s \in Nat, NEW s2 \in Nat,
         use <= b + 1 + s, use2 - use <= s2 - s, b2 + m >= b + 1
  PROVE  use2 <= b2 + m + s2
  BY SMT

LEMMA StepAccount ==
  TypeInv /\ TypeInv' /\ nva > 0 /\ TableInv /\ OpenedOnce /\ OpenedOnce'
    /\ AccountInv /\ [Next]_vars => AccountInv'
<1> SUFFICES ASSUME TypeInv, TypeInv', nva > 0, TableInv, OpenedOnce,
                    OpenedOnce', AccountInv, [Next]_vars,
                    N_VADDR > NMIOMMU + SEEN, ~lost'
             PROVE  ~overrun' /\ Accounted'
  BY DEF AccountInv
<1>0. /\ TypeOK /\ idx \in Nat /\ idx' \in Nat /\ bus \in Nat /\ bus' \in Nat
      /\ seen_idx \in 0..SEEN /\ seen_idx' \in 0..SEEN
  <2>1. TypeOK /\ TypeOK'
    BY DEF TypeInv
  <2>2. idx \in Nat /\ idx' \in Nat
    BY <2>1 DEF TypeOK
  <2>3. bus \in 0..NMIOMMU /\ bus' \in 0..NMIOMMU
    BY <2>1 DEF TypeOK
  <2>4. seen_idx \in 0..SEEN /\ seen_idx' \in 0..SEEN
    BY <2>1 DEF TypeOK
  <2> QED
    BY <2>1, <2>2, <2>3, <2>4
<1>b. /\ NMIOMMU \in Nat \ {0} /\ Buses = 0..(NMIOMMU - 1)
      /\ SEEN \in Nat /\ N_VADDR \in Nat
  BY BusterAssumption DEF BusterAssumption, Buses, SEEN
<1>c. ~lost => ~overrun /\ Accounted
  BY DEF AccountInv
\* There is a slot for the page of a bus and for what is found on it.
<1>d. ASSUME bus \in Buses, pc # "ub", ~lost PROVE idx < N_VADDR
  <2>1. bus <= NMIOMMU - 1 /\ PageMapped \in {0, 1}
    BY <1>b, <1>d DEF PageMapped
  <2>2. idx <= bus + PageMapped + seen_idx
    BY <1>c, <1>d DEF Accounted
  <2> QED
    BY <1>0, <1>b, <2>1, <2>2
<1>1. CASE ProbeFirst \/ ProbeNext
  <2>1. /\ bus \in Buses /\ pc # "unloaded" /\ pc # "ub" /\ pc # "map"
        /\ \E o \in Nat, next \in {"map", "next"} : Probe(o, next)
    BY <1>1, ProbesAt DEF ProbeFirst, ProbeNext
  <2>2. PICK o \in Nat, next \in {"map", "next"} : Probe(o, next)
    BY <2>1
  <2>3. ~lost
    BY <1>0, <2>1, <2>2, ProbeEffect
  <2>4. ~overrun /\ idx < N_VADDR
    BY <1>c, <1>d, <2>1, <2>3
  <2>5. ~overrun' /\ (pc' # "ub" => idx' - idx <= seen_idx' - seen_idx)
    BY <1>0, <2>1, <2>2, <2>4, ProbeAccounts
  <2>6. idx <= bus + 1 + seen_idx
    BY <1>c, <2>1, <2>3 DEF Accounted, PageMapped
  <2>7. pc' # "ub" => (pc' = "next" /\ bus' = bus) \/ bus' = bus + 1
    <3>1. CASE ProbeFirst
      BY <3>1 DEF ProbeFirst, Probe, walk
    <3>2. CASE ProbeNext
      BY <3>2 DEF ProbeNext, Probe
    <3> QED
      BY <1>1, <3>1, <3>2
  <2>8. PICK m \in Nat : m = PageMapped'
    BY DEF PageMapped
  <2>9. pc' # "ub" => bus' + m >= bus + 1
    <3>1. pc' = "next" => m = 1
      BY <2>8 DEF PageMapped
    <3>2. bus \in Nat /\ m \in Nat
      BY <1>0
    <3>3. CASE bus' = bus /\ pc' = "next"
      BY <3>1, <3>2, <3>3
    <3>4. CASE bus' = bus + 1
      BY <3>2, <3>4
    <3> QED
      BY <2>7, <3>3, <3>4
  <2>10. Accounted'
    <3>0. /\ bus \in Nat /\ bus' \in Nat /\ m \in Nat /\ idx \in Nat
          /\ idx' \in Nat /\ seen_idx \in Nat /\ seen_idx' \in Nat
      BY <1>0, <1>b
    <3>1. ASSUME pc' # "ub" PROVE idx' <= bus' + m + seen_idx'
      <4>1. bus' + m >= bus + 1 /\ idx' - idx <= seen_idx' - seen_idx
        BY <2>5, <2>9, <3>1
      <4> QED
        BY <2>6, <3>0, <4>1, Balance
    <3> QED
      BY <2>8, <3>1 DEF Accounted
  <2> QED
    BY <2>5, <2>10
<1>2. CASE MapConf
  <2>1. PICK va \in {NULL, nva} :
          /\ get_mapping(va)
          /\ va # NULL => pc' = "caps" /\ bus' = bus
    BY <1>2 DEF MapConf
  <2>2. va # NULL
    BY <2>1 DEF get_mapping
  <2>3. ~lost
    BY <2>1 DEF get_mapping
  <2>4. pc = "map" /\ bus \in Buses /\ seen_idx' = seen_idx
    BY <1>0, <1>2, <1>b DEF MapConf, TypeOK, regs
  <2>5. ~overrun /\ idx < N_VADDR /\ idx <= bus + 0 + seen_idx
    BY <1>c, <1>d, <2>3, <2>4 DEF Accounted, PageMapped
  <2>6. ~overrun' /\ idx' = idx + 1
    BY <1>0, <2>1, <2>5, MappingTakesSlot
  <2>7. PageMapped' = 1
    BY <2>1, <2>2 DEF PageMapped
  <2>8. Accounted'
    BY <1>0, <2>1, <2>2, <2>4, <2>5, <2>6, <2>7 DEF Accounted
  <2> QED
    BY <2>6, <2>8
<1>3. CASE CapStep \/ CapEnd \/ ProbeFault
  <2>1. /\ bus' = bus /\ UNCHANGED <<idx, overrun, lost, seen_idx>>
        /\ pc \in {"caps", "next"} /\ pc' \in {"caps", "probe", "oops"}
    BY <1>3 DEF CapStep, CapEnd, ProbeFault, walk, maps, regs
  <2> QED
    BY <1>c, <2>1 DEF Accounted, PageMapped
<1>4. CASE FreeAll
  BY <1>4, <1>c DEF FreeAll, walk, regs, Accounted, PageMapped
<1>5. CASE UNCHANGED vars
  BY <1>5, <1>c DEF vars, walk, maps, regs, Accounted, PageMapped
<1> QED
  BY <1>1, <1>2, <1>3, <1>4, <1>5 DEF Next

\* Unless an ioremap fails, vaddrs of utils.h:51 is never written past its end,
\* although the guard of utils.c:153 is off by one, whatever the devices hold.
THEOREM OverrunsNeedFailure == Spec => []OverrunNeedsFailure
<1>1. Init => AccountInv
  BY DEF Init, AccountInv, Accounted, PageMapped
<1>2. TypeInv /\ nva > 0 /\ [Next]_vars => (nva > 0)'
  BY FreshStep DEF TypeInv
<1>3. AccountInv => OverrunNeedsFailure
  BY DEF AccountInv, OverrunNeedsFailure
<1> QED
  BY <1>1, <1>2, <1>3, InitOpens, InitType, StepType, StepTable, StepOpens,
     StepAccount, PTL DEF Spec

-----------------------------------------------------------------------------
\* What a pass of the second walk does: it is the last, or cap_ptr moves on.
SecondWalkMoves ==
  pc = "next" => pc' # "next" \/ (cur < cur' /\ InPage(cur'))

(***************************************************************************)
(* The second walk cannot go round in circles, even on a list that does:   *)
(* each pass that is not the last moves cap_ptr forward inside the page    *)
(* (main.c:225-239), so there are fewer than 4096.                         *)
(***************************************************************************)
THEOREM SecondWalkAdvances == Spec => [][SecondWalkMoves]_vars
<1>1. TypeInv /\ [Next]_vars => [SecondWalkMoves]_vars
  <2> SUFFICES ASSUME TypeInv, Next, pc = "next", pc' = "next"
               PROVE  cur < cur' /\ InPage(cur')
    BY DEF SecondWalkMoves
  <2>0. TypeOK /\ CursorInv
    BY DEF TypeInv
  <2>1. ProbeNext
    BY DEF Next, MapConf, CapStep, CapEnd, ProbeFirst, ProbeFault, FreeAll
  <2>2. PICK off : off = PtrAt(conf[bus], cur + 1)
    OBVIOUS
  <2>3. bus \in Buses /\ cur \in Nat /\ cur + 1 \in Nat /\ cur + 1 < Page
    BY <2>0 DEF TypeOK, CursorInv, InPage, Page
  <2>4. off \in Nat
    BY <2>0, <2>2, <2>3, PointerIsByte, ByteRange
  <2>5. InPage(cur + off) /\ cur' = cur + off
    BY <2>1, <2>2 DEF ProbeNext
  <2>6. off # 0
    BY <2>1, <2>2 DEF ProbeNext, Probe, LastBlock
  <2> QED
    BY <2>3, <2>4, <2>5, <2>6
<1> QED
  BY <1>1, InitType, StepType, PTL DEF Spec
=============================================================================
