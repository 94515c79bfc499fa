--------------------------- MODULE LogRangeProofs ---------------------------
(***************************************************************************)
(* Proofs about LogRange, for every set of values, block size, range       *)
(* length, number of calls and number of hardware writes.                  *)
(***************************************************************************)
EXTENDS LogRange, TLAPS

\* The placeholder prev_val holds before the first block is read is a block.
LEMMA NoBlockType == NoBlock \in Block
  <1>1. (CHOOSE v \in Val : TRUE) \in Val
    BY LogRangeAssumption
  <1>2. QED
    BY <1>1 DEF NoBlock, Block

\* Appending a line keeps lines a sequence of lines.
LEMMA AppendLine ==
  ASSUME NEW ls \in Seq(Line), NEW c \in Nat, NEW o \in Int, NEW b \in Block
  PROVE  Append(ls, [cnt |-> c + 1, off |-> o, val |-> b]) \in Seq(Line)
  BY DEF Line

-----------------------------------------------------------------------------
(***************************************************************************)
(* Type correctness and ReadsInRange are inductive together: an index into *)
(* mem is only in its domain because the reads stay in the range.          *)
(***************************************************************************)
ControlInv ==
  /\ pc \in {"fill", "cmp", "copy"} => BLOCK_WORDS <= len
  /\ pc = "fill" => ptr = 0
  /\ pc = "copy" => ptr + BLOCK_WORDS <= len
  /\ pc \in {"cmp", "tail"} => ptr <= len
  /\ pc = "cmp" /\ ~InLoop => i = 0
  /\ pc # "idle" => len >= 0 /\ outcome = "none"

RangeInv == TypeOK /\ ControlInv

LEMMA InitRange == Init => RangeInv
  BY NoBlockType, LogRangeAssumption
     DEF Init, RangeInv, TypeOK, ControlInv, Line

LEMMA StepRange == RangeInv /\ [Next]_vars => RangeInv'
  <1> SUFFICES ASSUME RangeInv, [Next]_vars PROVE RangeInv'
    OBVIOUS
  <1> USE LogRangeAssumption DEF RangeInv, TypeOK, ControlInv, frame, InLoop,
                             WordsLeft, RunLength, AtLimit
  <1>1. ASSUME NEW s \in Starts, NEW n \in -1..MaxLen,
               NEW msg \in {"ok", "special", "long"},
               NEW m \in [0..(n - 1) -> Val],
               calls < MaxCalls, Call(s, n, msg, m)
        PROVE  RangeInv'
    <2>1. ~Rejected(s, n, msg) => 0 <= n
      BY DEF Rejected
    <2>2. ~IsShort(n) => BLOCK_WORDS <= n
      BY DEF IsShort, BLOCK_BYTES
    <2>4. TypeOK'
      BY <1>1, NoBlockType DEF Call, Line
    <2>5. ControlInv'
      BY <1>1, <2>1, <2>2 DEF Call
    <2>6. QED
      BY <2>4, <2>5
  <1>2. CASE Fill
    BY <1>2 DEF Fill, Block
  <1>3. CASE CompareEqual
    BY <1>3 DEF CompareEqual
  <1>4. CASE CompareDiffers
    <2>1. FlushOffset \in Int
      BY DEF FlushOffset, BLOCK_BYTES
    <2>2. lines' \in Seq(Line)
      BY <1>4, <2>1, AppendLine DEF CompareDiffers
    <2>3. QED
      BY <1>4, <2>2 DEF CompareDiffers
  <1>5. CASE Copy
    BY <1>5 DEF Copy, Block
  <1>6. CASE PrintLast
    <2>1. LastOffset \in Int
      BY DEF LastOffset
    <2>2. lines' \in Seq(Line)
      BY <1>6, <2>1, AppendLine DEF PrintLast
    <2>3. QED
      BY <1>6, <2>2 DEF PrintLast
  <1>7. CASE TailWord
    <2>1. words' \in Seq([off : Nat, val : Val])
      BY <1>7 DEF TailWord
    <2>2. QED
      BY <1>7, <2>1 DEF TailWord
  <1>8. CASE End
    BY <1>8 DEF End
  <1>9. ASSUME NEW w \in 0..(len - 1), NEW v \in Val, HwWrite(w, v)
        PROVE  RangeInv'
    BY <1>9 DEF HwWrite
  <1>10. CASE UNCHANGED vars
    BY <1>10 DEF vars
  <1>11. QED
    BY <1>1, <1>2, <1>3, <1>4, <1>5, <1>6, <1>7, <1>8, <1>9, <1>10
       DEF Next, NewCall, Step, Hardware

(***************************************************************************)
(* Type correctness of log_range, for ranges and blocks of every size.     *)
(***************************************************************************)
THEOREM TypeCorrect == Spec => []TypeOK
  <1>1. RangeInv => TypeOK
    BY DEF RangeInv
  <1>2. QED
    BY <1>1, InitRange, StepRange, PTL DEF Spec

(***************************************************************************)
(* No read of log_range leaves the range, for ranges and blocks of every   *)
(* size, whatever the hardware writes during the call.                     *)
(***************************************************************************)
THEOREM ReadsStayInRange == Spec => []ReadsInRange
  <1>1. RangeInv => ReadsInRange
    BY LogRangeAssumption
       DEF RangeInv, TypeOK, ControlInv, ReadsInRange, InLoop
  <1>2. QED
    BY <1>1, InitRange, StepRange, PTL DEF Spec

-----------------------------------------------------------------------------
(***************************************************************************)
(* LinesTile is inductive once the control facts it leans on are added:    *)
(* nothing is printed before the loop, count is zero while a block is      *)
(* copied, single words are printed only after the loop, and a finished    *)
(* call has left its loop.                                                 *)
(***************************************************************************)
PrintInv ==
  /\ pc = "fill" => lines = << >> /\ words = << >> /\ count = 0
  /\ pc = "copy" => count = 0
  /\ pc \in {"cmp", "copy"} => words = << >>
  /\ outcome = "ok" => pc = "idle"

TileInv == RangeInv /\ PrintInv /\ LinesTile

\* Printing a block line leaves the lines before it where they were.
LEMMA AppendOffsets ==
  ASSUME lines \in Seq(Line), NEW l \in Line, lines' = Append(lines, l)
  PROVE  /\ Len(lines') = Len(lines) + 1
         /\ lines'[Len(lines) + 1] = l
         /\ \A j \in 1..Len(lines) : lines'[j] = lines[j]
         /\ \A j \in 1..(Len(lines) + 1) : TrueOffset(j)' = TrueOffset(j)
         /\ FlushedTo' = l.off + l.cnt * BLOCK_BYTES
  <1>1. /\ Len(lines') = Len(lines) + 1
        /\ lines'[Len(lines) + 1] = l
        /\ \A j \in 1..Len(lines) : lines'[j] = lines[j]
    OBVIOUS
  <1>2. \A j \in 1..(Len(lines) + 1) : TrueOffset(j)' = TrueOffset(j)
    BY <1>1 DEF TrueOffset
  <1>3. FlushedTo' = l.off + l.cnt * BLOCK_BYTES
    BY <1>1 DEF TrueOffset, FlushedTo
  <1>4. QED
    BY <1>1, <1>2, <1>3

LEMMA InitTile == Init => TileInv
  <1>1. Init => PrintInv /\ LinesTile
    BY DEF Init, PrintInv, LinesTile
  <1>2. QED
    BY <1>1, InitRange DEF TileInv

\* A step that leaves alone what LinesTile and PrintInv speak of keeps them.
LEMMA TileFrame ==
  ASSUME PrintInv, LinesTile, lines' = lines, words' = words, ptr' = ptr,
         count' = count, pc' = pc, outcome' = outcome, len' = len
  PROVE  PrintInv' /\ LinesTile'
  BY DEF PrintInv, LinesTile, FlushedTo, TrueOffset

LEMMA StepTile == TileInv /\ [Next]_vars => TileInv'
  <1> SUFFICES ASSUME TileInv, [Next]_vars PROVE PrintInv' /\ LinesTile'
    BY StepRange DEF TileInv
  <1> USE DEF RunLength, AtLimit
  <1>a. /\ BLOCK_WORDS \in Nat \ {0} /\ BLOCK_BYTES = 8 * BLOCK_WORDS
        /\ TypeOK /\ ControlInv /\ PrintInv /\ LinesTile
    BY LogRangeAssumption DEF TileInv, RangeInv, BLOCK_BYTES
  <1>b. /\ len \in Int /\ ptr \in Nat /\ count \in Nat /\ i \in Nat
        /\ lines \in Seq(Line)
        /\ words \in Seq([off : Nat, val : Val])
    BY <1>a DEF TypeOK
  <1>1. ASSUME NEW s \in Starts, NEW n \in -1..MaxLen,
               NEW msg \in {"ok", "special", "long"},
               NEW m \in [0..(n - 1) -> Val],
               calls < MaxCalls, Call(s, n, msg, m)
        PROVE  PrintInv' /\ LinesTile'
    BY <1>1 DEF Call, PrintInv, LinesTile
  <1>2. CASE Fill
    <2>1. CASE WordsLeft
      BY <1>2, <1>a, <2>1, TileFrame DEF Fill, frame
    <2>2. CASE ~WordsLeft
      BY <1>2, <1>a, <1>b, <2>2
         DEF Fill, frame, PrintInv, LinesTile, FlushedTo, TrueOffset, ControlInv
    <2>3. QED
      BY <2>1, <2>2
  <1>3. CASE CompareEqual
    <2>1. CASE WordsLeft
      BY <1>3, <1>a, <2>1, TileFrame DEF CompareEqual, frame
    <2>2. CASE ~WordsLeft
      <3>1. 8 * (ptr + BLOCK_WORDS) - (count + 1 + 1) * BLOCK_BYTES
              = 8 * ptr - (count + 1) * BLOCK_BYTES
        BY <1>a, <1>b
      <3>2. QED
        BY <1>3, <1>a, <1>b, <2>2, <3>1
           DEF CompareEqual, frame, PrintInv, LinesTile, FlushedTo, TrueOffset
    <2>3. QED
      BY <2>1, <2>2
  <1>4. CASE CompareDiffers
    <2> DEFINE l == [cnt |-> RunLength, off |-> FlushOffset, val |-> prev_val]
    <2>1. l \in Line
      BY <1>a, <1>b DEF TypeOK, Line, FlushOffset
    <2>2. lines' = Append(lines, l)
      BY <1>4 DEF CompareDiffers
    <2>3. /\ Len(lines') = Len(lines) + 1
          /\ lines'[Len(lines) + 1] = l
          /\ \A j \in 1..Len(lines) : lines'[j] = lines[j]
          /\ \A j \in 1..(Len(lines) + 1) : TrueOffset(j)' = TrueOffset(j)
          /\ FlushedTo' = l.off + l.cnt * BLOCK_BYTES
      BY <1>b, <2>1, <2>2, AppendOffsets
    <2>4. l.off = TrueOffset(Len(lines) + 1)
      BY <1>4, <1>a DEF CompareDiffers, LinesTile, FlushedTo, FlushOffset
    <2>5. \A j \in 1..Len(lines') : lines'[j].off = TrueOffset(j)'
      BY <1>4, <1>a, <1>b, <2>3, <2>4 DEF CompareDiffers, LinesTile
    <2>6. FlushedTo' = 8 * ptr
      <3>1. l.cnt = count + 1 /\ l.off = 8 * ptr - (count + 1) * BLOCK_BYTES
        BY DEF FlushOffset
      <3>2. QED
        BY <1>a, <1>b, <2>3, <3>1
    <2>7. QED
      BY <1>4, <1>a, <1>b, <2>5, <2>6
         DEF CompareDiffers, frame, PrintInv, LinesTile, ControlInv
  <1>5. CASE Copy
    <2>1. CASE WordsLeft
      BY <1>5, <1>a, <2>1, TileFrame DEF Copy, frame
    <2>2. CASE ~WordsLeft
      BY <1>5, <1>a, <1>b, <2>2
         DEF Copy, frame, PrintInv, LinesTile, FlushedTo, TrueOffset, ControlInv
    <2>3. QED
      BY <2>1, <2>2
  <1>6. CASE PrintLast
    <2> DEFINE l == [cnt |-> RunLength, off |-> LastOffset, val |-> prev_val]
    <2>1. l \in Line
      BY <1>a, <1>b DEF TypeOK, Line, LastOffset
    <2>2. lines' = Append(lines, l)
      BY <1>6 DEF PrintLast
    <2>3. /\ Len(lines') = Len(lines) + 1
          /\ lines'[Len(lines) + 1] = l
          /\ \A j \in 1..Len(lines) : lines'[j] = lines[j]
          /\ \A j \in 1..(Len(lines) + 1) : TrueOffset(j)' = TrueOffset(j)
      BY <1>b, <2>1, <2>2, AppendOffsets
    <2>4. \A j \in 1..(Len(lines') - 1) : lines'[j].off = TrueOffset(j)'
      BY <1>6, <1>a, <1>b, <2>3 DEF PrintLast, LinesTile
    <2>5. TrueOffset(Len(lines) + 1) + (count + 1) * BLOCK_BYTES = 8 * ptr
      BY <1>6, <1>a, <1>b DEF PrintLast, LinesTile, FlushedTo
    <2>6. /\ lines' # << >> /\ words' = << >> /\ ptr' = ptr
          /\ lines'[Len(lines')].cnt = count + 1
      BY <1>6, <1>a, <1>b, <2>2, <2>3 DEF PrintLast, PrintInv
    <2>7. TrueOffset(Len(lines))' = TrueOffset(Len(lines) + 1)
      <3> DEFINE n == Len(lines) + 1
      <3>1. n \in 1..(Len(lines) + 1) /\ Len(lines') = n
        BY <1>b, <2>3
      <3>2. QED
        BY <2>3, <3>1 DEF TrueOffset
    <2>8. TrueOffset(Len(lines))' + lines'[Len(lines')].cnt * BLOCK_BYTES
            = 8 * ptr
      BY <2>5, <2>6, <2>7
    <2>9. LinesTile'
      BY <1>6, <1>a, <1>b, <2>4, <2>6, <2>8
         DEF PrintLast, frame, PrintInv, LinesTile, ControlInv
    <2>10. PrintInv'
      BY <1>6, <1>a DEF PrintLast, PrintInv, ControlInv
    <2>11. QED
      BY <2>9, <2>10
  <1>7. CASE TailWord
    <2>1. /\ Len(words') = Len(words) + 1
          /\ \A j \in 1..Len(words) : words'[j] = words[j]
          /\ words'[Len(words) + 1].off = 8 * ptr
      BY <1>7, <1>b DEF TailWord
    <2>2. ptr' - Len(words') = ptr - Len(words)
      BY <1>7, <1>b, <2>1 DEF TailWord
    <2>3. \A j \in 1..Len(words) :
            words[j].off = 8 * (ptr - Len(words)) + 8 * (j - 1)
      BY <1>7, <1>a DEF TailWord, LinesTile
    <2>4. \A j \in 1..Len(words') :
            words'[j].off = 8 * (ptr' - Len(words')) + 8 * (j - 1)
      <3> SUFFICES ASSUME NEW j \in 1..Len(words')
                   PROVE  words'[j].off = 8 * (ptr - Len(words)) + 8 * (j - 1)
        BY <2>2
      <3>1. Len(words) \in Nat
        BY <1>b
      <3>2. CASE j \in 1..Len(words)
        BY <2>1, <2>3, <3>2
      <3>3. CASE j = Len(words) + 1
        BY <1>b, <2>1, <3>1, <3>3
      <3>4. QED
        BY <2>1, <3>1, <3>2, <3>3
    <2>5. /\ lines' = lines /\ pc = "tail" /\ pc' = "tail"
          /\ outcome' = outcome /\ outcome # "ok"
      BY <1>7, <1>a DEF TailWord, PrintInv
    <2>6. /\ \A j \in 1..(Len(lines) - 1) : lines[j].off = TrueOffset(j)
          /\ 8 * (ptr - Len(words)) = IF lines = << >> THEN 0
                     ELSE TrueOffset(Len(lines))
                            + lines[Len(lines)].cnt * BLOCK_BYTES
      BY <2>5, <1>a DEF LinesTile
    <2>7. LinesTile'
      BY <2>2, <2>4, <2>5, <2>6 DEF LinesTile, TrueOffset
    <2>8. PrintInv'
      BY <2>5 DEF PrintInv
    <2>9. QED
      BY <2>7, <2>8
  <1>8. CASE End
    BY <1>8, <1>a, <1>b
       DEF End, frame, PrintInv, LinesTile, TrueOffset, ControlInv
  <1>9. ASSUME NEW w \in 0..(len - 1), NEW v \in Val, HwWrite(w, v)
        PROVE  PrintInv' /\ LinesTile'
    BY <1>9, <1>a, TileFrame DEF HwWrite
  <1>10. CASE UNCHANGED vars
    BY <1>10, <1>a, TileFrame DEF vars
  <1>11. QED
    BY <1>1, <1>2, <1>3, <1>4, <1>5, <1>6, <1>7, <1>8, <1>9, <1>10
       DEF Next, NewCall, Step, Hardware

(***************************************************************************)
(* The lines a dump prints tile the range exactly, for blocks and ranges   *)
(* of every size and any interleaving of hardware writes: the counts and   *)
(* every printed offset but the last line's are right.                     *)
(***************************************************************************)
THEOREM DumpTilesRange == Spec => []LinesTile
  <1>1. TileInv => LinesTile
    BY DEF TileInv
  <1>2. QED
    BY <1>1, InitTile, StepTile, PTL DEF Spec

-----------------------------------------------------------------------------
(***************************************************************************)
(* PrintedWasHeld needs three more facts to be inductive: the memory's own *)
(* values are held, so is every block of the pending run, and so is what   *)
(* has been read, or found equal, of the block at ptr.  The positions are  *)
(* kept inside the range, where a hardware write only adds values.         *)
(***************************************************************************)
HeldAt(x, v) == x \in 0..(len - 1) /\ v \in held[x]

MemHeld == \A w \in 0..(len - 1) : mem[w] \in held[w]

LinesHeld ==
  \A j \in 1..Len(lines) :
    \A b \in 0..(lines[j].cnt - 1), w \in 0..(BLOCK_WORDS - 1) :
      HeldAt((TrueOffset(j) \div 8) + b * BLOCK_WORDS + w, lines[j].val[w])

WordsHeld == \A j \in 1..Len(words) : HeldAt(words[j].off \div 8, words[j].val)

\* The first word of the pending run.
PendingFrom == ptr - (count + 1) * BLOCK_WORDS

PendingHeld ==
  pc = "cmp" =>
    \A b \in 0..count, w \in 0..(BLOCK_WORDS - 1) :
      HeldAt(PendingFrom + b * BLOCK_WORDS + w, prev_val[w])

ReadHeld ==
  /\ pc = "fill" => \A w \in 0..(i - 1) : HeldAt(w, prev_val[w])
  /\ pc \in {"cmp", "copy"} => \A w \in 0..(i - 1) : HeldAt(ptr + w, prev_val[w])

HeldInv == MemHeld /\ LinesHeld /\ WordsHeld /\ PendingHeld /\ ReadHeld

\* A step that only reads and prints keeps what is held.
LEMMA HeldFrame ==
  ASSUME len' = len, held' = held
  PROVE  \A x, v : HeldAt(x, v)' <=> HeldAt(x, v)
  BY DEF HeldAt

\* What stays as it is keeps its part of HeldInv.
LEMMA PrintedFrame ==
  ASSUME len' = len, held' = held, LinesHeld, WordsHeld
  PROVE  /\ lines' = lines => LinesHeld'
         /\ words' = words => WordsHeld'
  BY DEF LinesHeld, WordsHeld, TrueOffset, HeldAt

\* Printing the pending run keeps LinesHeld.
LEMMA PrintHeld ==
  ASSUME TileInv, HeldInv, pc = "cmp", NEW o \in Int,
         lines' = Append(lines, [cnt |-> RunLength, off |-> o, val |-> prev_val]),
         len' = len, held' = held
  PROVE  LinesHeld'
  <1>a. /\ BLOCK_WORDS \in Nat \ {0} /\ BLOCK_BYTES = 8 * BLOCK_WORDS
        /\ ptr \in Nat /\ count \in Nat /\ lines \in Seq(Line)
        /\ prev_val \in Block /\ LinesTile /\ LinesHeld /\ PendingHeld
    BY LogRangeAssumption
       DEF LogRangeAssumption, TileInv, RangeInv, TypeOK, HeldInv, BLOCK_BYTES
  <1> DEFINE l == [cnt |-> RunLength, off |-> o, val |-> prev_val]
  <1>1. l \in Line /\ l.cnt = count + 1 /\ l.val = prev_val
    BY <1>a DEF Line, RunLength
  <1>2. /\ Len(lines') = Len(lines) + 1
        /\ lines'[Len(lines) + 1] = l
        /\ \A j \in 1..Len(lines) : lines'[j] = lines[j]
        /\ \A j \in 1..(Len(lines) + 1) : TrueOffset(j)' = TrueOffset(j)
    BY <1>a, <1>1, AppendOffsets
  <1>3. TrueOffset(Len(lines) + 1) \div 8 = PendingFrom
    <2>1. TrueOffset(Len(lines) + 1) = 8 * ptr - (count + 1) * BLOCK_BYTES
      BY <1>a DEF LinesTile, FlushedTo
    <2>2. (count + 1) * BLOCK_BYTES = 8 * ((count + 1) * BLOCK_WORDS)
      BY <1>a
    <2>3. (count + 1) * BLOCK_WORDS \in Int
      BY <1>a
    <2> DEFINE n == (count + 1) * BLOCK_WORDS
    <2> HIDE DEF n
    <2>4. (8 * ptr - 8 * n) \div 8 = ptr - n
      BY <1>a, <2>3 DEF n
    <2>5. QED
      BY <2>1, <2>2, <2>4 DEF n, PendingFrom
  <1>4. SUFFICES ASSUME NEW j \in 1..Len(lines'),
                        NEW b \in 0..(lines'[j].cnt - 1),
                        NEW w \in 0..(BLOCK_WORDS - 1)
                 PROVE  HeldAt((TrueOffset(j)' \div 8) + b * BLOCK_WORDS + w,
                               lines'[j].val[w])
    BY HeldFrame DEF LinesHeld, HeldAt
  <1>5. CASE j \in 1..Len(lines)
    BY <1>a, <1>2, <1>5 DEF LinesHeld
  <1>6. CASE j = Len(lines) + 1
    <2>1. b \in 0..count
      BY <1>a, <1>1, <1>2, <1>6
    <2>2. HeldAt(PendingFrom + b * BLOCK_WORDS + w, prev_val[w])
      BY <1>a, <2>1 DEF PendingHeld
    <2>3. TrueOffset(j)' = TrueOffset(Len(lines) + 1)
      BY <1>2, <1>6
    <2>4. QED
      BY <1>1, <1>2, <1>3, <1>6, <2>2, <2>3
  <1>7. QED
    BY <1>a, <1>2, <1>5, <1>6

LEMMA StepHeld == TileInv /\ HeldInv /\ [Next]_vars => HeldInv'
  <1> SUFFICES ASSUME TileInv, HeldInv, [Next]_vars PROVE HeldInv'
    OBVIOUS
  <1>a. /\ BLOCK_WORDS \in Nat \ {0}
        /\ TypeOK /\ ControlInv /\ PrintInv /\ LinesTile
        /\ MemHeld /\ LinesHeld /\ WordsHeld /\ PendingHeld /\ ReadHeld
    BY LogRangeAssumption DEF LogRangeAssumption, TileInv, RangeInv, HeldInv
  <1>b. /\ len \in Int /\ ptr \in Nat /\ count \in Nat
        /\ i \in 0..(BLOCK_WORDS - 1)
        /\ mem \in [0..(len - 1) -> Val] /\ prev_val \in Block
        /\ words \in Seq([off : Nat, val : Val])
    BY <1>a DEF TypeOK
  <1>1. ASSUME NEW s \in Starts, NEW n \in -1..MaxLen,
               NEW msg \in {"ok", "special", "long"},
               NEW m \in [0..(n - 1) -> Val],
               calls < MaxCalls, Call(s, n, msg, m)
        PROVE  HeldInv'
    <2>1. MemHeld'
      BY <1>1 DEF Call, MemHeld
    <2>2. LinesHeld' /\ WordsHeld'
      BY <1>1 DEF Call, LinesHeld, WordsHeld
    <2>3. PendingHeld' /\ ReadHeld'
      BY <1>1 DEF Call, PendingHeld, ReadHeld
    <2>4. QED
      BY <2>1, <2>2, <2>3 DEF HeldInv
  <1>2. CASE Fill
    <2>1. /\ len' = len /\ held' = held /\ mem' = mem /\ lines' = lines
          /\ words' = words /\ pc = "fill" /\ count' = 0
          /\ prev_val' = [prev_val EXCEPT ![i] = mem[i]]
      BY <1>2, <1>a DEF Fill, frame, PrintInv
    <2>2. MemHeld' /\ LinesHeld' /\ WordsHeld'
      BY <1>a, <2>1, PrintedFrame DEF MemHeld
    <2>3. i \in 0..(len - 1)
      BY <1>a, <1>b, <2>1 DEF ControlInv
    <2>4. \A w \in 0..i : HeldAt(w, prev_val'[w])
      BY <1>a, <1>b, <2>1, <2>3 DEF MemHeld, ReadHeld, HeldAt, Block
    <2>5. CASE WordsLeft
      BY <1>2, <1>b, <2>1, <2>2, <2>4, <2>5
         DEF Fill, HeldInv, PendingHeld, ReadHeld, HeldAt
    <2>6. CASE ~WordsLeft
      <3>1. i = BLOCK_WORDS - 1 /\ ptr' = BLOCK_WORDS /\ i' = 0 /\ pc' = "cmp"
        BY <1>2, <1>a, <1>b, <2>6 DEF Fill, WordsLeft
      <3>2. PendingFrom' = 0
        BY <1>a, <2>1, <3>1 DEF PendingFrom
      <3>3. PendingHeld'
        BY <1>a, <1>b, <2>1, <2>4, <3>1, <3>2, SMTT(30) DEF PendingHeld, HeldAt
      <3>4. ReadHeld'
        BY <3>1 DEF ReadHeld
      <3>5. QED
        BY <2>2, <3>3, <3>4 DEF HeldInv
    <2>7. QED
      BY <2>5, <2>6
  <1>3. CASE CompareEqual
    <2>1. /\ len' = len /\ held' = held /\ mem' = mem /\ lines' = lines
          /\ words' = words /\ pc = "cmp" /\ pc' = "cmp"
          /\ prev_val' = prev_val /\ prev_val[i] = mem[ptr + i]
      BY <1>3 DEF CompareEqual, frame, Repeats
    <2>2. MemHeld' /\ LinesHeld' /\ WordsHeld'
      BY <1>a, <2>1, PrintedFrame DEF MemHeld
    <2>3. ptr + i \in 0..(len - 1)
      BY <1>3, <1>a, <1>b DEF CompareEqual, InLoop
    <2>4. \A w \in 0..i : HeldAt(ptr + w, prev_val[w])
      BY <1>a, <1>b, <2>1, <2>3 DEF MemHeld, ReadHeld, HeldAt
    <2>5. CASE WordsLeft
      BY <1>3, <1>a, <1>b, <2>1, <2>2, <2>4, <2>5
         DEF CompareEqual, HeldInv, PendingHeld, PendingFrom, ReadHeld, HeldAt
    <2>6. CASE ~WordsLeft
      <3>1. /\ i = BLOCK_WORDS - 1 /\ ptr' = ptr + BLOCK_WORDS /\ i' = 0
            /\ count' = count + 1
        BY <1>3, <1>a, <1>b, <2>6 DEF CompareEqual, WordsLeft
      <3>2. PendingFrom' = PendingFrom
        BY <1>a, <1>b, <3>1 DEF PendingFrom
      <3>3. PendingFrom + (count + 1) * BLOCK_WORDS = ptr
        BY <1>a, <1>b DEF PendingFrom
      <3>4. ASSUME NEW b \in 0..(count + 1), NEW w \in 0..(BLOCK_WORDS - 1)
            PROVE  HeldAt(PendingFrom + b * BLOCK_WORDS + w, prev_val[w])
        <4>1. CASE b \in 0..count
          BY <1>a, <2>1, <4>1 DEF PendingHeld
        <4>2. CASE b = count + 1
          BY <2>4, <3>1, <3>3, <4>2
        <4>3. QED
          BY <1>b, <4>1, <4>2
      <3>5. PendingHeld'
        BY <2>1, <3>1, <3>2, <3>4 DEF PendingHeld, HeldAt
      <3>6. ReadHeld'
        BY <2>1, <3>1 DEF ReadHeld
      <3>7. QED
        BY <2>2, <3>5, <3>6 DEF HeldInv
    <2>7. QED
      BY <2>5, <2>6
  <1>4. CASE CompareDiffers
    <2>1. /\ len' = len /\ held' = held /\ mem' = mem /\ words' = words
          /\ pc = "cmp" /\ pc' = "copy" /\ i' = 0
      BY <1>4 DEF CompareDiffers, frame
    <2>2. FlushOffset \in Int
      BY <1>a, <1>b DEF FlushOffset, BLOCK_BYTES
    <2>3. LinesHeld'
      BY <1>4, <2>1, <2>2, PrintHeld DEF CompareDiffers
    <2>4. MemHeld' /\ WordsHeld'
      BY <1>a, <2>1, PrintedFrame DEF MemHeld
    <2>5. PendingHeld' /\ ReadHeld'
      BY <2>1 DEF PendingHeld, ReadHeld
    <2>6. QED
      BY <2>3, <2>4, <2>5 DEF HeldInv
  <1>5. CASE Copy
    <2>1. /\ len' = len /\ held' = held /\ mem' = mem /\ lines' = lines
          /\ words' = words /\ pc = "copy" /\ count' = 0
          /\ prev_val' = [prev_val EXCEPT ![i] = mem[ptr + i]]
      BY <1>5, <1>a DEF Copy, frame, PrintInv
    <2>2. MemHeld' /\ LinesHeld' /\ WordsHeld'
      BY <1>a, <2>1, PrintedFrame DEF MemHeld
    <2>3. ptr + i \in 0..(len - 1)
      BY <1>a, <1>b, <2>1 DEF ControlInv
    <2>4. ASSUME NEW w \in 0..i PROVE HeldAt(ptr + w, prev_val'[w])
      <3>1. CASE w = i
        <4>1. prev_val'[w] = mem[ptr + i]
          BY <1>b, <2>1, <3>1 DEF Block
        <4>2. QED
          BY <1>a, <2>3, <3>1, <4>1 DEF MemHeld, HeldAt
      <3>2. CASE w \in 0..(i - 1)
        <4>1. prev_val'[w] = prev_val[w]
          BY <1>b, <2>1, <3>2 DEF Block
        <4>2. QED
          BY <1>a, <2>1, <3>2, <4>1 DEF ReadHeld
      <3>3. QED
        BY <1>b, <3>1, <3>2
    <2>5. CASE WordsLeft
      BY <1>5, <1>b, <2>1, <2>2, <2>4, <2>5
         DEF Copy, HeldInv, PendingHeld, ReadHeld, HeldAt
    <2>6. CASE ~WordsLeft
      <3>1. /\ i = BLOCK_WORDS - 1 /\ ptr' = ptr + BLOCK_WORDS /\ i' = 0
            /\ pc' = "cmp"
        BY <1>5, <1>a, <1>b, <2>6 DEF Copy, WordsLeft
      <3>2. PendingFrom' = ptr
        BY <1>a, <1>b, <2>1, <3>1 DEF PendingFrom
      <3>6. ASSUME NEW b \in 0..count', NEW w \in 0..(BLOCK_WORDS - 1)
            PROVE  HeldAt(PendingFrom' + b * BLOCK_WORDS + w, prev_val'[w])
        <4>1. PendingFrom' + b * BLOCK_WORDS + w = ptr + w /\ w \in 0..i
          BY <1>a, <1>b, <2>1, <3>1, <3>2
        <4>2. QED
          BY <2>4, <4>1
      <3>3. PendingHeld'
        BY <2>1, <3>1, <3>6 DEF PendingHeld, HeldAt
      <3>4. ReadHeld'
        BY <3>1 DEF ReadHeld
      <3>5. QED
        BY <2>2, <3>3, <3>4 DEF HeldInv
    <2>7. QED
      BY <2>5, <2>6
  <1>6. CASE PrintLast
    <2>1. /\ len' = len /\ held' = held /\ mem' = mem /\ words' = words
          /\ pc = "cmp" /\ pc' = "tail"
      BY <1>6 DEF PrintLast, frame
    <2>2. LastOffset \in Int
      BY <1>b DEF LastOffset
    <2>3. LinesHeld'
      BY <1>6, <2>1, <2>2, PrintHeld DEF PrintLast
    <2>4. MemHeld' /\ WordsHeld'
      BY <1>a, <2>1, PrintedFrame DEF MemHeld
    <2>5. PendingHeld' /\ ReadHeld'
      BY <2>1 DEF PendingHeld, ReadHeld
    <2>6. QED
      BY <2>3, <2>4, <2>5 DEF HeldInv
  <1>7. CASE TailWord
    <2>1. /\ len' = len /\ held' = held /\ mem' = mem /\ lines' = lines
          /\ pc = "tail" /\ pc' = "tail" /\ ptr < len
          /\ words' = Append(words, [off |-> 8 * ptr, val |-> mem[ptr]])
      BY <1>7 DEF TailWord, frame
    <2>2. MemHeld' /\ LinesHeld'
      BY <1>a, <2>1, PrintedFrame DEF MemHeld
    <2>3. HeldAt(ptr, mem[ptr])
      BY <1>a, <1>b, <2>1 DEF MemHeld, HeldAt
    <2>4. /\ Len(words') = Len(words) + 1 /\ Len(words) \in Nat
          /\ \A j \in 1..Len(words) : words'[j] = words[j]
          /\ words'[Len(words) + 1] = [off |-> 8 * ptr, val |-> mem[ptr]]
      BY <1>b, <2>1
    <2>5. (8 * ptr) \div 8 = ptr
      BY <1>b
    <2>6. ASSUME NEW j \in 1..Len(words')
          PROVE  HeldAt(words'[j].off \div 8, words'[j].val)
      <3>1. CASE j \in 1..Len(words)
        BY <1>a, <2>4, <3>1 DEF WordsHeld
      <3>2. CASE j = Len(words) + 1
        BY <2>3, <2>4, <2>5, <3>2
      <3>3. QED
        BY <2>4, <3>1, <3>2
    <2>7. WordsHeld'
      BY <2>1, <2>6 DEF WordsHeld, HeldAt
    <2>8. QED
      BY <2>1, <2>2, <2>7 DEF HeldInv, PendingHeld, ReadHeld
  <1>8. CASE End
    <2>1. /\ len' = len /\ held' = held /\ mem' = mem /\ lines' = lines
          /\ words' = words /\ pc' = "idle"
      BY <1>8 DEF End, frame
    <2>2. MemHeld' /\ LinesHeld' /\ WordsHeld'
      BY <1>a, <2>1, PrintedFrame DEF MemHeld
    <2>3. QED
      BY <2>1, <2>2 DEF HeldInv, PendingHeld, ReadHeld
  <1>9. ASSUME NEW w \in 0..(len - 1), NEW v \in Val, HwWrite(w, v)
        PROVE  HeldInv'
    <2>1. held \in [0..(len - 1) -> SUBSET Val]
      BY <1>a DEF TypeOK
    <2>2. /\ len' = len /\ lines' = lines /\ words' = words /\ ptr' = ptr
          /\ count' = count /\ i' = i /\ pc' = pc /\ prev_val' = prev_val
          /\ mem' = [mem EXCEPT ![w] = v]
          /\ held' = [held EXCEPT ![w] = @ \union {v}]
      BY <1>9 DEF HwWrite
    <2>3. \A x, u : HeldAt(x, u) => x \in 0..(len' - 1) /\ u \in held'[x]
      BY <2>1, <2>2 DEF HeldAt
    <2>4. MemHeld'
      BY <1>a, <1>b, <2>1, <2>2 DEF MemHeld
    <2>5. LinesHeld'
      BY <1>a, <2>2, <2>3, SMTT(30) DEF LinesHeld, TrueOffset, HeldAt
    <2>6. WordsHeld' /\ ReadHeld'
      BY <1>a, <2>2, <2>3 DEF WordsHeld, ReadHeld, HeldAt
    <2>7. PendingHeld'
      BY <1>a, <2>2, <2>3 DEF PendingHeld, PendingFrom, HeldAt
    <2>8. QED
      BY <2>4, <2>5, <2>6, <2>7 DEF HeldInv
  <1>10. CASE UNCHANGED vars
    BY <1>10, <1>a DEF vars, HeldInv, MemHeld, LinesHeld, WordsHeld, PendingHeld,
          PendingFrom, ReadHeld, HeldAt, TrueOffset
  <1>11. QED
    BY <1>1, <1>2, <1>3, <1>4, <1>5, <1>6, <1>7, <1>8, <1>9, <1>10
       DEF Next, NewCall, Step, Hardware

(***************************************************************************)
(* Every word the dump shows, for every repeat a line counts, is a value   *)
(* memory really had there during the call, for blocks and ranges of every *)
(* size and any number of hardware writes.                                 *)
(***************************************************************************)
THEOREM DumpWasHeld == Spec => []PrintedWasHeld
  <1>1. Init => HeldInv
    BY DEF Init, HeldInv, MemHeld, LinesHeld, WordsHeld, PendingHeld, ReadHeld
  <1>2. Init => TileInv /\ HeldInv
    BY <1>1, InitTile
  <1>3. TileInv /\ HeldInv /\ [Next]_vars => (TileInv /\ HeldInv)'
    BY StepTile, StepHeld
  <1>4. HeldInv => PrintedWasHeld
    BY DEF HeldInv, LinesHeld, WordsHeld, HeldAt, PrintedWasHeld
  <1>5. QED
    BY <1>2, <1>3, <1>4, PTL DEF Spec

-----------------------------------------------------------------------------
(***************************************************************************)
(* Why runs are maximal: as long as nothing was written, the block being   *)
(* copied differs from the last line printed, so the next pending run does *)
(* too.                                                                    *)
(***************************************************************************)
LastVal == lines[Len(lines)].val

CopyDiffers ==
  pc = "copy" =>
    /\ lines # << >>
    /\ \E w \in 0..(BLOCK_WORDS - 1) : LastVal[w] # mem[ptr + w]
    /\ \A w \in 0..(i - 1) : prev_val[w] = mem[ptr + w]

PendingDiffers == pc = "cmp" /\ lines # << >> => prev_val # LastVal

MaximalInv == RunsMaximal /\ (writes = 0 => CopyDiffers /\ PendingDiffers)

\* Printing a pending run that differs from the last line keeps RunsMaximal.
LEMMA PrintMaximal ==
  ASSUME lines \in Seq(Line), RunsMaximal, writes = 0, PendingDiffers, pc = "cmp",
         NEW l \in Line, l.val = prev_val, lines' = Append(lines, l)
  PROVE  RunsMaximal' /\ lines' # << >> /\ LastVal' = prev_val
  <1>1. /\ Len(lines') = Len(lines) + 1 /\ Len(lines) \in Nat
        /\ lines'[Len(lines) + 1] = l
        /\ \A j \in 1..Len(lines) : lines'[j] = lines[j]
    OBVIOUS
  <1>2. ASSUME NEW j \in 1..(Len(lines') - 1)
        PROVE  lines'[j].val # lines'[j + 1].val
    <2>1. CASE j \in 1..(Len(lines) - 1)
      BY <1>1, <2>1 DEF RunsMaximal
    <2>2. CASE j = Len(lines)
      BY <1>1, <2>2 DEF PendingDiffers, LastVal
    <2>3. QED
      BY <1>1, <2>1, <2>2
  <1>3. QED
    BY <1>1, <1>2 DEF RunsMaximal, LastVal

LEMMA StepMaximal == RangeInv /\ PrintInv /\ MaximalInv /\ [Next]_vars => MaximalInv'
  <1> SUFFICES ASSUME RangeInv, PrintInv, MaximalInv, [Next]_vars
               PROVE  MaximalInv'
    OBVIOUS
  <1>a. /\ BLOCK_WORDS \in Nat \ {0} /\ ptr \in Nat /\ count \in Nat
        /\ i \in 0..(BLOCK_WORDS - 1) /\ prev_val \in Block /\ len \in Int
        /\ lines \in Seq(Line) /\ writes \in Nat /\ PrintInv
        /\ RunsMaximal /\ (writes = 0 => CopyDiffers /\ PendingDiffers)
    BY LogRangeAssumption
       DEF LogRangeAssumption, RangeInv, TypeOK, MaximalInv
  <1>1. ASSUME NEW s \in Starts, NEW n \in -1..MaxLen,
               NEW msg \in {"ok", "special", "long"},
               NEW m \in [0..(n - 1) -> Val],
               calls < MaxCalls, Call(s, n, msg, m)
        PROVE  MaximalInv'
    BY <1>1 DEF Call, MaximalInv, RunsMaximal, CopyDiffers, PendingDiffers
  <1>2. CASE Fill
    BY <1>2, <1>a DEF Fill, frame, PrintInv, MaximalInv, RunsMaximal, CopyDiffers,
                      PendingDiffers
  <1>3. CASE CompareEqual
    BY <1>3, <1>a DEF CompareEqual, frame, MaximalInv, RunsMaximal, CopyDiffers,
                      PendingDiffers, LastVal
  <1>4. CASE CompareDiffers
    <2>1. /\ writes' = writes /\ mem' = mem /\ ptr' = ptr /\ i' = 0
          /\ pc = "cmp" /\ pc' = "copy"
          /\ prev_val[i] # mem[ptr + i]
          /\ lines' = Append(lines, [cnt |-> RunLength, off |-> FlushOffset,
                                     val |-> prev_val])
      BY <1>4 DEF CompareDiffers, frame, Repeats
    <2>2. [cnt |-> RunLength, off |-> FlushOffset, val |-> prev_val] \in Line
      BY <1>a DEF Line, RunLength, FlushOffset, BLOCK_BYTES
    <2>3. CASE writes = 0
      <3>1. RunsMaximal' /\ lines' # << >> /\ LastVal' = prev_val
        BY <1>a, <2>1, <2>2, <2>3, PrintMaximal
      <3>2. QED
        BY <1>a, <2>1, <3>1 DEF MaximalInv, CopyDiffers, PendingDiffers
    <2>4. CASE writes # 0
      BY <2>1, <2>4 DEF MaximalInv, RunsMaximal
    <2>5. QED
      BY <2>3, <2>4
  <1>5. CASE Copy
    <2>1. /\ writes' = writes /\ mem' = mem /\ lines' = lines /\ pc = "copy"
          /\ prev_val' = [prev_val EXCEPT ![i] = mem[ptr + i]]
      BY <1>5 DEF Copy, frame
    <2>2. RunsMaximal'
      BY <1>a, <2>1 DEF RunsMaximal
    <2>3. ASSUME writes = 0 PROVE CopyDiffers' /\ PendingDiffers'
      <3>1. ASSUME NEW w \in 0..i PROVE prev_val'[w] = mem[ptr + w]
        <4>1. CASE w = i
          BY <1>a, <2>1, <4>1 DEF Block
        <4>2. CASE w \in 0..(i - 1)
          BY <1>a, <2>1, <2>3, <4>2 DEF Block, CopyDiffers
        <4>3. QED
          BY <1>a, <4>1, <4>2
      <3>2. PICK w \in 0..(BLOCK_WORDS - 1) : LastVal[w] # mem[ptr + w]
        BY <1>a, <2>1, <2>3 DEF CopyDiffers
      <3>3. LastVal' = LastVal /\ lines # << >>
        BY <1>a, <2>1, <2>3 DEF LastVal, CopyDiffers
      <3>4. CASE WordsLeft
        BY <1>5, <1>a, <2>1, <3>1, <3>2, <3>3, <3>4
           DEF Copy, CopyDiffers, PendingDiffers
      <3>5. CASE ~WordsLeft
        <4>1. pc' = "cmp" /\ i = BLOCK_WORDS - 1
          BY <1>5, <1>a, <3>5 DEF Copy, WordsLeft
        <4>2. prev_val' # LastVal
          BY <3>1, <3>2, <4>1
        <4>3. QED
          BY <3>3, <4>1, <4>2 DEF CopyDiffers, PendingDiffers
      <3>6. QED
        BY <3>4, <3>5
    <2>4. QED
      BY <2>1, <2>2, <2>3 DEF MaximalInv
  <1>6. CASE PrintLast
    <2>1. /\ writes' = writes /\ pc = "cmp" /\ pc' = "tail"
          /\ lines' = Append(lines, [cnt |-> RunLength, off |-> LastOffset,
                                     val |-> prev_val])
      BY <1>6 DEF PrintLast, frame
    <2>2. [cnt |-> RunLength, off |-> LastOffset, val |-> prev_val] \in Line
      BY <1>a DEF Line, RunLength, LastOffset
    <2>3. CASE writes = 0
      <3>1. RunsMaximal'
        BY <1>a, <2>1, <2>2, <2>3, PrintMaximal
      <3>2. QED
        BY <2>1, <3>1 DEF MaximalInv, CopyDiffers, PendingDiffers
    <2>4. CASE writes # 0
      BY <2>1, <2>4 DEF MaximalInv, RunsMaximal
    <2>5. QED
      BY <2>3, <2>4
  <1>7. CASE TailWord \/ End
    BY <1>7, <1>a DEF TailWord, End, frame, MaximalInv, RunsMaximal, CopyDiffers,
                      PendingDiffers
  <1>8. ASSUME NEW w \in 0..(len - 1), NEW v \in Val, HwWrite(w, v)
        PROVE  MaximalInv'
    BY <1>8, <1>a DEF HwWrite, MaximalInv, RunsMaximal
  <1>9. CASE UNCHANGED vars
    BY <1>9, <1>a DEF vars, MaximalInv, RunsMaximal, CopyDiffers, PendingDiffers,
                      LastVal
  <1>10. QED
    BY <1>1, <1>2, <1>3, <1>4, <1>5, <1>6, <1>7, <1>8, <1>9
       DEF Next, NewCall, Step, Hardware

(***************************************************************************)
(* In a range nobody wrote to during the call, a repeated block is always  *)
(* counted and never printed again, for blocks and ranges of every size.   *)
(***************************************************************************)
THEOREM RunsAreMaximal == Spec => []RunsMaximal
  <1>1. Init => MaximalInv
    BY DEF Init, MaximalInv, RunsMaximal, CopyDiffers, PendingDiffers
  <1>2. TileInv /\ MaximalInv /\ [Next]_vars => (TileInv /\ MaximalInv)'
    BY StepTile, StepMaximal DEF TileInv
  <1>3. MaximalInv => RunsMaximal
    BY DEF MaximalInv
  <1>4. QED
    BY <1>1, <1>2, <1>3, InitTile, PTL DEF Spec

-----------------------------------------------------------------------------
(***************************************************************************)
(* The order in which a call advances: by ptr, at the same ptr by control  *)
(* state, in the same control state by the word of the block.  ptr is at   *)
(* most len and i below BLOCK_WORDS, so nothing ascends in it for ever.    *)
(***************************************************************************)
Stage == [fill |-> 0, cmp |-> 1, copy |-> 2, tail |-> 3, idle |-> 4]

Advances ==
  /\ ptr' <= len' /\ i' \in 0..(BLOCK_WORDS - 1)
  /\ \/ ptr < ptr'
     \/ ptr = ptr' /\ Stage[pc] < Stage[pc']
     \/ ptr = ptr' /\ pc = pc' /\ i < i'

\* What the hardware does to a call: it moves neither back nor forth.
Stays == UNCHANGED <<ptr, pc, i, len>>

StepsAdvance == pc # "idle" => Advances \/ (Stays /\ Hardware)

(***************************************************************************)
(* Every step of a running call advances it, and no hardware write sets it *)
(* back: no mismatch makes log_range compare or print a block again, so    *)
(* with a scheduled thread each call returns (utils.c:57-138).             *)
(***************************************************************************)
THEOREM CallsAdvance == Spec => [][StepsAdvance]_vars
<1>1. RangeInv /\ RangeInv' /\ [Next]_vars => [StepsAdvance]_vars
  <2> SUFFICES ASSUME RangeInv, RangeInv', Next, pc # "idle"
               PROVE  Advances \/ (Stays /\ Hardware)
    BY DEF StepsAdvance
  <2>0. /\ BLOCK_WORDS \in Nat \ {0} /\ ptr \in Nat /\ len \in Int
        /\ i \in 0..(BLOCK_WORDS - 1) /\ i' \in 0..(BLOCK_WORDS - 1)
        /\ ControlInv /\ ControlInv'
    BY LogRangeAssumption DEF LogRangeAssumption, RangeInv, TypeOK
  <2>a. ASSUME ptr' <= len', ptr < ptr' PROVE Advances
    BY <2>0, <2>a DEF Advances
  <2>b. ASSUME ptr' <= len', ptr' = ptr, Stage[pc] < Stage[pc'] PROVE Advances
    BY <2>0, <2>b DEF Advances
  <2>c. ASSUME ptr' <= len', ptr' = ptr, pc' = pc, i < i' PROVE Advances
    BY <2>0, <2>c DEF Advances
  <2>1. CASE Fill
    <3>1. pc = "fill" /\ len' = len /\ BLOCK_WORDS <= len /\ ptr = 0
      BY <2>0, <2>1 DEF Fill, frame, ControlInv
    <3>2. \/ ptr' = ptr /\ pc' = pc /\ i' = i + 1
          \/ ptr' = BLOCK_WORDS
      BY <2>1 DEF Fill
    <3>3. CASE ptr' = ptr /\ pc' = pc /\ i' = i + 1
      <4>1. i < i' /\ ptr' <= len'
        BY <2>0, <3>1, <3>3
      <4> QED
        BY <2>c, <3>3, <4>1
    <3>4. CASE ptr' = BLOCK_WORDS
      <4>1. ptr < ptr' /\ ptr' <= len'
        BY <2>0, <3>1, <3>4
      <4> QED
        BY <2>a, <4>1
    <3> QED
      BY <3>2, <3>3, <3>4
  <2>2. CASE CompareEqual
    <3>1. pc = "cmp" /\ len' = len /\ ptr + BLOCK_WORDS <= len
      BY <2>2 DEF CompareEqual, frame, InLoop
    <3>2. \/ ptr' = ptr /\ pc' = pc /\ i' = i + 1
          \/ ptr' = ptr + BLOCK_WORDS
      BY <2>2 DEF CompareEqual
    <3>3. CASE ptr' = ptr /\ pc' = pc /\ i' = i + 1
      <4>1. i < i' /\ ptr' <= len'
        BY <2>0, <3>1, <3>3
      <4> QED
        BY <2>c, <3>3, <4>1
    <3>4. CASE ptr' = ptr + BLOCK_WORDS
      <4>1. ptr < ptr' /\ ptr' <= len'
        BY <2>0, <3>1, <3>4
      <4> QED
        BY <2>a, <4>1
    <3> QED
      BY <3>2, <3>3, <3>4
  <2>3. CASE Copy
    <3>1. pc = "copy" /\ len' = len /\ ptr + BLOCK_WORDS <= len
      BY <2>0, <2>3 DEF Copy, frame, ControlInv
    <3>2. \/ ptr' = ptr /\ pc' = pc /\ i' = i + 1
          \/ ptr' = ptr + BLOCK_WORDS
      BY <2>3 DEF Copy
    <3>3. CASE ptr' = ptr /\ pc' = pc /\ i' = i + 1
      <4>1. i < i' /\ ptr' <= len'
        BY <2>0, <3>1, <3>3
      <4> QED
        BY <2>c, <3>3, <4>1
    <3>4. CASE ptr' = ptr + BLOCK_WORDS
      <4>1. ptr < ptr' /\ ptr' <= len'
        BY <2>0, <3>1, <3>4
      <4> QED
        BY <2>a, <4>1
    <3> QED
      BY <3>2, <3>3, <3>4
  <2>4. CASE CompareDiffers \/ PrintLast
    <3>1. pc = "cmp" /\ pc' \in {"copy", "tail"} /\ len' = len /\ ptr' = ptr
      BY <2>4 DEF CompareDiffers, PrintLast, frame
    <3>2. ptr <= len
      BY <2>0, <3>1 DEF ControlInv
    <3>3. Stage[pc] < Stage[pc']
      BY <3>1 DEF Stage
    <3> QED
      BY <2>b, <3>1, <3>2, <3>3
  <2>5. CASE TailWord
    <3>1. ptr' = ptr + 1 /\ ptr < len /\ len' = len
      BY <2>5 DEF TailWord, frame
    <3>2. ptr < ptr' /\ ptr' <= len'
      BY <2>0, <3>1
    <3> QED
      BY <2>a, <3>2
  <2>6. CASE End
    <3>1. pc = "tail" /\ pc' = "idle" /\ ptr' = ptr /\ len' = len
      BY <2>6 DEF End, frame
    <3>2. ptr <= len
      BY <2>0, <3>1 DEF ControlInv
    <3>3. Stage[pc] < Stage[pc']
      BY <3>1 DEF Stage
    <3> QED
      BY <2>b, <3>1, <3>2, <3>3
  <2>7. CASE Hardware
    BY <2>7 DEF Hardware, HwWrite, Stays
  <2> QED
    BY <2>1, <2>2, <2>3, <2>4, <2>5, <2>6, <2>7 DEF Next, Step, NewCall
<1> QED
  BY <1>1, InitRange, StepRange, PTL DEF Spec
=============================================================================
