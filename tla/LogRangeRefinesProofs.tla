------------------------ MODULE LogRangeRefinesProofs -----------------------
(***************************************************************************)
(* log_range implements RangeDump, proved for every set of values, block   *)
(* size, range length, number of calls and number of hardware writes.      *)
(***************************************************************************)
EXTENDS LogRangeRefines, LogRangeProofs

(***************************************************************************)
(* Expanding the lines gives every word one value because the lines lie    *)
(* one behind the other: each is not empty, begins where or after the ones *)
(* before it ended, and no word before the end of the last one is left out.*)
(* A line's words are found by their remainder because the blocks are      *)
(* aligned: ptr is a whole number of blocks until the tail begins.         *)
(***************************************************************************)
Within(w, j) == FirstWord(j) <= w /\ w < AfterLine(j)

LayInv ==
  /\ BlocksTo \in Nat
  /\ \A j \in 1..Len(lines) :
       /\ FirstWord(j) \in Nat /\ AfterLine(j) \in Nat
       /\ AfterLine(j) <= BlocksTo
  /\ \A j, k \in 1..Len(lines) : j < k => AfterLine(j) <= FirstWord(k)
  /\ \A w \in 0..(BlocksTo - 1) : \E j \in 1..Len(lines) : Within(w, j)

AlignInv ==
  pc \in {"fill", "cmp", "copy"} => \E f \in Int : ptr = f * BLOCK_WORDS

\* The facts about LogRange the mapping rests on.
MapInv == TileInv /\ HeldInv /\ LayInv /\ AlignInv

LEMMA Constants ==
  /\ BLOCK_WORDS \in Nat \ {0} /\ BLOCK_BYTES = 8 * BLOCK_WORDS
  BY LogRangeAssumption DEF LogRangeAssumption, BLOCK_BYTES

LEMMA ElementOf ==
  ASSUME NEW S, NEW s \in Seq(S), NEW k \in 1..Len(s) PROVE s[k] \in S
  OBVIOUS

LEMMA Monotone ==
  ASSUME NEW a \in Int, NEW b \in Int, NEW k \in Nat, a <= b
  PROVE  a * k <= b * k
  OBVIOUS

-----------------------------------------------------------------------------
\* Where the lines printed so far end, in every control state that prints.
LEMMA LinesEnd ==
  ASSUME TileInv
  PROVE  /\ pc = "cmp" => BlocksTo = PendingFrom
         /\ pc = "copy" => BlocksTo = ptr
         /\ pc = "tail" \/ outcome = "ok" => BlocksTo = ptr - Len(words)
<1>0. /\ TypeOK /\ LinesTile /\ ptr \in Nat /\ count \in Nat
      /\ lines \in Seq(Line) /\ words \in Seq([off : Nat, val : Val])
  BY DEF TileInv, RangeInv, TypeOK
<1>1. BLOCK_WORDS \in Nat \ {0} /\ BLOCK_BYTES = 8 * BLOCK_WORDS
  BY Constants
\* A line's end in words, from its end in bytes.
<1>2. ASSUME lines # << >>, NEW e \in Int,
             TrueOffset(Len(lines)) + lines[Len(lines)].cnt * BLOCK_BYTES = 8 * e,
             TrueOffset(Len(lines)) \in Int
      PROVE  BlocksTo = e
  <2>1. Len(lines) \in 1..Len(lines) /\ lines[Len(lines)].cnt \in Nat
    <3>1. Len(lines) \in 1..Len(lines)
      BY <1>0, <1>2
    <3>2. lines[Len(lines)] \in Line
      BY <1>0, <3>1
    <3> QED
      BY <3>1, <3>2 DEF Line
  <2> DEFINE n == lines[Len(lines)].cnt * BLOCK_WORDS
             t == TrueOffset(Len(lines))
  <2>2. n \in Int /\ lines[Len(lines)].cnt * BLOCK_BYTES = 8 * n
    BY <1>1, <2>1
  <2>3. BlocksTo = (t \div 8) + n
    BY <1>2 DEF BlocksTo, AfterLine, FirstWord
  <2>4. t \in Int /\ t + 8 * n = 8 * e
    BY <1>2, <2>2
  <2> HIDE DEF n, t
  <2>5. (t \div 8) + n = e
    BY <1>2, <2>2, <2>4
  <2> QED
    BY <2>3, <2>5
<1>3. lines # << >> => TrueOffset(Len(lines)) \in Int
  <2> SUFFICES ASSUME lines # << >> PROVE TrueOffset(Len(lines)) \in Int
    OBVIOUS
  <2>1. CASE Len(lines) = 1
    BY <2>1 DEF TrueOffset
  <2>2. CASE Len(lines) # 1
    <3>0. Len(lines) \in Nat /\ Len(lines) # 0
      BY <1>0
    <3>1. Len(lines) - 1 \in 1..Len(lines)
      <4> DEFINE n == Len(lines)
      <4>1. n \in Nat /\ n # 0 /\ n # 1
        BY <2>2, <3>0
      <4> HIDE DEF n
      <4>2. n - 1 \in 1..n
        BY <4>1
      <4> QED
        BY <4>2 DEF n
    <3>2. lines[Len(lines) - 1] \in Line
      BY <1>0, <3>1
    <3>3. lines[Len(lines) - 1].off \in Int /\ lines[Len(lines) - 1].cnt \in Nat
      BY <3>2 DEF Line
    <3> QED
      BY <1>1, <2>2, <3>3 DEF TrueOffset
  <2> QED
    BY <2>1, <2>2
\* In the loop every printed offset is right, so the end is FlushedTo.
<1>4. ASSUME pc \in {"cmp", "copy"}, NEW e \in Int, FlushedTo = 8 * e
      PROVE  BlocksTo = e
  <2>1. CASE lines = << >>
    <3>1. FlushedTo = 0
      BY <2>1 DEF FlushedTo, TrueOffset
    <3> QED
      BY <1>4, <2>1, <3>1 DEF BlocksTo
  <2>2. CASE lines # << >>
    <3>1. Len(lines) \in 1..Len(lines) /\ Len(lines) + 1 # 1
          /\ (Len(lines) + 1) - 1 = Len(lines)
      BY <1>0, <2>2
    <3>2. lines[Len(lines)].off = TrueOffset(Len(lines))
      BY <1>0, <1>4, <3>1 DEF LinesTile
    <3>3. FlushedTo = lines[Len(lines)].off + lines[Len(lines)].cnt * BLOCK_BYTES
      BY <3>1 DEF FlushedTo, TrueOffset
    <3> QED
      BY <1>2, <1>3, <1>4, <2>2, <3>2, <3>3
  <2> QED
    BY <2>1, <2>2
<1>5. ASSUME pc = "cmp" PROVE BlocksTo = PendingFrom
  <2>1. FlushedTo = 8 * ptr - (count + 1) * BLOCK_BYTES
    BY <1>0, <1>5 DEF LinesTile
  <2>2. PendingFrom \in Int /\ FlushedTo = 8 * PendingFrom
    BY <1>0, <1>1, <2>1 DEF PendingFrom
  <2> QED
    BY <1>4, <1>5, <2>2
<1>6. ASSUME pc = "copy" PROVE BlocksTo = ptr
  <2>1. FlushedTo = 8 * ptr
    BY <1>0, <1>6 DEF LinesTile
  <2> QED
    BY <1>0, <1>4, <1>6, <2>1
<1>7. ASSUME pc = "tail" \/ outcome = "ok" PROVE BlocksTo = ptr - Len(words)
  <2> DEFINE e == ptr - Len(words)
  <2>1. e \in Int
    BY <1>0
  <2>2. 8 * e = IF lines = << >> THEN 0
                ELSE TrueOffset(Len(lines)) + lines[Len(lines)].cnt * BLOCK_BYTES
    BY <1>0, <1>7 DEF LinesTile
  <2> HIDE DEF e
  <2>3. BlocksTo = e
    BY <1>2, <1>3, <2>1, <2>2 DEF BlocksTo
  <2> QED
    BY <2>3 DEF e
<1> QED
  BY <1>5, <1>6, <1>7

-----------------------------------------------------------------------------
(***************************************************************************)
(* What printing the pending run does to the layout.  n is the number of   *)
(* the new line.                                                           *)
(***************************************************************************)
Printed(n) ==
  /\ n = Len(lines) + 1 /\ Len(lines') = n /\ words' = << >> /\ words = << >>
  /\ \A j \in 1..(n - 1) :
       /\ lines'[j] = lines[j]
       /\ FirstWord(j)' = FirstWord(j) /\ AfterLine(j)' = AfterLine(j)
  /\ lines'[n].val = prev_val
  /\ FirstWord(n)' = BlocksTo /\ AfterLine(n)' = ptr /\ BlocksTo' = ptr
  /\ BlocksTo = PendingFrom

LEMMA PrintLays ==
  ASSUME TileInv, pc = "cmp", NEW o \in Int, words' = words,
         lines' = Append(lines, [cnt |-> RunLength, off |-> o, val |-> prev_val])
  PROVE  \E n \in Nat : Printed(n)
<1>0. /\ TypeOK /\ LinesTile /\ ptr \in Nat /\ count \in Nat
      /\ lines \in Seq(Line) /\ prev_val \in Block /\ words = << >>
  BY DEF TileInv, RangeInv, TypeOK, PrintInv
<1>1. BLOCK_WORDS \in Nat \ {0} /\ BLOCK_BYTES = 8 * BLOCK_WORDS
  BY Constants
<1>2. PICK n \in Nat : n = Len(lines) + 1
  BY <1>0
<1> DEFINE l == [cnt |-> RunLength, off |-> o, val |-> prev_val]
<1>3. l \in Line /\ l.cnt = count + 1 /\ l.val = prev_val
  BY <1>0 DEF Line, RunLength
<1>4. /\ Len(lines') = n /\ lines'[n] = l
      /\ \A j \in 1..Len(lines) : lines'[j] = lines[j]
      /\ \A j \in 1..n : TrueOffset(j)' = TrueOffset(j)
  <2>1. lines' = Append(lines, l)
    OBVIOUS
  <2> HIDE DEF l
  <2> QED
    BY <1>0, <1>2, <1>3, <2>1, AppendOffsets
<1>5. ASSUME NEW j \in 1..(n - 1)
      PROVE  /\ lines'[j] = lines[j]
             /\ FirstWord(j)' = FirstWord(j) /\ AfterLine(j)' = AfterLine(j)
  <2>1. j \in 1..Len(lines) /\ j \in 1..n
    BY <1>0, <1>2
  <2> QED
    BY <1>4, <2>1 DEF FirstWord, AfterLine
<1>6. BlocksTo = PendingFrom
  BY LinesEnd
<1>7. TrueOffset(n) \div 8 = PendingFrom
  <2>1. TrueOffset(n) = 8 * ptr - (count + 1) * BLOCK_BYTES
    BY <1>0, <1>2 DEF LinesTile, FlushedTo
  <2>2. PendingFrom \in Int /\ TrueOffset(n) = 8 * PendingFrom
    BY <1>0, <1>1, <2>1 DEF PendingFrom
  <2> QED
    BY <2>2
<1>8. n \in 1..n
  BY <1>0, <1>2
<1>9. FirstWord(n)' = PendingFrom
  BY <1>4, <1>7, <1>8 DEF FirstWord
<1>10. AfterLine(n)' = ptr
  <2>1. lines'[n].cnt = count + 1
    BY <1>3, <1>4
  <2>2. AfterLine(n)' = PendingFrom + (count + 1) * BLOCK_WORDS
    BY <1>9, <2>1 DEF AfterLine
  <2> QED
    BY <1>0, <1>1, <2>2 DEF PendingFrom
<1>11. BlocksTo' = AfterLine(n)'
  <2>1. lines' # << >>
    BY <1>0, <1>2, <1>4
  <2> QED
    BY <1>4, <2>1 DEF BlocksTo, AfterLine, FirstWord, TrueOffset
<1>12. lines'[n].val = prev_val
  BY <1>3, <1>4
<1> QED
  BY <1>0, <1>2, <1>4, <1>5, <1>6, <1>9, <1>10, <1>11, <1>12 DEF Printed

\* The first word of the pending run is a word of the range.
LEMMA PendingInRange ==
  ASSUME TileInv, HeldInv, pc = "cmp"
  PROVE  PendingFrom \in Nat /\ PendingFrom <= ptr
<1>1. /\ BLOCK_WORDS \in Nat \ {0} /\ ptr \in Nat /\ count \in Nat
      /\ len \in Int /\ PendingHeld
  BY Constants DEF TileInv, RangeInv, TypeOK, HeldInv
<1>2. 0 \in 0..count /\ 0 \in 0..(BLOCK_WORDS - 1)
  BY <1>1
<1>3. HeldAt(PendingFrom + 0 * BLOCK_WORDS + 0, prev_val[0])
  BY <1>1, <1>2 DEF PendingHeld
<1>4. PendingFrom \in Int /\ PendingFrom + 0 * BLOCK_WORDS + 0 = PendingFrom
  BY <1>1 DEF PendingFrom
<1>5. PendingFrom \in 0..(len - 1)
  BY <1>3, <1>4 DEF HeldAt
<1>6. (count + 1) * BLOCK_WORDS \in Nat
  BY <1>1
<1> QED
  BY <1>1, <1>5, <1>6 DEF PendingFrom

LEMMA PrintKeepsLay ==
  ASSUME TileInv, HeldInv, LayInv, pc = "cmp", NEW n \in Nat, Printed(n)
  PROVE  LayInv'
<1>1. /\ ptr \in Nat /\ BlocksTo \in Nat /\ BlocksTo <= ptr /\ n \in 1..n
      /\ Len(lines) \in Nat /\ n = Len(lines) + 1 /\ Len(lines') = n
  BY PendingInRange DEF TileInv, RangeInv, TypeOK, LayInv, Printed
<1>2. FirstWord(n)' = BlocksTo /\ AfterLine(n)' = ptr /\ BlocksTo' = ptr
  BY DEF Printed
<1>3. \A j \in 1..(n - 1) :
        /\ FirstWord(j)' = FirstWord(j) /\ AfterLine(j)' = AfterLine(j)
        /\ FirstWord(j) \in Nat /\ AfterLine(j) \in Nat
        /\ AfterLine(j) <= BlocksTo
  BY <1>1 DEF Printed, LayInv
<1>4. \A j \in 1..n : j \in 1..(n - 1) \/ j = n
  BY <1>1
<1>5. ASSUME NEW j \in 1..n
      PROVE  /\ FirstWord(j)' \in Nat /\ AfterLine(j)' \in Nat
             /\ AfterLine(j)' <= ptr
  <2>1. CASE j = n
    BY <1>1, <1>2, <2>1
  <2>2. CASE j \in 1..(n - 1)
    BY <1>1, <1>3, <2>2
  <2> QED
    BY <1>4, <2>1, <2>2
<1>6. ASSUME NEW j \in 1..n, NEW k \in 1..n, j < k
      PROVE  AfterLine(j)' <= FirstWord(k)'
  <2>0. j \in 1..(n - 1)
    BY <1>1, <1>6
  <2>1. CASE k = n
    BY <1>2, <1>3, <2>0, <2>1
  <2>2. CASE k \in 1..(n - 1)
    BY <1>1, <1>3, <1>6, <2>0, <2>2 DEF LayInv
  <2> QED
    BY <1>4, <2>1, <2>2
<1>7. ASSUME NEW w \in 0..(ptr - 1)
      PROVE  \E j \in 1..n : FirstWord(j)' <= w /\ w < AfterLine(j)'
  <2>1. CASE w < BlocksTo
    <3>1. w \in 0..(BlocksTo - 1)
      BY <1>1, <2>1
    <3>2. PICK j \in 1..Len(lines) : FirstWord(j) <= w /\ w < AfterLine(j)
      BY <3>1 DEF LayInv, Within
    <3>3. j \in 1..(n - 1) /\ j \in 1..n
      BY <1>1
    <3> QED
      BY <1>3, <3>2, <3>3
  <2>2. CASE ~(w < BlocksTo)
    <3>1. BlocksTo <= w /\ w < ptr
      BY <1>1, <2>2
    <3> QED
      BY <1>1, <1>2, <3>1
  <2> QED
    BY <2>1, <2>2
<1> QED
  BY <1>1, <1>2, <1>5, <1>6, <1>7 DEF LayInv, Within

\* The layout depends on the lines alone.
LEMMA LayFrame ==
  ASSUME LayInv, lines' = lines PROVE LayInv' /\ BlocksTo' = BlocksTo
  BY DEF LayInv, Within, BlocksTo, AfterLine, FirstWord, TrueOffset

LEMMA EmptyLay == lines = << >> => LayInv
<1> SUFFICES ASSUME lines = << >> PROVE LayInv
  OBVIOUS
<1>1. BlocksTo = 0 /\ Len(lines) = 0
  BY DEF BlocksTo
<1> QED
  BY <1>1 DEF LayInv

LEMMA StepLay == TileInv /\ HeldInv /\ LayInv /\ [Next]_vars => LayInv'
<1> SUFFICES ASSUME TileInv, HeldInv, LayInv, [Next]_vars PROVE LayInv'
  OBVIOUS
<1>1. CASE CompareDiffers
  <2>1. FlushOffset \in Int
    BY Constants DEF TileInv, RangeInv, TypeOK, FlushOffset
  <2>2. \E n \in Nat : Printed(n)
    BY <1>1, <2>1, PrintLays DEF CompareDiffers
  <2> QED
    BY <1>1, <2>2, PrintKeepsLay DEF CompareDiffers
<1>2. CASE PrintLast
  <2>1. LastOffset \in Int
    BY DEF TileInv, RangeInv, TypeOK, LastOffset
  <2>2. \E n \in Nat : Printed(n)
    BY <1>2, <2>1, PrintLays DEF PrintLast
  <2> QED
    BY <1>2, <2>2, PrintKeepsLay DEF PrintLast
<1>3. CASE NewCall
  <2>1. lines' = << >>
    BY <1>3 DEF NewCall, Call
  <2>2. (lines = << >>)' => LayInv'
    BY EmptyLay, PTL
  <2> QED
    BY <2>1, <2>2
<1>4. CASE Fill \/ CompareEqual \/ Copy \/ TailWord \/ End \/ Hardware
             \/ UNCHANGED vars
  <2>1. lines' = lines
    BY <1>4 DEF Fill, CompareEqual, Copy, TailWord, End, Hardware, HwWrite, vars
  <2> QED
    BY <2>1, LayFrame
<1> QED
  BY <1>1, <1>2, <1>3, <1>4 DEF Next, Step

LEMMA StepAlign == TileInv /\ AlignInv /\ [Next]_vars => AlignInv'
<1> SUFFICES ASSUME TileInv, AlignInv, [Next]_vars PROVE AlignInv'
  OBVIOUS
<1>0. BLOCK_WORDS \in Nat \ {0} /\ ptr \in Nat /\ ControlInv
  BY Constants DEF TileInv, RangeInv, TypeOK
<1>a. ASSUME pc \in {"cmp", "copy"}
      PROVE  \E f \in Int : ptr + BLOCK_WORDS = f * BLOCK_WORDS
  <2>1. PICK f \in Int : ptr = f * BLOCK_WORDS
    BY <1>a DEF AlignInv
  <2>2. f + 1 \in Int /\ ptr + BLOCK_WORDS = (f + 1) * BLOCK_WORDS
    BY <1>0, <2>1
  <2> QED
    BY <2>2
<1>b. 0 = 0 * BLOCK_WORDS /\ BLOCK_WORDS = 1 * BLOCK_WORDS
  BY <1>0
<1>c. ASSUME ptr' = ptr, pc' = pc \/ (pc = "cmp" /\ pc' \in {"copy", "tail"})
      PROVE  AlignInv'
  BY <1>c DEF AlignInv
<1>1. CASE Fill
  <2>1. (pc' = pc /\ ptr' = ptr) \/ ptr' = BLOCK_WORDS
    BY <1>1 DEF Fill
  <2> QED
    BY <1>b, <1>c, <2>1 DEF AlignInv
<1>2. CASE CompareEqual \/ Copy
  <2>1. (pc' = pc /\ ptr' = ptr) \/ ptr' = ptr + BLOCK_WORDS
    BY <1>2 DEF CompareEqual, Copy
  <2>2. pc \in {"cmp", "copy"}
    BY <1>2 DEF CompareEqual, Copy
  <2> QED
    BY <1>a, <1>c, <2>1, <2>2 DEF AlignInv
<1>3. CASE CompareDiffers \/ PrintLast \/ Hardware \/ UNCHANGED vars
  <2>1. ptr' = ptr /\ (pc' = pc \/ (pc = "cmp" /\ pc' \in {"copy", "tail"}))
    BY <1>3 DEF CompareDiffers, PrintLast, Hardware, HwWrite, vars
  <2> QED
    BY <1>c, <2>1
<1>4. CASE TailWord \/ End
  BY <1>4 DEF TailWord, End, AlignInv
<1>5. CASE NewCall
  <2>1. ptr' = 0
    BY <1>5 DEF NewCall, Call
  <2> QED
    BY <1>b, <2>1 DEF AlignInv
<1> QED
  BY <1>1, <1>2, <1>3, <1>4, <1>5 DEF Next, Step

-----------------------------------------------------------------------------
\* What the expanded lines show, word by word.
ShownTo == BlocksTo + Len(words)

ExpandInv ==
  /\ ShownTo \in Nat
  /\ Expanded \in [0..(ShownTo - 1) -> Val]
  /\ \A j \in 1..Len(lines) : \A w \in Nat :
       Within(w, j) => Expanded[w] = lines[j].val[w % BLOCK_WORDS]
  /\ \A k \in 1..Len(words) : Expanded[BlocksTo + k - 1] = words[k].val

LEMMA ExpandedIs == RangeInv /\ LayInv => ExpandInv
<1> SUFFICES ASSUME RangeInv, LayInv PROVE ExpandInv
  OBVIOUS
<1>0. /\ BLOCK_WORDS \in Nat \ {0} /\ BlocksTo \in Nat
      /\ Len(words) \in Nat /\ Len(lines) \in Nat
      /\ lines \in Seq(Line) /\ words \in Seq([off : Nat, val : Val])
  BY Constants DEF RangeInv, TypeOK, LayInv
<1>1. ShownTo \in Nat
  BY <1>0 DEF ShownTo
\* The word belongs to one line only.
<1>2. ASSUME NEW w \in Nat, NEW j \in 1..Len(lines), Within(w, j)
      PROVE  LineOf(w) = j
  <2>1. LineOf(w) \in 1..Len(lines) /\ Within(w, LineOf(w))
    BY <1>2 DEF LineOf, Within
  <2>2. PICK m \in 1..Len(lines) : m = LineOf(w)
    BY <2>1
  <2>3. /\ FirstWord(j) <= w /\ w < AfterLine(j)
        /\ FirstWord(m) <= w /\ w < AfterLine(m)
        /\ FirstWord(j) \in Nat /\ AfterLine(j) \in Nat
        /\ FirstWord(m) \in Nat /\ AfterLine(m) \in Nat
    BY <1>2, <2>1, <2>2 DEF LayInv, Within
  <2>4. ~(j < m)
    <3>1. j < m => AfterLine(j) <= FirstWord(m)
      BY DEF LayInv
    <3> QED
      BY <2>3, <3>1
  <2>5. ~(m < j)
    <3>1. m < j => AfterLine(m) <= FirstWord(j)
      BY DEF LayInv
    <3> QED
      BY <2>3, <3>1
  <2>6. m = j
    BY <1>0, <2>4, <2>5
  <2> QED
    BY <2>2, <2>6
<1>3. ASSUME NEW w \in Nat, NEW j \in 1..Len(lines), Within(w, j)
      PROVE  /\ w \in 0..(ShownTo - 1) /\ w < BlocksTo
             /\ Expanded[w] = lines[j].val[w % BLOCK_WORDS]
             /\ lines[j].val[w % BLOCK_WORDS] \in Val
  <2>1. w < BlocksTo
    BY <1>0, <1>3 DEF LayInv, Within
  <2>2. w \in 0..(BlocksTo + Len(words) - 1)
    BY <1>0, <2>1
  <2>3. Expanded[w] = lines[j].val[w % BLOCK_WORDS]
    BY <1>2, <1>3, <2>1, <2>2 DEF Expanded
  <2>4. lines[j].val \in Block
    <3>1. lines[j] \in Line
      BY <1>0
    <3> QED
      BY <3>1 DEF Line
  <2>5. (w % BLOCK_WORDS) \in 0..(BLOCK_WORDS - 1)
    BY <1>0
  <2>6. lines[j].val[w % BLOCK_WORDS] \in Val
    BY <2>4, <2>5 DEF Block
  <2>7. w \in 0..(ShownTo - 1)
    BY <1>0, <1>3, <2>1 DEF ShownTo
  <2> QED
    BY <2>1, <2>3, <2>6, <2>7
<1>4. ASSUME NEW k \in 1..Len(words)
      PROVE  Expanded[BlocksTo + k - 1] = words[k].val /\ words[k].val \in Val
  <2>1. PICK w \in Nat : w = BlocksTo + k - 1
    BY <1>0
  <2>2. /\ w \in 0..(BlocksTo + Len(words) - 1) /\ ~(w < BlocksTo)
        /\ w - BlocksTo + 1 = k
    BY <1>0, <2>1
  <2>3. Expanded[w] = words[k].val
    <3>1. Expanded[w] = words[w - BlocksTo + 1].val
      BY <2>2 DEF Expanded
    <3> QED
      BY <2>2, <3>1
  <2>4. words[k] \in [off : Nat, val : Val]
    BY <1>0, <1>4, ElementOf
  <2> QED
    BY <2>1, <2>3, <2>4
<1>5. ASSUME NEW w \in 0..(ShownTo - 1) PROVE Expanded[w] \in Val
  <2>1. CASE w < BlocksTo
    <3>1. w \in Nat /\ w \in 0..(BlocksTo - 1)
      BY <1>0, <2>1 DEF ShownTo
    <3>2. PICK j \in 1..Len(lines) : Within(w, j)
      BY <3>1 DEF LayInv
    <3> QED
      BY <1>3, <3>1, <3>2
  <2>2. CASE ~(w < BlocksTo)
    <3>1. PICK k \in 1..Len(words) : w = BlocksTo + k - 1
      <4>1. (w - BlocksTo) + 1 \in 1..Len(words)
        BY <1>0, <2>2 DEF ShownTo
      <4>2. w = BlocksTo + ((w - BlocksTo) + 1) - 1
        BY <1>0, <1>1
      <4> QED
        BY <4>1, <4>2
    <3> QED
      BY <1>4, <3>1
  <2> QED
    BY <2>1, <2>2
<1>6. Expanded \in [0..(ShownTo - 1) -> Val]
  <2>1. DOMAIN Expanded = 0..(ShownTo - 1)
    <3>1. DOMAIN Expanded = 0..(BlocksTo + Len(words) - 1)
      BY Zenon DEF Expanded
    <3>2. BlocksTo + Len(words) - 1 = ShownTo - 1
      BY <1>0 DEF ShownTo
    <3> QED
      BY <3>1, <3>2
  <2>2. Expanded = [w \in DOMAIN Expanded |-> Expanded[w]]
    BY DEF Expanded
  <2> QED
    BY <1>5, <2>1, <2>2
<1> QED
  BY <1>1, <1>3, <1>4, <1>6 DEF ExpandInv

\* The same after a step.
LEMMA ExpandedIsNext == RangeInv' /\ LayInv' => ExpandInv'
  BY ExpandedIs, PTL

-----------------------------------------------------------------------------
\* More words are shown, in a step that leaves the range alone.
LEMMA Shows ==
  ASSUME ExpandInv, ExpandInv', TypeOK, len \in Nat, DumpState = "busy",
         DumpState' = "busy",
         mem' = mem, held' = held, ShownTo <= ShownTo', ShownTo' <= len,
         \A w \in 0..(ShownTo - 1) : Expanded'[w] = Expanded[w],
         \A w \in ShownTo..(ShownTo' - 1) : Expanded'[w] \in held[w]
  PROVE  Dump!Show
<1>1. /\ ShownTo \in Nat /\ ShownTo' \in Nat
      /\ DOMAIN Expanded = 0..(ShownTo - 1)
      /\ DOMAIN Expanded' = 0..(ShownTo' - 1)
      /\ Expanded' \in [0..(ShownTo' - 1) -> Val]
  BY DEF ExpandInv
<1>2. DOMAIN mem = 0..(len - 1)
  BY DEF TypeOK
<1>3. Dump!IsWords(Expanded')
  <2>1. Expanded' \in [DOMAIN Expanded' -> Val]
    BY <1>1
  <2>2. \A w \in DOMAIN Expanded' : w \in Nat /\ 0..w \subseteq DOMAIN Expanded'
    BY <1>1
  <2> QED
    BY <2>1, <2>2 DEF Dump!IsWords
<1>a. PICK a \in Nat : a = ShownTo
  BY <1>1
<1>b. PICK b \in Nat : b = ShownTo'
  BY <1>1
<1>c. a <= b /\ b <= len
  BY <1>a, <1>b
<1>d. /\ \A w \in 0..(a - 1) : w \in 0..(b - 1)
      /\ \A w \in 0..(b - 1) : w \in 0..(len - 1)
      /\ \A w \in 0..(b - 1) : w \in 0..(a - 1) \/ w \in a..(b - 1)
  BY <1>c
<1>e. DOMAIN Expanded = 0..(a - 1) /\ DOMAIN Expanded' = 0..(b - 1)
  BY <1>1, <1>a, <1>b
<1>4. DOMAIN Expanded \subseteq DOMAIN Expanded'
  BY <1>d, <1>e
<1>5. DOMAIN Expanded' \subseteq DOMAIN mem
  BY <1>2, <1>d, <1>e
<1>6. \A w \in DOMAIN Expanded' :
        IF w \in DOMAIN Expanded THEN Expanded'[w] = Expanded[w]
                                 ELSE Expanded'[w] \in held[w]
  <2>1. \A w \in 0..(a - 1) : Expanded'[w] = Expanded[w]
    BY <1>a
  <2>2. \A w \in a..(b - 1) : Expanded'[w] \in held[w]
    BY <1>a, <1>b
  <2> QED
    BY <1>d, <1>e, <2>1, <2>2
<1> QED
  BY <1>3, <1>4, <1>5, <1>6 DEF Dump!Show

\* Printing the pending run shows its blocks, and only those.
LEMMA PrintShows ==
  ASSUME MapInv, MapInv', pc = "cmp", pc' # "idle", mem' = mem, held' = held,
         len' = len, prev_val' = prev_val, NEW n \in Nat, Printed(n)
  PROVE  Dump!Show
<1>0. /\ BLOCK_WORDS \in Nat \ {0} /\ ptr \in Nat /\ count \in Nat
      /\ len \in Int /\ TypeOK /\ ControlInv /\ PendingHeld /\ LayInv
      /\ prev_val \in Block
  BY Constants DEF MapInv, TileInv, RangeInv, TypeOK, HeldInv
<1>1. ExpandInv /\ ExpandInv'
  BY ExpandedIs, ExpandedIsNext DEF MapInv, TileInv
<1>2. /\ n = Len(lines) + 1 /\ Len(lines') = n /\ Len(lines) \in Nat
      /\ ShownTo = PendingFrom /\ ShownTo' = ptr /\ BlocksTo = PendingFrom
  <2>1. Len(words) = 0 /\ Len(words') = 0 /\ ptr + 0 = ptr
    BY <1>0 DEF Printed
  <2>2. BlocksTo \in Nat /\ BlocksTo + 0 = BlocksTo
    BY <1>0 DEF LayInv
  <2>3. Len(lines) \in Nat
    BY <1>0 DEF TypeOK
  <2> QED
    BY <2>1, <2>2, <2>3 DEF Printed, ShownTo
<1>3. PendingFrom \in Nat /\ PendingFrom <= ptr /\ ptr <= len
  BY <1>0, PendingInRange DEF MapInv, ControlInv
<1>4. ASSUME NEW w \in 0..(ShownTo - 1) PROVE Expanded'[w] = Expanded[w]
  <2>1. w \in Nat /\ w \in 0..(BlocksTo - 1)
    BY <1>2, <1>3
  <2>2. PICK j \in 1..Len(lines) : Within(w, j)
    BY <1>0, <2>1 DEF LayInv
  <2>3. j \in 1..(n - 1) /\ j \in 1..Len(lines')
    BY <1>2
  <2>4. Within(w, j)' /\ lines'[j] = lines[j]
    BY <2>2, <2>3 DEF Printed, Within
  <2>5. Expanded[w] = lines[j].val[w % BLOCK_WORDS]
    BY <1>1, <2>1, <2>2 DEF ExpandInv
  <2>6. Expanded'[w] = lines'[j].val[w % BLOCK_WORDS]
    BY <1>1, <2>1, <2>3, <2>4 DEF ExpandInv
  <2> QED
    BY <2>4, <2>5, <2>6
<1>5. ASSUME NEW w \in ShownTo..(ShownTo' - 1) PROVE Expanded'[w] \in held[w]
  <2>1. w \in Nat /\ PendingFrom <= w /\ w < ptr
    BY <1>2, <1>3, <1>0
  <2>2. n \in 1..Len(lines') /\ Within(w, n)' /\ lines'[n].val = prev_val
    BY <1>2, <2>1 DEF Printed, Within
  <2>3. Expanded'[w] = prev_val[w % BLOCK_WORDS]
    BY <1>1, <2>1, <2>2 DEF ExpandInv
  <2> DEFINE k == w % BLOCK_WORDS
             q == w \div BLOCK_WORDS
  <2>4. k \in 0..(BLOCK_WORDS - 1) /\ q \in Int /\ w = q * BLOCK_WORDS + k
    BY <1>0, <2>1
  <2>5. PICK f \in Int : ptr = f * BLOCK_WORDS
    BY DEF MapInv, AlignInv
  <2> HIDE DEF k, q
  <2> DEFINE b == (q - f) + (count + 1)
  <2>6. /\ b \in Int /\ w - PendingFrom = b * BLOCK_WORDS + k
        /\ PendingFrom + b * BLOCK_WORDS + k = w
    BY <1>0, <2>4, <2>5 DEF PendingFrom
  <2>7. 0 <= w - PendingFrom /\ w - PendingFrom < (count + 1) * BLOCK_WORDS
    BY <1>0, <2>1 DEF PendingFrom
  <2> HIDE DEF b
  <2>8. b >= 0
    <3> SUFFICES ASSUME b + 1 <= 0 PROVE FALSE
      BY <2>6
    <3>1. (b + 1) * BLOCK_WORDS <= 0 * BLOCK_WORDS
      BY <1>0, <2>6, Monotone
    <3>2. (b + 1) * BLOCK_WORDS = b * BLOCK_WORDS + BLOCK_WORDS
      BY <1>0, <2>6
    <3>3. b * BLOCK_WORDS \in Int /\ 0 * BLOCK_WORDS = 0
      BY <1>0, <2>6
    <3> QED
      BY <1>0, <2>4, <2>6, <2>7, <3>1, <3>2, <3>3
  <2>9. b <= count
    <3> SUFFICES ASSUME count + 1 <= b PROVE FALSE
      BY <1>0, <2>6
    <3>1. (count + 1) * BLOCK_WORDS <= b * BLOCK_WORDS
      BY <1>0, <2>6, Monotone
    <3>2. b * BLOCK_WORDS \in Int /\ (count + 1) * BLOCK_WORDS \in Int
      BY <1>0, <2>6
    <3> QED
      BY <2>4, <2>6, <2>7, <3>1, <3>2
  <2>10. HeldAt(PendingFrom + b * BLOCK_WORDS + k, prev_val[k])
    BY <1>0, <2>4, <2>6, <2>8, <2>9 DEF PendingHeld
  <2> QED
    BY <2>3, <2>6, <2>10 DEF HeldAt, k
<1>6. DumpState = "busy" /\ DumpState' = "busy"
  BY DEF DumpState
<1>7. len \in Nat /\ ShownTo <= ShownTo' /\ ShownTo' <= len
  BY <1>0, <1>2, <1>3
<1> QED
  BY <1>0, <1>1, <1>4, <1>5, <1>6, <1>7, Shows

\* A single-word line shows the word at ptr.
LEMMA TailShows ==
  ASSUME MapInv, MapInv', TailWord
  PROVE  Dump!Show
<1>0. /\ ptr \in Nat /\ len \in Int /\ TypeOK /\ MemHeld /\ LayInv
      /\ words \in Seq([off : Nat, val : Val]) /\ Len(words) \in Nat
      /\ BlocksTo \in Nat
  <2>1. TypeOK /\ MemHeld /\ LayInv
    BY DEF MapInv, TileInv, RangeInv, HeldInv
  <2>2. ptr \in Nat /\ len \in Int /\ words \in Seq([off : Nat, val : Val])
    BY <2>1 DEF TypeOK
  <2>3. Len(words) \in Nat
    BY <2>2
  <2>4. BlocksTo \in Nat
    BY <2>1 DEF LayInv
  <2> QED
    BY <2>1, <2>2, <2>3, <2>4
<1>1. ExpandInv /\ ExpandInv'
  BY ExpandedIs, ExpandedIsNext DEF MapInv, TileInv
<1>2. /\ pc = "tail" /\ pc' = "tail" /\ ptr < len /\ lines' = lines
      /\ mem' = mem /\ held' = held /\ len' = len
      /\ words' = Append(words, [off |-> 8 * ptr, val |-> mem[ptr]])
  BY DEF TailWord, frame
<1>3. /\ Len(words') = Len(words) + 1 /\ words'[Len(words) + 1].val = mem[ptr]
      /\ \A k \in 1..Len(words) : words'[k] = words[k]
  BY <1>0, <1>2
<1>4. BlocksTo' = BlocksTo /\ BlocksTo = ptr - Len(words)
  BY <1>0, <1>2, LayFrame, LinesEnd DEF MapInv
<1>5. ShownTo = ptr /\ ShownTo' = ptr + 1
  BY <1>0, <1>3, <1>4 DEF ShownTo
<1>6. ASSUME NEW w \in 0..(ShownTo - 1) PROVE Expanded'[w] = Expanded[w]
  <2>0. w \in Nat /\ w < ptr
    BY <1>0, <1>5
  <2>1. CASE w < BlocksTo
    <3>1. w \in 0..(BlocksTo - 1)
      BY <1>0, <2>0, <2>1
    <3>2. PICK j \in 1..Len(lines) : Within(w, j)
      BY <1>0, <3>1 DEF LayInv
    <3>3. Within(w, j)'
      BY <1>2, <3>2 DEF Within, FirstWord, AfterLine, TrueOffset
    <3>4. Expanded[w] = lines[j].val[w % BLOCK_WORDS]
      BY <1>1, <2>0, <3>2 DEF ExpandInv
    <3>5. Expanded'[w] = lines'[j].val[w % BLOCK_WORDS]
      BY <1>1, <1>2, <2>0, <3>3 DEF ExpandInv
    <3> QED
      BY <1>2, <3>4, <3>5
  <2>2. CASE ~(w < BlocksTo)
    <3>1. PICK k \in 1..Len(words) : w = BlocksTo + k - 1
      <4>1. (w - BlocksTo) + 1 \in 1..Len(words)
        BY <1>0, <1>4, <2>0, <2>2
      <4>2. w = BlocksTo + ((w - BlocksTo) + 1) - 1
        BY <1>0, <2>0
      <4> QED
        BY <4>1, <4>2
    <3>2. k \in 1..Len(words')
      BY <1>0, <1>3
    <3>3. Expanded[w] = words[k].val
      BY <1>1, <3>1 DEF ExpandInv
    <3>4. Expanded'[w] = words'[k].val
      BY <1>1, <1>4, <3>1, <3>2 DEF ExpandInv
    <3> QED
      BY <1>3, <3>3, <3>4
  <2> QED
    BY <2>1, <2>2
<1>7. ASSUME NEW w \in ShownTo..(ShownTo' - 1) PROVE Expanded'[w] \in held[w]
  <2>1. w = ptr /\ ptr \in 0..(len - 1)
    BY <1>0, <1>2, <1>5
  <2>2. PICK k \in 1..Len(words') : k = Len(words) + 1
    BY <1>0, <1>3
  <2>3. ptr = BlocksTo' + k - 1
    BY <1>0, <1>4, <2>2
  <2>4. Expanded'[ptr] = words'[k].val
    BY <1>1, <2>2, <2>3 DEF ExpandInv
  <2> QED
    BY <1>0, <1>3, <2>1, <2>2, <2>4 DEF MemHeld
<1>8. DumpState = "busy" /\ DumpState' = "busy"
  BY <1>2 DEF DumpState
<1>9. len \in Nat /\ ShownTo <= ShownTo' /\ ShownTo' <= len
  BY <1>0, <1>2, <1>5
<1> QED
  BY <1>0, <1>1, <1>2, <1>6, <1>7, <1>8, <1>9, Shows

-----------------------------------------------------------------------------
\* Before the first call nothing is shown.
LEMMA NothingShown == lines = << >> /\ words = << >> => Expanded = Dump!Nothing
<1> SUFFICES ASSUME lines = << >>, words = << >> PROVE Expanded = Dump!Nothing
  OBVIOUS
<1>1. BlocksTo = 0 /\ Len(words) = 0
  BY DEF BlocksTo
<1>2. 0..(BlocksTo + Len(words) - 1) = {}
  BY <1>1
<1> QED
  BY <1>2 DEF Expanded, Dump!Nothing

LEMMA DumpInit == Init => Dump!Init
<1> SUFFICES ASSUME Init PROVE Dump!Init
  OBVIOUS
<1>1. Expanded = Dump!Nothing
  BY NothingShown DEF Init
<1>2. mem = Dump!Nothing /\ held = Dump!Nothing
  BY DEF Init, Dump!Nothing
<1>3. DumpState = "idle"
  BY DEF Init, DumpState
<1> QED
  BY <1>1, <1>2, <1>3 DEF Dump!Init

\* A new call begins a dump or is refused, with nothing shown.
LEMMA CallBegins == NewCall => Dump!Begin
<1> SUFFICES ASSUME NewCall PROVE Dump!Begin
  OBVIOUS
<1>1. PICK s \in Starts, n \in -1..MaxLen, msg \in {"ok", "special", "long"} :
        \E m \in [0..(n - 1) -> Val] : Call(s, n, msg, m)
  BY DEF NewCall
<1>2. PICK m \in [0..(n - 1) -> Val] : Call(s, n, msg, m)
  BY <1>1
<1>3. DumpState # "busy"
  BY DEF NewCall, DumpState
<1>4. mem' = m /\ held' = [w \in DOMAIN mem' |-> {mem'[w]}]
  BY <1>2 DEF Call
<1>5. n \in Int /\ DOMAIN m = 0..(n - 1)
  BY LogRangeAssumption DEF LogRangeAssumption
<1>6. Dump!IsWords(mem')
  <2>1. \A w \in DOMAIN m : w \in Nat /\ 0..w \subseteq DOMAIN m
    BY <1>5
  <2> QED
    BY <1>4, <1>5, <2>1 DEF Dump!IsWords
<1>7. Expanded' = Dump!Nothing
  <2>1. lines' = << >> /\ words' = << >>
    BY <1>2 DEF Call
  <2>2. (lines = << >> /\ words = << >>)' => (Expanded = Dump!Nothing)'
    BY NothingShown, PTL
  <2> QED
    BY <2>1, <2>2 DEF Dump!Nothing
<1>8. DumpState' \in {"busy", "refused"}
  <2>1. \/ pc' = "idle" /\ outcome' = "err"
        \/ pc' \in {"tail", "fill"}
    BY <1>2 DEF Call
  <2> QED
    BY <2>1 DEF DumpState
<1> QED
  BY <1>3, <1>4, <1>6, <1>7, <1>8 DEF Dump!Begin

\* What is shown depends on the printed lines alone.
LEMMA ShownFrame ==
  ASSUME lines' = lines, words' = words PROVE Expanded' = Expanded
  BY DEF Expanded, LineOf, BlocksTo, AfterLine, FirstWord, TrueOffset

\* END is printed when the whole range has been shown.
LEMMA EndFinishes ==
  ASSUME MapInv, MapInv', End PROVE Dump!Finish
<1>0. TypeOK /\ TileInv /\ ExpandInv
  BY ExpandedIs DEF MapInv, TileInv, RangeInv
<1>1. /\ pc = "tail" /\ pc' = "idle" /\ outcome' = "ok"
      /\ lines' = lines /\ words' = words /\ mem' = mem /\ held' = held
      /\ ptr' = ptr /\ len' = len
  BY DEF End, frame
<1>2. ptr = len
  <2>1. LinesTile'
    BY DEF MapInv, TileInv
  <2> QED
    BY <1>1, <2>1 DEF LinesTile
<1>3. ShownTo = len
  <2>1. BlocksTo = ptr - Len(words)
    BY <1>0, <1>1, LinesEnd
  <2>2. words \in Seq([off : Nat, val : Val]) /\ ptr \in Nat
    BY <1>0 DEF TypeOK
  <2>3. Len(words) \in Nat
    BY <2>2
  <2> QED
    BY <1>2, <2>1, <2>2, <2>3 DEF ShownTo
<1>4. DOMAIN Expanded = DOMAIN mem
  <2>1. DOMAIN Expanded = 0..(ShownTo - 1)
    BY <1>0 DEF ExpandInv
  <2>2. DOMAIN mem = 0..(len - 1)
    BY <1>0 DEF TypeOK
  <2> QED
    BY <1>3, <2>1, <2>2
<1>5. DumpState = "busy" /\ DumpState' = "done"
  BY <1>1 DEF DumpState
<1> QED
  BY <1>1, <1>4, <1>5, ShownFrame DEF Dump!Finish

LEMMA DumpStep == MapInv /\ MapInv' /\ [Next]_vars => [Dump!Next]_(Dump!vars)
<1> SUFFICES ASSUME MapInv, MapInv', [Next]_vars
             PROVE  Dump!Next \/ UNCHANGED Dump!vars
  OBVIOUS
<1>1. CASE NewCall
  BY <1>1, CallBegins DEF Dump!Next
<1>2. CASE CompareDiffers
  <2>1. FlushOffset \in Int
    BY Constants DEF MapInv, TileInv, RangeInv, TypeOK, FlushOffset
  <2>2. PICK n \in Nat : Printed(n)
    BY <1>2, <2>1, PrintLays DEF CompareDiffers, MapInv
  <2>3. /\ pc = "cmp" /\ pc' # "idle" /\ mem' = mem /\ held' = held
        /\ len' = len /\ prev_val' = prev_val
    BY <1>2 DEF CompareDiffers, frame
  <2> QED
    BY <2>2, <2>3, PrintShows DEF Dump!Next
<1>3. CASE PrintLast
  <2>1. LastOffset \in Int
    BY DEF MapInv, TileInv, RangeInv, TypeOK, LastOffset
  <2>2. PICK n \in Nat : Printed(n)
    BY <1>3, <2>1, PrintLays DEF PrintLast, MapInv
  <2>3. /\ pc = "cmp" /\ pc' # "idle" /\ mem' = mem /\ held' = held
        /\ len' = len /\ prev_val' = prev_val
    BY <1>3 DEF PrintLast, frame
  <2> QED
    BY <2>2, <2>3, PrintShows DEF Dump!Next
<1>4. CASE TailWord
  BY <1>4, TailShows DEF Dump!Next
<1>5. CASE End
  BY <1>5, EndFinishes DEF Dump!Next
<1>6. CASE Hardware
  <2>1. PICK w \in 0..(len - 1), v \in Val : HwWrite(w, v)
    BY <1>6 DEF Hardware
  <2>2. DOMAIN mem = 0..(len - 1)
    BY DEF MapInv, TileInv, RangeInv, TypeOK
  <2>3. Expanded' = Expanded
    BY <2>1, ShownFrame DEF HwWrite
  <2>4. DumpState = "busy" /\ DumpState' = DumpState
    BY <2>1 DEF HwWrite, DumpState
  <2>5. /\ mem' = [mem EXCEPT ![w] = v]
        /\ held' = [held EXCEPT ![w] = @ \union {v}]
    BY <2>1 DEF HwWrite
  <2>6. Dump!Change
    BY <2>2, <2>3, <2>4, <2>5 DEF Dump!Change
  <2> QED
    BY <2>6 DEF Dump!Next
<1>7. CASE Fill \/ CompareEqual \/ Copy \/ UNCHANGED vars
  <2>1. /\ lines' = lines /\ words' = words /\ mem' = mem /\ held' = held
        /\ outcome' = outcome
        /\ pc' = pc \/ (pc # "idle" /\ pc' # "idle")
    BY <1>7 DEF Fill, CompareEqual, Copy, vars, frame
  <2>2. DumpState' = DumpState
    BY <2>1 DEF DumpState
  <2> QED
    BY <2>1, <2>2, ShownFrame DEF Dump!vars
<1> QED
  BY <1>1, <1>2, <1>3, <1>4, <1>5, <1>6, <1>7 DEF Next, Step

-----------------------------------------------------------------------------
(***************************************************************************)
(* The lines log_range prints always lie one behind the other, and every   *)
(* step of it is a step of the abstract dump or none: words appear in      *)
(* order, once each, with values they had during the call, none is taken   *)
(* back, and END comes after the whole range, for every block size, range, *)
(* and sequence of hardware writes.                                        *)
(***************************************************************************)
THEOREM DumpImplemented == Spec => ImplementsDump
<1>1. Init => MapInv
  <2> SUFFICES ASSUME Init PROVE MapInv
    OBVIOUS
  <2>1. HeldInv
    BY DEF Init, HeldInv, MemHeld, LinesHeld, WordsHeld, PendingHeld, ReadHeld
  <2>2. LayInv
    BY EmptyLay DEF Init
  <2>3. AlignInv
    BY DEF Init, AlignInv
  <2> QED
    BY <2>1, <2>2, <2>3, InitTile DEF MapInv
<1>2. MapInv /\ [Next]_vars => MapInv'
  BY StepTile, StepHeld, StepLay, StepAlign DEF MapInv
<1> QED
  BY <1>1, <1>2, DumpInit, DumpStep, PTL DEF Spec, ImplementsDump, Dump!Spec
=============================================================================
