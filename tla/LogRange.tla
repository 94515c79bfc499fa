------------------------------ MODULE LogRange ------------------------------
(***************************************************************************)
(* log_range() of utils.c: the run-length encoded dump of a memory range   *)
(* to the kernel log.                                                      *)
(*                                                                         *)
(* The range is live: the IOMMU and its driver write command buffers,      *)
(* event logs and registers while log_range walks over them, so every read *)
(* of a quad word is a step of its own and HwWrite may fall between any    *)
(* two of them.  A block is read word by word into prev_val, compared word *)
(* by word with the block before it, and on a mismatch READ AGAIN to       *)
(* replace prev_val (utils.c:118): the value compared and the value kept   *)
(* need not agree.                                                         *)
(*                                                                         *)
(* A quad word is a member of Val.  Addresses are bytes; the range is      *)
(* [start, start + 8 * len), since every caller passes a limit that is a   *)
(* whole number of quad words away from start, and mem[w] is the word at   *)
(* start + 8 * w.  A printed line keeps its repeat count, its printed      *)
(* offset (in bytes) and its value; the hexadecimal layout is left out.    *)
(***************************************************************************)
EXTENDS Integers, Sequences

CONSTANTS
  Val,          \* the quad words memory can hold
  BLOCK_WORDS,  \* quad words per block: 4 in utils.c
  Starts,       \* start addresses callers pass, 0 being NULL
  MaxLen,       \* bound: longest range, in quad words
  MaxCalls,     \* bound: calls of log_range per behaviour
  MaxWrites     \* bound: writes of the hardware per call

ASSUME LogRangeAssumption ==
  /\ BLOCK_WORDS \in Nat \ {0}
  /\ Starts \subseteq Nat
  /\ MaxLen \in Nat
  /\ MaxCalls \in Nat
  /\ MaxWrites \in Nat
  /\ Val # {}

BLOCK_BYTES == 8 * BLOCK_WORDS

Block == [0..(BLOCK_WORDS - 1) -> Val]

VARIABLES
  mem,      \* the dumped range, by quad-word index from start
  start,    \* start_ptr
  len,      \* (limit_ptr - start_ptr) / 8
  ptr,      \* ptr, as a quad-word index from start
  i,        \* index of the loop over the words of a block
  prev_val, \* the block of the pending run
  count,    \* repeats of the pending run after its first block
  lines,    \* block lines printed by this call
  words,    \* single-word lines printed by this call
  log_id,   \* id of the next BEGIN / END pair
  pc,       \* where log_range is
  outcome,  \* how the last call ended
  calls,    \* calls made so far
  writes,   \* hardware writes during this call
  held      \* history: the values each word has had during this call

vars == <<mem, start, len, ptr, i, prev_val, count, lines, words, log_id, pc,
          outcome, calls, writes, held>>

\* What a call leaves alone while it only reads and prints.
frame == <<mem, start, len, calls, writes, held>>

NoBlock == [w \in 0..(BLOCK_WORDS - 1) |-> CHOOSE v \in Val : TRUE]

Init ==
  /\ mem = << >> /\ held = << >>
  /\ start = 0 /\ len = 0
  /\ ptr = 0 /\ i = 0
  /\ prev_val = NoBlock
  /\ count = 0
  /\ lines = << >> /\ words = << >>
  /\ log_id = 0
  /\ pc = "idle" /\ outcome = "none"
  /\ calls = 0 /\ writes = 0

-----------------------------------------------------------------------------
(***************************************************************************)
(* Entry: the checks of lines 33-73.  msg is "ok", "special" (it holds \n, *)
(* \r or \t) or "long" (64 characters or more); n is negative when limit   *)
(* is below start.  A range shorter than a block is printed word by word   *)
(* (line 57), and only a longer one must be aligned (line 70).             *)
(***************************************************************************)
IsShort(n) == 8 * n < BLOCK_BYTES

Rejected(s, n, msg) ==
  \/ msg # "ok"
  \/ s = 0
  \/ n < 0
  \/ ~IsShort(n) /\ s % 8 # 0

Call(s, n, msg, m) ==
  /\ calls' = calls + 1
  /\ start' = s /\ len' = n
  /\ mem' = m /\ held' = [w \in DOMAIN m |-> {m[w]}]
  /\ IF Rejected(s, n, msg)
     THEN pc' = "idle" /\ outcome' = "err"
     ELSE pc' = (IF IsShort(n) THEN "tail" ELSE "fill") /\ outcome' = "none"
  /\ ptr' = 0 /\ i' = 0 /\ count' = 0
  /\ prev_val' = NoBlock
  /\ lines' = << >> /\ words' = << >>
  /\ writes' = 0
  /\ UNCHANGED log_id

\* Faulty variant: the last word of a block is left out.
WordsLeftShort == i + 2 < BLOCK_WORDS

\* The condition of the loops over the words of a block, lines 81, 91, 118.
WordsLeft == i + 1 < BLOCK_WORDS

\* Lines 81-85: read the first block, one word per step, then print BEGIN.
Fill ==
  /\ pc = "fill"
  /\ prev_val' = [prev_val EXCEPT ![i] = mem[i]]
  /\ IF WordsLeft
     THEN i' = i + 1 /\ UNCHANGED <<ptr, pc>>
     ELSE i' = 0 /\ ptr' = BLOCK_WORDS /\ pc' = "cmp"
  /\ UNCHANGED <<count, lines, words, log_id, outcome, frame>>

\* Faulty variant: the loop runs while any word, not a whole block, is left.
InLoopAnyWord == ptr < len

\* The condition of the loop over blocks, line 88.
InLoop == ptr + BLOCK_WORDS <= len

\* Faulty variants: an index is forgotten on one side or on both.
RepeatsShifted == prev_val[i] = mem[ptr]
RepeatsFirstWord == prev_val[0] = mem[ptr]

\* The comparison of line 92.
Repeats == prev_val[i] = mem[ptr + i]

\* Lines 90-100: word i of the block at ptr repeats the pending run.
CompareEqual ==
  /\ pc = "cmp" /\ InLoop
  /\ Repeats
  /\ IF WordsLeft
     THEN i' = i + 1 /\ UNCHANGED <<ptr, count>>
     ELSE i' = 0 /\ ptr' = ptr + BLOCK_WORDS /\ count' = count + 1
  /\ UNCHANGED <<prev_val, lines, words, log_id, pc, outcome, frame>>

\* Faulty variant: the first block of the run is not counted.
RunRepeats == count

\* The blocks of the pending run, as printed.
RunLength == count + 1

\* Faulty variant: the first block of the run is left out of its length.
FlushOffsetShort == 8 * ptr - count * BLOCK_BYTES

(***************************************************************************)
(* Lines 92-117: word i differs, so the pending run of count + 1 blocks is *)
(* printed with the offset of its first block.  The two printing branches  *)
(* of the code differ only in their format string.                         *)
(***************************************************************************)
FlushOffset == 8 * ptr - (count + 1) * BLOCK_BYTES

CompareDiffers ==
  /\ pc = "cmp" /\ InLoop
  /\ ~Repeats
  /\ lines' = Append(lines, [cnt |-> RunLength, off |-> FlushOffset,
                             val |-> prev_val])
  /\ count' = 0 /\ i' = 0 /\ pc' = "copy"
  /\ UNCHANGED <<ptr, prev_val, words, log_id, outcome, frame>>

\* Lines 118-120: read the block at ptr again into prev_val.
Copy ==
  /\ pc = "copy"
  /\ prev_val' = [prev_val EXCEPT ![i] = mem[ptr + i]]
  /\ IF WordsLeft
     THEN i' = i + 1 /\ UNCHANGED <<ptr, pc>>
     ELSE i' = 0 /\ ptr' = ptr + BLOCK_WORDS /\ pc' = "cmp"
  /\ UNCHANGED <<count, lines, words, log_id, outcome, frame>>

(***************************************************************************)
(* Lines 123-128: the last run is printed after the loop.  Its offset is   *)
(* computed from the limit, 8 bytes per block.                             *)
(***************************************************************************)
LastOffset == 8 * len - 8 * (count + 1)

PrintLast ==
  /\ pc = "cmp" /\ ~InLoop
  /\ lines' = Append(lines, [cnt |-> RunLength, off |-> LastOffset,
                             val |-> prev_val])
  /\ pc' = "tail"
  /\ UNCHANGED <<ptr, i, prev_val, count, words, log_id, outcome, frame>>

\* Lines 59-63 and 131-135: the remaining words, one line each.
TailWord ==
  /\ pc = "tail" /\ ptr < len
  /\ words' = Append(words, [off |-> 8 * ptr, val |-> mem[ptr]])
  /\ ptr' = ptr + 1
  /\ UNCHANGED <<i, prev_val, count, lines, log_id, pc, outcome, frame>>

\* Faulty variant: END waits for a pointer past the limit.
PastLimit == ptr > len

\* The loops over single words end, lines 59 and 131.
AtLimit == ptr >= len

\* Lines 64-66 and 137-138: print END and take the next id.
End ==
  /\ pc = "tail" /\ AtLimit
  /\ log_id' = log_id + 1
  /\ pc' = "idle" /\ outcome' = "ok"
  /\ UNCHANGED <<ptr, i, prev_val, count, lines, words, frame>>

-----------------------------------------------------------------------------
\* Environment: the IOMMU or its driver stores v in word w of the range.
HwWrite(w, v) ==
  /\ pc # "idle" /\ writes < MaxWrites
  /\ mem' = [mem EXCEPT ![w] = v]
  /\ held' = [held EXCEPT ![w] = @ \union {v}]
  /\ writes' = writes + 1
  /\ UNCHANGED <<start, len, ptr, i, prev_val, count, lines, words, log_id,
                 pc, outcome, calls>>

Step == Fill \/ CompareEqual \/ CompareDiffers \/ Copy \/ PrintLast
          \/ TailWord \/ End

NewCall ==
  /\ pc = "idle" /\ calls < MaxCalls
  /\ \E s \in Starts, n \in -1..MaxLen, msg \in {"ok", "special", "long"} :
       \E m \in [0..(n - 1) -> Val] : Call(s, n, msg, m)

Hardware == \E w \in 0..(len - 1), v \in Val : HwWrite(w, v)

Next == NewCall \/ Step \/ Hardware

\* The kernel thread running insmod is scheduled; nothing else is promised.
Spec == Init /\ [][Next]_vars /\ WF_vars(Step)
-----------------------------------------------------------------------------
Line == [cnt : Nat \ {0}, off : Int, val : Block]

TypeOK ==
  /\ len \in Int /\ start \in Nat
  /\ mem \in [0..(len - 1) -> Val]
  /\ held \in [0..(len - 1) -> SUBSET Val]
  /\ ptr \in Nat /\ i \in 0..(BLOCK_WORDS - 1)
  /\ prev_val \in Block /\ count \in Nat
  /\ lines \in Seq(Line)
  /\ words \in Seq([off : Nat, val : Val])
  /\ log_id \in Nat
  /\ pc \in {"idle", "fill", "cmp", "copy", "tail"}
  /\ outcome \in {"none", "ok", "err"}
  /\ calls \in 0..MaxCalls /\ writes \in 0..MaxWrites

(***************************************************************************)
(* No read leaves the range: whichever read log_range is about to make,    *)
(* the word lies before limit (loop conditions of lines 59, 88 and 131 and *)
(* the length check of line 57 that guards the unconditional first fill).  *)
(***************************************************************************)
ReadsInRange ==
  /\ pc = "fill" => i < len
  /\ pc = "copy" => ptr + i < len
  /\ pc = "cmp" /\ InLoop => ptr + i < len
  /\ pc \in {"fill", "cmp", "copy"} => ptr <= len

\* Where block line j really begins: where the line before it ended.
TrueOffset(j) ==
  IF j = 1 THEN 0 ELSE lines[j - 1].off + lines[j - 1].cnt * BLOCK_BYTES

\* Where the block lines printed so far end, in bytes.
FlushedTo == TrueOffset(Len(lines) + 1)

(***************************************************************************)
(* The printed lines tile the range: every line but the last begins where  *)
(* the one before it ended, the pending run of count + 1 blocks begins     *)
(* where the printed ones end, the last line's count reaches exactly the   *)
(* first tail word, and the tail words follow each other up to ptr, which  *)
(* is the limit when END is printed.  Nothing is skipped or printed twice, *)
(* whatever the hardware writes meanwhile.                                 *)
(***************************************************************************)
LinesTile ==
  LET tailFrom == 8 * (ptr - Len(words)) IN
  /\ pc \in {"cmp", "copy"} =>
       /\ \A j \in 1..Len(lines) : lines[j].off = TrueOffset(j)
       /\ FlushedTo = 8 * ptr - (IF pc = "cmp" THEN (count + 1) * BLOCK_BYTES
                                                ELSE 0)
  /\ (pc = "tail" \/ outcome = "ok") =>
       /\ \A j \in 1..(Len(lines) - 1) : lines[j].off = TrueOffset(j)
       /\ tailFrom = IF lines = << >> THEN 0
                     ELSE TrueOffset(Len(lines))
                            + lines[Len(lines)].cnt * BLOCK_BYTES
       /\ \A j \in 1..Len(words) : words[j].off = tailFrom + 8 * (j - 1)
  /\ outcome = "ok" => ptr = len

(***************************************************************************)
(* The dump is lossless under races: every word of every block a line      *)
(* stands for is a value memory really had at that address during the      *)
(* call, for all the repeats the line counts (the double read of lines 92  *)
(* and 119 included), and so is every tail word.  Without hardware writes  *)
(* this says that expanding the lines gives the range back.                *)
(***************************************************************************)
PrintedWasHeld ==
  /\ \A j \in 1..Len(lines) :
       \A b \in 0..(lines[j].cnt - 1), w \in 0..(BLOCK_WORDS - 1) :
         lines[j].val[w]
           \in held[(TrueOffset(j) \div 8) + b * BLOCK_WORDS + w]
  /\ \A j \in 1..Len(words) : words[j].val \in held[words[j].off \div 8]

(***************************************************************************)
(* Runs are maximal: if the range did not change during the call, two      *)
(* adjacent block lines never carry the same block (lines 29-30: a repeat  *)
(* is counted, never printed again).                                       *)
(***************************************************************************)
RunsMaximal ==
  writes = 0 =>
    \A j \in 1..(Len(lines) - 1) : lines[j].val # lines[j + 1].val

(***************************************************************************)
(* Every call returns, however often the hardware changes the range under  *)
(* it: the loops advance ptr on every pass.                                *)
(***************************************************************************)
CallReturns == (pc # "idle") ~> (pc = "idle")

(***************************************************************************)
(* What the header of log_range promises: "kx[addr]: [val]", a run is      *)
(* printed with its address (utils.c:26-30).  The last line of a dump does *)
(* not have it.                                                            *)
(***************************************************************************)
LastLineAddress ==
  outcome = "ok" /\ lines # << >> =>
    lines[Len(lines)].off = TrueOffset(Len(lines))
=============================================================================
