-------------------------- MODULE LogRangeRefines --------------------------
(***************************************************************************)
(* log_range implements RangeDump: expanding the lines printed so far,     *)
(* each for as many blocks as it counts, shows a prefix of the range.      *)
(***************************************************************************)
EXTENDS LogRange

\* The first word line j stands for, and the first one after it.
FirstWord(j) == TrueOffset(j) \div 8
AfterLine(j) == FirstWord(j) + lines[j].cnt * BLOCK_WORDS

BlocksTo == IF lines = << >> THEN 0 ELSE AfterLine(Len(lines))

LineOf(w) == CHOOSE j \in 1..Len(lines) : FirstWord(j) <= w /\ w < AfterLine(j)

Expanded ==
  [w \in 0..(BlocksTo + Len(words) - 1) |->
     IF w < BlocksTo THEN lines[LineOf(w)].val[w % BLOCK_WORDS]
                     ELSE words[w - BlocksTo + 1].val]

DumpState ==
  IF pc # "idle" THEN "busy"
  ELSE IF outcome = "ok" THEN "done"
  ELSE IF outcome = "err" THEN "refused" ELSE "idle"

Dump == INSTANCE RangeDump
          WITH range <- mem, shown <- Expanded, state <- DumpState

(***************************************************************************)
(* Reading blocks twice, comparing word by word, counting repeats and the  *)
(* two printing paths of log_range (utils.c:57-138) come to a dump that    *)
(* shows the range's words in order, once each, with values they had: no   *)
(* line takes back or contradicts an earlier one, and END is printed only  *)
(* after the whole range.                                                  *)
(***************************************************************************)
ImplementsDump == Dump!Spec
=============================================================================
