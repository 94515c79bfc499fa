------------------------------- MODULE Words --------------------------------
(***************************************************************************)
(* Machine words as the sets of their bits that are 1: "&" is intersection,*)
(* "|" is union, and a shift moves the set and drops what leaves the word. *)
(***************************************************************************)
EXTENDS Integers

Word == 0..63

ShiftLeft(w, n) == {b \in Word : b - n \in w}
ShiftRight(w, n) == {b \in Word : b + n \in w}
=============================================================================
