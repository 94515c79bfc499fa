----------------------------- MODULE RangeDump -----------------------------
(***************************************************************************)
(* What a dump of a live memory range promises, without blocks, runs or    *)
(* repeat counts: the words of the range are shown in order, each once,    *)
(* each with a value it really had while the dump was running, and a dump  *)
(* that ends has shown the whole range.                                    *)
(***************************************************************************)
EXTENDS Integers

CONSTANT Val

VARIABLES
  range,  \* the words of the range
  held,   \* the values each word has had during this dump
  shown,  \* the words shown so far: a prefix of the range
  state   \* "idle", "busy", "done" or "refused"

vars == <<range, held, shown, state>>

Nothing == [w \in {} |-> 0]

\* f holds a value for each of the words 0, 1, ... up to some length.
IsWords(f) ==
  /\ f \in [DOMAIN f -> Val]
  /\ \A w \in DOMAIN f : w \in Nat /\ 0..w \subseteq DOMAIN f

Init ==
  /\ range = Nothing /\ held = Nothing /\ shown = Nothing
  /\ state = "idle"

\* A dump is asked for, and begins or is refused.
Begin ==
  /\ state # "busy"
  /\ IsWords(range')
  /\ held' = [w \in DOMAIN range' |-> {range'[w]}]
  /\ shown' = Nothing
  /\ state' \in {"busy", "refused"}

\* The owner of the range stores v in word w.
Change ==
  /\ state = "busy"
  /\ \E w \in DOMAIN range, v \in Val :
       /\ range' = [range EXCEPT ![w] = v]
       /\ held' = [held EXCEPT ![w] = @ \union {v}]
  /\ UNCHANGED <<shown, state>>

\* More words are shown; those shown before stay as they are.
Show ==
  /\ state = "busy"
  /\ IsWords(shown')
  /\ DOMAIN shown \subseteq DOMAIN shown'
  /\ DOMAIN shown' \subseteq DOMAIN range
  /\ \A w \in DOMAIN shown' :
       IF w \in DOMAIN shown THEN shown'[w] = shown[w]
                             ELSE shown'[w] \in held[w]
  /\ UNCHANGED <<range, held, state>>

Finish ==
  /\ state = "busy" /\ DOMAIN shown = DOMAIN range
  /\ state' = "done"
  /\ UNCHANGED <<range, held, shown>>

Next == Begin \/ Change \/ Show \/ Finish

Spec == Init /\ [][Next]_vars
=============================================================================
