-------------------------------- MODULE Run ---------------------------------
(***************************************************************************)
(* run.c: allocate a buffer of so many pages, load the module, write the   *)
(* buffer to a file named after the current second.  Any number of runs go *)
(* on at once; the labels err and err_buf are control states.              *)
(*                                                                         *)
(* Amounts of memory are counted in pages of 4096 bytes, so an int holds   *)
(* -IntPages .. IntPages - 1 of them.  The module has no parameter "buf":  *)
(* insmod leaves the buffer as malloc returned it, and a page of a file is *)
(* told apart only by the run that wrote it.  A file is the sequence of    *)
(* writes to it, each from its beginning.                                  *)
(***************************************************************************)
EXTENDS Integers, Sequences

CONSTANTS
  Procs,    \* the runs
  Args,     \* what argv[1] may be, NoArg if it is missing
  NoArg,
  Shorts,   \* lengths at which a write may stop early
  MaxTime   \* bound: seconds that pass

IntPages == 524288  \* 2^31 bytes

ASSUME RunAssumption ==
  /\ Args \ {NoArg} \subseteq Int
  /\ Shorts \subseteq Nat
  /\ MaxTime \in Nat

VARIABLES
  pc,      \* where each run is
  size,    \* its size, in pages
  pages,   \* the value of 4096 * size, in pages
  at,      \* the second get_filename read, -1 before
  held,    \* what it has to release: "buf", "filename", "fd"
  failed,  \* it printed that malloc, open or write failed
  now,     \* the clock
  file     \* for each second, the writes to the file named after it

vars == <<pc, size, pages, at, held, failed, now, file>>

Init ==
  /\ pc = [p \in Procs |-> "start"]
  /\ size = [p \in Procs |-> 0] /\ pages = [p \in Procs |-> 0]
  /\ at = [p \in Procs |-> -1] /\ held = [p \in Procs |-> {}]
  /\ failed = [p \in Procs |-> FALSE]
  /\ now = 0 /\ file = [t \in 0..MaxTime |-> << >>]

Goto(p, label) == pc' = [pc EXCEPT ![p] = label]
Take(p, r) == held' = [held EXCEPT ![p] = @ \union {r}]
Report(p) == failed' = [failed EXCEPT ![p] = TRUE]

-----------------------------------------------------------------------------
\* External: an int multiplication that wraps, as the CPU's does.
Wrapped(n) == ((n + IntPages) % (2 * IntPages)) - IntPages

\* 4096 * size.  Signed overflow is undefined: it wraps, or the compiler
\* widens it to the size_t it is converted to.
Product(n) == {Wrapped(n), n}

\* Lines 38-45.  atoi(NULL) is a segmentation fault.
Main(p) ==
  /\ pc[p] = "start"
  /\ \E a \in Args :
       \/ a = NoArg /\ Goto(p, "crash") /\ UNCHANGED <<size, pages>>
       \/ /\ a # NoArg /\ size' = [size EXCEPT ![p] = a]
          /\ \/ a < 1 /\ Goto(p, "exit") /\ UNCHANGED pages
             \/ a >= 1 /\ Goto(p, "malloc")
                /\ \E n \in Product(a) : pages' = [pages EXCEPT ![p] = n]
  /\ UNCHANGED <<at, held, failed, now, file>>

\* Faulty variant: the result of malloc is not looked at.
NoBufferUnchecked == "load"

NoBuffer == "err_buf"

\* Lines 45-49.  A negative product is a size_t no malloc can serve.
Malloc(p) ==
  /\ pc[p] = "malloc"
  /\ \/ pages[p] >= 0 /\ Take(p, "buf") /\ Goto(p, "load") /\ UNCHANGED failed
     \/ Report(p) /\ Goto(p, NoBuffer) /\ UNCHANGED held
  /\ UNCHANGED <<size, pages, at, now, file>>

\* Lines 8-21.  Loading fails on purpose, and only system() itself is checked.
\* system() waits for insmod, which need not come back: nothing here says that it does.
LoadModule(p) ==
  /\ pc[p] = "load" /\ Goto(p, "name")
  /\ UNCHANGED <<size, pages, at, held, failed, now, file>>

\* Lines 24-30.  The malloc of the name is not checked: sprintf would fault.
GetFilename(p) ==
  /\ pc[p] = "name"
  /\ \/ at' = [at EXCEPT ![p] = now] /\ Take(p, "filename") /\ Goto(p, "open")
     \/ Goto(p, "crash") /\ UNCHANGED <<at, held>>
  /\ UNCHANGED <<size, pages, failed, now, file>>

\* Faulty variant: a name that changes every other second only.
FileNameCoarse(t) == 2 * (t \div 2)

\* "%sdump-%ld.bin"
FileName(t) == t

\* Faulty variant: the wrong label.
NoFileWrongLabel == "err_buf"

NoFile == "err"

\* Lines 57-61, without O_TRUNC and O_EXCL: an existing file stays as it is.
Open(p) ==
  /\ pc[p] = "open"
  /\ \/ Take(p, "fd") /\ Goto(p, "write") /\ UNCHANGED failed
     \/ Report(p) /\ Goto(p, NoFile) /\ UNCHANGED held
  /\ UNCHANGED <<size, pages, at, now, file>>

\* External: one call of write transfers at most this much on Linux.
MaxWrite == IntPages - 1

\* Lines 63-67.  An error writes nothing, like a write of no pages.
Write(p) ==
  /\ pc[p] = "write" /\ Goto(p, "err")
  /\ \E n \in Shorts \union {pages[p]} :
       /\ n <= pages[p] /\ n <= MaxWrite
       /\ file' = [file EXCEPT ![FileName(at[p])] =
                     Append(@, [by |-> p, n |-> n])]
       /\ failed' = [failed EXCEPT ![p] = n # pages[p]]
  /\ UNCHANGED <<size, pages, at, held, now>>

\* Lines 69-71; closing a failed descriptor does nothing.
Err(p) ==
  /\ pc[p] = "err" /\ Goto(p, "err_buf")
  /\ held' = [held EXCEPT ![p] = @ \ {"fd", "filename"}]
  /\ UNCHANGED <<size, pages, at, failed, now, file>>

\* Lines 72-75: free(buf), then return 0 whatever happened.
ErrBuf(p) ==
  /\ pc[p] = "err_buf" /\ Goto(p, "exit")
  /\ held' = [held EXCEPT ![p] = @ \ {"buf"}]
  /\ UNCHANGED <<size, pages, at, failed, now, file>>

\* External: a second passes.
Tick ==
  /\ now < MaxTime /\ now' = now + 1
  /\ UNCHANGED <<pc, size, pages, at, held, failed, file>>

Step(p) ==
  Main(p) \/ Malloc(p) \/ LoadModule(p) \/ GetFilename(p) \/ Open(p)
    \/ Write(p) \/ Err(p) \/ ErrBuf(p)

Next == Tick \/ \E p \in Procs : Step(p)

Spec == Init /\ [][Next]_vars
-----------------------------------------------------------------------------
TypeOK ==
  /\ pc \in [Procs -> {"start", "malloc", "load", "name", "open", "write",
                       "err", "err_buf", "exit", "crash"}]
  /\ size \in [Procs -> Int] /\ pages \in [Procs -> Int]
  /\ at \in [Procs -> -1..MaxTime]
  /\ held \in [Procs -> SUBSET {"buf", "filename", "fd"}]
  /\ failed \in [Procs -> BOOLEAN]
  /\ now \in 0..MaxTime
  /\ file \in [0..MaxTime -> Seq([by : Procs, n : Nat])]

\* No other run named its file in the same second.
AloneAt(p) == \A q \in Procs \ {p} : at[q] # at[p]

(***************************************************************************)
(* A run that ends without a message wrote the file it named: all its      *)
(* pages and nothing else, however the other runs are interleaved with it, *)
(* provided its buffer is less than 2 GiB and no other run fell into the   *)
(* same second (open without O_TRUNC or O_EXCL, line 57; one write, line   *)
(* 63; the unchecked product, line 45).                                    *)
(***************************************************************************)
SilentRunIsWhole ==
  \A p \in Procs :
    pc[p] = "exit" /\ ~failed[p] /\ size[p] \in 1..MaxWrite /\ AloneAt(p) =>
      file[at[p]] = <<[by |-> p, n |-> size[p]]>>

(***************************************************************************)
(* Every way out of main releases what was acquired on it: each failure    *)
(* jumps to the label that matches what it holds (lines 46-73).            *)
(***************************************************************************)
ExitReleases == \A p \in Procs : pc[p] = "exit" => held[p] = {}
=============================================================================
