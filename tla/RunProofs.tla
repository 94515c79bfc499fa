----------------------------- MODULE RunProofs ------------------------------
(***************************************************************************)
(* Proofs about Run, for any number of runs, any arguments, any lengths at *)
(* which a write stops early and any passing of time.                      *)
(***************************************************************************)
EXTENDS Run, TLAPS

(***************************************************************************)
(* What each control state knows of its run: the pages asked for, the      *)
(* second it read and what it holds.  Types need this: a file is written   *)
(* under a second that was read, for an amount malloc accepted.            *)
(***************************************************************************)
All == {"buf", "filename", "fd"}

AmountInv(p) ==
  /\ pc[p] \in {"malloc", "load", "name", "open", "write"} =>
       pages[p] \in Product(size[p])
  /\ pc[p] \in {"load", "name", "open", "write"} => pages[p] >= 0

SecondInv(p) ==
  /\ pc[p] \in {"start", "malloc", "load", "name"} => at[p] = -1
  /\ pc[p] \in {"open", "write", "err"} => at[p] \in 0..MaxTime

HoldsInv(p) ==
  /\ pc[p] \in {"start", "malloc", "exit"} => held[p] = {}
  /\ pc[p] \in {"load", "name", "err_buf"} => held[p] \subseteq {"buf"}

PlaceInv == \A p \in Procs : AmountInv(p) /\ SecondInv(p) /\ HoldsInv(p)

TypeInv == TypeOK /\ PlaceInv

LEMMA SmallRemainder ==
  ASSUME NEW n \in Int, NEW k \in Int, 0 <= n, n < k PROVE n % k = n
  BY SMT

\* The product of a buffer below 2 GiB is what it should be.
LEMMA SmallProduct ==
  ASSUME NEW n \in 1..MaxWrite PROVE Product(n) = {n}
<1>1. IntPages \in Nat \ {0}
  BY SMT DEF IntPages
<1>2. /\ n \in Int /\ n + IntPages \in Int /\ 2 * IntPages \in Int
      /\ 0 <= n + IntPages /\ n + IntPages < 2 * IntPages
  BY <1>1 DEF MaxWrite
<1>3. (n + IntPages) % (2 * IntPages) = n + IntPages
  BY <1>2, SmallRemainder
<1>4. Wrapped(n) = n
  BY <1>1, <1>2, <1>3 DEF Wrapped
<1> QED
  BY <1>4 DEF Product

LEMMA ProductType == ASSUME NEW n \in Int PROVE Product(n) \subseteq Int
  BY SMT DEF Product, Wrapped, IntPages

LEMMA InitType == Init => TypeInv
<1> SUFFICES ASSUME Init PROVE TypeInv
  OBVIOUS
<1>1. MaxTime \in Nat
  BY RunAssumption DEF RunAssumption
<1>2. TypeOK
  BY <1>1 DEF Init, TypeOK
<1>3. PlaceInv
  BY DEF Init, PlaceInv, AmountInv, SecondInv, HoldsInv
<1> QED
  BY <1>2, <1>3 DEF TypeInv

\* A step of one run leaves the others where they are.
LEMMA OthersStay ==
  ASSUME TypeOK, NEW p \in Procs, Step(p), NEW q \in Procs, q # p
  PROVE  /\ pc'[q] = pc[q] /\ size'[q] = size[q] /\ pages'[q] = pages[q]
         /\ at'[q] = at[q] /\ held'[q] = held[q] /\ failed'[q] = failed[q]
<1>1. pc'[q] = pc[q] /\ size'[q] = size[q] /\ pages'[q] = pages[q]
  BY DEF TypeOK, Step, Main, Malloc, LoadModule, GetFilename, Open, Write, Err,
         ErrBuf, Goto
<1>2. at'[q] = at[q] /\ held'[q] = held[q]
  BY DEF TypeOK, Step, Main, Malloc, LoadModule, GetFilename, Open, Write, Err,
         ErrBuf, Take
<1>3. failed'[q] = failed[q]
  BY DEF TypeOK, Step, Main, Malloc, LoadModule, GetFilename, Open, Write, Err,
         ErrBuf, Report
<1> QED
  BY <1>1, <1>2, <1>3

LEMMA ElementType ==
  ASSUME NEW S, NEW s \in Seq(S), NEW k \in 1..Len(s) PROVE s[k] \in S
  OBVIOUS

LEMMA AppendType ==
  ASSUME NEW S, NEW s \in Seq(S), NEW e \in S PROVE Append(s, e) \in Seq(S)
  OBVIOUS

\* What a run writes goes to the file of the second it read.
LEMMA WriteType ==
  ASSUME TypeInv, NEW p \in Procs, Write(p)
  PROVE  /\ file' \in [0..MaxTime -> Seq([by : Procs, n : Nat])]
         /\ failed' \in [Procs -> BOOLEAN]
<1>1. /\ pages[p] \in Nat /\ at[p] \in 0..MaxTime
      /\ file \in [0..MaxTime -> Seq([by : Procs, n : Nat])]
  BY DEF TypeInv, TypeOK, PlaceInv, AmountInv, SecondInv, Write
<1>2. PICK n \in Shorts \union {pages[p]} :
        /\ file' = [file EXCEPT ![at[p]] = Append(@, [by |-> p, n |-> n])]
        /\ failed' = [failed EXCEPT ![p] = n # pages[p]]
  BY DEF Write, FileName
<1>3. n \in Nat
  BY <1>1, RunAssumption DEF RunAssumption
<1>4. Append(file[at[p]], [by |-> p, n |-> n]) \in Seq([by : Procs, n : Nat])
  <2>1. file[at[p]] \in Seq([by : Procs, n : Nat])
    BY <1>1
  <2>2. [by |-> p, n |-> n] \in [by : Procs, n : Nat]
    BY <1>3
  <2> QED
    BY <2>1, <2>2, AppendType
<1>5. file' \in [0..MaxTime -> Seq([by : Procs, n : Nat])]
  BY <1>1, <1>2, <1>4
<1>6. failed' \in [Procs -> BOOLEAN]
  BY <1>2 DEF TypeInv, TypeOK
<1> QED
  BY <1>5, <1>6

LEMMA TakeType ==
  ASSUME held \in [Procs -> SUBSET All], NEW p \in Procs, NEW r \in All,
         Take(p, r)
  PROVE  held' \in [Procs -> SUBSET All]
<1>1. held' = [held EXCEPT ![p] = held[p] \union {r}]
  BY DEF Take
<1>2. held[p] \union {r} \in SUBSET All
  OBVIOUS
<1> QED
  BY <1>1, <1>2

LEMMA StepTypeOK ==
  ASSUME TypeInv, NEW p \in Procs, Step(p) PROVE TypeOK'
<1>0. TypeOK /\ MaxTime \in Nat
  BY RunAssumption DEF RunAssumption, TypeInv
<1>1. CASE Main(p)
  <2>1. /\ pc' \in [Procs -> {"start", "malloc", "load", "name", "open", "write",
                              "err", "err_buf", "exit", "crash"}]
        /\ size' \in [Procs -> Int] /\ pages' \in [Procs -> Int]
    <3>1. PICK a \in Args :
            \/ a = NoArg /\ Goto(p, "crash") /\ UNCHANGED <<size, pages>>
            \/ /\ a # NoArg /\ size' = [size EXCEPT ![p] = a]
               /\ \/ a < 1 /\ Goto(p, "exit") /\ UNCHANGED pages
                  \/ a >= 1 /\ Goto(p, "malloc")
                     /\ \E n \in Product(a) : pages' = [pages EXCEPT ![p] = n]
      BY <1>1 DEF Main
    <3>2. a # NoArg => a \in Int /\ Product(a) \subseteq Int
      BY RunAssumption, ProductType DEF RunAssumption
    <3>3. size' \in [Procs -> Int] /\ pages' \in [Procs -> Int]
      BY <1>0, <3>1, <3>2 DEF TypeOK
    <3>4. pc' \in [Procs -> {"start", "malloc", "load", "name", "open", "write",
                             "err", "err_buf", "exit", "crash"}]
      BY <1>0, <3>1 DEF TypeOK, Goto
    <3> QED
      BY <3>3, <3>4
  <2> QED
    BY <1>0, <1>1, <2>1 DEF TypeOK, Main
<1>2. CASE Malloc(p)
  <2>1. failed' \in [Procs -> BOOLEAN]
    BY <1>0, <1>2 DEF TypeOK, Malloc, Report
  <2>2. held' \in [Procs -> SUBSET All]
    BY <1>0, <1>2, TakeType DEF TypeOK, Malloc, All
  <2>3. pc' \in [Procs -> {"start", "malloc", "load", "name", "open", "write",
                           "err", "err_buf", "exit", "crash"}]
    BY <1>0, <1>2 DEF TypeOK, Malloc, Goto, NoBuffer
  <2> QED
    BY <1>0, <1>2, <2>1, <2>2, <2>3 DEF TypeOK, Malloc, All
<1>3. CASE LoadModule(p)
  BY <1>0, <1>3 DEF TypeOK, LoadModule, Goto
<1>4. CASE GetFilename(p)
  <2>1. held' \in [Procs -> SUBSET All]
    BY <1>0, <1>4, TakeType DEF GetFilename, TypeOK, All
  <2>2. at' \in [Procs -> -1..MaxTime]
    <3>1. now \in -1..MaxTime /\ at \in [Procs -> -1..MaxTime]
      BY <1>0 DEF TypeOK
    <3>2. at' = at \/ at' = [at EXCEPT ![p] = now]
      BY <1>4 DEF GetFilename
    <3> QED
      BY <3>1, <3>2
  <2>3. pc' \in [Procs -> {"start", "malloc", "load", "name", "open", "write",
                           "err", "err_buf", "exit", "crash"}]
    BY <1>0, <1>4 DEF TypeOK, GetFilename, Goto
  <2> QED
    BY <1>0, <1>4, <2>1, <2>2, <2>3 DEF TypeOK, GetFilename, All
<1>5. CASE Open(p)
  <2>1. failed' \in [Procs -> BOOLEAN]
    BY <1>0, <1>5 DEF TypeOK, Open, Report
  <2>2. held' \in [Procs -> SUBSET All]
    BY <1>0, <1>5, TakeType DEF TypeOK, Open, All
  <2>3. pc' \in [Procs -> {"start", "malloc", "load", "name", "open", "write",
                           "err", "err_buf", "exit", "crash"}]
    BY <1>0, <1>5 DEF TypeOK, Open, Goto, NoFile
  <2> QED
    BY <1>0, <1>5, <2>1, <2>2, <2>3 DEF TypeOK, Open, All
<1>6. CASE Write(p)
  BY <1>0, <1>6, WriteType DEF TypeOK, Write, Goto
<1>7. CASE Err(p) \/ ErrBuf(p)
  BY <1>0, <1>7, ZenonT(60) DEF TypeOK, Err, ErrBuf, Goto
<1> QED
  BY <1>1, <1>2, <1>3, <1>4, <1>5, <1>6, <1>7 DEF Step

LEMMA StepPlace ==
  ASSUME TypeInv, NEW p \in Procs, Step(p) PROVE PlaceInv'
<1>0. TypeOK /\ MaxTime \in Nat /\ AmountInv(p) /\ SecondInv(p) /\ HoldsInv(p)
  BY RunAssumption DEF RunAssumption, TypeInv, PlaceInv
<1>a. \A q \in Procs : q # p =>
        /\ pc'[q] = pc[q] /\ size'[q] = size[q] /\ pages'[q] = pages[q]
        /\ at'[q] = at[q] /\ held'[q] = held[q]
  BY <1>0, OthersStay
<1>b. \A q \in Procs : q # p => AmountInv(q)' /\ SecondInv(q)' /\ HoldsInv(q)'
  BY <1>a DEF TypeInv, PlaceInv, AmountInv, SecondInv, HoldsInv
<1> SUFFICES AmountInv(p)' /\ SecondInv(p)' /\ HoldsInv(p)'
  BY <1>b DEF PlaceInv
<1>1. CASE Main(p)
  <2>1. /\ pc'[p] \in {"crash", "exit", "malloc"} /\ at' = at /\ held' = held
        /\ pc'[p] = "malloc" => pages'[p] \in Product(size'[p])
    BY <1>0, <1>1 DEF TypeOK, Main, Goto
  <2>2. at[p] = -1 /\ held[p] = {}
    BY <1>0, <1>1 DEF Main, SecondInv, HoldsInv
  <2> QED
    BY <2>1, <2>2 DEF AmountInv, SecondInv, HoldsInv
<1>2. CASE Malloc(p)
  <2>1. /\ pages' = pages /\ size' = size /\ at' = at
        /\ pages[p] \in Product(size[p]) /\ at[p] = -1 /\ held[p] = {}
    BY <1>0, <1>2 DEF Malloc, AmountInv, SecondInv, HoldsInv
  <2>2. \/ pc'[p] = "load" /\ pages[p] >= 0 /\ held'[p] = {"buf"}
        \/ pc'[p] = "err_buf" /\ held'[p] = {}
    BY <1>0, <1>2, <2>1 DEF TypeOK, Malloc, Goto, Take, NoBuffer
  <2> QED
    BY <2>1, <2>2 DEF AmountInv, SecondInv, HoldsInv
<1>3. CASE LoadModule(p)
  <2>1. /\ pc[p] = "load" /\ pc'[p] = "name"
        /\ UNCHANGED <<size, pages, at, held>>
    BY <1>0, <1>3 DEF TypeOK, LoadModule, Goto
  <2> QED
    BY <1>0, <2>1 DEF AmountInv, SecondInv, HoldsInv
<1>4. CASE GetFilename(p)
  <2>1. /\ pc[p] = "name" /\ UNCHANGED <<size, pages>>
        /\ \/ pc'[p] = "open" /\ at'[p] = now
           \/ pc'[p] = "crash"
    BY <1>0, <1>4 DEF TypeOK, GetFilename, Goto
  <2> QED
    BY <1>0, <2>1 DEF TypeOK, AmountInv, SecondInv, HoldsInv
<1>5. CASE Open(p)
  <2>1. /\ pc[p] = "open" /\ pc'[p] \in {"write", "err"}
        /\ UNCHANGED <<size, pages, at>>
    BY <1>0, <1>5 DEF TypeOK, Open, Goto, NoFile
  <2> QED
    BY <1>0, <2>1 DEF AmountInv, SecondInv, HoldsInv
<1>6. CASE Write(p)
  <2>1. /\ pc[p] = "write" /\ pc'[p] = "err" /\ UNCHANGED <<size, pages, at>>
    BY <1>0, <1>6 DEF TypeOK, Write, Goto
  <2> QED
    BY <1>0, <2>1 DEF AmountInv, SecondInv, HoldsInv
<1>7. CASE Err(p)
  <2>1. pc'[p] = "err_buf" /\ held'[p] \subseteq {"buf"}
    BY <1>0, <1>7 DEF TypeOK, Err, Goto
  <2> QED
    BY <2>1 DEF AmountInv, SecondInv, HoldsInv
<1>8. CASE ErrBuf(p)
  <2>1. pc'[p] = "exit" /\ held'[p] = {}
    BY <1>0, <1>8 DEF TypeOK, ErrBuf, Goto, HoldsInv
  <2> QED
    BY <2>1 DEF AmountInv, SecondInv, HoldsInv
<1> QED
  BY <1>1, <1>2, <1>3, <1>4, <1>5, <1>6, <1>7, <1>8 DEF Step

LEMMA StepType == TypeInv /\ [Next]_vars => TypeInv'
<1> SUFFICES ASSUME TypeInv, [Next]_vars PROVE TypeInv'
  OBVIOUS
<1>1. ASSUME NEW p \in Procs, Step(p) PROVE TypeInv'
  BY <1>1, StepTypeOK, StepPlace DEF TypeInv
<1>2. CASE Tick
  <2>1. now' \in 0..MaxTime
    BY <1>2, RunAssumption DEF RunAssumption, Tick, TypeInv, TypeOK
  <2>2. TypeOK'
    BY <1>2, <2>1 DEF Tick, TypeInv, TypeOK
  <2>3. PlaceInv'
    BY <1>2 DEF Tick, TypeInv, PlaceInv, AmountInv, SecondInv, HoldsInv
  <2> QED
    BY <2>2, <2>3 DEF TypeInv
<1>3. CASE UNCHANGED vars
  BY <1>3
     DEF vars, TypeInv, TypeOK, PlaceInv, AmountInv, SecondInv, HoldsInv
<1> QED
  BY <1>1, <1>2, <1>3 DEF Next

\* The state of every run stays typed; in particular a write goes to a second
\* that was read, with an amount malloc accepted.
THEOREM TypeCorrect == Spec => []TypeOK
<1>1. TypeInv => TypeOK
  BY DEF TypeInv
<1> QED
  BY <1>1, InitType, StepType, PTL DEF Spec

\* Each failure of main jumps to the label that releases exactly what is held
\* (run.c:46-73), whatever fails and however the runs are interleaved.
THEOREM ExitsRelease == Spec => []ExitReleases
<1>1. TypeInv => ExitReleases
  BY DEF TypeInv, PlaceInv, HoldsInv, ExitReleases
<1> QED
  BY <1>1, InitType, StepType, PTL DEF Spec
-----------------------------------------------------------------------------
(***************************************************************************)
(* SilentRunIsWhole needs to know whose writes a file can hold: only those *)
(* of runs that read its second.  A run that is alone in its second finds  *)
(* its file empty, and nobody else writes to it later, because a run reads *)
(* the clock once.                                                         *)
(***************************************************************************)
OwnersInv ==
  \A t \in 0..MaxTime : \A k \in 1..Len(file[t]) : at[file[t][k].by] = t

\* The file of a run that is alone in its second, before and after its write.
BeforeInv(p) ==
  pc[p] \in {"name", "open", "write"} =>
    /\ ~failed[p]
    /\ pc[p] # "name" /\ AloneAt(p) => file[at[p]] = << >>

AfterInv(p) ==
  pc[p] \in {"err", "err_buf", "exit"} /\ ~failed[p] /\ size[p] \in 1..MaxWrite =>
    /\ at[p] \in 0..MaxTime
    /\ AloneAt(p) => file[at[p]] = <<[by |-> p, n |-> size[p]]>>

StartInv(p) == pc[p] \in {"start", "malloc", "load"} => ~failed[p]

WholeInv ==
  OwnersInv /\ \A p \in Procs : StartInv(p) /\ BeforeInv(p) /\ AfterInv(p)

\* A second that was read is never read again by the same run.
LEMMA SecondKept ==
  ASSUME TypeInv, NEW p \in Procs, Step(p), NEW q \in Procs, at[q] # -1
  PROVE  at'[q] = at[q]
<1>1. CASE q # p
  BY <1>1, OthersStay DEF TypeInv
<1>2. CASE q = p /\ pc[p] = "name"
  BY <1>2 DEF TypeInv, PlaceInv, SecondInv
<1>3. CASE q = p /\ pc[p] # "name"
  BY <1>3 DEF Step, Main, Malloc, LoadModule, GetFilename, Open, Write, Err,
              ErrBuf
<1> QED
  BY <1>1, <1>2, <1>3

\* So whoever is alone after a step was alone before it.
LEMMA AloneBefore ==
  ASSUME TypeInv, NEW p \in Procs, Step(p), NEW q \in Procs, at[q] # -1,
         AloneAt(q)'
  PROVE  AloneAt(q)
<1> SUFFICES ASSUME NEW r \in Procs \ {q}, at[r] = at[q] PROVE FALSE
  BY DEF AloneAt
<1>1. at'[r] = at[r] /\ at'[q] = at[q]
  BY SecondKept
<1> QED
  BY <1>1 DEF AloneAt

\* What a step of p does to the files: nothing, or one write of p to its own.
LEMMA FilesOf ==
  ASSUME TypeInv, NEW p \in Procs, Step(p)
  PROVE  \/ pc[p] # "write" /\ file' = file
         \/ /\ pc[p] = "write" /\ pc'[p] = "err" /\ at' = at /\ size' = size
            /\ at[p] \in 0..MaxTime
            /\ \E n \in Int :
                 /\ file' = [file EXCEPT ![at[p]] =
                               Append(file[at[p]], [by |-> p, n |-> n])]
                 /\ failed'[p] = (n # pages[p])
<1>0. TypeOK /\ AmountInv(p) /\ SecondInv(p)
  BY DEF TypeInv, PlaceInv
<1>1. CASE Write(p)
  <2>1. pc[p] = "write" /\ at' = at /\ size' = size /\ at[p] \in 0..MaxTime
    BY <1>0, <1>1 DEF Write, SecondInv
  <2>2. pc'[p] = "err"
    BY <1>0, <1>1 DEF Write, Goto, TypeOK
  <2>3. PICK n \in Shorts \union {pages[p]} :
          /\ file' = [file EXCEPT ![at[p]] =
                        Append(file[at[p]], [by |-> p, n |-> n])]
          /\ failed' = [failed EXCEPT ![p] = n # pages[p]]
    BY <1>1 DEF Write, FileName
  <2>4. n \in Int
    BY <1>0, RunAssumption DEF RunAssumption, TypeOK
  <2>5. failed'[p] = (n # pages[p])
    BY <1>0, <2>3 DEF TypeOK
  <2> QED
    BY <2>1, <2>2, <2>3, <2>4, <2>5
<1>2. CASE ~Write(p)
  BY <1>2 DEF Step, Main, Malloc, LoadModule, GetFilename, Open, Err, ErrBuf
<1> QED
  BY <1>1, <1>2

LEMMA StepOwners ==
  ASSUME TypeInv, OwnersInv, NEW p \in Procs, Step(p) PROVE OwnersInv'
<1>0. file \in [0..MaxTime -> Seq([by : Procs, n : Nat])]
  BY DEF TypeInv, TypeOK
<1> SUFFICES ASSUME NEW t \in 0..MaxTime, NEW k \in 1..Len(file'[t])
             PROVE  at'[file'[t][k].by] = t
  BY DEF OwnersInv
<1>a. ASSUME k \in 1..Len(file[t]), file'[t][k] = file[t][k]
      PROVE  at'[file'[t][k].by] = t
  <2>1. file[t][k].by \in Procs
    <3>1. file[t] \in Seq([by : Procs, n : Nat])
      BY <1>0
    <3>2. file[t][k] \in [by : Procs, n : Nat]
      BY <1>a, <3>1, ElementType
    <3> QED
      BY <3>2
  <2>2. at[file[t][k].by] = t
    BY <1>a DEF OwnersInv
  <2>3. t # -1
    OBVIOUS
  <2> QED
    BY <1>a, <2>1, <2>2, <2>3, SecondKept
<1>1. CASE file' = file
  BY <1>1, <1>a
<1>2. ASSUME NEW n \in Int, at' = at, at[p] \in 0..MaxTime,
             file' = [file EXCEPT ![at[p]] =
                        Append(file[at[p]], [by |-> p, n |-> n])]
      PROVE  at'[file'[t][k].by] = t
  <2>1. CASE t # at[p]
    BY <1>0, <1>2, <1>a, <2>1
  <2>2. CASE t = at[p]
    <3> DEFINE s == file[t]
               e == [by |-> p, n |-> n]
    <3>1. s \in Seq([by : Procs, n : Nat]) /\ file'[t] = Append(s, e)
      BY <1>0, <1>2, <2>2
    <3>2. /\ Len(s) \in Nat /\ Len(file'[t]) = Len(s) + 1
          /\ file'[t][Len(s) + 1] = e
          /\ \A j \in 1..Len(s) : file'[t][j] = s[j]
      BY <3>1
    <3>3. CASE k = Len(s) + 1
      BY <1>2, <2>2, <3>2, <3>3
    <3>4. CASE k \in 1..Len(s)
      BY <1>a, <3>2, <3>4
    <3> QED
      BY <3>2, <3>3, <3>4
  <2> QED
    BY <2>1, <2>2
<1> QED
  BY <1>1, <1>2, FilesOf

\* A step of p does not disturb what is known of another run's file.
LEMMA OthersWhole ==
  ASSUME TypeInv, WholeInv, NEW p \in Procs, Step(p), NEW q \in Procs, q # p
  PROVE  StartInv(q)' /\ BeforeInv(q)' /\ AfterInv(q)'
<1>0. /\ TypeOK /\ SecondInv(q) /\ StartInv(q) /\ BeforeInv(q) /\ AfterInv(q)
  BY DEF TypeInv, PlaceInv, WholeInv
<1>1. /\ pc'[q] = pc[q] /\ size'[q] = size[q] /\ at'[q] = at[q]
      /\ failed'[q] = failed[q]
  BY <1>0, OthersStay
<1>2. ASSUME at[q] \in 0..MaxTime, AloneAt(q)'
      PROVE  AloneAt(q) /\ file'[at[q]] = file[at[q]]
  <2>1. AloneAt(q)
    BY <1>2, AloneBefore
  <2>2. at[p] # at[q]
    BY <2>1 DEF AloneAt
  <2>3. file'[at[q]] = file[at[q]]
    BY <1>0, <1>2, <2>2, FilesOf DEF TypeOK
  <2> QED
    BY <2>1, <2>3
<1>3. StartInv(q)'
  BY <1>0, <1>1 DEF StartInv
<1>4. BeforeInv(q)'
  <2>1. pc[q] \in {"open", "write"} => at[q] \in 0..MaxTime
    BY <1>0 DEF SecondInv
  <2> QED
    BY <1>0, <1>1, <1>2, <2>1 DEF BeforeInv
<1>5. AfterInv(q)'
  BY <1>0, <1>1, <1>2 DEF AfterInv
<1> QED
  BY <1>3, <1>4, <1>5

\* A file whose second no run has read is empty.
LEMMA UnreadEmpty ==
  ASSUME TypeInv, OwnersInv, NEW t \in 0..MaxTime, \A q \in Procs : at[q] # t
  PROVE  file[t] = << >>
<1>1. file[t] \in Seq([by : Procs, n : Nat])
  BY DEF TypeInv, TypeOK
<1>2. ASSUME Len(file[t]) # 0 PROVE FALSE
  <2>1. 1 \in 1..Len(file[t])
    BY <1>1, <1>2
  <2>2. file[t][1] \in [by : Procs, n : Nat]
    BY <1>1, <2>1, ElementType
  <2>3. file[t][1].by \in Procs /\ at[file[t][1].by] = t
    BY <2>1, <2>2 DEF OwnersInv
  <2> QED
    BY <2>3
<1> QED
  BY <1>1, <1>2

\* What a run's own step makes of its file.
LEMMA OwnWhole ==
  ASSUME TypeInv, WholeInv, NEW p \in Procs, Step(p)
  PROVE  StartInv(p)' /\ BeforeInv(p)' /\ AfterInv(p)'
<1>0. /\ TypeOK /\ AmountInv(p) /\ SecondInv(p) /\ OwnersInv
      /\ StartInv(p) /\ BeforeInv(p) /\ AfterInv(p)
  BY DEF TypeInv, PlaceInv, WholeInv
<1>1. CASE Main(p)
  <2>1. failed' = failed /\ ~failed[p]
    BY <1>0, <1>1 DEF Main, StartInv
  <2>2. \/ pc'[p] \in {"crash", "malloc"}
        \/ pc'[p] = "exit" /\ size'[p] < 1
    BY <1>0, <1>1 DEF Main, Goto, TypeOK
  <2>3. pc'[p] = "exit" => size'[p] \notin 1..MaxWrite
    BY <2>2
  <2> QED
    BY <2>1, <2>2, <2>3 DEF StartInv, BeforeInv, AfterInv
<1>2. CASE Malloc(p)
  <2>1. ~failed[p]
    BY <1>0, <1>2 DEF Malloc, StartInv
  <2>2. \/ pc'[p] = "load" /\ failed' = failed
        \/ pc'[p] = "err_buf" /\ failed'[p]
    BY <1>0, <1>2 DEF Malloc, Goto, Report, NoBuffer, TypeOK
  <2> QED
    BY <2>1, <2>2 DEF StartInv, BeforeInv, AfterInv
<1>3. CASE LoadModule(p)
  <2>1. ~failed[p] /\ failed' = failed
    BY <1>0, <1>3 DEF LoadModule, StartInv
  <2>2. pc'[p] = "name"
    BY <1>0, <1>3 DEF LoadModule, Goto, TypeOK
  <2> QED
    BY <2>1, <2>2 DEF StartInv, BeforeInv, AfterInv
<1>4. CASE GetFilename(p)
  <2>1. ~failed[p] /\ failed' = failed /\ file' = file /\ at[p] = -1
    BY <1>0, <1>4 DEF GetFilename, BeforeInv, SecondInv
  <2>2. \/ pc'[p] = "crash"
        \/ pc'[p] = "open" /\ at' = [at EXCEPT ![p] = now]
    BY <1>0, <1>4 DEF GetFilename, Goto, TypeOK
  <2>3. ASSUME at' = [at EXCEPT ![p] = now], AloneAt(p)'
        PROVE  file'[at'[p]] = << >>
    <3>1. at'[p] = now /\ now \in 0..MaxTime
      BY <1>0, <2>3 DEF TypeOK
    <3>2. \A q \in Procs : at[q] # now
      BY <1>0, <2>1, <2>3, <3>1 DEF AloneAt, TypeOK
    <3> QED
      BY <1>0, <2>1, <3>1, <3>2, UnreadEmpty
  <2> QED
    BY <2>1, <2>2, <2>3 DEF StartInv, BeforeInv, AfterInv
<1>5. CASE Open(p)
  <2>1. ~failed[p] /\ file' = file /\ at' = at
    BY <1>0, <1>5 DEF Open, BeforeInv
  <2>2. \/ pc'[p] = "write" /\ failed' = failed
        \/ pc'[p] = "err" /\ failed'[p]
    BY <1>0, <1>5 DEF Open, Goto, Report, NoFile, TypeOK
  <2>3. AloneAt(p)' => AloneAt(p)
    BY <2>1 DEF AloneAt
  <2>4. AloneAt(p) => file[at[p]] = << >>
    BY <1>0, <1>5 DEF Open, BeforeInv
  <2> QED
    BY <2>1, <2>2, <2>3, <2>4 DEF StartInv, BeforeInv, AfterInv
<1>6. CASE Write(p)
  <2>1. pc[p] = "write"
    BY <1>6 DEF Write
  <2>2. PICK n \in Int :
          /\ pc'[p] = "err" /\ at' = at /\ size' = size /\ at[p] \in 0..MaxTime
          /\ file' = [file EXCEPT ![at[p]] =
                        Append(file[at[p]], [by |-> p, n |-> n])]
          /\ failed'[p] = (n # pages[p])
    BY <2>1, FilesOf
  <2>3. ASSUME ~failed'[p], size[p] \in 1..MaxWrite, AloneAt(p)'
        PROVE  file'[at[p]] = <<[by |-> p, n |-> size[p]]>>
    <3>1. n = size[p]
      <4>1. n = pages[p]
        BY <2>2, <2>3
      <4>2. pages[p] \in Product(size[p])
        BY <1>0, <2>1 DEF AmountInv
      <4> QED
        BY <2>3, <4>1, <4>2, SmallProduct
    <3>2. AloneAt(p)
      BY <2>2, <2>3 DEF AloneAt
    <3>3. file[at[p]] = << >>
      BY <1>0, <2>1, <3>2 DEF BeforeInv
    <3>4. file'[at[p]] = Append(<< >>, [by |-> p, n |-> n])
      BY <1>0, <2>2, <3>3 DEF TypeOK
    <3> QED
      BY <3>1, <3>4
  <2> QED
    BY <2>2, <2>3 DEF StartInv, BeforeInv, AfterInv
<1>7. CASE Err(p) \/ ErrBuf(p)
  <2>1. /\ pc[p] \in {"err", "err_buf"} /\ at' = at /\ size' = size
        /\ file' = file /\ failed' = failed
    BY <1>7 DEF Err, ErrBuf
  <2>2. pc'[p] \in {"err_buf", "exit"}
    BY <1>0, <1>7 DEF Err, ErrBuf, Goto, TypeOK
  <2>3. AloneAt(p)' => AloneAt(p)
    BY <2>1 DEF AloneAt
  <2> QED
    BY <1>0, <2>1, <2>2, <2>3 DEF StartInv, BeforeInv, AfterInv
<1> QED
  BY <1>1, <1>2, <1>3, <1>4, <1>5, <1>6, <1>7 DEF Step

LEMMA StepWhole == TypeInv /\ WholeInv /\ [Next]_vars => WholeInv'
<1> SUFFICES ASSUME TypeInv, WholeInv, [Next]_vars PROVE WholeInv'
  OBVIOUS
<1>1. ASSUME NEW p \in Procs, Step(p) PROVE WholeInv'
  <2>1. OwnersInv'
    BY <1>1, StepOwners DEF WholeInv
  <2>2. ASSUME NEW q \in Procs PROVE StartInv(q)' /\ BeforeInv(q)' /\ AfterInv(q)'
    BY <1>1, OwnWhole, OthersWhole
  <2> QED
    BY <2>1, <2>2 DEF WholeInv
<1>2. CASE Tick \/ UNCHANGED vars
  <2>1. UNCHANGED <<pc, size, pages, at, held, failed, file>>
    BY <1>2 DEF Tick, vars
  <2>2. OwnersInv'
    BY <2>1 DEF WholeInv, OwnersInv
  <2>3. ASSUME NEW q \in Procs PROVE StartInv(q)' /\ BeforeInv(q)' /\ AfterInv(q)'
    BY <2>1 DEF WholeInv, StartInv, BeforeInv, AfterInv, AloneAt
  <2> QED
    BY <2>2, <2>3 DEF WholeInv
<1> QED
  BY <1>1, <1>2 DEF Next

\* A run that ends without a message, with a buffer below 2 GiB and no other
\* run in its second, wrote its file whole and is its only writer
\* (run.c:45-67), for any number of runs and any interleaving.
THEOREM SilentRunsAreWhole == Spec => []SilentRunIsWhole
<1>1. Init => WholeInv
  <2> SUFFICES ASSUME Init PROVE WholeInv
    OBVIOUS
  <2>1. OwnersInv
    BY DEF Init, OwnersInv
  <2>2. ASSUME NEW p \in Procs PROVE StartInv(p) /\ BeforeInv(p) /\ AfterInv(p)
    BY DEF Init, StartInv, BeforeInv, AfterInv
  <2> QED
    BY <2>1, <2>2 DEF WholeInv
<1>2. WholeInv => SilentRunIsWhole
  BY DEF WholeInv, AfterInv, SilentRunIsWhole
<1> QED
  BY <1>1, <1>2, InitType, StepType, StepWhole, PTL DEF Spec
=============================================================================
