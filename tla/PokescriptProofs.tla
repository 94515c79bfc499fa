-------------------------- MODULE PokescriptProofs --------------------------
(***************************************************************************)
(* Proofs about Pokescript: for any number of runs, of pushes by other     *)
(* clones and of crashes, whatever faults are switched on.                 *)
(***************************************************************************)
EXTENDS Pokescript, TLAPS

\* What another clone pushes is one commit of its own.
LEMMA OtherCommit ==
  ASSUME OtherPush
  PROVE  \E p \in {Src, LogTxt} :
           \E c : /\ c = [by |-> "dev", n |-> pushes + 1, files |-> {p}]
                 /\ remote' = remote \union {c}
                 /\ c.by = "dev"
  <1>1. PICK p \in {Src, LogTxt} :
          remote' = remote \union
                      {[by |-> "dev", n |-> pushes + 1, files |-> {p}]}
    BY DEF OtherPush
  <1> DEFINE c == [by |-> "dev", n |-> pushes + 1, files |-> {p}]
  <1>2. c.by = "dev"
    OBVIOUS
  <1>3. QED
    BY <1>1, <1>2

LEMMA InitType == Init => TypeOK
  <1> SUFFICES ASSUME Init PROVE TypeOK
    OBVIOUS
  <1>1. quiet \in BOOLEAN /\ fit \in BOOLEAN /\ tidy \in BOOLEAN
    BY Zenon DEF Init
  <1>2. /\ remote \subseteq Commit /\ local \subseteq Commit
        /\ fetched \subseteq Commit
        /\ work \subseteq Path /\ staged \subseteq Path
        /\ pc = "idle" /\ run \in 0..MaxRuns /\ pushes \in 0..MaxPushes
    BY PokescriptAssumption DEF Init, PokescriptAssumption
  <1>3. QED
    BY <1>1, <1>2 DEF TypeOK

LEMMA StepType == TypeOK /\ [Next]_vars => TypeOK'
  <1> SUFFICES ASSUME TypeOK, [Next]_vars PROVE TypeOK'
    OBVIOUS
  <1> USE PokescriptAssumption DEF PokescriptAssumption, TypeOK, branches, tree
  <1>1. CASE Start
    <2>1. quiet' \in BOOLEAN /\ fit' \in BOOLEAN /\ tidy' \in BOOLEAN
      BY <1>1, Zenon DEF Start, CanPull
    <2>2. work' \subseteq Path
      BY <1>1 DEF Start, LogTxt, Path
    <2>3. run' \in 0..MaxRuns
      BY <1>1 DEF Start
    <2>4. QED
      BY <1>1, <2>1, <2>2, <2>3 DEF Start
  <1>2. CASE Fetch
    BY <1>2 DEF Fetch
  <1>3. CASE Pull
    BY <1>3 DEF Pull, AfterPull
  <1>4. CASE NetFails
    BY <1>4 DEF NetFails, AfterPull
  <1>5. CASE Cascade
    <2>1. Dump(run) \in Path
      BY DEF Dump, Path
    <2>2. QED
      BY <1>5, <2>1 DEF Cascade
  <1>6. CASE OtherArgument
    BY <1>6 DEF OtherArgument
  <1>7. CASE AddFiles
    BY <1>7 DEF AddFiles, Listed
  <1>8. CASE AddLog
    <2>1. tidy' \in BOOLEAN
      BY <1>8, Zenon DEF AddLog
    <2>2. work' \subseteq Path /\ staged' \subseteq Path
      <3>1. LogTxt \in Path
        BY DEF LogTxt, Path
      <3>2. work' \subseteq work /\ staged' \subseteq staged \union {LogTxt}
        BY <1>8, Zenon DEF AddLog
      <3>3. QED
        BY <3>1, <3>2
    <2>3. QED
      BY <1>8, <2>1, <2>2 DEF AddLog
  <1>9. CASE CommitAll
    <2>1. [by |-> "poke", n |-> run, files |-> staged] \in Commit
      BY DEF Commit
    <2>2. QED
      BY <1>9, <2>1 DEF CommitAll
  <1>10. CASE Push
    BY <1>10 DEF Push, Pushed
  <1>11. CASE OtherPush
    <2>1. PICK p \in {Src, LogTxt} : \E c :
            /\ c = [by |-> "dev", n |-> pushes + 1, files |-> {p}]
            /\ remote' = remote \union {c}
      BY <1>11, OtherCommit
    <2>2. p \in Path /\ pushes + 1 \in Nat
      BY DEF Src, LogTxt, Path
    <2>3. [by |-> "dev", n |-> pushes + 1, files |-> {p}] \in Commit
      BY <2>2 DEF Commit
    <2>4. remote' \subseteq Commit
      BY <2>1, <2>3
    <2>5. pushes' \in 0..MaxPushes
      BY <1>11 DEF OtherPush
    <2>6. quiet' \in BOOLEAN
      BY <1>11, Zenon DEF OtherPush
    <2>7. QED
      BY <1>11, <2>4, <2>5, <2>6 DEF OtherPush
  <1>12. CASE Crash \/ CommitFails
    BY <1>12 DEF Crash, CommitFails
  <1>13. CASE UNCHANGED vars
    BY <1>13 DEF vars
  <1>14. QED
    BY <1>1, <1>2, <1>3, <1>4, <1>5, <1>6, <1>7, <1>8, <1>9, <1>10, <1>11,
       <1>12, <1>13 DEF Next

(***************************************************************************)
(* Type correctness of the script, for any number of runs and pushes.      *)
(***************************************************************************)
THEOREM TypeCorrect == Spec => []TypeOK
  BY InitType, StepType, PTL DEF Spec

-----------------------------------------------------------------------------
(***************************************************************************)
(* BuildsCurrent is inductive once it is known that what was fetched is    *)
(* still on the remote when git pull starts: pushes only add to the remote.*)
(***************************************************************************)
FetchInv == BuildsCurrent /\ (pc = "pull" => fetched \subseteq remote)

LEMMA StepFetch == FetchInv /\ [Next]_vars => FetchInv'
  <1> SUFFICES ASSUME FetchInv, [Next]_vars PROVE FetchInv'
    OBVIOUS
  <1> USE DEF FetchInv, BuildsCurrent, branches, tree
  <1>1. CASE Start
    BY <1>1 DEF Start
  <1>2. CASE Fetch
    BY <1>2 DEF Fetch
  <1>3. CASE Pull
    BY <1>3 DEF Pull, AfterPull
  <1>4. CASE NetFails
    BY <1>4 DEF NetFails, AfterPull
  <1>5. CASE Cascade \/ OtherArgument \/ AddFiles \/ AddLog \/ CommitAll
    BY <1>5 DEF Cascade, OtherArgument, AddFiles, AddLog, CommitAll
  <1>6. CASE Push \/ Crash \/ CommitFails
    BY <1>6 DEF Push, Crash, CommitFails
  <1>7. CASE OtherPush
    BY <1>7 DEF OtherPush
  <1>8. CASE UNCHANGED vars
    BY <1>8 DEF vars
  <1>9. QED
    BY <1>1, <1>2, <1>3, <1>4, <1>5, <1>6, <1>7, <1>8 DEF Next

(***************************************************************************)
(* The cascade never builds code older than what the same run fetched,     *)
(* however pushes, faults and crashes fall (pokescript.py:147).            *)
(***************************************************************************)
THEOREM CascadeIsCurrent == Spec => []BuildsCurrent
  <1>1. Init => FetchInv
    BY DEF Init, FetchInv, BuildsCurrent
  <1>2. FetchInv => BuildsCurrent
    BY DEF FetchInv
  <1>3. QED
    BY <1>1, <1>2, StepFetch, PTL DEF Spec

-----------------------------------------------------------------------------
(***************************************************************************)
(* What is uncommitted on the way from git add to the end of a tidy run.   *)
(***************************************************************************)
TidyInv ==
  /\ pc \in {"fetch", "pull", "main", "add"} => ~tidy
  /\ pc = "close" /\ tidy => work \subseteq {LogTxt}
  /\ pc = "commit" /\ tidy => work = {}
  /\ pc = "push" /\ tidy => work = {} /\ staged = {}
  /\ CleanAfterRun

LEMMA StepTidy == TypeOK /\ TidyInv /\ [Next]_vars => TidyInv'
  <1> SUFFICES ASSUME TypeOK, TidyInv, [Next]_vars PROVE TidyInv'
    OBVIOUS
  <1>0. tidy \in BOOLEAN
    BY DEF TypeOK
  <1> USE DEF TidyInv, CleanAfterRun, branches, tree
  <1>1. CASE Start \/ Fetch \/ Crash \/ CommitFails
    BY <1>1 DEF Start, Fetch, Crash, CommitFails
  <1>2. CASE Pull
    BY <1>2 DEF Pull, AfterPull
  <1>3. CASE NetFails
    BY <1>3 DEF NetFails, AfterPull
  <1>4. CASE Cascade \/ OtherArgument
    BY <1>4 DEF Cascade, OtherArgument
  <1>5. CASE AddFiles
    <2>1. PICK failed \in SUBSET Listed :
            /\ work' = work \ (Listed \ failed)
            /\ tidy' = (failed = {})
      BY <1>5 DEF AddFiles
    <2>2. tidy' => work' \subseteq {LogTxt}
      BY <2>1 DEF Listed
    <2>3. QED
      BY <1>5, <2>2 DEF AddFiles
  <1>6. CASE AddLog
    BY <1>6 DEF AddLog
  <1>7. CASE CommitAll
    BY <1>7 DEF CommitAll
  <1>8. CASE Push \/ OtherPush
    BY <1>8 DEF Push, OtherPush
  <1>9. CASE UNCHANGED vars
    BY <1>9 DEF vars
  <1>10. QED
    BY <1>1, <1>2, <1>3, <1>4, <1>5, <1>6, <1>7, <1>8, <1>9 DEF Next

(***************************************************************************)
(* A run none of whose git adds and commit failed leaves a clean tree and  *)
(* index, whatever runs that were killed or could not commit left there.   *)
(***************************************************************************)
THEOREM TidyRunsClean == Spec => []CleanAfterRun
  <1>1. Init => TypeOK /\ TidyInv
    BY InitType DEF Init, TidyInv, CleanAfterRun
  <1>2. TypeOK /\ TidyInv /\ [Next]_vars => (TypeOK /\ TidyInv)'
    BY StepType, StepTidy
  <1>3. TidyInv => CleanAfterRun
    BY DEF TidyInv
  <1>4. QED
    BY <1>1, <1>2, <1>3, PTL DEF Spec

-----------------------------------------------------------------------------
(***************************************************************************)
(* Every commit is first on the side that made it: the script's reach the  *)
(* remote only from here, the others' come here only from the remote.      *)
(***************************************************************************)
OriginInv ==
  /\ \A c \in remote : c.by = "poke" => c \in local
  /\ \A c \in local : c.by = "dev" => c \in remote

LEMMA StepOrigin == OriginInv /\ [Next]_vars => OriginInv'
  <1> SUFFICES ASSUME OriginInv, [Next]_vars PROVE OriginInv'
    OBVIOUS
  <1> USE DEF OriginInv, branches
  <1>1. CASE Start \/ Fetch \/ NetFails \/ Cascade \/ OtherArgument
               \/ AddFiles \/ AddLog \/ CommitFails \/ Crash
    BY <1>1 DEF Start, Fetch, NetFails, Cascade, OtherArgument, AddFiles,
                AddLog, CommitFails, Crash
  <1>2. CASE Pull
    BY <1>2 DEF Pull
  <1>3. CASE CommitAll
    <2>1. [by |-> "poke", n |-> run, files |-> staged].by # "dev"
      OBVIOUS
    <2>2. QED
      BY <1>3, <2>1 DEF CommitAll
  <1>4. CASE Push
    BY <1>4 DEF Push, Pushed
  <1>5. CASE OtherPush
    <2>1. PICK c : remote' = remote \union {c} /\ c.by = "dev"
      BY <1>5, OtherCommit
    <2>2. QED
      BY <1>5, <2>1 DEF OtherPush
  <1>6. CASE UNCHANGED vars
    BY <1>6 DEF vars
  <1>7. QED
    BY <1>1, <1>2, <1>3, <1>4, <1>5, <1>6 DEF Next

\* No step makes diverged branches meet again.
LEMMA StepDiverged == OriginInv /\ [Next]_vars => (Diverged => Diverged')
  <1> SUFFICES ASSUME OriginInv, [Next]_vars, Diverged PROVE Diverged'
    OBVIOUS
  <1>0. PICK x \in local, y \in remote : x \notin remote /\ y \notin local
    BY DEF Diverged
  <1>1. x.by # "dev" /\ y.by # "poke"
    BY <1>0 DEF OriginInv
  <1>2. CASE Start \/ Fetch \/ NetFails \/ Cascade \/ OtherArgument
               \/ AddFiles \/ AddLog \/ CommitFails \/ Crash
    BY <1>2 DEF Start, Fetch, NetFails, Cascade, OtherArgument, AddFiles,
                AddLog, CommitFails, Crash, branches, Diverged
  <1>3. CASE Pull
    BY <1>3 DEF Pull, CanPull, Diverged
  <1>4. CASE CommitAll
    <2>1. [by |-> "poke", n |-> run, files |-> staged] # y
      BY <1>1
    <2>2. QED
      BY <1>0, <1>4, <2>1 DEF CommitAll, Diverged
  <1>5. CASE Push
    BY <1>5 DEF Push, Pushed, Diverged
  <1>6. CASE OtherPush
    <2>1. PICK c : remote' = remote \union {c} /\ c.by = "dev"
      BY <1>6, OtherCommit
    <2>2. QED
      BY <1>0, <1>1, <1>6, <2>1 DEF OtherPush, Diverged
  <1>7. CASE UNCHANGED vars
    BY <1>7 DEF vars, branches, Diverged
  <1>8. QED
    BY <1>2, <1>3, <1>4, <1>5, <1>6, <1>7 DEF Next

(***************************************************************************)
(* Once both sides have commits the other lacks, no further run of the     *)
(* script ever brings them together.                                       *)
(***************************************************************************)
THEOREM DivergedForGood == Spec => DivergenceIsPermanent
  <1>1. Init => OriginInv
    BY DEF Init, OriginInv
  <1>2. QED
    BY <1>1, StepOrigin, StepDiverged, PTL DEF Spec, DivergenceIsPermanent

-----------------------------------------------------------------------------
(***************************************************************************)
(* An undisturbed run that could pull when it began can still pull when it *)
(* does, and from then on holds every commit of the remote.                *)
(***************************************************************************)
FitInv ==
  quiet /\ fit =>
    /\ pc \in {"fetch", "pull"} => CanPull(work \union staged)
    /\ pc \in {"main", "add", "close", "commit", "push"} =>
         remote \subseteq local
    /\ pc = "idle" => local \subseteq remote

LEMMA StepFit == TypeOK /\ FitInv /\ [Next]_vars => FitInv'
  <1> SUFFICES ASSUME TypeOK, FitInv, [Next]_vars PROVE FitInv'
    OBVIOUS
  <1> USE DEF FitInv, branches, tree
  <1>1. CASE Start
    BY <1>1 DEF Start, CanPull, Touched
  <1>2. CASE Fetch
    BY <1>2 DEF Fetch, CanPull, Touched
  <1>3. CASE Pull
    BY <1>3 DEF Pull, AfterPull, CanPull
  <1>4. CASE NetFails \/ OtherPush \/ Crash
    BY <1>4 DEF NetFails, OtherPush, Crash
  <1>5. CASE Cascade \/ OtherArgument \/ AddFiles \/ AddLog
    BY <1>5 DEF Cascade, OtherArgument, AddFiles, AddLog
  <1>6. CASE CommitAll \/ CommitFails
    BY <1>6 DEF CommitAll, CommitFails
  <1>7. CASE Push
    BY <1>7 DEF Push, Pushed
  <1>8. CASE UNCHANGED vars
    BY <1>8 DEF vars, CanPull, Touched
  <1>9. QED
    BY <1>1, <1>2, <1>3, <1>4, <1>5, <1>6, <1>7, <1>8 DEF Next

(***************************************************************************)
(* An undisturbed run that could pull when it began publishes every local  *)
(* commit, whatever happened to the runs before it.                        *)
(***************************************************************************)
THEOREM FitRunsPublish == Spec => []FitRunPublishes
  <1>1. Init => TypeOK /\ FitInv
    BY InitType DEF Init, FitInv
  <1>2. TypeOK /\ FitInv /\ [Next]_vars => (TypeOK /\ FitInv)'
    BY StepType, StepFit
  <1>3. FitInv => FitRunPublishes
    BY DEF FitInv, FitRunPublishes
  <1>4. QED
    BY <1>1, <1>2, <1>3, PTL DEF Spec
=============================================================================
