----------------------------- MODULE Pokescript -----------------------------
(***************************************************************************)
(* pokescript.py: write a header to log.txt, fetch and pull, build and     *)
(* load the module and keep the kernel log as a dump, add what changed,    *)
(* commit, push.  Each git command is a step; another clone may push       *)
(* between any two of them, and a run may be killed at any of them (loading*)
(* the module may take the machine down) and be started again later.       *)
(*                                                                         *)
(* A branch is the set of commits reachable from its tip, so it can be     *)
(* fast-forwarded to another iff it is a subset of it.  A commit is the    *)
(* paths it changes, with who made it and a number to tell commits apart.  *)
(* Paths are numbers: log.txt, the sources, and for run r the dump (with   *)
(* whatever else the build left behind).                                   *)
(***************************************************************************)
EXTENDS Integers

CONSTANTS
  Faults,    \* what may go wrong: a subset of AllFaults
  MaxRuns,   \* bound: runs of the script
  MaxPushes  \* bound: pushes of other clones

AllFaults == {"net", "dump", "add", "commit", "crash"}

ASSUME PokescriptAssumption ==
  /\ Faults \subseteq AllFaults
  /\ MaxRuns \in Nat
  /\ MaxPushes \in Nat

LogTxt == 0
Src == -1
Dump(r) == r
Path == Int

Commit == [by : {"poke", "dev"}, n : Nat, files : SUBSET Path]

VARIABLES
  remote,   \* the branch everyone pushes to
  local,    \* the branch checked out here
  work,     \* paths that differ from the index
  staged,   \* paths whose index entry differs from HEAD
  pc,       \* where the script is, "idle" between runs
  run,      \* number of the current or last run
  pushes,   \* pushes of other clones so far
  fetched,  \* history: the remote branch as of the last git fetch
  quiet,    \* history: nothing interfered with this run
  fit,      \* history: git could have pulled when this run began
  tidy      \* history: no git add or git commit of this run failed

branches == <<remote, local>>
tree == <<work, staged>>
vars == <<branches, tree, pc, run, pushes, fetched, quiet, fit, tidy>>

Init ==
  /\ remote = {} /\ local = {} /\ work = {} /\ staged = {}
  /\ pc = "idle" /\ run = 0 /\ pushes = 0 /\ fetched = {}
  /\ quiet = FALSE /\ fit = FALSE /\ tidy = FALSE

Touched(commits) == UNION {c.files : c \in commits}

\* Commits on both sides.
Diverged == ~(local \subseteq remote) /\ ~(remote \subseteq local)

(***************************************************************************)
(* External: git pull with its default settings succeeds if there is       *)
(* nothing to do, or if it can fast-forward without overwriting a path     *)
(* with uncommitted changes.  It refuses diverged branches.                *)
(***************************************************************************)
CanPull(changed) ==
  \/ remote \subseteq local
  \/ /\ local \subseteq remote
     /\ Touched(remote \ local) \intersect changed = {}

-----------------------------------------------------------------------------
\* Lines 26-35 and 50: the header goes to log.txt before anything else.
Start ==
  /\ pc = "idle" /\ run < MaxRuns
  /\ run' = run + 1 /\ pc' = "fetch"
  /\ work' = work \union {LogTxt}
  /\ quiet' = TRUE /\ fit' = CanPull(work' \union staged) /\ tidy' = FALSE
  /\ UNCHANGED <<branches, staged, pushes, fetched>>

\* Line 60.
Fetch ==
  /\ pc = "fetch"
  /\ fetched' = remote /\ pc' = "pull"
  /\ UNCHANGED <<branches, tree, run, pushes, quiet, fit, tidy>>

\* Faulty variants: the result is ignored; a failed pull ends the script.
AfterAnyPull(ok) == "main"
AfterPullOrExit(ok) == IF ok THEN "main" ELSE "exit"

\* Line 147: main goes on to its argument only after a pull that worked.
AfterPull(ok) == IF ok THEN "main" ELSE "close"

\* Line 61.
Pull ==
  /\ pc = "pull"
  /\ pc' = AfterPull(CanPull(work \union staged))
  /\ local' = IF CanPull(work \union staged) THEN local \union remote ELSE local
  /\ UNCHANGED <<remote, tree, run, pushes, fetched, quiet, fit, tidy>>

\* Lines 60-61 and 158 without network, or failing for a reason that is not
\* in the model.  A failed push is not noticed.
NetFails ==
  /\ "net" \in Faults /\ pc \in {"fetch", "pull", "push"}
  /\ pc' = IF pc = "push" THEN "idle" ELSE AfterPull(FALSE)
  /\ quiet' = FALSE
  /\ UNCHANGED <<branches, tree, run, pushes, fetched, fit, tidy>>

(***************************************************************************)
(* Lines 7 and 82-89.  insmod always fails and a failed make skips it: in  *)
(* both cases "||" goes on to dmesg and the shell creates the dump.  The   *)
(* dump is missing only if the shell cannot create it.                     *)
(***************************************************************************)
Cascade ==
  /\ pc = "main" /\ pc' = "add"
  /\ \/ work' = work \union {Dump(run)}
     \/ "dump" \in Faults /\ UNCHANGED work
  /\ UNCHANGED <<branches, staged, run, pushes, fetched, quiet, fit, tidy>>

\* Lines 150-154: "cuda" and anything else only print.
OtherArgument ==
  /\ pc = "main" /\ pc' = "close"
  /\ UNCHANGED <<branches, tree, run, pushes, fetched, quiet, fit, tidy>>

\* Faulty variant: only the dump of this run.
ListedOwn == work \intersect {Dump(run)}

\* Lines 92-97: what git status lists, except log.txt.
Listed == work \ {LogTxt}

\* Lines 103-109: the files are added one by one; some git adds may fail.
AddFiles ==
  /\ pc = "add" /\ pc' = "close"
  /\ \E failed \in SUBSET Listed :
       /\ failed # {} => "add" \in Faults
       /\ staged' = staged \union (Listed \ failed)
       /\ work' = work \ (Listed \ failed)
       /\ tidy' = (failed = {})
  /\ UNCHANGED <<branches, run, pushes, fetched, quiet, fit>>

\* Lines 117-134 and 155-156, reached whether or not the pull worked.
AddLog ==
  /\ pc = "close" /\ pc' = "commit"
  /\ \/ work' = work \ {LogTxt} /\ staged' = staged \union {LogTxt}
        /\ UNCHANGED tidy
     \/ "add" \in Faults /\ tidy' = FALSE /\ UNCHANGED tree
  /\ UNCHANGED <<branches, run, pushes, fetched, quiet, fit>>

\* Line 157: git commit takes the index, and has nothing to do if that is empty.
CommitAll ==
  /\ pc = "commit" /\ pc' = "push"
  /\ local' = IF staged = {} THEN local
              ELSE local \union {[by |-> "poke", n |-> run, files |-> staged]}
  /\ staged' = {}
  /\ UNCHANGED <<remote, work, run, pushes, fetched, quiet, fit, tidy>>

\* Line 157 when git commit fails (a lock left by a killed git, a full disk, no
\* identity, a hook): its status is ignored, and the index stays full.
CommitFails ==
  /\ "commit" \in Faults /\ pc = "commit" /\ pc' = "push"
  /\ tidy' = FALSE
  /\ UNCHANGED <<branches, tree, run, pushes, fetched, quiet, fit>>

\* Faulty variants: --force; the push comes before the commit.
ForcePushed == local
PushedBeforeCommit ==
  IF remote \subseteq local
  THEN {c \in local : c.by = "dev" \/ c.n # run} ELSE remote

\* The remote accepts a fast-forward only.
Pushed == IF remote \subseteq local THEN local ELSE remote

\* Line 158: the status of git push is ignored.
Push ==
  /\ pc = "push" /\ pc' = "idle"
  /\ remote' = Pushed
  /\ UNCHANGED <<local, tree, run, pushes, fetched, quiet, fit, tidy>>

-----------------------------------------------------------------------------
\* External: another clone pushes a change of the sources or of log.txt.
OtherPush ==
  /\ pushes < MaxPushes
  /\ pushes' = pushes + 1 /\ quiet' = FALSE
  /\ \E p \in {Src, LogTxt} :
       remote' = remote \union
                   {[by |-> "dev", n |-> pushes + 1, files |-> {p}]}
  /\ UNCHANGED <<local, tree, pc, run, fetched, fit, tidy>>

\* External: the run is killed.  What is on disk stays.
Crash ==
  /\ "crash" \in Faults /\ pc # "idle"
  /\ pc' = "idle" /\ quiet' = FALSE /\ tidy' = FALSE
  /\ UNCHANGED <<branches, tree, run, pushes, fetched, fit>>

Next ==
  \/ Start \/ Fetch \/ Pull \/ NetFails \/ Cascade \/ OtherArgument
  \/ AddFiles \/ AddLog \/ CommitAll \/ CommitFails \/ Push
  \/ OtherPush \/ Crash

Spec == Init /\ [][Next]_vars
-----------------------------------------------------------------------------
TypeOK ==
  /\ remote \subseteq Commit /\ local \subseteq Commit /\ fetched \subseteq Commit
  /\ work \subseteq Path /\ staged \subseteq Path
  /\ pc \in {"idle", "fetch", "pull", "main", "add", "close", "commit", "push"}
  /\ run \in 0..MaxRuns /\ pushes \in 0..MaxPushes
  /\ quiet \in BOOLEAN /\ fit \in BOOLEAN /\ tidy \in BOOLEAN

(***************************************************************************)
(* The cascade never runs on code older than what git fetch brought in the *)
(* same run: a pull that failed for whatever reason skips it (line 147).   *)
(***************************************************************************)
BuildsCurrent == pc \in {"main", "add"} => fetched \subseteq local

(***************************************************************************)
(* A run that added all it listed and whose commit worked leaves nothing   *)
(* uncommitted, what runs before it left behind included: the index that   *)
(* killed runs and failed commits left full, the dumps not added (lines    *)
(* 92-109, 156-157).                                                       *)
(***************************************************************************)
CleanAfterRun == pc = "idle" /\ tidy => work = {} /\ staged = {}

(***************************************************************************)
(* Diverged branches stay diverged: no sequence of runs, with or without   *)
(* faults, gets local commits to the remote once both sides have one.      *)
(***************************************************************************)
DivergenceIsPermanent == [][Diverged => Diverged']_vars

(***************************************************************************)
(* A run nothing interferes with publishes all local commits, those of     *)
(* earlier runs whose push failed included, provided git could pull when   *)
(* it began: not diverged, and nothing coming in that touches log.txt or   *)
(* another uncommitted path.                                               *)
(***************************************************************************)
FitRunPublishes == pc = "idle" /\ quiet /\ fit => local \subseteq remote

(***************************************************************************)
(* pokescript.py:12-19: the script is to "update the repo, run the cascade,*)
(* and then update the repo again", ending with "'git push' to push the    *)
(* commit to the repo".                                                    *)
(***************************************************************************)
EveryRunPublishes == pc = "idle" /\ quiet => local \subseteq remote
=============================================================================
