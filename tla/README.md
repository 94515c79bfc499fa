# A TLA+ verification of buster

`buster` is a Linux kernel module that dumps the state of the AMD IOMMUs of a
machine to the kernel log, together with the small programs around it. This
directory models the repository's own code (`buster/` and `pokescript.py`), checks
the models with TLC and proves the central results with TLAPS.

## Inventory

The repository's own program is about 800 lines; `dpdk/` is an unmodified copy of
DPDK 22.11.3 that nothing under `buster/` compiles, links or calls.

| Component | State | Operations | Talks to |
|---|---|---|---|
| `log_range` (`buster/utils.c`) | `log_id`, the pending run (`prev_val`, `count`), the cursor `ptr` | one call = one dump of a range | reads memory the IOMMU and its driver are writing; prints to the kernel log |
| mapping table (`get_mapping` in `utils.c`, `freeall` in `main.c`) | `vaddrs[N_VADDR]`, `idx` | map, release all | `ioremap` / `iounmap` |
| capability walk (`map_conf`, `get_cap_space`, `get_iommu_regs`, `buster_ini` in `main.c`) | `cap_ptr`, `cap_off`, `seen_iommu_regs[16]` | map a function's configuration page, walk its capability list twice, map and dump every IOMMU block found | mapping table, `log_range`, `bust_open` |
| ring dump (`bust_open` in `main.c`) | head and tail register values read one after the other | dump the command buffer and the event log around their head | races with the IOMMU and the driver that move head and tail |
| register fields (`GET_MASK`, masks in `bust_open`) | none | pure functions of 64-bit registers | ring dump |
| `run.c` | heap buffer, file descriptor, file name | run insmod, write a dump file | `insmod`, the file system |
| `user.cpp` | none | read the ECAM base from the ACPI MCFG table | sysfs |
| `pokescript.py` | `log.txt`, the git index, local and remote branch | pull, build + insmod + dmesg, add, commit, push | git, the shell, other clones |
| `restart`, `Makefile`, `commands.txt` | none | reboot prompt, build rules, notes | - |
| `dpdk/` | vendored | - | - |

The hard behaviours, component by component, and what makes each one correct:

* **log_range** reads memory that is being written. It must read only inside the
  range, print each word of the range exactly once, print only values that were really
  there, and return.
* **mapping table**: a fixed table filled by calls that can fail. Every mapping must be
  released at the end, whichever calls failed.
* **capability walk**: follows pointers the device supplies, in kernel context. It should
  stay inside the mapped page, end, find the enabled IOMMU blocks, and open each
  mapping once, within two fixed-size tables. The second walk does not check the page:
  the question is how far it gets before it leaves.
* **ring dump**: reads tail, then head, of a ring that moves, and dumps a window that
  does not wrap. What does the window show, when can it mislead, when is it refused?
* **register fields**: the masks must select the documented bits.
* **run.c**: failures that are reported and then swallowed, an `int` product, and file names
  that are one per second. A run that reports nothing must have written its whole file;
  every way out must release what it holds.
* **user.cpp**: end of file while decoding must not look like a valid base.
* **pokescript.py**: a git pipeline that dirties its own log before pulling, ignores a
  rejected push and may be killed by the module it loads. It must not build stale
  code, must clean up after killed runs and must get its commits to the remote.

`PROJECT.json` lists these as hazards, each at its line, with the properties that cover it.

## Modules

| Module | Code | Contents |
|---|---|---|
| `LogRange` | `log_range`, utils.c:20-139 | one dump, one memory read per step, hardware writes in between |
| `RangeDump` | | abstract: what a dump of a live range promises |
| `LogRangeRefines`, `MCLogRange` | | the refinement mapping; start addresses: NULL, unaligned, aligned |
| `LogRangeProofs` | | type correctness, reads in range, lines tile the range, printed values were held, runs are maximal, calls advance |
| `LogRangeRefinesProofs` | | the refinement: `log_range` implements `RangeDump` |
| `Buster` | `buster_ini`, `map_conf`, `get_cap_space`, `get_iommu_regs`, `freeall`, `get_mapping`, `is_repeat_in` | loading the module: both walks, both tables |
| `MCBuster` | | ten configuration pages, the dumped machine's among them |
| `BusterProofs` | | type correctness, when the page is left, nothing leaks, each mapping opened once, no enabled block skipped, when the two tables overflow, the second walk advances |
| `Words`, `IommuRegs` | `GET_MASK` and the fields of `bust_open` | 64-bit words as sets of bit positions, and the masks |
| `IommuRing`, `MCIommuRing` | `bust_open`, main.c:111-191 | the register reads and the dumped window against a moving ring |
| `IommuRingProofs` | | the window's range and content, the refusals, the fields |
| `Run`, `MCRun` | `run.c` | several runs at once, with their failures, file names and sizes |
| `RunProofs` | | type correctness, exits release, silent runs wrote their file |
| `Mcfg`, `MCMcfg` | `mcfg_r` of `user.cpp` | decoding the MCFG table, short ones included |
| `McfgProofs` | | type correctness, the decoded entry, short tables |
| `Pokescript` | `pokescript.py` | the git pipeline against a shared remote, with faults and kills |
| `PokescriptProofs` | | its invariants and the permanence of divergence |

The modules split along the calls. `Buster` records that it called `log_range` on a block
(`walked`) and `bust_open` on a mapping (`opened`); what those calls do is `LogRange` and
`IommuRing`. `IommuRing` hands `log_range` a window; whether `log_range` refuses it is
`Refused`, the two checks of `log_range` that the window can fail: start after limit
(utils.c:52) and, for windows of a block or more, an unaligned start (line 70). It cannot
fail the third, start at NULL, since the start comes from `phys_to_virt`.

### LogRange

`pc` is where the function is: `"fill"` (lines 81-83), `"cmp"` (the loop of line 87),
`"copy"` (lines 118-120), `"tail"` (lines 131-135, and 59-63 for short ranges), `"idle"`
outside a call. `ptr` is the code's `ptr` as a word index from `start`; `prev_val`, `count`
and `log_id` are the code's. `lines` and `words` are what the call has printed: count,
offset and value, without the text layout. `held[w]` is a history variable, every value
word `w` has had since the call began.

The comparison of a block (line 92) and the copy that follows a mismatch (line 119) are
separate reads of live memory, so `HwWrite` may fall between any two words of either.
`Call` covers all the early returns.

`RangeDump` is the same dump without blocks, runs and counts: `shown` is a prefix of the
range that only grows, each new word with a value the range held at that address during
the dump, and the dump is over only when `shown` is the whole range. `LogRangeRefines` maps
`log_range` to it: `Expanded` is what a reader of the log reconstructs from the lines printed
so far, repeating each as often as it counts. `ImplementsDump` is therefore more than
`PrintedWasHeld`: it also says that a later line never changes or overlaps what an earlier
one showed, and that nothing is left out when END is printed.

The faulty variants next to the definitions
(`InLoopAnyWord`, `FlushOffsetShort`, ...) are plausible slips used to check that each
property can fail.

### Buster

`pc`: `"map"` (top of the loop over buses), `"caps"` (first walk), `"probe"` (first
`get_iommu_regs`), `"next"` (the do-while), `"unloaded"` (after `freeall`; `insmod` fails
on purpose with -1, so `buster_fini` never runs), `"oops"` (a read past the mapped page)
and `"ub"` (a store past `seen_iommu_regs`). The last three are final. The code never
compares `cap_ptr` with the end of the page: `ProbeNext` and `ProbeFault` are the same pass
of the do-while, whose read at the new `cap_ptr` finds memory or does not. Both move `cur`, so the
address that faults is part of the state.

A configuration page is a function from 0..4095 to bytes and the code's offsets are kept:
0x34 (52), `+ 1`, `+ 4`..`+ 11`, 0x18 (24), 0xff (255). `cur` is `cap_ptr` as an offset into
the page. `ioremap` fails (NULL) or returns a fresh address. The write past `vaddrs` at
`idx = N_VADDR` lands on `idx` or on `log_buffer`, the two possible neighbours, and the
model tries both. A register base is the tuple of its eight bytes, which keeps 64-bit
values out of TLC's 32-bit integers.

Histories: `walked` and `probed` (offsets visited by the first and the second walk),
`opened` (calls of `bust_open`), `overrun`, `lost` (some mapping failed).

### IommuRing

Entries are numbered without wrapping (`T` produced, `H` consumed); registers show them
modulo `SIZE`. `ReadTail`, `ReadHead` and `Dump` are the three moments at which `bust_open`
looks at the ring, and the producer and the consumer move between them. The command
buffer is followed by the event log, which has been running meanwhile: `Dump` picks any
legal state for it. `Produce`, `Consume` and `Running` are external: they are what a ring
with one free slot permits.

`ReadBase` takes the table address from the base register, with the two masks of main.c:144
and 172; a register word is the set of its one-bits. The event log's mask keeps bits 11:0, and of
these bits 2:0 decide whether `log_range` finds its start aligned (`Unaligned`): `MCRegs` has
a register with bit 1 set, and the event log's dump is then refused.

### Run

One copy of the program per member of `Procs`, each step of `main` an action; the labels
`err` and `err_buf` are control states, so the way from each failure to `return 0` is the
code's. Sizes are counted in pages: `Product` is the `int` product of line 45, which either
wraps or, since overflow is undefined, is computed in the wider type. `file[t]` is the
sequence of writes to the file named after second `t`; without `O_TRUNC` and `O_EXCL` an
existing file is just written over. `atoi(argv[1])` without an argument, and `sprintf` into an
unchecked `malloc`, end in `"crash"`. The pages' content is left out: the module declares no
parameter `buf`, so `insmod` never fills the buffer and the file holds what `malloc` returned.
`system` waits for `insmod`, which need not come back (`buster_absent`): a run may stay at
`LoadModule` for ever, and no property says that runs end.

### Mcfg

`mcfg_r` read by read. `get()` on a table that has ended returns -1, which becomes 64, 16
or 8 ones depending on the variable it is stored in; a file that does not open behaves
like an empty table.

### Pokescript

A branch is the set of commits reachable from its tip, so "can be fast-forwarded" is
inclusion, and the paths a commit touches are kept because git refuses a pull that would
overwrite an uncommitted path. `work` and `staged` are the working tree and the index. The script's
steps follow `main`: `Start` (the header written by `Log()` at import), `Fetch`, `Pull`,
`Cascade` or `OtherArgument`, `AddFiles`, `AddLog`, `CommitAll` or `CommitFails`, `Push`; `AfterPull` is the `if` of
line 147, whose failing branch still goes on to commit and push. `Faults` switches on what may go
wrong: the network, a missing dump, a failing `git add`, a failing `git commit` (whose status
line 157 ignores and which leaves the index full), and `Crash`, after which the next
run starts on whatever the killed one left on disk. `OtherPush` is another clone. `fetched`,
`quiet`, `fit` and `tidy` are histories of the current run.

## Runs

| Run | Result | Bounds |
|---|---|---|
| `log_range_race` | `TypeOK`, `ReadsInRange`, `LinesTile`, `PrintedWasHeld`, `RunsMaximal`, `CallReturns`, `ImplementsDump` hold | two values, blocks of 2 words, ranges of -1 to 7 words, 2 hardware writes per call |
| `log_range_last_line` | `LastLineAddress` violated | blocks of 4 words as in the code, at most 8 words, no writes |
| `buster_walks` | `TypeOK`, `LeavesPageLate`, `OpenedOnce`, `EnabledOpened`, `FreedUnlessOverrun`, `SeenHasRoom`, `OverrunNeedsFailure`, `SecondWalkEnds`, `LoadEnds` hold | 2 buses, 10 pages each, 12 slots in `vaddrs` |
| `buster_all_blocks` | `FindsAllBlocks` violated | the dumped machine's page on all 4 buses |
| `buster_unique` | `UniqueRegs` violated | one bus, page `one` |
| `buster_tracked` | `MappingsTracked` violated | one bus, 6 slots |
| `buster_absent` | `InitReturns` violated | 4 buses, `epyc` or nothing |
| `ring_race` | `TypeOK`, `ShowsRecent`, `PendingReal`, `RefusedOnlyIf`, `HeadNotOlder`, `BaseDecoded` hold | 4 slots, history of 2, 10 entries; registers made of bits at the edges of the fields |
| `run` | `TypeOK`, `SilentRunIsWhole`, `ExitReleases` hold | 2 runs, 3 seconds; no size, 0, 1 and 2 pages, one page below 2 GiB, 2 GiB, 4 GiB and 4 GiB + 1 page; writes that stop at 0 or 1 page |
| `mcfg` | `TypeOK`, `EntryDecoded`, `ShortTableShows` hold | tables of 0, 20 and 44 to 57 bytes, every base made of bytes that are zero or have both outer bits set |
| `pokescript` | `TypeOK`, `BuildsCurrent`, `CleanAfterRun`, `FitRunPublishes`, `DivergenceIsPermanent` hold | 3 runs, 2 foreign pushes, all faults |
| `pokescript_stuck` | `EveryRunPublishes` violated | 2 runs, 1 foreign push, no faults |

**Why the bounds are enough.** Seven words in blocks of two are up to three blocks and a
tail word, so a run can begin, repeat, end and be followed by another run and a tail; two writes can
change a word between the two reads and change it back. Blocks of two words have a first
and a last word, which is all the comparison loop tells apart. Two buses are enough for
state carried from one to the next (both tables, a skipped bus), and with 12 slots and two
`many` pages `vaddrs` (13th attempt) and `seen_iommu_regs` (9th success) both overflow in
some behaviours. Two `three` pages, each with its last block mapped twice, fill
`seen_iommu_regs` exactly, so four blocks in `SeenHasRoom` is tight; page `far` leaves the page as early as
pointers allow, so 16 in `LeavesPageLate` is. In a ring of four, ten entries wrap twice, and the consumer can pass a
stale tail by more than the history. Two runs of `run.c` are enough for a collision of names
and three seconds for one of them to fall between two others; the sizes lie on both
sides of every limit of an `int` and of `write`. Three runs of the script let one be killed or diverge, a
second one go wrong in its own way and a third show the result. The theorems below remove the bounds for
every one of these properties except liveness.

**Deadlock** is not checked: a finished call with no call left, a returned `insmod`, a finished
dump, exited programs and a script that is not started again really stop.

**Fairness.** `LogRange` and `Buster` assume weak fairness of the program's own steps: the
kernel thread running `insmod` is scheduled. Nothing is assumed of the hardware, and
`CallReturns` holds however it interferes. `IommuRing`, `Run`, `Mcfg` and `Pokescript` state
no liveness property and assume no fairness: git commands may hang on the network for as long as
they like, and `run.c` waits for an `insmod` that may never return.

### What the violated runs show

* `log_range_last_line`: utils.c:125 computes the last line's offset with 8 bytes per block
  instead of 32 and ignores the tail. The dumps under `buster/dump` show it: the last line of
  a 0x4000-byte dump reads `0074x0000000000003c60` where the run begins at 0x3180.
* `buster_all_blocks`: the second walk (main.c:227) adds next pointers up instead of using
  them as offsets. On the dumped machine it goes 0x40, 0xa4, ... and never looks at 0x64,
  0x74 and 0xc8; it works there only because the IOMMU block comes first.
* `buster_unique`: duplicates are looked for by virtual address, which is always new. A
  list of one block ends with pointer 0, and the do-while probes the block again.
* `buster_tracked`: `idx > N_VADDR` (utils.c:153) lets the 51st mapping through. In the code it takes
  failing `ioremap`s to get there (`OverrunNeedsFailure`), since 17 register mappings overflow
  `seen_iommu_regs` first; the run scales the table down.
* `buster_absent`: on a bus where nothing answers, every pointer is 0xff and the byte after
  offset 0xff is 0xff again. The second walk knows 0xff as an end (main.c:239), the first does not.
* `pokescript_stuck`: another clone's commit touches `log.txt` (every run of the script makes
  one). The next run here writes its header to `log.txt` first, so `git pull` refuses to
  overwrite it; the run commits on the old base and the push is rejected without notice. The branches
  have then diverged, and `DivergenceIsPermanent` says that no further run mends that. `FitRunPublishes` is what the script does guarantee.

Noticed while modelling and not given a run:

* main.c:172 masks the event-log base with bits 50:0 where the comment of line 167 says 51:12;
  `BaseDecoded` carries the condition under which this makes no difference, and `RefusedOnlyIf`
  shows what bits 2:0 can do: the event log is not dumped at all.
* The table sizes of main.c:142 and 170 are 256 times what the comment above them says (and
  never used).
* pokescript.py:21 says that "All error output is redirected to STDOUT_FILE", but only the
  cascade's stderr is captured; a failing `git pull` leaves `b''` in the log (`log.txt:42`).
* run.c:9 passes `buf` as a module parameter that `buster.ko` does not have.
* pokescript.py:7 runs `dmesg` also when `make` fails, and names dumps without the month.

### What the ring properties say

`ShowsRecent` and `PendingReal` carry the conditions under which a dump can be trusted.
After a wrap the window does not contain the pending entries. If the consumer passes the
tail between the two reads and the ring wraps there, the slots from head to the stale tail
look pending and are not: `PendingReal` holds only for `headAt <= tailAt`, and TLC finds the
misleading dump at once without that condition. The window begins up to `HISTORY` entries
before the table; in the dumps most windows do (the event log at `...264000` is dumped from `...263000`).

## Proofs

All theorems are for every value of the constants, under the named assumptions
(`LogRangeAssumption`, `BusterAssumption`, `RingAssumption`, `RunAssumption`, `TablesAssumption`,
`PokescriptAssumption`), which only give the constants their types and make sizes positive.

* **LogRangeProofs.** `TypeCorrect` and `ReadsStayInRange` rest on `RangeInv`: types plus
  `ControlInv`, which says for each `pc` how much room is left between `ptr` and the limit;
  an index into `mem` is in its domain only because of that room, so the two are inductive
  together. `DumpTilesRange` adds `PrintInv` (what is still empty at each `pc`) and
  proves `LinesTile` with `AppendOffsets`, the effect of printing one line. `DumpWasHeld` needs
  `HeldInv`: not only what is printed was held, but also every block of the pending run
  (`PendingHeld`) and the part of the block at `ptr` read so far (`ReadHeld`), at positions
  inside the range, where a hardware write only adds values. `RunsAreMaximal` needs
  `MaximalInv`: while nothing was written, the block being copied differs from the last line.
  `CallsAdvance` orders the states of a call by `ptr`, control state and word of the block and
  shows that every step ascends in this bounded order and no hardware write descends.
* **LogRangeRefinesProofs.** `DumpImplemented` is the step simulation. It needs two more invariants:
  `LayInv` (the lines' intervals are ordered pairwise and leave no word out, so the choice in
  `LineOf` is unique; the prover has no induction over the number of lines, so this is carried
  along line by line) and `AlignInv` (`ptr` is a whole number of blocks until the tail, so a word's
  place in its block is its remainder). `ExpandedIs` turns them into what `Expanded` shows.
  `PrintLays` is the effect of printing the pending run on the layout and `PrintShows` its
  simulation, with the values from `HeldInv`; `CallBegins`, `TailShows` and `EndFinishes` are the
  other steps, and reading a block is a stutter.
* **BusterProofs.** `TypeCorrect` rests on `CursorInv`: masked pointers are bytes during the first
  walk, and until a read faults `cap_ptr` is a header inside the page. `PageIsLeftLate` adds `ReachInv`,
  which measures the second walk: blocks looked at lie at or before `cap_ptr`, which has moved by at
  most 254 for each of them, so 16 of them are needed to cross 4096 bytes.
  `NothingLeaks` needs `TableInv`: until the overrun, every mapping sits *below* `idx`, so
  storing the next one disturbs none (`MappingTable`); `FreedUnlessOverrun` alone is not
  inductive. `EachMappingOpenedOnce` uses that live addresses are below the next one
  `ioremap` returns, and that 0 cannot be recorded while a slot is free, because free
  slots hold 0 (`RecordOpens`). `EnabledAreOpened` carries `OpenedInv` through the walk: until
  a mapping is lost or a slot is missing, every mappable block probed so far, on any bus, is opened.
  `OverflowNeedsFourBlocks` counts with `CountInv`: if no bus shows four blocks, `bust_open` was called
  at most four times on each earlier bus, and on the present one once per block so far. That
  a pass that goes on has moved forward, so that its block is new (`ReachInv` again), and that
  a pass on an old block is the last one (`Share`), leave room for the repeat.
  `OverrunsNeedFailure` counts with `AccountInv`: while nothing failed, each slot of `vaddrs` in use
  is the page of a bus or has its slot in `seen_iommu_regs`. `SecondWalkAdvances`: a pass that is
  not the last adds a positive pointer and stays in the page.
* **IommuRingProofs.** `SameTurn` reduces slots to entry numbers within one turn of the
  ring. `ReadsBracket` needs `ReadsInv`, what the values read mean until they are used.
  `RefusalExplained`, `WindowShowsRecent` and `PendingIsReal` follow from it and `RecordInv`;
  the first also needs `BaseInv`, which base the window is taken from, and what the two masks do
  to bits 2:0 (`ComTblBaseField`, `LowBitsOfEventLog`).
  `GetMaskExact` covers all pairs of bit positions; `RingPtrField` and `BasesDecoded` follow.
* **RunProofs.** Types alone are not inductive: that a write goes to a second of the clock and has an
  amount `malloc` accepts comes from `PlaceInv`, what each control state knows of its run, and
  so does what `ExitsRelease` says. `SilentRunsAreWhole` needs `WholeInv`: `OwnersInv`, every write
  in a file is that of a run that read this second, and, of a run that is alone in its
  second, what its file holds before and after its write. `SmallProduct` is the `int`
  product below 2 GiB.
* **McfgProofs.** `DecodeInv` says where the loops are and that a field holds exactly the bytes
  read so far (`Gathered`). `GatherNext` is the effect of one more byte; `EntryIsDecoded` and
  `ShortTablesShow` follow by splitting a bit's position into byte and remainder.
* **PokescriptProofs.** `CascadeIsCurrent` needs `FetchInv`: what was fetched is still on the
  remote when the pull starts. `TidyRunsClean` needs `TidyInv`, what may be uncommitted at each
  step of a tidy run. `DivergedForGood` needs `OriginInv`: every commit is first on the side that made
  it, so neither a new local nor a new remote commit can be the one the other side lacks.
  `FitRunsPublish` needs `FitInv`: an undisturbed run that could pull can still pull, and from
  then on holds all of the remote.

Every invariant, action property and refinement that a passing run checks is also proved. Only
model-checked are the liveness properties `CallReturns`, `SecondWalkEnds` and `LoadEnds`: fairness and `ENABLED` are beyond the prover. `CallsAdvance` and `SecondWalkAdvances` prove the part of
the first two that needs no fairness. The hops of `EndingDevices`, which `LoadEnds` is about, would
need an induction over the list.

## Not modelled, and the plan

Every state-changing operation of the repository's own code is an action of some module. Not
modelled:

* `dpdk/`: 4000 files of unmodified third-party code that nothing here builds, links or
  calls. It is practically all of the repository's lines; the models cover the program, which
  is the remaining 800.
* `restart`, `Makefile`, `commands.txt`: a reboot prompt, build rules and notes, without state.
* `mymalloc`, `PRINT_BIN64`, `VERIFY`, the `#if 0` block of `bust_open`, `setupIO`'s redirection:
  without users.
* The text of log lines, and the kernel's own log buffer, which is shorter than a full
  dump (the dumps in the repository begin in the middle of a bus): no code here sizes or checks it.

Left to prove: a bound on the steps of the first walk over a list that ends, the safety half of
`LoadEnds`, if it can be stated without an induction over the list.
