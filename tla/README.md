# A TLA+ verification of PARCOACH

PARCOACH finds misuse of MPI at compile time and at run time. It has four parts,
all modelled here:

* the **RMA analyzer** (`src/instrumentation/rma`), a runtime that detects races
  between one-sided communications: on each process the application thread and
  one checking thread per window share access lists, and processes exchange
  their accesses by messages;
* the **compile-time passes for RMA** (`src/rma`), which look for conflicts
  inside one process and replace the RMA calls by those of the runtime;
* the **runtime check of collectives** (`src/instrumentation/mpi`, inserted by
  `src/aSSA/Instrumentation.cpp`);
* the **static analysis of collectives** (`src/aSSA`): pointer analysis, call
  graph, mod/ref sets, memory SSA and a dependence graph tell which conditions
  depend on the rank; traversals of the control flow graphs compute the
  collectives executed from each block on; warnings are made from both.

Paths below are relative to the root of the repository.

## Inventory

| Component | State it keeps | Operations | Interacts with | Hard behaviour | Correct when |
|---|---|---|---|---|---|
| Interval algebra, `Interval.h` | none | intersects, conflictsWith, fixForWindow, neighbour scan | access list | 64-bit wrap, empty accesses, early exit of the scan | every conflict is found, no other is reported |
| Access list, `rma_analyzer.cpp` | `Intervals` under `ListMutex` | save (search, abort or insert), clear | both threads | two writers | no two conflicting accesses are kept |
| Epoch protocol, `rma_analyzer.cpp`, C wrappers | `rma_analyzer_state` per window, table of tag ranges | create, free, lock/unlock, fence, barrier, put/get/accumulate, load/store; the thread's receive loop | MPI messages and reductions, `std::thread` | messages of several epochs and windows in flight, counters compared without a lock, thread lifecycle, limits on windows and epochs | an epoch ends exactly when all its accesses are in; the program ends |
| Fortran wrappers | as above | the same | as above | handle conversion | as above |
| Local concurrency, RMA instrumentation, `src/rma` | queue, colours, accesses kept for each block | pass over loops, pass over blocks, replace and insert calls | LLVM's loops and aliases, RMA runtime | queue that puts back, merges at joins | no conflict is missed, the passes end |
| Runtime check, `MPI_DynamicCheck.c` | none but MPI's | reduce colours, broadcast, abort | the program's collectives | the check is itself a collective | alarm before deadlock, none without |
| Instrumentation, `Instrumentation.cpp` | module being rewritten | insert a check before a call | runtime check | which calls, which colour | every collective is checked |
| Andersen, `andersen/` | constraint graph, points-to sets, work lists | collect, solve with lazy and hybrid cycle detection | everything that follows pointers | merging of nodes while they are in work lists | least solution, covering every execution |
| Call graph, `PTACallGraph` | graph, reachable functions | resolve indirect calls, search from main | Andersen | candidates by number of arguments | no callee is missed |
| Mod/ref, memory regions | mod, ref and kill sets | direct effects, propagate by components | Andersen, memory SSA | recursion in the call graph | sets hold every effect below, no dead local memory |
| Memory SSA | mu, chi, phi, versions, stacks | place phis, rename, predicates of phis | mod/ref, dependence graph | stacks across the dominator tree | a use reads exactly what reaches it |
| Dependence graph, `DepGraphDCF` | nodes, edges, taint, conditions | build, eliminate phis, flood, walk over contexts | memory SSA, warnings | one shared set of taint for all contexts | taint within the flood, no condition missed |
| Collective lists, `CFGVisitors.h`, `CollectiveList.cpp`, `CollList*Analysis.cpp` | queue, visited map, loop maps, lists per communicator | visit loop, visit block, postpone | call graph, LLVM loops | queue that puts back, loops as one node | traversals end; a list is what every path executes |
| Warnings, `checkWarnings`, `Utils.cpp` | caches | post-dominance frontier, test of NAVS and taint | lists, dependence graph | recursion over a tree | a divergence is reported |
| Wrapper, launcher, plugin, options, reports | command lines | run the compiler and the tool | none | I/O | not modelled |

`PROJECT.json` lists the components with what is modelled of each, and the
hazards with the properties that cover them.

## Modules

```
RmaIntervals ── RmaAccessList ── RmaAccessListProofs
            │                 └─ MCRmaAccessList
            └── RmaAnalyzer ──── MCRmaAnalyzer
                            └─── (with CommonLemmas) RmaAnalyzerProofs
RmaWindows ──── MCRmaWindows
           └─── (with CommonLemmas) RmaWindowsProofs
DynamicCheck ── MCDynamicCheck
            └── (with CommonLemmas) DynamicCheckProofs
Reachability ── CommonLemmas
             ├─ (with AndersenCollect) Andersen ── MCAndersen     (implements PointsTo)
             │                                  └─ (with CommonLemmas) AndersenProofs
             ├─ ModRef ── MCModRef
             │         └─ (with CommonLemmas) ModRefProofs
             ├─ DepGraphBuild ── DepGraph ── MCDepGraph
             │                            └─ (with CommonLemmas) DepGraphProofs
             ├─ (with Cfg) MemorySSA ── MCMemorySSA
             └─ (with Cfg) RmaPasses ── MCRmaPasses
Cfg ── CollLists ── CollWarnings ── MCCollLists
```

**RmaIntervals** is the algebra of `Interval.h` and the scan
`getIntersectingIntervals`: `ScanUp` and `ScanDown` return the accesses that
every neighbour between them and the new access also intersects, which is what
the two loops with their `break` return. Addresses are modulo `Word`.

**RmaAccessList** is one window's list: `SaveInterval` (search, then abort or
insert, one critical section) and `ClearIntervals`.

**RmaAnalyzer** is the protocol for one window on `N` processes. The variables
`array` ... `Intervals` are the fields of `rma_analyzer_state`. The application
thread is `pc`; inside a call it goes through the steps between which another
thread or process can act: the two sends of an access (`Communicate`,
`SendString`, `CountSend`), the reductions of
`rma_analyzer_clear_comm_check_thread` one root after the other (`Contribute`,
`Combine`, `ReduceReturns`), `EndThread`, `Join`, and then what the calling
wrapper does next. The checking thread is `thread`: `ReceiveInterval`,
`ReceiveString`, `SaveReceived`, `ExitThread`. `net` and `strs` are the messages
in flight; MPI does not let messages of one source, target and tag overtake one
another. `status = "terminated"` stands for `std::terminate`: a thread object
assigned or destroyed while joinable, or joined when it is not. `sent` and
`landed` are history. The plain accesses to the `volatile` counters are taken in
program order, as x86 gives them. The program is a sequence of synchronisation
calls, the same on all processes; loads, stores and one-sided calls happen
anywhere MPI allows them.

**RmaWindows** is what RmaAnalyzer leaves out: the map `States` of several
windows, on communicators of all or some processes, created and freed while
others are in use; the table `win_mpi_tag_id` of each process with its limit
`MaxWin`, and the `MaxEpoch` tags of a range; the barrier, which clears every
window in an epoch (`Sweep`), one after the other in the order of the map of the
process (`IsNext`), and starts their threads again (`Restart`). A message here is
one step, and the reductions of a window are one step of each process: their
inside is RmaAnalyzer's. MPI matches the reductions of a communicator by their
order alone: `reduced` is indexed by the communicator and the number of the
reduction, whatever window a process makes it for. `given` and `agreed` are
history: the tags each window was given, and whether the processes have so far
given it the same one and kept its epochs within its range. `ProgramOK` is what
MPI asks of a program (windows are used while they exist, epochs do not nest).
In the Fortran wrappers and in the C ones these calls have the same control.

**RmaPasses** is the two passes of `src/rma` on one function: `bfsLoop` on every
loop, inner ones first, then `analyze`, with the turns of their queues as
actions, then the search of `instrumentMemAccessesIt`. `BBToMemAccess` is the map
of the code; `Visit` is the body of both loops. LLVM's loops are computed from
the graph (`Loops`), aliases are an input. The code reads a call it has just
erased (`RMAInstrumentation.cpp:155`); the model takes what the freed object
still says in the builds at hand, that it is a call.

**DynamicCheck** is the check and the program around it. The calls a process
has entered on each communicator are `posted`; the k-th calls of the members
match. `EnterCheck`, `Combine`, `EnterBcast`, `ReturnFromBcast`, `Decide` are
`check_collective_MPI` and `check_collective_return`, which differ only in
`Checks`.

**AndersenCollect** turns globals, instructions, calls and the known external
functions into constraints, one operator for each function of
`ConstraintCollect.cpp` and `ExternalLibrary.cpp`; a node is a name and the
order of node numbers matters only to `First`. **Andersen** is
`solveConstraints`: `g` is the constraint graph with representatives and
points-to sets, `curr` and `next` the two work lists as sets, so that every
order of the queue is covered, `Process` one turn of the inner loop, `DetectCycles` the
lazy detection at the start of an iteration, `CollapseTargets` the hybrid one.
**PointsTo** is the abstract specification: a solution that only grows, never
past the least one, and in the end all of it. **Reachability** has closures and
strongly connected components (`CycleDetector.h`).

**ModRef** builds the call graph (`AddToCallGraph` for each function in any
order), searches it from main, then computes mod, ref and kill sets component by
component, callees first, a component until nothing changes. A region is a name;
what library functions do to their arguments (`ExtInfo.cpp`, a table) is an input.

**MemorySSA** annotates one function: mu and chi, phis by iterated dominance
frontiers with the work list of the code, renaming as a walk over the dominator
tree with the stacks `S` and counters `C`, then the conditions of each phi.

**DepGraphBuild** has the edges the functions of a program contribute, by kind
of instruction and by kind of callee; **DepGraph** the elimination of phis in any
order and the two ways to flood the graph with taint: everything at once, or the
walk over the call graph that enters and leaves functions with one shared set
(`floodFunctionFromFunction`, `floodFunction`).

**Cfg** has control flow graphs, post-dominance and the frontier functions of
`Utils.cpp`; **CollLists** the two traversals as a state machine, one action for
each turn of their `while` loops; **CollWarnings** the warnings as an operator
of the result. LLVM's loops, dominators and the call graph order are inputs.
A communicator is a name and a list is a sequence of elements; two lists are
equal when they print the same.

## Runs

| Run | Bounds | Properties | Shows |
|---|---|---|---|
| `access_list` | addresses 0 to 4, sizes 0, 1, 2 and 4, all types, up to 3 kept | `UniformMissNothing`, `MissedOnlyBehindGap`, `AbortsOnSharedOrEmpty` | while all accesses have one size no conflict is missed; with several sizes a miss is always hidden behind a kept access that does not reach the new one; the program is stopped only for a shared byte, or falsely for an access of zero bytes at address 0 (its interval is all of memory) or between two bytes of the other |
| `analyzer_epochs` | 2 processes; `LockProgram` (barrier, lock_all, barrier, unlock_all, lock_all, unlock_all, free) and `FenceProgram` (fence, fence, free); puts to displacement 0, a store to address 20; one communication per process and epoch; buffered sends | `EpochComplete`, `NoStaleInterval`, `RacesCaught`, `NeverTerminated` | epochs are complete and never mixed, threads are started and joined in order, a race always stops the program |
| `analyzer_live` | 2 processes, two lock_all epochs and three fences, gets and loads, sends that wait for their receiver | `Termination` | no process waits for ever in an unlock, a fence or a send |
| `windows` | 2 processes, windows of the world and of one process, 2 tag ranges of 3 epochs, handles in the same or in another order on the two, barriers of all and of one process, one communication per process | `RightWindow`, `ClearedWhenComplete`, `TerminatedOnlyOverThread`, `Termination` | while processes agree on tags and order, and barriers are called by all members of the windows they clear, accesses land in their window and epoch, threads are joined when all have landed; `std::terminate` is called only by a program that locks or frees a window whose thread a barrier outside of its epochs started again (`FreedOver`, `LockedOver`), and every other program finishes |
| `check_world` | 3 processes, all combinations of 6 programs on the world communicator | `MismatchIsDetected`, `NoFalseAlarm`, `Verdict` | detection before the mismatch, no false alarm, and every run ends with the right verdict |
| `lists` | all well-formed graphs without loops of 5 blocks with one collective and of 4 blocks with two; 27 programs of a caller and a callee with two communicators and MPI_Finalize; ten shapes of loops, some ignored by the first traversal, with collectives anywhere but in loop headers | `UndefinedIffCalledDead`, `ListsExact`, `LoopListsExact`, `SilentIffSame`, `FrontierExact`, `Termination` | both traversals end; the end iterator of `CFGVisitors.h:189` is dereferenced exactly in programs with a loop that has two back edges or two ways in; a list is what every path executes; silence means agreement; frontiers are control dependence |
| `andersen` | all programs of two free instructions over four pointers, a list, nested cycles, calls, variadic calls and library functions; both options on and off | `NothingForgotten`, `Sound`, `ImplementsPointsTo` | in every order of the work list the solution only grows, and no node is left that still has something to pass on; without hybrid cycle detection it ends as the least solution and covers every execution |
| `modref` | all call graphs of main and three functions, three programs with library, variadic, indirect, uncalled and dead functions | `ReachableExact`, `ModRefSound`, `KilledStayOut`, `Termination` | no callee is missed; every effect below a function is in its sets, memory of returned frames is not; the iteration ends |
| `mssa` | all graphs of four reached blocks with every placement of stores, five functions with calls and loops | `DefinedOnce`, `VersionsExact`, `PredicatesComplete` | versions are those that reach a use; a phi depends on every condition that decides between its operands |
| `depgraph` | programs with memory, phis of phis and of broadcast versions, calls, contexts, pointers, recursion, library functions; both modes | `ElimKeepsData`, `WithinInsensitive`, `WalkComplete`, `WalkProgresses` | phi elimination keeps the data flow; the walk stays within the flood, misses nothing under the conditions below, and ends |
| `rma_passes` | all reducible graphs of four blocks with three placements of a communication, an access and a synchronisation, a loop with an inner loop and a branch | `RacesReported`, `ReportsReal`, `Termination` | every conflict with a communication in progress is reported under the conditions below, only conflicts are in a function without loops; both passes end, every block instrumented once |

The runs `access_list` and `analyzer_epochs` check their `TypeOK` as well; those
of DynamicCheck, ModRef and Andersen are proved, the other modules state theirs
as documentation. Each run takes between two seconds
and a minute and a half.

Two processes are enough for the epoch protocol to have a fast and a slow
process, messages to oneself and to the other, and messages one epoch ahead (a
process cannot be two ahead: the reduction holds it back). `MaxWin = 2` and
`MaxEpoch = 3` stand for 32 and 1024: programs of the run go past both. Graphs of
`lists` have at most two exits because `UnifyFunctionExitNodes` runs first
(`Parcoach.cpp:95`), and no unreachable block. Four or five blocks hold two
branches and a join, or a loop in a loop. `MaxComms` and `MaxSaved` bound the
communications of a process and the accesses kept. Deadlock is
checked except in `access_list`, which stops at an abort, and in `windows`, where
programs whose processes disagree do hang (`Termination` says exactly when).

### Conditions in the properties

Several properties hold under conditions that are part of their statement; each
was found necessary by dropping it.

* `RightWindow`, `ClearedWhenComplete`, `Termination` of RmaWindows: `agreed` (a
  process that made or freed a window of a smaller communicator takes other
  tags), `SameOrder` (a barrier goes through the map in the order of handles,
  which differ between processes), `BarriersCover` (a barrier of some processes
  makes reductions with processes that are not in it). `Matched` is the last two;
  `TerminatedOnlyOverThread` is under `Matched` alone.
  `ClearedWhenComplete` fails without it: in `SelfBarrier` a process makes the
  reductions of two windows at a barrier of its own, in the order of its map, and
  MPI matches them with those the other makes in the order of the program. It is not enough that barriers cover the windows in an epoch: in
  `StaleSync` the epoch is over, but `from_sync` is never reset, and a later
  barrier of one process starts a thread on it alone. `RightWindow` needs it too:
  with two communications a process (`MaxComms = 2`, nine million states, not a
  run) `LeftBehind` leaves an access behind that a window with the same range
  receives.
* `RacesReported`: at a join, the first access of a pointer that arrives is kept,
  so a put hides a get (`OneKind`); a loop header does not wait for predecessors
  outside of the loop, and an edge from the latch of a loop to the header of the
  next is taken for a back edge, after which the rest of the function is not
  analysed (`OneWayIn`); latches of inner loops are not waited for
  (`NoExitAtInnerLatch`). `ReportsReal` is for functions without loops: what
  is left from the pass over a loop can be reported across a synchronisation.
  `MPI_Win_unlock` is not among the synchronisations the analysis knows.
* `WalkComplete`: a function with several contexts, taint that a later callee
  brings to an earlier one, a function handed both a reset and another version,
  and recursion, which resets the taint of its own frame, can lose conditions.
* `PredicatesComplete`: graphs without jumps into loops, and a loop's branch in
  the block of the operand itself is not seen, because a block is kept out of
  its own frontier.
* `NothingForgotten` and the exactness of `ImplementsPointsTo` and `Sound`: see
  the finding on hybrid cycle detection. Its offline part also merges variables
  on a cycle through `*p` when `p` points to nothing.

### A disagreement with the code's comments

`andersen_hybrid` expects a violation. With hybrid cycle detection, which is on
by default, `solveConstraints` can stop before "a fixed point is reached": the
node that others are merged into is not put back in the work list
(`ConstraintSolving.cpp:522`).

Configurations that reproduce other disagreements, and are not runs of the
project. TLC finds each property violated:

| Configuration | Module | Property | Disagreement |
|---|---|---|---|
| `access_missed.cfg` | MCRmaAccessList | `NoMissedConflict` | accesses of different sizes: the early exit of the scan misses a conflict |
| `analyzer_filename.cfg` | MCRmaAnalyzer | `FilenameOfAccess` | a received access gets the file name of another one |
| `analyzer_restart.cfg` | MCRmaAnalyzer | `RestartOnlyInEpoch` | a barrier outside an epoch restarts the thread, as `from_sync` is never reset |
| `check_comm.cfg` | MCDynamicCheck | `MismatchIsDetected` | the same collective on different communicators is not detected |
| `lists_header.cfg` | MCCollLists | `LoopListsExact` | collectives in a loop header are on no list |
| `lists_nested_do.cfg` | MCCollLists | `Termination` | a loop around a do-while is traversed for ever |
| `lists_continue.cfg` | MCCollLists | `Termination` | an endless loop with a `continue`, left by a `break`: the first traversal ignores it, and the second waits for ever for a block of it |
| `mssa_invoke.cfg` | MCMemorySSA | `VersionsExact` | an invoke pushes versions that are not popped |
| `taint_external.cfg` | MCDepGraph | `EveryInputConnected` | the values passed to an unknown external function are not connected to its outputs |
| `rma_nested.cfg` | MCRmaPasses | `Termination` | an inner loop with two latches keeps `bfsLoop` busy for ever |
| `rma_epochs.cfg` | MCRmaPasses | `OnlyInEpochs` | `lock_all` and `unlock_all` in one block leave the flag set: accesses after the epoch are instrumented; in the same way any RMA call after `lock_all` in a block ends the instrumentation of the block |

Behaviours met while modelling that are left out of the inputs of the passing
runs, or modelled as they are without a property:

* the collectives of a function called inside a loop are on no list of the loop
  (a FIXME at `src/aSSA/CollListFunctionAnalysis.cpp:260` says so);
* the runtime check always compares over `MPI_COMM_WORLD`, so a correct program
  with a collective on a sub-communicator is aborted;
* two lists that print the same NAVS compare equal, so a divergence behind NAVS
  is reported only if every condition on the way is tainted: `lists` takes all
  conditions to be tainted;
* constraints of library functions: `realloc(NULL, n)` returns only the null
  pointer, `posix_memalign` stores what the new object holds, those of
  `strtol` and `bcopy` are the wrong way round; results of indirect calls are
  dropped; the universal object stores into itself rather than pointing to
  itself;
* functions called only by external code are not reachable from main, and
  external functions without an entry in `ExtInfo.cpp` only read;
* `connectCSEffectiveParameters` stops at the first external candidate of a
  pointer, and values an external function returns are never tainted;
* `MPI_Win_allocate` registers the address of the pointer to the window's memory
  (C wrapper), and the Fortran fence passes NULL for its assertion.

## Fairness

`RmaAnalyzer!FairSpec` and `RmaWindows!Spec`: weak fairness of the calls in
progress and of the next synchronisation call of each process (the program goes
on), and of each checking thread (the operating system runs all threads; the
receive loop polls and yields). Loads, stores and one-sided calls need not happen.
`DynamicCheck!FairSpec`: every process goes on and MPI makes progress.
`Andersen`, `ModRef`, `RmaPasses` and `CollLists`: the compiler is one thread
that runs, weak fairness of its next step. `DepGraph` needs none: `WalkProgresses`
says that each turn of the walk leaves less ahead.

## Refinement

`ImplementsPointsTo` states that `Andersen!FairSpec` implements `PointsTo!Spec`
with `sol` the points-to set of the representative of each node and `exact` the
absence of hybrid cycle detection. Merging nodes, which changes
representatives, sets and edges at once, is a step of `Grow` like any other; that
the solver ends is the temporal part.

## Proofs

The proof modules hold for every value of the constants: any number of
processes, any programs, any accesses. Each states its inductive invariant as a
conjunction of named parts at its head, then shows for each action what it does to each
part; facts about operators are lemmas before that.

| Module | Theorems | Stated for |
|---|---|---|
| `RmaAccessListProofs` | `TypeCorrect`, `MissesOnlyBehindGap`, `UniformAccessesMissNothing`, `AbortsAreRacesOrEmpty` | any accesses, word size and bound |
| `RmaAnalyzerProofs` | `TypeCorrect`, `EpochsComplete`, `NoIntervalIsStale`, `ThreadsManaged`, `RacesAreCaught` | any number of processes; all but the first for well-formed programs, the last for accesses of one size |
| `DynamicCheckProofs` | `TypeCorrect`, `MismatchesAreDetected`, `AlarmsAreTrue` | any number of processes; the last two for `RegularOnWorld` |
| `ModRefProofs` | `TypeCorrect`, `ReachableIsExact`, `KilledNeverReturn`, `EffectsAreCovered` | any finite program |
| `DepGraphProofs` | `WalkWithinFlow`, `WalkShrinks`, `EliminationKeepsData` | any finite program; the last for programs in `SSAForm` with `ResetsApart` |
| `RmaWindowsProofs` | `WindowsTypes`, `NoForeignAccess`, `JoinedWhenComplete`, `ThreadsEndInOrder` | any number of processes, communicators and windows, any handles and limits, every program `ProgramOK` admits |
| `AndersenProofs` | `TypeCorrect`, `NothingIsForgotten`, `ExactWithoutHybrid`, `ImplementsPointsToSafely`, `PointsToSound` | any program, any options; `ExactWithoutHybrid` and `PointsToSound` without hybrid cycle detection |
| `CommonLemmas` | none of its own; `ReachedIsLeast` and lemmas on the number of indices with a property and on maximal sets | any finite graph |

### Access list

`MissedOnlyBehindGap` is inductive with the type invariant. Saving an access
keeps it because the upward half of the scan is exact (`ScanUpExact`: in the order by
lower bound, everything between the new access and one it reaches also starts
inside it), equal bounds are always found (`ScanSameBounds`), and the downward
half misses an access only behind one that does not intersect (`ScanDownMiss`).
Inserting more accesses can only add gaps. With one size the order by lower bound is also
the order by upper bound, so the access in the gap cannot exist: hence
`UniformMissNothing`. `AbortsAreRacesOrEmpty` needs none of this: of two accesses that
have bytes and intersect, the larger lower bound is a byte of both
(`IntersectionShares`). `Bytes` is taken from the address and the size of the access,
not from its interval, so an access of zero bytes has none; its interval `[a, a - 1]`
still intersects one with bytes on both sides of `a`, and at address 0 it is
`[0, Word - 1]` and intersects every other one. These false alarms (for instance an
`MPI_Put` of zero bytes from a null pointer) are what `EmptyMeets` names.
Assumptions: `WordAssumption` (`Word` is a positive natural) and
`AccessesAssumption` (an access is made from an address and a size, and does not lie
across the end of the address space); the two theorems about missed conflicts are for
accesses that are not empty.

### Epoch protocol

`EpochComplete` is far from inductive: that the count of received messages can
only be matched by the messages of the epoch depends on what every process has
sent, on the numbers in flight to the roots of the reductions and on how far apart
two processes can be. `EpochInv` has these parts:

* `ProgramInv`: where a process is in the program determines its flags
  (`active_epoch`, `count_fence`, `from_sync`, the state of its thread), its epoch
  number and its reduction round, as numbers of calls of the program
  (`EpochAt`, `RoundAt`; `CommonLemmas` has how such numbers grow). This is what makes
  `NeverTerminated` provable: a thread is joinable exactly where the wrapper takes it to be;
* `ReduceInv`: a contribution is made once, and a process leaves the reduction
  it is the root of only when every process has contributed. So no process is more than
  one round ahead;
* `SentInv`: `array[q][p]` is the number of messages q has sent to p in its epoch,
  but for one whose second half is still being sent;
* `TotalInv`: the partial sums and `value` count messages of the epoch;
* `ReceivedInv`: `count` and `landed` count and hold what the thread has received, and
  messages of later epochs are all still in flight.

`RacesAreCaught` adds `RaceInv`: the list holds what has landed and has no
conflict, since a search that finds nothing among accesses of one size means
that there is none (`SearchFindsAll`).

`ProgramsWellFormed` says in which order the synchronisation calls come: what MPI asks
(lock_all outside an epoch, unlock_all inside, the window freed last), and one
restriction of the analyzer, that a barrier outside an epoch does not follow a barrier
inside one. `from_sync` is never reset, so such a barrier starts the thread again
(`analyzer_restart.cfg`), and the next lock_all or free of the window calls
`std::terminate`. `NeverTerminated` says nothing of these programs: RmaWindows has
them, and `TerminatedOnlyOverThread` shows that they are the only ones that end so.
`UniformAccesses(s)` says that accesses have one size and do not wrap;
`access_missed.cfg` shows why. `MCRmaAnalyzer` states both for its constants as
ASSUMEs, which TLC evaluates.

### Several windows

The theorems of `RmaWindowsProofs` are about the same program text on all
processes, so the invariant says everything as a function of how far a process is
in it (`At`). `Epoch`, `Active` and `Synchronized` are what `count_epoch`,
`active_epoch` and `from_sync` of a window are after so many calls, and
`Reductions` lists the calls that end an epoch, each with its window.
`WindowsInvariant` has these parts:

* `PlacesInvariant`, without any condition: the place of each process
  (`PlaceOK`), how far apart two processes can be around the synchronising calls
  (`SyncOK`), and the state of every thread (`ThreadsOK`). The types follow from it;
* `MatchedOK`, while `Matched`: the flags of a window are the functions above
  (`StateOK`), a process has made as many reductions of a communicator as the
  program has for it (`RoundsOK`), so the r-th reduction ends the same epoch of
  the same window everywhere and its sum counts what the members sent in that
  epoch (`ReductionsOK`, `ArrayOK`); `value` is then the number of accesses sent
  to the process (`EndOK`), and no process leaves an epoch before all have closed
  it (`Together`);
* `TagsOK`, while `agreed`: a range is given to one window at a time, and windows
  of one communicator that exist together never have the same (`GivenOK`);
* `LandingOK`, while both: what has landed is what was sent in this epoch and is
  no longer in flight (`LandedOK`), and nothing is in flight for an epoch its
  target has left (`FlightOK`).

The step that joins them is `TagTells`: an access with the tag of a window's epoch
is of that window, for if the range was another window's before, that window was
freed by every member after all its accesses had landed, and if it is another
window's later, this one is freed by everyone first. Reductions are ordered by
call and then by handle (`Before`); that the number of reductions before one is the
same on all processes is where `SameOrder` and `BarriersCover` are used
(`RankUnique`, `MadeBefore`). A step that ends in `std::terminate` is treated apart
(`CrashShows`). It is a lock_all or a free of a window whose thread runs, and outside of
an epoch a thread runs only since a barrier started it again (`RunsAfterBarrier`,
`CallOverThread`): hence `ThreadsEndInOrder`. `WindowsInvariant` was
checked with TLC on the instances of the run before it was proved.

### Runtime check of collectives

The operations a process enters on the world communicator come in threes (the
reduction of the check, its broadcast, the collective), so the n-th check of one
process meets the n-th check of another (`Shape`, `Stage`), and rank 0 broadcasts a
colour only when it is the colour of everyone (`RootInv`). A process is past a
check only after rank 0 was (`Behind`), so two processes in different collectives
contradict `RootInv`, unless it has found a mismatch. `RegularOnWorld`: programs initialise
first, finalize once, and have their collectives on the communicator the check
uses (`check_comm.cfg` shows why the last is needed).

### Closures and recursive functions

Induction theorems that take an operator as a parameter cannot be used by the
provers, but a closure can be reasoned about without them. `ReachedIsLeast` exhibits
the function that maps a set to the least closed set around it, shows that it satisfies the
recursive definition, and that nothing else does: a maximal set on which
two solutions differ would have a larger one (`MaximalSet`, from the
well-foundedness of strict inclusion on finite sets). `LeastSolutionFacts` does the
same for the chaotic iteration of the pointer analysis.

### Mod/ref

`ModRefInv`: the call graph built so far is the program's (`GraphInv`), the
search is closed except at its frontier and within what main reaches
(`ReachInv`), components are finished callees first (`ComponentInv`), only frames
below are killed (`KillInv`), and sets hold those of callees that are finished, or, once
a pass changes nothing, of the component itself (`SetsInv`). `EffectsAreCovered`
then follows a path of calls with `ReachedIsLeast`. Its condition
`NoDeadStatic` is about programs without main only: there, a static
function that nothing outside the program can call, and none of the callable ones
calls, is not under the root of the call graph, and keeps only its own effects. No
execution enters it. `ProgramsAssumption`: programs are finite, and calls name
functions of the program.

### Dependence graph

The taint of the walk stays within the flow from the sources over edges that no
reset cuts (`TaintInv`): entering or leaving a function only follows edges of the
graph (`FloodWithin`, `EnterWithin`). `WalkShrinks` is the action property behind
the end of the walk: pairs of a function and the next callee to enter decrease, or
the stack does (`TurnFacts`). `ProgramsAssumption`: programs are finite and have a main function.

`EliminationKeepsData` sees the graph that is left as a quotient of the graph as
built. `Merged` says that every node has a node that stands for it (itself while
it is left, then the operand it was merged into), that

* every data edge as built joins what stands for its ends, or has become one node;
* every edge that is left is an edge as built or made of such edges, so it carries
  taint only where the graph as built does;
* all operands of a phi that is gone are now one node with it, and a node that is not a
  phi is a reset exactly when the one that stands for it is.

The flow over the merged graph is then that of the graph as built (`MergedFlow`),
and a merge keeps the relation (`MergeStep`) because equivalent operands have the
same neighbours. `ElimInv` adds that the operand list of a phi holds every
version with an edge to it. It may also hold versions that are gone, since the
code replaces only the first occurrence of a phi and no other operand; that such a phi is
never eliminated is `CanElimFacts`. The conditions are what memory SSA form gives:
`SSAForm` (versions belong to a function, a phi has at least two operands, and nothing else
defines its result) and `ResetsApart` (a version that a collective defines is told from
others by a parent, the exit chi of the call; without it a reset could be merged with a
version that is none). `MCDepGraph` states both for its programs as an ASSUME, which TLC
evaluates; among them are phis of phis, of equal operands, of themselves and of versions that
were reset.

### Pointer analysis

The steps of the solver are two operations on a graph. Merging nodes
(`collapseNodes`, from three places) and passing on the points-to set of a node
(`Propagate`) are each shown, for any graph, to keep

* `Represented`: the edges between representatives stand for every constraint;
* `Remembered`: a node whose edges do not carry its points-to set stands for a node
  of a work list or for one others were merged into;
* `JustifiedBy`: the least solution is closed under the edges and above the
  points-to sets, and the same for nodes that are merged;
* growth of the points-to sets of all nodes.

Merging forgets nothing because a cycle of nodes that all carry their points-to
sets has one and the same set (`OnlineCycleFacts`), so the merged node carries it
too; a cycle some node of which does not, has that node on a work list. This is
where hybrid cycle detection differs: what it merges need not be a cycle of copy edges
yet, so `NothingForgotten` leaves out its targets. `JustifiedBy` holds without
it. When the work lists are empty, a graph that is `Represented` and satisfied is a
solution (`SaturatedSolves`), and the least one by `JustifiedBy`: `ExactWithoutHybrid`.
`ImplementsPointsToSafely` is the refinement, step by step, without the
temporal conjunct of `PointsTo!Spec`. `PointsToSound` compares the solution with
what an execution can do (`Reads`, the closure of `Writes` and `Executed` over all
orders of the instructions): each kind of instruction only moves objects along
a constraint collected for it, so the least solution is closed under execution,
and the closure stays within it by the argument above. `ProgramsAssumption`:
constraints are about nodes of the program, and the operands of instructions, of
globals and of functions are nodes, or `NoNode` for what is no pointer, as
`ConstraintCollect.cpp` asserts. The offline cycles always contain a variable
(`OfflineCycleFacts`), because no edge joins two nodes of the kind `*p`, so that the
index the code merges into is one.

### What is only model-checked

Liveness (`Termination`, `Verdict`, the temporal part of `ImplementsPointsTo`).
`WalkComplete`, whose four conditions describe where the walk over contexts is
exact: it would need an induction over the calls of the program.
`CollLists`, `CollWarnings`, `MemorySSA` and `RmaPasses`, because
`Cfg` and `CollLists` have RECURSIVE operators, which the prover does not handle.

## Not modelled

Printing, reports, options, statistics, dot files and dumps, the wrapper and the
launcher (I/O); OpenMP, UPC and CUDA support (optional, and their runtime checks
are not built); `ConstraintOptimize.cpp` (compiled only with
`ANDERSEN_ENABLE_OPTIMIZATIONS`); the making of memory regions from points-to
sets and the table `ExtInfo.cpp`, which are inputs; the caches of `Utils.cpp`;
indirect calls and recursion in the collective lists; debugging traces of taint;
calls of the RMA analyzer that only some members of a communicator make
(`MPI_Win_lock` of one process, PSCW); the end of the thread of the last fence by
`MPI_Win_free` in RmaWindows (RmaAnalyzer has it); creating or freeing a window in the
map of states at the same time as a checking thread looks another one up, a data race
on a `std::map` that is real and has no states to model; invokes in the call graph
(`PTACallGraph.cpp:99` does not look at them either); memory models weaker than x86 for the
`volatile` counters.

## Plan

1. Proofs: `DefinedOnce` of `MemorySSA`, once `Cfg` has its recursion as functions
   and renaming does not fold over instructions.
2. An abstract specification of an epoch (a bag of accesses delivered atomically)
   and `RmaAnalyzer` as its implementation.
3. The taint of `DepGraph` as the input of `CollWarnings`.
