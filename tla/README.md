# TLA+ models of the Popcorn migration tests

This directory holds TLA+ specifications of the two multi-threaded Popcorn Linux
test harnesses in `src/heterogeneous_test_suits/simple_mt_tests/`. It also holds
the TLC configurations that model-check them and the TLAPS proofs of their main
safety properties.

## The system

| Part | Source | What it does |
|---|---|---|
| ft2c `main` | `ft2c/ft2c.c` 309-382 | Checks gettid and the two node-id arguments, allocates `pcn_thread`, initialises a 2-party barrier and creates one thread. It waits at the barrier, busy-waits on `pcn_thread->done`, joins, frees and returns. |
| ft2c `child_thread` | `ft2c/ft2c.c` 184-307 | Runs gettid and then the barrier. Next come the node and thread sanity checks, then `migrate(sink)` with its error switch, gettid at the sink, and `migrate(source)`, whose result is ignored. Last are the tid round-trip check and the final node check, which decides PASSED. Every path ends with `done = 1`. |
| tnd `main` | `threads_never_die/tnd.c` 307-390 | Like ft2c, plus a thread count. `__init_thread_params` allocates N structs and a barrier for `nthreads+1`. main creates the threads one by one and waits at the barrier. It then spins on `gcount`, waits at the barrier again, spins on `all_done`, and joins. |
| tnd `child_thread` | `threads_never_die/tnd.c` 203-305 | Runs gettid and one node check (which writes `arch_types[src]` and `arch_types[snk]`), then loops forever: out to the sink, gettid, back to the source, `sleep(1)`. Every failure sets `err` and `done`, runs `all_done++` with no lock, and returns. |
| Popcorn kernel | external (`platform.h`) | `migrate`, `popcorn_getnodeinfo`, `popcorn_getthreadinfo` and `gettid`. |

The threads of one process interact through shared memory only:
- the barrier;
- the `done` flag (ft2c) and the `all_done` and `gcount` counters (tnd);
- the thread structures that main allocates, reads after the join, and frees.

The kernel is the environment. It decides every syscall result, and a node can go
offline or come back at any moment.

`spec.md` describes an abstract coordinator that these harnesses approximate:
NodeRegistry, MigrationClient, TravelingTask, Coordinator and Verifier. Here is
how its parts map onto the code:
- The sanity checks are the NodeRegistry and the Verifier.
- `migrate` plus its error switch is the MigrationClient.
- `child_thread` is the TravelingTask.
- `main` is the Coordinator.

## Modules

* **`Ft2c.tla`** models ft2c.
  - **State.** `pc` is a program counter per thread (`"main"`, `"child"`). The fields of `pcn_thread` are `srcNode`, `snkNode`, `done` and `sourceTid`. `arrived` is the barrier. Main's own state is `freed` (after `free`) and `exitCode`. The kernel's state is `loc` (the thread's node) and `online`. The history variables are `trail` (the destinations of the migrations that succeeded) and `childOut` (the verdict the child printed).
  - **Kernel contract.** `MigrateResults` translates the contract comment on `migrate` (lines 41-50). A destination outside the cluster gives EINVAL. The current node gives EBUSY. An offline node gives EAGAIN. Otherwise the call succeeds or gives another error (EIO). `NodeSanityOutcomes` and `ThreadSanityOutcomes` give either a failed query or the true answer of the comparisons the functions make.
  - **Actions.** There is one action per straight-line segment of the code between two points where another thread can observe it, such as `MainStart`, `MainCreate`, `ChildMigrateOut` and `ChildFinalCheck`. `NodeFlip` changes a node's liveness while the child is alive. `Terminated` is the stuttering state after main returns.
  - **Crash.** With `argc < 3`, `atoi(NULL)` crashes. This is modelled as exit status `SEGV`.
  - **`CreateMayFail`.** This constant adds the failure of the unchecked `pthread_create`.
  - **`SpinHoisted`.** This constant picks the build. `while(!pcn_thread->done);` reads a plain int that the child writes with no synchronisation. That is a data race, so the compiler may load `done` once. With `SpinHoisted = TRUE`, a spin that reads 0 moves main to `"m_hang"`, where it loops for ever. The passing runs use `FALSE`, the build in which every iteration reloads `done`.
  - **`TidWrittenBeforeRead`.** This property records the read of `pcn_thread->tid` after the join (line 370). The child writes the field only when its first gettid succeeded (line 201).
  - **Refinement.** `TaskState` maps the child's program counter, `done` and verdict to the states of `TravelingTask`:
    - `c_checktid` and `c_threadsanity` map to Verifying;
    - the done check maps to VerifyingRemote, or to Failed when the hop failed;
    - the return hop maps to MigratingBack;
    - the final check maps to VerifyingBack;
    - the end maps to Passed or Failed, by the printed verdict.

    `srcNode`, `snkNode`, `loc` and `trail` map to the task's nodes, location and hops. `TaskRefinement == Task!Spec` is checked as a property.
* **`TravelingTask.tla`** is the abstract task of spec.md 4.3. It has no threads, barriers or kernel queries.
  - Assign: the coordinator sets the two nodes.
  - Start: the task starts only if the two nodes differ.
  - Verified.
  - HopOut: the task lands on the sink, a node it was not on.
  - IdentityKept.
  - HopBack: the task either returns to the source or stays where it is.
  - Pass: only on the source node.
  - Fail: from any state that is not final.
* **`Tnd.tla`** models tnd in the same style.
  - **Processes.** main is `-1` and the threads are `0..MaxThreads-1`. `nthreads` is read from the arguments.
  - **Barrier.** Only main ever calls `pthread_barrier_wait`. A barrier round of `nthreads+1` therefore completes only when `nthreads = 0`. Otherwise main waits at `"m_bwait"` forever.
  - **`all_done++`.** It is two actions, `ThreadIncLoad` and `ThreadIncStore`, so other threads can interleave between the load and the store.
  - **Recorded state.** `archIdx` records which indices of `arch_types` a thread touches. `firstErr` records the first failed migration of a thread.
  - **`pthread_create`.** Its result is not checked (line 363). `MainCreate` lets it fail: the thread then stays at `"t_none"` and main goes on with the next one.
  - **`gcount`.** It is a constant 0: it is set at line 318 and never written again.
  - **`__init_thread_params`.** It is one action, `MainInit`. With at least one thread it has three outcomes:
    - the unchecked `malloc` returns NULL, and the first `posix_memalign` stores through it: `SEGV`;
    - `posix_memalign` fails: `ENOMEM`;
    - success.
* **`MC_Ft2c.tla` and `MC_Tnd.tla`** give the constants values for TLC.
* **`Ft2cProofs.tla`** and **`TndProofs.tla`** hold the TLAPS proofs about `Ft2c` and `Tnd`.

## Runs

| Run | cfg | Expect | What it shows |
|---|---|---|---|
| ft2c_safety | MC_Ft2c.cfg | pass | `TypeOK`. `RoundTripBeforePass`: PASSED is printed only after the out-and-back trip, with the thread on its source node. `SpinEndsAfterVerdict`: when main leaves its spin on `done` (and after it frees the struct), the child's verdict is decided. This holds because every path of `child_thread` sets `done` only once its verdict is fixed; the failed outbound migrate sets `done` before the reread at line 241, and that state already counts as Failed. `Termination`: the test ends under weak fairness of the two threads. `TaskRefinement`: the child implements `TravelingTask`. |
| ft2c_exitcode | MC_Ft2c_exit.cfg | violation | `ExitZeroOnlyIfPassed` fails. `pthread_join` writes into `errno_ptr`, so main returns 0 even when the child failed. |
| ft2c_create_fail | MC_Ft2c_create.cfg | violation | `Termination` fails when `pthread_create` fails. main waits in the barrier forever. |
| ft2c_spin_hoisted | MC_Ft2c_spin.cfg | violation | `Termination` fails in the build that hoists the load of `done`. main spins for ever after the child has finished. |
| ft2c_tid | MC_Ft2c_tid.cfg | violation | `TidWrittenBeforeRead` fails. After a failed first gettid, main reads the `tid` field that nobody wrote. |
| tnd_safety | MC_Tnd.cfg | pass | `TypeOK`. `DoneCarriesError`: a finished thread always has a non-zero `err`. `VerdictFinal` (an action property): once a thread has set `done`, `done` stays 1 and `err` never changes. `ThreadWhereExpected`: a thread is on the sink for its sink gettid and its return migrate, and starts each outbound migrate from the source or the sink. `AllDoneBounded`: the racy `all_done` never exceeds the number of failed threads. `ThreadProgress`: every started thread either stops or reaches the sink. |
| tnd_report | MC_Tnd_report.cfg | violation | `MainReports` fails. With at least one thread, main never returns, even after every thread has failed. |
| tnd_alldone | MC_Tnd_alldone.cfg | violation | `AllDoneCounts` fails because two concurrent failures lose an increment. |
| tnd_arch | MC_Tnd_arch.cfg | violation | `ArchIndexInBounds` fails. Node id 2 passes main's check, and `node_sanity_check` writes `arch_types[2]`. `arch_types` is the last member of `struct thread`, so the write goes past the end of the allocation. |
| tnd_error_report | MC_Tnd_err.cfg | violation | `FailureReported` fails. A failed return hop is reported as the EBUSY of the next outbound hop. |
| tnd_alloc | MC_Tnd_alloc.cfg | violation | `InitFailureReported` fails. A NULL from the unchecked `malloc` crashes main, while spec.md 6 asks for a reported ResourceError. |
| tnd_start_barrier | MC_Tnd_barrier.cfg | violation | `StartBarrierRespected` fails. The threads start before main reaches `barrier_start`. |

**Bounds.**
- Node ids are 0..2 (`MAX_POPCORN_NODES = 3`) and the cluster is {0,1}. Node 2 is accepted by main but absent from the cluster, so every `migrate` error class is reachable. The arguments {-1,0,1,2,3} exercise every branch of main's check.
- The tids are {-1, 7} in tnd and {-1, 7, 8} in ft2c. In ft2c this lets the round-trip tid comparison fail.
- tnd runs with 0, 1 and 2 threads. Two threads are the fewest that can race on `all_done`. 0 is the only count with which main returns.
- Node liveness changes without bound, because `online` is a finite function. The endless loop of tnd is finite-state for the same reason.

**Deadlock checking.**
- The tnd runs turn deadlock checking off (`CHECK_DEADLOCK FALSE`). The program really stops there: main stays in `pthread_barrier_wait` after the threads have gone, and `tnd_report` states this as a property.
- `ft2c_create_fail` turns it off for the same reason.

**Fairness.** Each thread has weak fairness. POSIX threads that are not blocked are eventually scheduled, and the busy-wait loops are modelled as steps that loop in place, so they are never blocked. The kernel (`NodeFlip`) gets no fairness, because a node may stay offline forever.

**Mutants.** Each property of the passing runs is shown to catch a plausible bug in the code it is about:
- an off-by-one in the node-id check;
- the spin written `while(pcn_thread->done);`, which leaves as soon as it reads 0 (it breaks `SpinEndsAfterVerdict`);
- a final check that ignores the node;
- a pass path that never sets `done`;
- a sink-tid failure that leaves `err` at 0;
- a failure path that never sets `done`;
- a retry on EAGAIN;
- a done check that does not return when `done` is set (it breaks `TaskRefinement`: the child goes on to migrate back after a failed hop);
- in tnd, a failed outbound migrate that falls through the done check on line 265 and goes on to the sink gettid (it breaks `VerdictFinal`);
- in tnd, a thread that never checks its node before it migrates out (it breaks `ThreadWhereExpected`).

## Proofs

### `Ft2cProofs.tla`

These results hold for every `MAX_POPCORN_NODES`, cluster, argument set and tid set allowed by `ConstAssumption`:
- `TypeCorrect`: `Spec => []TypeOK`.
- `RoundTrip`: `Spec => []RoundTripBeforePass`.
- `SpinEndsAfterVerdictThm`: `Spec => []SpinEndsAfterVerdict`.
- `Refinement`: `Spec => TaskRefinement`, i.e. `Ft2c` implements `TravelingTask`.

`RoundTripBeforePass` is not inductive on its own. The inductive invariant `IInv` strengthens it by linking each of the child's program points to the history of its migrations:
- before the outbound hop, `trail = <<>>` and `done = 0`;
- at the done check, either the hop failed (`done = 1`, nothing migrated) or the thread is at the sink with `trail = <<snk>>`;
- after the return hop, the thread is either back at the source with `trail = <<snk, src>>` or still stranded at the sink. The final node check tells these two apart.

`IInv` also records these facts:
- while main is before `pthread_create`, no child exists;
- `srcNode # snkNode` holds once the arguments are accepted;
- a PASSED verdict implies the child has returned;
- after `free`, the child has returned;
- `done = 1` only at the done check (after a failed hop) or after the child has returned;
- main at the join implies `done = 1`.

`SpinEndsAfterVerdict` follows from the last three facts and the definition of `TaskState`. TLC checks `IInv` as an invariant of `MC_Ft2c`.

The proof is structured as follows:
- `Init => IInv`;
- `IInv /\ [Next]_vars => IInv'`, with one step per action;
- the lemma `MigrateSuccess`: a `migrate` that succeeds went to an online node of the cluster other than the current one.

The refinement proof has two lemmas:
- `TaskInit`: `Init` maps to an initial state of `TravelingTask`.
- `TaskStep`: under `IInv`, every step maps to a step of `TravelingTask` or to a stutter.
  - Main's first two steps map to Assign.
  - The barrier maps to Start.
  - A successful `migrate` maps to HopOut. Its destination is the sink and differs from the current node, by `MigrateSuccess`.
  - The ignored return `migrate` maps to HopBack.
  - Every failure maps to Fail.
  - All other steps are stutters.
  - `IInv` supplies the facts the mapping needs: `srcNode # snkNode`, and `trail` and `loc` at each program point.

### `TndProofs.tla`

These results hold for every node count, cluster, argument set, tid set and thread-count set allowed by `ConstAssumption`, so for any number of threads:
- `TypeCorrect`: `Spec => []TypeOK`.
- `DoneCarriesErrorThm`: `Spec => []DoneCarriesError`.
- `AllDoneBoundedThm`: `Spec => []AllDoneBounded`.
- `VerdictFinalThm`: `Spec => VerdictFinal`, the action property `[][\A t : done[t] = 1 => done'[t] = 1 /\ err'[t] = err[t]]_vars`.
- `ThreadWhereExpectedThm`: `Spec => []ThreadWhereExpected`.

`AllDoneBounded` is not inductive. A store `all_done = reg + 1` is safe only if `reg` was loaded when fewer threads had returned. The inductive invariant `IInv` therefore bounds `all_done`, and the register of every thread between its load and its store, by the number of threads at `"t_exit"` (`Exited`). It also records these facts:
- the threads at `"t_inc_load"`, `"t_inc_store"` and `"t_exit"` have `done = 1` and a non-zero `err`; all others have `done = 0`;
- main's loop creates threads in index order, so no thread at or past `created` has started.

A thread's store raises `all_done` to at most `Exited + 1`, and in the same step `Exited` grows by one (`ExitedAdd`). `Exited` is a subset of the threads with `done = 1`, which gives `AllDoneBounded` by `FS_Subset`. TLC checks `IInv` as an invariant of `MC_Tnd`.

The proof of the step has one lemma for main and the cluster, one for `MainCreate`, and one for the thread actions. The thread lemma rests on a frame lemma: a step changes only thread `t`'s entries.

`VerdictFinalThm` follows from `IInv` in one step (`VerdictStep`). A thread with `done = 1` is at a `Failing` label, so its only actions are the load and the store of `all_done++`, which leave `done` and `err` alone (`FailedThreadStep`). Any other thread writes only its own entries (`ThreadFrame`).

`ThreadWhereExpected` is inductive together with `IInv`:
- `MainStart` is the only step that sets the two nodes. It runs while `created = 0`, so every thread is still at `"t_none"`.
- The node check passes only on the source (`NodeSanityResults`).
- A successful outbound migrate lands on the sink.
- The return migrate lands on the source or stays on the sink.
- No thread moves another (`ThreadFrameLoc`).

These properties are only model-checked:
- `Termination`, `ThreadProgress` and `MainReports`: TLAPS cannot check liveness under fairness;
- the properties of the violation runs (`ExitZeroOnlyIfPassed`, `TidWrittenBeforeRead`, `AllDoneCounts`, `ArchIndexInBounds`, `FailureReported`, `StartBarrierRespected`, `InitFailureReported`): TLC finds counterexamples to them, so there is nothing to prove.

## Not modelled

- **The kernel's migration mechanism.** It is outside the repository; only its contract is modelled.
- **Messages, the `arch_sz` table and the `REMOTE_PRINT` block** (which is off by default).
- **Compiler hoisting in tnd's spins** on `gcount` and `all_done`. main reaches them only when `nthreads = 0` (otherwise it blocks at the barrier), and then neither loop iterates, so hoisting would change nothing. In ft2c it is the `SpinHoisted` build.
- **Negative thread counts and unchecked `pthread_barrier_init` failures in tnd.** These make `malloc` and the barrier behave in undefined ways. They are listed as hazards in `PROJECT.json`. spec.md states no bound on the thread count that a property could check.

## Plan for later work

- **A shared kernel contract.** Factor the `migrate` contract into one module that both harness modules use.
- **A refinement of tnd.** tnd's threads loop for ever, so a refinement needs an abstract task that repeats its round trip. The looping variant in spec §4.3 repeats steps 2–5, and step 5 is the identity check that tnd skips. An abstract task written from the spec would therefore not be refined by the code. This is the same gap as the `tnd_error_report` finding.
- **Larger instances.** Run tnd with three threads in a run of its own once its state space has been measured.
