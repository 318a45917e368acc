# TLA+ models of PIConGPU / libPMacc (alpaka port)

This directory holds TLA+ models of the concurrent and distributed parts of
the code under `src/`, the TLC configurations that check them, and
`PROJECT.json`. That file maps every model definition to the source lines it
translates and lists the runs, mutants, findings and hazards.

## The system and its parts

| Part | Source | Concurrency | Model |
|---|---|---|---|
| Ionization kernel | `picongpu/include/particles/ionization/ionization.hpp` | threads of a GPU block; `syncBlockThreads` barriers; an atomic add on a shared counter | `IonizeKernel` |
| Electron write functor | `particles/ionization/ionizationMethods.hpp` | per-thread write of one slot | part of `IonizeKernel` (the slot and the momentum split) |
| Event system | `libPMacc/include/eventSystem/tasks/StreamTask.hpp`, `TaskCopyDeviceToHost.hpp` (the TaskManager, EventTask, EventPool and transactions are described in `spec.md`) | one host thread and several device streams running concurrently | `EventSystem` |
| Particle communication | `libPMacc/include/particles/ParticlesBase.tpp` (`asyncCommunication`) | two transactions on the event system | action of `EventSystem` |
| Species functors | `picongpu/include/particles/ParticlesFunctors.hpp` (`CallUpdate`, `CallIonization`) | push plus communication in a transaction; the ionization kernel launch | `EventSystem`, `IonizeKernel` |
| Slice gather | `picongpu/include/plugins/output/GatherSlice.hpp` | MPI collectives over all ranks | `GatherSlice` (`init`, `operator()`) |
| Energy plugin | `picongpu/include/plugins/EnergyParticles.hpp` | block reduction with shared memory and atomics; MPI reduce | `EnergyKernel` (kernel), `EnergyPlugin` (host lifecycle) |
| Yee field solver | `picongpu/include/fields/MaxwellSolver/Yee/YeeSolver.hpp`, `fields/FieldB.tpp` (`asyncCommunication`) | kernels and halo exchange overlapped through transactions | `YeeStep` |
| Field guard setup | `fields/FieldB.tpp` (constructor, lines 60-106) | none; compile-time margins | `FieldGuard` |
| Vector index arithmetic | `libPMacc/include/math/vector/Vector.hpp` (`revert`, `shrink`, `productOfComponents`, `linearize`, component-wise and scalar `+ - * / %`, unary `-`, `==`, `!=`, `>=`, `dot`, `abs2`, alpaka traits) | none; pure | `VectorIndex` |
| Field plumbing, math, buffers, headers | rest of `FieldB.tpp`, `cellwiseOperation.hpp`, the rest of `Vector.hpp`, `Float.hpp`, `trigo.hpp`, `HostBuffer.hpp`, `Frame.hpp`, allocator, `ColorHeader.hpp`, mallocMC | none of their own | not modelled (see below) |

How they interact:
- Each time step, the host drives the species through the functors. `CallUpdate`
  issues the push inside a transaction and starts `asyncCommunication` on that
  transaction's event. `CallIonization` launches `KernelIonizeParticles` and
  then `fillAllGaps`.
- Every task runs on an EventStream. Its completion is an event taken from a
  pool. Handles (`EventTask`) are sets of task ids. The TaskManager polls the
  tasks and collects the finished ones.
- Output plugins such as `GatherSlice` run their MPI collectives on all ranks.

## Modules

### `IonizeKernel`: one block of `KernelIonizeParticles` (ionization.hpp:61-318)

The kernel's state becomes the model's variables:
- Shared memory: `ionFrame`, `isValid`, `newFrameFillLvl` and `electronFrame`.
- Per-thread registers: `isParticle`, `newMacroElectrons`, `electronId` and
  `oldFrameFillLvl`.
- Frames reserved by `getEmptyFrame`: `eFrames`.
- Output: `written`, the set of `<<frame, slot>>` pairs an electron was
  written to. `requested` is a history variable that counts the electrons
  the ionizer asked for.
- Momentum: `ionMomentum` of every ion `<<frame, thread>>`, and `eWrites`,
  the electrons written, each with its slot, parent and momentum.

The code between two `syncBlockThreads` calls is one action of a thread. The
actions are:

| Action | Lines |
|---|---|
| `Setup` | 133-140 |
| `Valid` | 142-147 |
| `MasterInit` | 149-175 |
| `LoopHead` | 183-187 |
| `Ionize` | 189-197 |
| `RoundInit` | 214-216 |
| `Add` | 223-226 |
| `Exit` | 229-232 |
| `First` | 238-246 |
| `Create1` | 252-266 |
| `Second` | 274-283 |
| `Create2` | 290-307 |
| `NextFrame` | 311-316 |

Each action ends with `Arrive`. `Barrier` is the barrier itself: it releases
the block only when every thread waits at the same barrier.

The ionizer (`frameIonizer`) is a nondeterministic number of new electrons,
0..`MaxNewElectrons`, for each thread that holds an ion. The ion frames are
1..`numIonFrames`. Every frame but the last is full, and `lastMask` gives the
threads of the last frame.

`WriteElectron` (lines 252-266) calls `WriteElectronIntoFrame`
(`ionizationMethods.hpp:46-83`). The electron takes the share
`massElectron/massIon` of its parent's current momentum, and the parent
loses it. The model fixes the weighting at 1 or more, so both masses are
positive and their ratio does not depend on it. The ratio is 1/2 and every
ion starts with momentum `2^MaxNewElectrons`, so every share is an exact
integer. No property is stated about the momenta: each ion is written
only by its own thread and the parent loses exactly the share the electron
gets, so their sum is conserved by construction. The copy of the other
attributes is not modelled.

Run `ionize_kernel` uses 3 threads (so the frame size is 3), up to 2 ion
frames and up to 2 electrons per call. In one round each thread takes at
most one id, so up to 3 ids are handed out per round and up to 6 per ion
frame, two frames' worth. So the counter reaches exactly the frame size
inside a round, crosses a frame boundary within one ion frame, and carries
over between ion frames. It checks five properties:
- barriers never diverge;
- no slot is written twice;
- every write lands in a reserved frame and inside it;
- when the block ends, every requested electron has been created;
- frames are packed for `fillAllGaps`.

It explores 2,808,752 distinct states in about 45 seconds. Deadlock is checked: a divergent barrier
shows as a deadlock.

### `EventSystem`: tasks, streams, pooled events, transactions

**Host actions:**

| Action | Code it models |
|---|---|
| `Submit` | a factory call creating a stream task |
| `StartTransaction` / `EndTransaction` | the transaction calls |
| `AsyncCommunication` | `ParticlesBase.tpp:128-140` |
| `CallUpdate` | `ParticlesFunctors.hpp:129-156` |
| `Poll` | the TaskManager collecting a finished task; the destructor notifies its observers (`TaskCopyDeviceToHost.hpp:52-61`) |
| `Wait` / `WaitSpin` / `WaitReturn` | `EventTask::waitForFinished` polling |

**Device actions**, one set per stream, executed in order:
- `DeviceWait` blocks the stream until another task's event is recorded.
- `DeviceWork` runs a task's work.
- `DeviceRecord` records a task's event.

`InitTask` is the copy followed by `activate()`
(`TaskCopyDeviceToHost.hpp:72-85`). `TaskFinished` queries the task's own
pooled event (`StreamTask::isFinished`). `AcquireEvents` resets an event
when it is taken from the pool. The device actions model CUDA/alpaka stream
semantics, not repository code, and have no map entry.

Runs:
- **`es_safety`**: two streams, two events for three tasks (so an event is
  reused while a handle still names its old task), two handles and one level
  of transactions, with symmetry over streams, events and handles. It checks:
  - dependencies are respected across streams;
  - `NoPhantomCompletion`: a recycled event never reports a stale
    completion, and a task is never reported finished before its copy
    (the work item) has executed. A reader that waits for a
    `TaskCopyDeviceToHost` therefore sees the data together with the size
    `init()` set at once (line 75). The mutant `InitTaskActivateFirst`
    calls `activate()` before it issues the copy;
  - `StreamInOrder`: tasks of one stream are reported finished in the
    order they were created (spec section 8), also through recycled
    events. The mutant `SpawnReversed` submits the tasks of one call in
    reverse order;
  - a finished handle stays finished (an action property).

  133,454 distinct states.
- **`es_callupdate`**: three events, so that `CallUpdate`'s three tasks fit
  in the pool. It checks that the push precedes the communication.
- **`es_liveness`**: one handle and no symmetry, because symmetry is unsound
  with liveness. It checks that every task is eventually collected. It
  also checks `TaskGraphRefined`: `EventSystem` implements the abstract
  specification `TaskGraph`, fairness included (see below).

Fairness is weak fairness on each stream's actions, on `Poll` of each task
and on `WaitReturn`. A stream runs its submitted work to completion, the
TaskManager polls every registered task on each pass, and the wait loop
re-checks its handle. `WaitSpin` models the host polling, so a task that
never finishes shows as a liveness violation, not a deadlock.

### `TaskGraph`: what the event system promises, and the refinement

`TaskGraph` states the event system's contract in the terms of `spec.md`,
without streams, pooled events or the registry:
- the host issues tasks, each depending only on tasks issued before it;
- a task completes only after all its dependencies have completed;
- `waitForFinished` returns only when every task of the handle has
  completed;
- under weak fairness every issued task completes and every wait returns.

`EventSystem` maps onto it through `TG == INSTANCE TaskGraph WITH ...`:
- a task is issued once it is registered (`tstate # "None"`);
- it has completed once its event record has run on its stream
  (`recorded`);
- handles and the wait are the same variables.

Collecting a task (`Poll`), the waits, work items and event records on the
streams, and the pool are hidden: they are stuttering steps of the abstract
spec. The property `TaskGraphRefined == TG!Spec` is checked in
`es_liveness`. Its mutant hands out a pooled event without resetting it.
The new task then reads as finished before its record has run, so a wait
returns too early.

### `GatherSlice`: `GatherSlice::init` (GatherSlice.hpp:56-98)

Each rank keeps `mpiRank`, `numRanks`, `isMPICommInitialized`, its
communicator's members (`comm`) and the group it passed to
`MPI_Group_incl`. `init` is collective over `MPI_COMM_WORLD`, so one call
on all ranks is one action, `InitCall(active)`. Inside it:
- `NumRanksBefore` is the reset done only `if (isMPICommInitialized)`
  (lines 59-62);
- `GroupRanks` is the loop that appends the Allgathered valid ranks at
  index `numRanks` (lines 73-80);
- `CommRank` is `MPI_Comm_rank` in the new communicator;
- `ResetBuffer` is the rest of that `reset()` (lines 199-212): a rank
  that was in the old communicator deletes `fullData` and
  `filteredData`, so its next gather allocates them afresh.

Runs:
- **`gather_init`**: one init over 7 ranks, with every subset active,
  then up to two gathers (173 states). It checks that exactly the lowest
  active rank becomes master, and `ImageExact` (below).
- **`gather_reinit_master`** (violation): two inits over 3 ranks. A rank
  that sat out the first init keeps its `numRanks`. On the second init it
  pads its group with zeros, and if active it takes a shifted communicator
  rank. After `init({0})` and `init({1})` no rank returns true.
- **`gather_reinit_bounds`** (violation): the same stale `numRanks` makes
  `groupRanks[numRanks]` (line 77) write past its `countRanks` entries.

All GatherSlice runs set `CHECK_DEADLOCK FALSE`: the only step is a call of
`init`, and a plugin legitimately stops calling it, which here means the
bound `MaxInits` has been reached.

### `EnergyKernel`: `KernelEnergyParticles` (EnergyParticles.hpp:55-166)

The model has several blocks, each with its own threads, barrier and
shared sums. The blocks meet only in the master's atomic add to `gEnergy`.
A particle's energy is abstracted to the particle itself, `<<block, frame,
slot>>`, so every sum is a bag and an atomic add is bag union. A particle
counted twice, or an empty slot that is counted, therefore shows in the
bag. Kinetic and total energy take identical paths and share one bag.

The actions are:

| Action | Lines | What it does |
|---|---|---|
| `Setup` | 68-94 | zeroes the sums; the master takes the last frame |
| `Start` | 95-141 | returns if there is no frame; otherwise reads the multiMask of the last frame and sums its particle |
| `Next_` | 143-150 | the master steps to the previous frame; `isParticle = true` |
| `Head` | 104-157 | runs the loop body again, or does the atomic add to the shared sums |
| `Global` | 159-165 | the master's atomic add to `gEnergy` |

Each action ends at a barrier, as in `IonizeKernel`.

Every frame before the last is full, which is what `fillAllGaps` provides.

Run `energy_kernel` uses 2 blocks of 2 threads with up to 2 frames each,
with symmetry over the blocks. It explores 14,196 states and checks:
- barriers never diverge;
- shared and global sums never hold a particle twice or an empty slot;
- at the end, `gEnergy` is exactly the bag of all particles.

### `YeeStep`: the field update through transactions (YeeSolver.hpp:119-145)

`Program` is the sequence of operations that `update_beforeCurrent` and
`update_afterCurrent` issue:
- kernels (`updateBHalf`, `updateE`, `absorbBorder`, the laser), each with
  the field regions (CORE, BORDER, GUARD of E and B) it reads and writes;
- the field's `asyncCommunication`, whose receive writes the GUARD and
  whose send reads the BORDER;
- `__setTransactionEvent`.

The host actions follow the transaction rules of `spec.md` 4.4:
- **`LaunchKernel`**: the new task depends on the accumulated transaction
  event and is added to it.
- **`AsyncCommunication`**: the receive and send depend on the event they
  are given. The union of that event with the two tasks goes into the
  caller's `eRfieldB`/`eRfieldE`.
- **`SetTransactionEvent`**: adds the handle to the accumulated event.

On the device, a task may `Start` as soon as everything it depends on has
finished, on any stream. This is an over-approximation of the streams: it
only adds concurrency. Run `yee_step` issues three steps with the laser on (4,855 states)
and checks that a task conflicting with an earlier one starts only after
that one has finished. The mutant that adds `eRfieldB` to the transaction
after `updateE<BORDER>` breaks it.

### `GatherSlice::operator()` (GatherSlice.hpp:100-195)

`Gather` is one collective call of `operator()` on the ranks of the
communicator `init` built. `Members` lists them in communicator-rank order.
Each member sends a header with its slice size (`Size`, a constant per rank)
and its data; the cell `j` of rank `r` at call `k` is the token `Cell(r, j, k)`.
The action follows the code in order:
- the master gathers the headers and computes `counts` and `displs`
  (lines 121-133);
- it allocates `fullData` of `SimSize` elements, filled with `Garbage`, if
  it is still NULL (lines 137-141);
- `MPI_Gatherv` writes each member's data at its displacement;
- the master fills `filteredData` by reading each member's cells back at
  their displacement (lines 150-180). `Read` returns `Garbage` for an index
  past the buffer.

The guard `sum of counts = SimSize` is the caller's contract: the active
ranks tile the slice. Run `gather_init` also checks `ImageExact`: after any
sequence of inits and gathers, the master's image holds, for every cell,
the value its owner sent in one and the same gather. The bounds are 7 ranks
with slice sizes alternating 1 and 2, one init with every subset of active
ranks, `SimSize` 4 and two gathers. Unequal sizes are
needed, because with equal sizes a displacement built from the wrong header
is still right. Two gathers are needed so that data of an older call could
show.

### `EnergyPlugin`: the plugin on every rank (EnergyParticles.hpp:169-361)

The state per rank is its `pc`, `writeToFile`, whether `gEnergy` is
allocated, and the device and host copies of `gEnergy`. The shared state is
the notify step `now`, the writer's output file, and the checkpointed copy
of it. The energy of rank `r` at step `s` is the token `<<r, s>>`, and a
sum is a bag, as in `EnergyKernel`.

| Action | Lines | What it does |
|---|---|---|
| `Load` | 244-274 | allocates `gEnergy`; the reduce root opens (truncates) the file, or disables writing if that fails |
| `Restart` | 296-305 | a writing rank restores the file from the checkpoint, or disables writing if that fails |
| `Calculate` | 320-337 | `setValue(0)`, the kernel, `deviceToHost` (one transaction chain, waited for) |
| `Reduce` | 339-359 | the `MPI_Reduce` of all ranks; the writer appends a line |
| `Checkpoint` | 307-316 | copies the file into the checkpoint |
| `Unload` | 277-294 | frees `gEnergy` after the last step |
| `Crash` | (environment) | the whole program dies and restarts with `--restart` from the last checkpoint; only files survive |

Whether a file operation succeeds is a nondeterministic choice. A restore
can only succeed if the checkpoint holds a file. Run `energy_plugin` (2
ranks, `Freq` 1, steps 0..2, one crash) checks two properties:
- **`LinesExact`**: every line holds exactly the energy of all ranks at its
  step;
- **`FileInOrder`**: while the writer writes, its file has exactly one line
  per notified step before `now`, across a crash and restart.

The `partial_failure` hazard at line 257 is not covered, and the reason is
in `PROJECT.json`. `pluginLoad` truncates the file before `restart` tries to
restore it, so a failed restore leaves the earlier output lost. The
property needs `writeToFile`, so it says nothing once writing is disabled.

### `FieldGuard`: the guards of FieldB (FieldB.tpp:60-106)

The interpolation margins of every species and the solver margin for
`FIELD_B` are compile-time traits. Every combination of margins in
`0..MaxMargin` is therefore an initial state, and `Construct` is the
constructor:
- it accumulates `CT::max` from zero to get `originGuard` and `endGuard`;
- it calls `addExchange` for every direction but ZERO, choosing the lower
  or upper guard per dimension.

Run `field_guard` (2 species, 2D, margins 0..1, 8192 states) checks only
the type invariant: every guard stays within the margins' range (the
mutant `VecAdd` adds margins instead of taking their maximum). A property
that the guard equals the widest reach on each side would restate line 102
and is not stated; the choice of margins is a compile-time expression with
no interleaving or state of its own.

### `VectorIndex`: PMacc vectors handed to alpaka (Vector.hpp)

Pure operators: `Revert`, `Shrink`, `ProductOfComponents`, `Linearize2`,
`Linearize3`, the component-wise operators (`ElementWise` over `Combine`)
and the scalar ones (`ScalarCombine`, `TimesScalar`, `DivScalar`), unary
`Negate`, `Dot` and `Abs2` (both a loop that starts from the x component,
`ProductSumFrom`), and the alpaka `GetExtent`/`GetOffset`/`SetExtent`/
`SetOffset` traits. The operators are defined from the code; the
properties below exercise the linearization, the component-wise `-`, the
scalar `*`, unary `-`, `dot` and `abs2`. Comparison, `/`, `%` and the
`Set` traits are not checked by a property: what could be said of them
(the C division identity, `==` against `>=`, the set/get round trip) follows
from their definitions.
They are checked against `AlpakaLinear`, a row-major reference in which
alpaka's last dimension runs fastest. Init enumerates every 3D size in
`1..3` per dimension and every position inside it (216 states). Run
`vector_index` checks three properties:
- **`LinearizeMatchesAlpaka`**: PMacc's `linearize` and alpaka's index of
  the reversed extent and offset agree, in 3D and in the 2D shrink;
- **`LinearizeDense`**: `linearize` is a bijection onto
  `0..productOfComponents-1`;
- **`DotMatchesReference`**: `dot` equals the reference sum of the
  component products (`FoldFunction` over the whole domain); `abs2(a)` is
  `dot(a, a)`; negation keeps `abs2`; a scalar factor comes out of `dot`.
  The mutant `DotFromZero` starts the loop at 0, counting x twice.

## Mutants

Every property of a passing run has a mutant in `PROJECT.json`. Each mutant
is an operator defined next to the definition it replaces, named for the
plausible bug it introduces, for example `AddOffByOne`,
`AcquireEventsNoReset` or `CommRankOneBased`. TLC finds the property
violated with the mutant in place.

## What is not modelled and why

- **Not modelled, because the code they depend on is not under `src/`:**
  - `fillAllGaps`, and the delete, bash and insert particle kernels
    (`ParticlesBase.tpp:37-126`). Only their host-side launches are in the
    repository; what the kernels do to the frame lists, and the transport
    tasks that call them, are not.
  - `cellwiseOperation`. Its global-cell offset (lines 111-119) is only
    right or wrong relative to the index convention of
    `AreaMapping::getSuperCellIndex`, which is not in the repository.
  - the current deposition between the two Yee halves.
  - the species lifecycle functors (`AssignNull`, `CreateSpecies`,
    `CallInit`, `CallReset`, `CallDelete`). Each is one call on one
    pointer; their order is fixed by the simulation driver, which is not
    in the repository.
- **The event-system core** (TaskManager, EventTask, EventPool,
  transactions) is not under `src/`. It is modelled from `spec.md` and
  marked `spec_modelled` in the map.
- **Abstracted:**
  - floating-point weighting and mass in `WriteElectronIntoFrame`: the
    model assumes a weighting of at least 1. The uint32 conversion at
    line 59 is a listed hazard.
  - buffer sizes and contents of `TaskCopyDeviceToHost`: a copy is one
    work item. The size set at line 75 is a listed hazard, covered by
    `NoPhantomCompletion` for readers that wait for the task.
- **Not modelled:**
  - the stencils of the field solvers (`updateE`, `updateBHalf`):
    floating-point arithmetic. Only their regions are modelled, in
    `YeeStep`.
  - `Frame.hpp`: compile-time type composition, no runtime state.
  - `Float.hpp`, `trigo.hpp`, the floating-point and formatting parts of
    `Vector.hpp` (`abs`, `floor`, `toString`), `HostBuffer`, the allocator
    and `ColorHeader`: no control or state of their own, or formatting
    only.
  - mallocMC's no-op policy: third-party.
  - the rest of `FieldB.tpp` (lines 108-195) and of `HostBuffer.hpp`:
    each member forwards one call to `GridBuffer` or `Buffer`
    (`deviceToHost`, `hostToDevice`, `reset`, `setSizeHost`), whose code
    is not in the repository. `asyncCommunication` is modelled in
    `YeeStep`.
  - the host size that `insertParticles` reads (`ParticlesBase.tpp:110`)
    comes from a receive task that is not in the repository. It is listed
    as a hazard.

## Plan

Done: the `EnergyParticles` plugin lifecycle, `GatherSlice::operator()`,
the `TaskGraph` refinement, the momentum split of the electron write,
in-order completion per stream (`StreamInOrder`), `dot`/`abs2` and the
scalar vector operators, `YeeStep` over three steps, and the
copy-before-finished order of `TaskCopyDeviceToHost::init` (the
strengthened `NoPhantomCompletion`). Every part of the repository with
state or control of its own is now modelled. The parts listed under
"What is not modelled" depend on code outside the repository, or have no
control to check. What remains, most important first:
1. `CallIonization` composed with `fillAllGaps`, once the frame-list
   semantics of `fillAllGaps` can be taken from code in the repository.
2. The weighting edge of the electron write (below 1, or wrapping past
   2^32), if the repository gains the parameter files that bound it.
3. Larger instances of `EventSystem` (more tasks), where the run time
   allows. `es_safety` with four tasks on two
   events finishes (4,880,194 states, 2 min 41 s on two workers), too
   close to the run-time limit for every mutant. `es_callupdate` with
   four tasks on three events did not finish in 10 minutes.
