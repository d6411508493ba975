# A verification project for FlagGems-vllm

FlagGems-vllm is a library of Triton (and some CUDA and TLE) operators for
large-model inference. Most of it is arithmetic on tensors, which its tests
compare with PyTorch. What is hard to get right, and hard to test, is the part
that keeps state and runs concurrently: kernels of several ranks that
synchronise through each other's memory, thread blocks that hand work to one
another, a per-process cache of compiled kernels, a store of tuned
configurations that threads and processes share. This project models that part
in TLA+, checks it with TLC on small instances, and proves with TLAPS what
matters most for every instance.

Paths are relative to the repository's package `src/flaggems_vllm/` unless they
begin with `tools/` or `tests/`. `PROJECT.json` lists, for every definition of a
module, the lines of source it stands for; the hazards, each at its line; and
the findings.

| part | modules | proofs | runs |
| --- | --- | --- | --- |
| [fused all-reduce](#the-fused-all-reduce) | `AllReduceLayout`, `LamportAllReduce`, `AllReduceService`, `MCAllReduce` | `LamportAllReduceProof` | `AllReduce`, `AllReduceGrid`, `AllReduceTiledClear` |
| [launch cache](#the-launch-cache) | `LaunchCache` | `LaunchCacheProof` | `LaunchCache`, `LaunchHook` |
| [MegaMoE](#megamoe) | `MegaMoeDispatch`, `MCMegaMoe`, `MegaMoeWaves` | `MegaMoeDispatchProof`, `MegaMoeWavesProof` | `MegaMoeDispatch`, `MegaMoeWaves` |
| [persistent top-k](#persistent-top-k) | `PersistentTopk`, `MCPersistentTopk` | `PersistentTopkProof` | `PersistentTopk`, `PersistentTopkClear` |
| [tuned configuration store](#the-tuned-configuration-store) | `ColumnStore`, `TunedConfigStore`, `MCTunedConfigStore` | `TunedConfigStoreProof` | `Store` |
| [split-KV flash attention](#split-kv-flash-attention) | `SplitKv`, `MCSplitKv` | `SplitKvProof` | `Split` |
| [test runner](#the-test-runner) | `TestRunner` | `TestRunnerProof` | `TestRunner` |

To check one module: `tlc -config <run>.cfg <module>.tla`; the module of each run
is in `PROJECT.json`. To check its proofs: `tlapm <module>Proof.tla`.

## Inventory

**Fused all-reduce and RMSNorm** (`ops/fused_allreduce_rms_norm.py`). State: on
every rank a symmetric buffer of three slots and five words; on the host a cache
of workspaces. Operations: create and destroy a workspace, four kernels. Ranks
interact only by storing into each other's buffers. Hard: no acknowledgements, no
flags, stores that arrive late and in any order, programs of one launch that
start late. Correct when every call sums exactly the inputs of that call, and
ends. Modelled.

**Launch cache** (`utils/libentry.py`, `runtime/flagtune.py`). State: compiled
kernels per device, the tuner's search space and its table, the FlagTune switch.
Operations: the launch of an operator by any thread, turning the switch. Hard:
the double-checked first run, a switch that is applied by whatever thread notices
it, failures under the lock. Correct when the first run is serialised, no stale
kernel is launched, tables keep to their search space, calls return. Modelled.

**MegaMoE** (`runtime/backend/_nvidia/hopper/mega/megamoe/`). State: symmetric
counters, queues, a token pool and a combine buffer on every rank; pipes and
arrival masks inside a rank. Operations: a launch, with its dispatch, loader and
math roles. Ranks interact by remote atomics, remote stores and two barriers.
Hard: counters that are zeroed and reused by every launch, four roles that must
agree on a schedule none of them sends to another. Correct when every token adds
up exactly the results of its routes, and all roles stop. Modelled in two
modules that meet at the pool block.

**Persistent top-k** (`ops/persistent_topk.py`). State: a ring of histograms and
two counters per group of CTAs. Operations: a batch of rows, long ones by the
whole group. Hard: a barrier counter that is never reset, a ring that is
cleared without a barrier, short rows in between. Correct when every row's output
is an exact top-k. Modelled, except for the in-CTA selections and the other
kernels of the file.

**Tuned configuration store** (`utils/models/`). State: an SQLite file shared by
processes, a pool of table classes and SQLAlchemy's metadata in each. Operations:
`get_config`, `put_config`, their twins for benchmarks, table creation. Hard: `merge`
is a SELECT and a later statement, a lost race is swallowed, a failed CREATE leaves the
class behind, processes are killed. Correct when a reader finds a configuration
somebody stored for its key, whole, and a process can store what it has tuned. The
launch cache is its client. Modelled.

**Flash attention on Hopper** (`runtime/backend/_nvidia/hopper/ops/flash_attention/`).
State: counters in device memory, caches and pools of them on the host. Operations: a
launch on the persistent route (claim, work, combine) or the fused decode route
(store, ticket, combine), captured in a graph or not, replays. Hard: nothing zeroes a
counter before a launch, so every launch must leave it at zero. Correct when each
(tile, split) pair is worked once and each output combined once, after all its splits.
The counters are modelled; schedules and arithmetic are not.

**Test runner** (`tools/run_tests.py`). State: a queue of operators, one worker
process per GPU, messages to the display loop. Hard: workers that die or fail, timeouts,
interruption, `multiprocessing.Queue`'s feeders and locks. Correct when every operator
is tested or reported and the runner ends. Modelled, but for display and inventory.

**Without state of their own, or sequential**, and not modelled: the arithmetic
operators of `ops/` and the vendor backends; `moe_align_block_size` and `bincount`
(stages ordered by the stream); the KV-cache writers (one program per slot);
code generation (`utils/pointwise_dynamic.py`, and `write_atomic` in
`utils/code_utils.py`, which moves a uniquely named file into place); operator
registration and backend detection (once, at import); the configuration loader (a
pure function of YAML files); the Philox state (one read-modify-write, listed as a
component); the collection and CI scripts in `tools/`.

## The fused all-reduce

| word | variable | meaning |
| --- | --- | --- |
| `state[0]` | `arrival` | programs of the launch that have loaded the state |
| `state[1]` | `slot` | slot of the launch |
| `state[2]` | `numel` | payload size of the launch before |
| `state[3]` | `strategy` | its layout: 0 one-shot, 1 two-shot |
| `state[4]` | `phase` | programs at the phase barrier (tiled one-shot kernels) |

A launch pushes its payload straight into the buffers of its peers. The sentinel
0x8000 (negative zero) marks an empty cell, and a program polls until none of
the cells it needs is empty. A launch clears the slot of the launch before it,
and a slot is used again three launches later. Safety rests on two arguments that
the code does not write down: a rank cannot complete a launch before every peer
has started it, so ranks are never more than one launch apart; and the clear pass
of a launch covers exactly the cells that the launch before it wrote.

- `AllReduceLayout` is the memory map and the launch plan, as pure operators: slot
  sizes of the two backends, where a one-shot slice, a scatter slice and a
  broadcast row lie, which kernel the host picks for M tokens, how programs share
  the work, and which cells each kernel's clear pass erases. Memory is counted in
  cells of one tile of a row.
- `LamportAllReduce` is the protocol: the host's `Start`, and the steps of every
  resident program of every rank: `Load` and `Arrive` (the snapshot of the state
  words and the atomic add), `Push`, `Clear`, `Reduce` (one-shot), `ReduceOwned`
  and `Consume` (two-shot), `PhaseArrive`, `PhaseLeave` and `Normalize` (tiled
  one-shot), `Advance` (program 0 stores the next state) and `Exit`; the `End...`
  actions leave a work loop. A payload store is put in `stores` when issued and
  lands (`Land`) at any later time, in any order, but before its launch is over:
  the weakest order the GPU memory model and the kernel boundary allow. The
  sentinel stores of one program land together, at any time after its pushes.
- `AllReduceService` is what callers rely on: a sequence of collective calls, each
  returning the sum of all ranks' inputs to that call.

A value is the set of contributions `<<call, rank, cell>>` summed in it, so that
a stale payload, or one counted for the wrong call, is visible. The tensor is
overwritten in place, as the host's choice of `residual_out` does. RMSNorm's
arithmetic, quantization and PDL triggers are left out (with PDL the next kernel
still waits for the completion of the one before, which is the guard of `Start`).

| run | instance | shows |
| --- | --- | --- |
| `AllReduce` | 2 ranks, 4 calls; MNNVL with M in {1, 3}, one-shot for 1, or peer with M in {1, 2}, tiled or row-wise | in every order of sizes: exact sums, stores land on cleared cells, skew at most one, clears erase only the past, no rank waits in a circle, and the protocol implements `AllReduceService` |
| `AllReduceGrid` | 2 programs per rank, 2 tiles per row, tiled one-shot, 2 calls | programs agree on slot and previous size; a row is normalized when its partial sums are complete; the phase barrier is the only place where a launch stops |
| `AllReduceTiledClear` | peer, one- and two-shot, 4 calls | finding: a stale payload is summed |

The backend is a constant set from which the initial state picks, so that one run
covers both. A slot is used again after three launches and cleared after one, so the
fourth call is the first that could read a stale payload. Two ranks suffice for the
skew argument, which is about pairs. A second program and a second tile are in
`AllReduceGrid`, where the interleaving of programs matters and the number of calls
does not. Deadlock is checked in all three.

No fairness is assumed. Every step consumes a call, a work item or a store, so a
behaviour visits no state twice, and that something can move until all launches are
over (`SomebodyMoves`) says that every launch ends, given that the programs run at all:
the grid is capped at the number of multiprocessors, so that all are resident. The
property names the waits of a program one by one (`AwaitsPayloads`, `AwaitsSums`,
`AwaitsPrograms`) instead of using ENABLED, so that it can be proved; it asks for a bit
more than TLC's deadlock check, since a new call counts only when another rank has made it.

*Findings.* `AllReduceTiledClear`: the peer tiled one-shot kernel clears the slot of
the launch before as one-shot slices whatever that launch was; after a two-shot
launch, payload survives and is summed three launches later. In `AllReduceGrid`,
program 0 waits for the *arrival* counter and then resets the *phase* counter, while a
program at the phase barrier may not have re-read it and then waits for ever. `GridSpec`
has that stop as the disjunct `PhaseCounterLost`, which the run reaches; since deadlock
is checked, it is the only one. The same code has two more problems that the passing
runs stay clear of: the row-wise peer kernel clears in the one-shot layout too and does
not record its strategy; and a peer slot is sized for one-shot, which is too small for
two-shot with two ranks and an odd `max_token_num`. The passing peer runs are therefore
one-shot only.

*Proved* in `LamportAllReduceProof`: `GenerationAgreement` (`Spec => []OneGeneration`):
for every world size, grid, workspace and sequence of calls, all programs of a launch
work in slot `(launch - 1) % 3` and clear the payload size of the launch before,
although program 0 may store the next state while others still run. What excludes a
program that loads late is the arrival counter, so `GenerationInv` ties the counter to
the cardinality of the set of programs past `Arrive` until program 0 has advanced,
and says what the words hold before and after.

Proved about the payload, for every world size, grid, workspace and sequence of calls: ranks stay together (`RanksStayTogether`), stores land on cleared cells
(`SlotsAreCleared`), rows are exact sums of this launch (`SumsAreExact`), a payload that
a clear erases is of an earlier launch than the rank's own (`ClearPassIsSafe`), the protocol implements
`AllReduceService` (`ServiceIsImplemented`), and, with the phase barrier, only
complete rows are normalized (`PartialSumsAreReady`). None of these is inductive: an
exact sum rests on a cleared slot, that on the skew, and that on sums that had to
wait for every peer. The invariant `PayloadInv` takes them together. Its parts:

- `LoopInv`: how far each program is in its work loop, what it has pushed and
  reduced by then, and what it has cleared;
- `PastInv`: size and strategy words, and the copies of programs, describe the launch
  before;
- `MailInv`: a rank that is behind another is one launch behind and has sent all of
  its launch (`Behind`, hence the skew); a store on its way belongs to an
  empty cell (`InFlight`); a cell that is not empty holds what it should of the
  current launch or a neighbour, of the one before only until the clear pass has wiped it
  (`Holds`); what has been used has arrived (`Landed`).

That a clear covers exactly what the launch before it wrote is arithmetic of the memory
map, proved as lemmas on the operators of `AllReduceLayout`. The refinement counts a
call as returned when the rank's programs are done: `Start` is the service's call, the
`Exit` of the last program its return, and every other step stutters. The theorems
about the payload assume `PeersUniform`: over the peer backend all calls are one-shot,
or all are two-shot with slots large enough for the two stages. Without it they are
false, as the finding shows; over MNNVL it says nothing. `PartialSumsAreReady` is
about `GridSpec` and needs only `PhaseInv`, in which the phase counter is the number of
programs that have arrived, or has been reset after all of them had. Assumptions:
`LayoutAssumption` and `CallAssumption`.

Proved about waiting: `OnlyTheCounterCanStop`, under `PeersUniform` the launches never
stop except where a program spins on a phase counter that has been reset under it, so that
the stop found in `AllReduceGrid` is the only one for any grid and any number of ranks;
and `NobodyWaitsInACircle`, without exception where no two programs share a phase barrier
(`NoSharedBarrier`: row-wise and two-shot calls, or a grid of one). The argument takes a
rank that is not ahead of any other. If nothing can move, no store is on its way and every
program of such a rank waits, so each is beyond its pushes, and the ranks that are ahead
have sent all of this launch. What is needed besides `PayloadInv` and `PhaseInv` is that
mail is not lost on the way (`Arrives`, inductive relative to `PayloadInv`: what has been sent
for the launch a rank is in, or for its next, lies at its place or is a store that has not
landed, whatever the clear passes do): so no program of the rank can wait in its first
stage; then, since the same holds of every rank that is not ahead, all sums have been
sent and none waits in the second; then all programs have arrived and have been counted, so
neither barrier holds any of them back.

## The launch cache

`LaunchCache` is one operator in one process. The actors are threads; a step is a
stretch of Python that touches shared state once. A call (`Call`) reads the switch
(`ReadSwitch`); if it has been turned the thread applies it, in the order of the
code: `SetConfigs`, `DropHash`, `NameTable`, `OpenTable`, `SetActive`,
`ClearKernels`. Then `Probe` looks for the kernel; a miss takes the lock
(`Acquire`), looks again (`Recheck`) and runs the tuner: `TuneProbe`, `Prune`,
`StoreBest`, `ReadBest`, `RecoverHook`, or `TakeOnly` with a single configuration;
then `Compile`. A hit goes to `Lookup`, the second read of the same entry.
`CompileFails` and a missing table row raise and release the lock. A policy picks
any configuration of the space it was given; the benchmark cache and the
computation of the key are left out.

The code does not lock the application of the switch. What holds therefore depends
on how the application uses it, and `MayCall` states the two uses: `"any"`, calls
and turns at any time, and `"warmed"`, the switch is turned between calls and one
call goes through before others start. Run `LaunchCache` (2 threads, 2 devices, 1
key, 2 turns, 1 failure) checks under `"warmed"` that the first run is
serialised and happens once, launched kernels come from the wanted space and are
found, tables hold only their own space, the switch settles, and every call returns (weak fairness of each thread; failures are bounded, so
the lock comes round). Two devices share one bucket, so a tuned key meets a kernel
that is not compiled. Under `"any"` several of these break: two threads that apply
the switch together leave space and table apart, and `ClearKernels` between
`Probe` and `Lookup` raises a `KeyError`. Run `LaunchHook` (under `"any"`) is the
finding that contradicts the code's own comment: the chosen configuration is no
longer among the originals and its kernel is kept without its pre-hook. Another
remark: `_apply_flagtune` clears `kernel_cache` but not `_cpu_cache` (`:784`), so that
on a CPU device old kernels stay; `CpuDevices` is empty in the runs.

*Proved*, for any number of threads, devices, keys and turns and under both uses:
`LaunchTypeCorrect`, `FirstRunSerialized` (the lock is held exactly by the thread in
the first run, also after failures) and `KernelsNotReplaced` (no step replaces a
cached kernel by another one). The last needs that the entry is still empty from
`Recheck` to `Compile`, which is part of the invariant `LaunchInv`.

*Proved* under `Warmed` (the switch used as `"warmed"` says, `CpuDevices` empty):
`WantedSpaceLaunched`, `TablesHoldTheirSpace`, `SwitchIsSettled`, and
`HooksRecovered`, the converse of the finding. The invariant `SpaceInv` says who
follows a turned switch (`OneFollows`: one thread, the others are idle), which of the
tuner's fields it has replaced at each of its steps (`TunerFollows`), and that kernels and
what calls carry belong to the space the tuner follows (`KernelsFit`, `CallsFit`).
Both hypotheses are needed: without the first the run `LaunchHook` is a
counterexample, without the second old kernels stay in `_cpu_cache`.

## MegaMoE

`MegaMoeDispatch` follows the routes. The host's stream (`Prepare`, `StartKernel`,
`EndKernel`, `Close`) zeroes and stages, passes the all-rank barrier, runs the
kernel, and passes the barrier again. On every program the dispatch role counts
its routes and reserves ranges in the queues of the owners (`Reserve`), writes them
(`Enqueue`), arrives at the grid barrier (`Arrive`, `Grid`); program 0 publishes the
counts (`Publish`), signals the other ranks and waits for them (`Signal`, `Await`);
programs meet again and pull tokens into the pool (`Copy`, `Announce`). The math
role scatters the results of arrived blocks to their source ranks (`Scatter`), takes
part in a second cross-rank barrier and adds up its own tokens (`Combine`). A block is one
step here; a row is the launch, rank and route it was pulled from, so that a row of
an earlier launch is visible. `RoundRobin` is the code's order of pulling,
a recursive function.

`MegaMoeWaves` is the inside of that step: on each program two loaders and two math
warp groups walk the list of tiles of an expert wave, L1 tiles before L2 tiles, with
a cursor each (`Seek`, `NextTile`), through a pipe of `STAGES` slots whose
acquire and commit belong to the TLE library. An L2 tile waits for the bits that L1
tiles of any program publish.

| run | instance | shows |
| --- | --- | --- |
| `MegaMoeDispatch` | 2 ranks x 2 programs, 2 experts each, top-2, 2 launches with different routes | no rank zeroes or stages under another; queues, sums and pool are complete and of this launch when read; every token adds up exactly its results; no scatter into a combine that has begun |
| `MegaMoeWaves` | 2 programs, 3 experts in waves of 2, every load that fits in 2 blocks, pipe of 2 | all roles walk the same tiles, programs share them out, every row is scattered, all roles stop |

The plans of the dispatch run make two programs send to one expert, fill more than
a block, leave experts without routes and drop choices; the second launch may start
on one rank while the other is still in the first. Its state graph has no cycles, so
the deadlock check says that every launch ends. Waves of 2 over 3 experts give a
last wave that reaches past the last expert. Fairness of `MegaMoeWaves`: the grid is
resident, so a role that can go on does. Deadlock is off there, since an early
stop is a violation of `RolesStop`.

Limits that the code leaves to its caller: all ranks launch with the same number of
tokens (a precondition of `OutputExact`, see below: the model lets every rank have its
own number, as `api.py:74-79` asserts only an upper bound, but the rank that scatters a
result computes its place from its own `NTOK`, `kernel.py:691`); an intermediate size up
to 2048, beyond which the two halves of `l2_arrival_mask` overlap; and zeros behind
`recv_sum`, which the loaders read past `EPR`. The last two are not in the model.

*Proved* (`MegaMoeDispatchProof`), for any number of ranks, programs, experts, tokens and
launches and for every plan of routes that fits the buffers (`MegaMoeAssumption`: the host
asserts `NTOK <= MAX_TOKENS` and sizes the pool, `Admitted`). One invariant, in layers:

- `LaunchesDoNotOverlap` (`SameLaunch`). Two counts of barriers passed are related to the
  stage of each rank; that a rank in the kernel has every other rank in the same launch
  follows from the barrier that opens it and the one that closes it.
- `ScatterComesFirst` (`ScatterBeforeCombine`), from `ControlInv`: the grid barriers inside a rank
  and the words the ranks exchange, each written once per launch by one writer, so that a
  combine that has begun has heard of every rank's last scatter.
- `CompleteSumsAreFinal` (`SumsAreFinal`) and `PulledQueuesAreComplete` (`QueuesComplete`),
  from `CountsInv`: ledgers of who has reserved how much of each queue, which places of a
  queue are filled, and which ranks have published. A sum is complete when each of the
  `NPES * NUM_SMS` programs has added to it, and a program adds only after its routes are
  in the queues; hence a loader that sees a complete sum knows every rank has published.
- `ArrivedRowsAreRoutes` (`ArrivedRowsPresent`), from `DispatchInv`, which adds what the
  rows of the pool hold. A row is found from its number by a search over ranks in turn;
  that the search hits every route exactly once (`RoundRobin`) is shown by a minimal
  counterexample over the naturals.
- `OutputIsExact` (`OutputExact`), from `ResultsInv`, under `EqualTokens`: each result is
  scattered once, to the place its own rank will read, and every token adds up exactly
  its results. Without `EqualTokens` the place is another one.

*Proved* (`MegaMoeWavesProof`), for any number of programs, experts, slots and tiles, any
width of a wave and any loads (`WavesAssumption`: a block has an even number of rows, as its
two halves need, and a wave is no wider than the rank). Whether the loop of the scheduler
ends is part of it: `SeekEquation` derives that `Seek` satisfies its equation from what
every turn leaves less of (`Remaining`). All tiles of the rank have a number in the order of
the walk: the tiles of the waves before, the L1 tiles of the wave before its L2 tiles, the
experts in front (`First`, `Number`). Seeking changes a cursor but not the number it stands
for, and ends on the only tile with that number or behind the last (`SeekFacts`,
`TileUnique`); `NextTile` raises the number by `NUM_SMS`. Hence

- `RolesWalkTogether` (`SlotsMatchTiles`), from `PipeInv`: there is one path from the
  program's first cursor, all roles stand on it (the math warps without the offsets of the
  pool), and the last `STAGES` slices loaded lie in their slots, since no loader
  is further ahead of a warp group. That the loaders' running offset of the pool is the one
  that the math warps compute from all counts is part of the path (`Carried`).
- `TilesStayApart` (`TilesDisjoint`) and `EveryRowIsScattered` (`AllRowsScattered`), from
  `TilesInv`: what a warp group has scattered are exactly the L2 tiles of its program's
  share (numbers `s`, `s + NUM_SMS`, ...) with a number below its cursor's. Shares are
  disjoint and cover all numbers, and a cursor that has stopped is behind all tiles.

The waits for arrived blocks and for the L1 bits play no part in these three. What they
are for, and that they hold up nobody for ever, is

- `ProductsInOrder` (`L2AfterL1`), from `MaskInv` and `FedInv`: while a warp group
  multiplies an L2 tile, its block's mask is full and no warp group of any program is at an
  L1 tile of that block. `MaskInv` says what the bits mean: one is set exactly when its
  L1 tile is behind the cursor of that warp group of the program whose share it is in;
  `FedInv`, that a mask was full for every L2 slice the activation loader has loaded.
- `RolesNeverDeadlock` (`NoDeadlock`), from `MaskInv`: until all roles have stopped the
  guard of some action holds (`StepPossible` lists the guards). If no program could move,
  each would have a loader whose rows are not there (`StuckProgram`): when all blocks have
  arrived, an L2 tile with a missing bit. That bit's L1 tile has a smaller number and belongs
  to a program with a warp group in front of it, so with a loader at a smaller number
  (`TileInFront`); but some program is the one with the smallest number.
- `EveryStepIsProgress` (`Finite`, `Forward`), from `NearInv`: the slots a role has in
  front of it (`Ahead`) are a natural number, no step makes one of these larger, and each
  step makes one smaller or completes the counts, the barriers of a program or a
  block of the pool. With `RolesNeverDeadlock` this leaves a launch no way but to stop; that
  weak fairness takes the steps is left to `RolesStop` and the run.

No run checks the definitions of these three, which belong to the proof. `StepPossible` is
the disjunction of the actions' guards, since `ENABLED` is out of the prover's reach: every
action of `MegaMoeWaves` is a guard and one assignment to each variable.

## Persistent top-k

`PersistentTopk` is one group of CTAs (groups share nothing). CTA 0 does a short row
(`ShortRow`) while the others skip it; a long row is `LongRow`, the initial barrier,
`Clear` (the ring of three histograms and the output counter, CTA 0), four rounds of
`Count`, `ClearNext` (CTA 0), barrier and `Scan`, then `Collect`, a barrier,
`TakeEqual` for each key equal to the k-th largest, and `NextRow`. The barrier
(`Arrive`, `Leave`) counts up for ever. `Threshold` is the suffix scan with its
defaults; the row's output is a window in one array, so that a position past
`TOPK` would be seen in the next row. The in-CTA selection of a short row is any
exact answer. A CTA's own histogram adds count as done when it arrives: how far
the release of one thread covers the other warps is the compiler's doing (see
*Not modelled*).

Run `PersistentTopk`: 3 CTAs of 2 keys, keys of 4 digits in radix 3, top-2, 56 batches
of two or three rows. Rows settle in different rounds, have ties across CTAs, short
and empty chunks; the ring index depends on the row's number modulo three, and with
three rows each position, and a short row in between, occurs. The graph has no
cycles and deadlock is checked, so every CTA ends. It assumes `PromptClear`: CTA 0
clears the ring before another CTA adds to it.

*Finding* (`PersistentTopkClear`): nothing enforces that. The clear comes after the
initial barrier, the other CTAs' adds may come at once, and the comment at the clear
relies on the barrier after those adds. A CTA with a short chunk loses its counts and
the row's answer is wrong.

*Proved* (`PersistentTopkProof`), for any batch, number of CTAs, radix, chunk and `TOPK`
with `TopkAssumption` (a batch is a sequence of rows, a row fits the chunks, rows up to
`TOPK` are short). With and without `PromptClear`:

- `CtasStayTogether` (`BarrierSkew`): no CTA is more than one barrier ahead of another.
  `BarrierInv` says how much of the shared counter belongs to which barrier: there is a
  number `m` of barriers that all have arrived at, nobody has left more, and the rest of
  the counter is the number of CTAs, fewer than all, that wait at the next.

Under `PromptClear`, which makes them the converse of the finding: the early clear is the
only way in which the select goes wrong.

- `CountsAreComplete` (`CountsComplete`), from `SelectInv`. `PlaceInv`: the barriers a CTA
  has passed are those of the long rows before its own (`Base`) plus those of its place in
  the row (`Offset`), so that CTAs one barrier apart are in the same or in adjacent
  rounds. `RingInv`: the slots of the rounds that some CTA still needs, told by the place
  of CTA 0, are different slots of the ring and hold the counts of exactly the CTAs that
  have added; and all CTAs that have finished a round have found the same digits.
- `OutputIsTopK` (`TopKExact`), from `OutInv` on top of it. About a row alone: after
  every round the keys above the prefix and those still to take are `TOPK` together, and
  enough keys share the prefix (`SplitsAlways`), so the last prefix is the k-th largest
  key (`Pivot`). About the state: one row at a time owns the output counter; it counts the
  keys above the pivot of the CTAs that have collected and the keys equal to it that were
  offered, places are handed out once and cover the former; no key equal to the pivot is
  offered before all CTAs have collected (the barrier between); and a row that was left
  is never written again.
- `RegistersInRange` (`TypeOK`): the digits found are digits (`Threshold` finds a bin, never
  its default), no histogram counts more keys than a row has, and the counter that is
  never reset is at most `CTAS * (ROUNDS + 2)` for each row.

`Span` is written out as a table of powers, since the provers know nothing of `^`.

## The tuned configuration store

`TunedConfigStore` is a number of processes over one SQLite file. Each works on one
call at a time; every SQL statement is one step, and the file changes in no other way.
A tuner looks a key up (`Lookup`, `FindModel` or `NoModel`, `Get`), tunes when it is
not there (`Tune`), stores (`FindModel`, or `Build` and `Create`; then `Merge`, a
SELECT, and `Commit`, an INSERT or an UPDATE of the columns that differ) and reads its
key back. A benchmark goes the same way and is not read back. `Commit` swallows a
refused INSERT, as `RollbackSession.commit` does. `Fail` is an error that is not
swallowed, `Crash` a killed process; one that takes its place starts with empty pools.
`RefuseClass` is SQLAlchemy's refusal of a class whose name is taken.

`ColumnStore` is what the file promises: every column of a row is a register; a row
appears whole, is never deleted, and a write changes columns of one row to what a
process offers. A row as a whole is *not* a register, and that is the point: two
processes that have loaded one row both update the columns in which they differ from
what they loaded, so that the row may end up with columns of both.

Run `Store`: 3 processes, one key, two columns, three values that differ in one or both
columns, one failure or crash; symmetric in the processes. Three processes are what a torn
row takes (`TearTakesThree`), so the run reaches one; a second table would add
nothing to a race on one row, and the theorems have any number. Deadlock is checked.

What the code does and the reader should know: three processes can leave a
configuration that none of them has chosen (`ConfigCache`'s docstring, `libentry.py:95`,
speaks of known best ones); after a failed CREATE the name of the class stays taken, and
the process cannot store into that table until another process has created it
(`sql.py:125`).

*Proved*: the four properties of the run, for any numbers of processes, keys, tables,
values and failures, from `StoreAssumption` alone. `ReadBackFinds`,
`TearNeedsThreeProcesses` and `ClassesAreRefusedAfterFailures` come from one invariant,
`StoreInv`: a
process stores a value only after it has found no row, and rows do not disappear, so it
changes a row once (`WritesOnce`); a process whose loaded row has changed under it has
seen two writers before it (`StaleLoad`), and becomes the third; a name taken and not in the
pool is that of the table under creation, or there was a failure (`ClassInv`).
`StoreImplementsColumns` is the refinement, step by step.

## Split-KV flash attention

`SplitKv` follows the counters. The host part is `PersistentCall` (with the tuner's
`Trials`, which end in a reset, and with calls that fail between the two launches) and
`DecodeCall` (with the renewal of the pool), on any stream, captured or not, and
`BeginCapture`, `EndCapture` and `Replay`. A stream is a queue of kernels; the first of
each queue runs. The persistent kernel gives program p the pair p and then what it
claims (`Claim`: the claimed number plus the number of programs); `Combine` reads the
partial results and sets the counter back. In the decode kernel a CTA stores its split
(`StorePartial`), takes a `Ticket`, and the one with the last number combines
(`CombineSplits`) and resets (`ResetTicket`).

The counter of a launch is found by its owner (the output, or q), on the decode route by
the stream too. `torch.empty` leaves any value of `Junk`. A counter is *doubtful* from
its allocation in a capture, or from a call that failed half-way, until a reset or combine kernel has
run on it; the properties speak of launches that began with a counter not in doubt
(`sound`). That is a limit of the code: a counter made in a capture is initialised by
that graph alone (`launcher.py:71` and `:124`), so an eager call with the same owner, or
another graph, that runs before it starts from garbage; a decode counter at or above the
number of splits is then never reset. TLC reaches these launches. The comment at
`launcher.py:57` calls the counter reusable across eager calls and graph capture.

Another limit is `Alone`: whoever uses two streams keeps launches with the same owner
apart. The persistent counter's key has no stream, and its owner is q when no output is
given (`launcher.py:487`), so two launches that read the same q on two streams at once would
share a counter.

Run `Split`: 2 streams, 1 owner, 2 graphs, 2 programs, 3 pairs, 3 splits, pools of 2, 4
calls or replays, 4 counters; symmetric in streams and graphs. Four calls are enough for
capture, replay, a call on the other stream and one more; three pairs make a program claim
twice; three splits leave a ticket that is neither first nor last; four counters let a pool
be half used, renewed and exhausted in a capture. One owner is what counters are about
(owners never share one; that is part of the proof). Deadlock is off, because calls are
bounded and a capture need not end. Left out: the broadcast of a claimed tile to the
warps of a CTA through named barriers (`persistent.py:829`), several (sequence, head) in one
decode launch (each has a counter of its own), decode batches larger than a pool, several
host threads.

*Proved*: the three properties of the run, for any number of streams, owners, graphs,
programs, pairs and splits, any pool of two counters or more and any order of calls, captures, replays
and failures (`PairsAreWorkedOnce`, `SplitsAreCombinedOnce`, `CountersComeToRest`). The
invariant `IInv` has three parts. `HostInv`: a counter belongs to one owner, those left in
the pool to none, an owner is in the queue of one stream (`Apart`), and work in a queue is
followed by the kernel that sets its counter back (`Linked`); so the kernel that runs has
its counter to itself (`OneStream`). `Resting`: a counter is in doubt, or zero, or the
first kernel queued on it resets it or runs; so a launch that begins with a counter not in
doubt finds zero (`StartsAtZero`). `StreamInv`: while it runs, the pairs below counter
plus programs are each in the hand of one program or worked once (`TilesOK`), and the
counter is the number of tickets taken until the last is (`TicketsOK`). The host's steps
preserve it through `HostMoves`, all a step of the host does to the device, and the
device's through `DeviceMoves`, which leaves the other streams alone. That an owner is on
one stream at a time is the assumption on callers named above (`Alone`): the proof shows
that it is enough.

## The test runner

`TestRunner` is the main process, a worker per GPU, and the feeders of both queues.
`multiprocessing.Queue` is modelled as the code meets it: `get_nowait` takes the read
lock without waiting and raises Empty when it is taken (`TakeLock`, `LockBusy`, `Poll`);
what is put goes through a feeder thread that takes the write lock (`LockPipe`, `Send`);
a process that ends waits for its feeder (`Exit`), one that is killed keeps the locks it
holds (`Dies`). A worker makes the operator's directory
(`MakeDir`) and runs `Accuracy`, `Benchmark` and `Save` for it, or `Raise`s; what it saves
is its whole dictionary (`results`), also a result that it could not write before. An
exception of `ensure_dir` (`MakeDirFails`) stands outside the operator's `try` and ends the
worker. `Leave` is the farewell of its `finally`. The display loop receives farewells
(`ReceiveExit`) and, after a quiet second, counts the dead (`Timeout`); then `Merge`.
`Interrupt` and `Terminate` are the signal handler.

Run `TestRunner`: 2 workers, 2 operators, one killed, interruption at any time. Two
workers meet at the read lock and at the write lock; a second operator lets one of them
come back. Fairness: processes run, every phase has a timeout (`run_cmd`), and a feeder
that waits for a lock that comes free again and again gets it. Deadlock is off: a stop
is a violation of `RunEnds`.

What the properties leave out is what the code does not handle.

- `ensure_dir(op_dir)` (`run_tests.py:1029`, a `mkdir` and a `chmod`) comes after the operator
  has been taken and before the `try` that is there "to prevent one bad op from crashing the
  entire worker and orphaning remaining ops in the queue" (`:1031`). An `OSError` (a disk that
  is full, a directory of another user) does just that: the worker says "exit" and ends,
  the operator is neither saved nor shown as Error, and what is in the queue stays there
  when no other worker comes back for it. Two workers do not exclude it: one that met the
  unlucky one at the read lock has left already. Hence `broken` in both properties: operators
  are left behind only after this, a death or an early start (`NothingLeftBehind`), and every
  worker to which it happens loses one operator at most (`ReportComplete`).
- A worker that finds the queue not yet flushed leaves (`starved`).
- A worker killed while its feeder writes holds the write lock for ever, so that the others
  can neither report nor end and the display loop waits (`WriteLockLost`), although the
  docstring of `display_loop` promises to break such loops.
- An operator that raises is shown as Error and missing in `summary.json`, or, if it raised
  while it was saved, may be there all the same with the next one.

The queue holds distinct operators without the blank lines of a file, and the GPUs are
distinct. Not modelled: stale `summary<gpu>.json` files of an earlier run in a reused output
directory, and pytest processes, which run in sessions of their own and survive their worker.

*Proved*, for any number of workers, operators and deaths: `NobodyGivesUpTooEarly`,
`ReportsAreComplete`, `NobodyIsLeftSpeaking` and type correctness. The invariant
`RunnerInv` says that, as long as operators are left and nobody was killed, starved or
without a directory, some worker looks for one or works on one (`SomebodyBusy`: a worker
that leaves met another at the read lock); and that what is taken is saved, raised, in the
hands of a worker, or the last operator of one that was killed or could not make its
directory (`Accounted`). Assumption: `RunnerAssumption`.

## What is proved and what is only checked

Theorems hold for all constants that satisfy the named assumptions, and under the
hypotheses they name: `PromptClear` in three theorems of the top-k, `EqualTokens` in
`OutputIsExact`, and what the sections above say of the other components. Only
model-checked, on the instances above, are

- liveness (`CallsReturn`, `RolesStop`, `RunEnds`), out of the prover's reach. Of
  `RolesStop` the parts without fairness are proved: some step is possible until all have
  stopped, and every step is progress;
- that the graphs without cycles have no deadlock (TLC's deadlock check).

Every other property of a passing run is the subject of a theorem.

## Not modelled

- Most of the repository by volume: arithmetic operators of `ops/` and of the vendor
  backends. Each program of such a kernel computes one tile of an output from inputs
  nobody writes; there is no state to follow, and what could be wrong is numerical.
- The contents of tensors beyond which contribution they hold; the GPU memory model
  inside one program beyond what the sections say. In the top-k, what the release of one
  thread at the barrier covers of the adds of the other warps is left to the compiler.
- Creation and destruction of all-reduce workspaces: a collective without recovery (a
  rank that fails leaves its peers in the barrier, `fused_allreduce_rms_norm.py:1363`),
  and a destroy that all ranks must call together (`:1660`).
- Processes forked after the import share `LibEntry.lock`; one killed in a first run
  leaves the others waiting. The code has no recovery to model.
- The components listed in the inventory as sequential or stateless.

## Plan

1. A bit-level `l2_arrival_mask` in `MegaMoeWaves`, for intermediate sizes above 2048.
2. Composition of `MegaMoeDispatch` and `MegaMoeWaves`: the block step shown to be
   implemented by the walk of the tiles.
3. The launch cache over `TunedConfigStore` instead of a map, with processes.
