# StrideWeave: specifications and proofs

StrideWeave is a tensor library in Python and C++ whose storage objects
(*carriers*) live on several devices and tiers.  Two things in it are hard.  The
first is storage *lifetime*: carriers are claimed, moved, evicted, promoted and
released by several threads and by three pools of worker threads, and any step can
fail.  The second is *meaning*: layouts are hierarchies of strided modes, and every
operation is written at least twice, once by ordinals in Python and once by expanded
keys in C++, with a backward for each.  These TLA+ modules model both.  TLC checks
them on small instances, and TLAPS proves what matters most about the first for
every value of the constants.

Paths are relative to `src/strideweave/` unless they start with `openspec/`.

## 1. The system

| component | source | state | operations | hard behaviour |
|---|---|---|---|---|
| native carrier protocol | `core/native/_carrier.hpp`, `carriers/base.py` | ownership token, version, released flag | claim, relinquish, owner access, write, release | Python carriers check, act and mark in separate steps |
| asynchronous movement | `carriers/move/async_move.py`, `await_result.py` | one commit record per move | `move_async`, the copy, the commit, the hand-back | opposite moves, failures at every step, providers that break their contract |
| tiled residency | `carriers/tiled_evictable/carrier.py`, `selection_ops.py` | tile records, pins, pending tiles, two counters, deferred evictions | write, promote, evict, project, scatter, release | decisions under a lock acted on outside it; failing transfers; release against everything |
| block device arena | `carriers/block_device/carrier.py` | free ranges, allocations, device health | allocate, transfer, release, finalize, close | failed initializations, torn transfers, release against transfer |
| background executors | `carriers/_background.py` | a queue and a set of daemon threads per pool | submit, run | bounded pools that wait for each other; a thread that cannot start |
| evictable hierarchy | `carriers/evictable/carrier.py` | two owned tiers, the active one | evict, promote, release, write | no lock of its own; partial failure between two tiers |
| autograd engine | `core/native/_tensor.cpp`, `_operation.hpp` | operation nodes, freed flags, gradients | build, backward, release of the graph | order of a traversal, versions, partial accumulation |
| managed Dolt server | `verification/store/server.py` | registry of servers, set of stopping directories | acquire, start, shut down | two threads that start and stop one server |
| evidence store | `verification/store/dolt.py`, `recording.py`, `publication.py` | immutable evidence rows | create, record, publish, refresh | crashes, conflicting producers, snapshots read by several queries |
| verification stages | `verification/stage_one.py`, `stage_two.py`, `model.py`, `reporting.py` | the evidence of a run, the certificates of stage one | run the oracle's cases, certify, authorize and run the target's, report, take views | what a certificate was made of, seen through a part of a report |
| profiler | `profiling.py` | sessions, moves not published yet | enter, exit, record | moves that outlive the context |
| operation policy, capability snapshots | `carriers/operation_policy.py`, `operation_capability.py` | registries written once | resolve, declare, enumerate, gate | numbers that resolve to undeclared plans; order of sealing |
| extension definitions and dispatch | `carriers/extension.py`, `definition_dispatch.py` | definitions, packs, a transaction per call | register, freeze, execute | providers that write, claim, release and raise |
| layouts and index maps | `core/layout.py`, `permutation.py`, `swizzle.py`, `product.py`, `index_map.py` | none | complement, divide, product, compose, ... | maps that look alike and are not |
| tensor views | `carriers/shared_ops.py`, `generic/as_strided_ops.py` | a base, a layout, an offset | slice, broadcast, reshape, permute, `as_strided`, backward | gradients through several views |
| kernels | `carriers/generic/`, `carriers/cpu/native/` | none | pointwise, reductions, selection, indexing, contraction | ties, NaN, zeros with a sign, broadcast and padded operands |
| tensor functions, descriptions of layouts | `functional/api.py`, `einops/`, `friendly/`, `nn/modules.py` | none | every function on tensors | one call is several operations, each of which must hand the next the modes it expects, forward and back |
| dtype registry, move routes, storage backends, metal, parameters and optimizers | `carriers/_dtype/`, `carriers/move/ops.py`, `carriers/metal/`, `core/module.py`, `nn/optim.py` | plain data | see section 7 | |

How they interact.  A *move* claims two carriers through the native protocol,
hands a copy to a provider or to the move pool, and commits on the thread that
sees it end.  A *tiled carrier* owns one child carrier per tile and tier; a
residency request stages copies, starts one move per tile, and a worker of the
residency pool waits for them and commits.  A *projection* or *scatter* of a
tiled carrier runs on the selection pool, waits for a residency request of its
own and for the eviction its policy asks for.  The evictable hierarchy is the
same idea with one tile, synchronous moves and no lock.  A block device is one more
kind of carrier, with one lock per device.  An operation on tensors is resolved by
the policy to a plan, gated by what the carrier's class has declared, executed by a
kernel, and recorded for the backward traversal.  A function on tensors compiles its
description, if it has one, and is lowered to a few such operations.

## 2. What is modelled

| module | models | refines | proofs |
|---|---|---|---|
| `TiledResidency` | one tiled carrier with its residency and selection workers | `TiledMemory` | `TiledResidency_proofs` |
| `MoveAsync` | moves over the ownership protocol of native and Python carriers | `TransferMemory` | `MoveAsync_proofs` |
| `BlockDeviceArena` | one block device and its carriers | `ArenaMemory` | `BlockDeviceArena_proofs` |
| `EvictableHierarchy` | one hierarchy of two tiers | | `EvictableHierarchy_proofs` |
| `BackgroundExecutors` | the three pools and the tasks that wait for tasks | | `BackgroundExecutors_proofs` |
| `ManagedServers` | the servers of one process | | `VerificationStore_proofs` |
| `ProviderTransaction` | one operation of an extension | | `Extensions_proofs` |
| `CarrierAuthority` | what a carrier class executes, and who says so | | `Extensions_proofs` |
| `Autograd` | the backward traversal | | `Autograd_proofs` |
| `EvidenceStore` | evidence stores and their snapshots | | `VerificationStore_proofs` |
| `VerificationStages` | one verification of a backend, its report and the views of it | | `VerificationStore_proofs` |
| `OperationProfiler` | profilers, their threads and moves | | `Autograd_proofs` |
| `OperationPlans` | the dtype policy and the gate before a kernel | | |
| `LayoutAlgebra`, `IndexMaps` | layouts, permutations, swizzles, products, compositions | | |
| `Tensors`, `TensorViews` | tensors and sequences of views with their backward | | |
| `PointwiseKernels`, `ReductionKernels`, `SelectionKernels`, `ContractionKernels`, `TensorKernels` | one call of an operation on two carriers, forward and backward | | |
| `Descriptions` | what a description such as `"a b, c b -> a c"` compiles to | | |
| `Functional` | one call of a function on tensors: the operations it is lowered to, in order, and the way back through them | | |

`TiledMemory`, `TransferMemory` and `ArenaMemory` are the abstract
specifications: what the code that uses the component may rely on.  The `MC*`
modules hold values of constants that a `.cfg` cannot write, and symmetry.
`MCComponents` puts twelve components that do not interact (one of them two moves) side by side, and
`MCTensors` views, kernels and calls of functions: the first state chooses one, and only that one
moves, so that one run checks them all without multiplying their states.

In every module a step is what the code does between two places where another
thread can run: a block under a lock is one step, a native call under the
interpreter lock is one step, and a failure is a step or a disjunct of its own.

### TiledResidency

*State.*  `primary`, `secondary`, `implicit`, `dirty` are the fields of
`_TileRecord`; `pins`, `pending`, `requests`, `active`, `deferred` are
`_pin_counts`, `_pending_tiles`, `_pending_requests`, `_active_work_requests` and
`_deferred_evictions`; `req`, `work` and `call` are the local state of requests
in flight, of works (projections, scatters, operations) and of program threads.
A child carrier is the contents it holds; `gone` are the children that are
released but still referenced by a record.  `wrote` is a history variable.

*Steps.*  Everything between two blocks under `self._lock` is a step of its own:
staging one transfer, the end of one move, the worker's commit, the release of one
child, the gap before the native released flag.  A call that `_begin_tiled_work` or
`_end_tiled_work` makes into `_transition_async` while it holds the (reentrant) lock
is part of its step.

*Abstractions.*  A projection's numbers, the layout of a tensor over its tiles and
the policy object are replaced by a *demand*: the tile sets that
`_begin_tiled_work` computes from them.  A failing move, a transfer that cannot
start and a refused worker are choices.  The moves themselves are one step here
and the subject of `MoveAsync`.

### MoveAsync

*State.*  `contents`, `version`, `released`, `owner` are the native carrier;
`move` is the local state of `_move_async_with_route` and `_MoveCommit`.  An
ownership token is identified with the move that drew it (tokens are never
reused).  `taken` and `broken` are history.

*Steps.*  A carrier in `Torn` stores its elements in Python: its `set_item` and
`release` are a check, an effect and a mark, in three steps.  A provider may, if
`Meddling`, write the source or release a participant while it has owner access;
this is what `_validate_completed_move` is there to detect.

*Abstractions.*  A carrier has one element.  Route lookup, the autograd node of the
output and the callbacks of the handle have no effect on the state modelled.

### BlockDeviceArena

*State.*  `free` is the set of pairs in `_free_ranges`, `extent` is `_allocations`
seen from the carrier, `device` the contents of the device, `holder` the thread
that does I/O under `_lock`.  Positions and sizes count Float32 slots.

*Steps.*  A block under the lock without I/O is one step; one with I/O is two, so
that everything that does not wait for the lock (the calls, the marking of a
released carrier) happens in between.  A transfer may end after any number of
slots, which faults the device.  A carrier that nobody references can be collected
at any time the lock is free.

*Abstractions.*  A fresh slot holds the unknown value `None`.  A new carrier is
filled with one value.  The overflow checks against `_INDEX_MAX` never fire, the
native handle is one call per transfer, and a CPU participant of a bulk move
appears only as the value read or written.

### EvictableHierarchy

*State.*  `tier` and `evicted` are `_primary`, `_secondary`, `_evicted`; `owned` are
the carriers whose token the hierarchy holds; `life`, `data`, `access` are the native
carriers; `does` is the local state of the threads.  `value`, `dropped` and `astray`
are history: the last value written, that a release has begun, and that a transition
has moved a tier that it had not entered.

*Steps.*  Nothing locks the hierarchy, so `evict` and `promote` are a step for each
native call: prepare a destination (perhaps a fresh carrier), enter both tiers, copy
(which reads the active tier *again*), free the source, install the destination,
dispose of the replaced tier.  Each may raise, and then a fresh destination is disposed
of, unless the exception leaves the block that does so: a `dispatch_move` that raises
(407, 458) and the refusal of a result that is another carrier (419-420, 472-473) leave
the destination live and claimed, which `leaked` remembers.  `set_value` reads the primary, enters it and stores.  `release` drops the primary,
then the secondary.

*Abstractions.*  An array has one element.  A fresh carrier is one that nothing
refers to (`Forgotten`).  Reads, `new_like` and `scatter` are left out.

### BackgroundExecutors, ManagedServers, ProviderTransaction

`BackgroundExecutors` has, for each pool, its queue, its workers and how many of them
wait for a task; a submission may start a worker, which may fail; a task in a body
waits for tasks of other pools and submits some.  A task object is made and submitted
by one caller (`SubmitterAssumption`), as in the carriers that use the pools.

`ManagedServers` has the registry (`_servers`), the stopping directories and the
threads inside `acquire_server` and `shutdown_servers`.  A block under
`_servers_lock` is one step; starting, waiting for readiness and stopping a process
are steps under the lock of the server object.  A process may exit at any time, a
start may fail after the launch, a wait may time out, and stopping may raise: then the
process may still run although nobody knows it any more (`stray`) and its directory is
free (section 4).

`ProviderTransaction` follows one call: the snapshots, the provider's acts (writes
through storage or by a public write, a bump, a release, an emptying, a claim, an
exception, in any order), the commit or the rollback, operand by operand.  One value
is not equal to itself, as NaN is.

### CarrierAuthority and OperationPlans

`CarrierAuthority` has a class, definitions, kernel packs and declarations for it, and
instances that compose it.  The first look at the class fixes its answer; the snapshot
of an instance is kept under the instance's address and dropped by a callback that may
come late, when another instance has the address.

`OperationPlans` is one call of an operation with a dtype or a Python number for each
operand, resolved by the tables and rules of the policy and gated by each kind of
carrier.  Numbers are named by what the rules tell apart.  What a class declares is
computed the way the code enumerates it, so a plan that only some number reaches
shows.

### Autograd, OperationProfiler, EvidenceStore

`Autograd` numbers tensors by creation.  An operation multiplies a gradient by a
factor for each input, 0 for the None of an input it does not differentiate.  The
traversal is a step for each operation: consumer counts, validation, contributions,
accumulation, failure anywhere; beside it the program modifies tensors, and a graph is
traversed again.

`OperationProfiler` has the native sessions of threads, nested operations, and the two
phases of a move, the second of which another thread records before, while or after
the context is left.  Time counts what has been recorded and names events; operations
that a profiler does not select do not tick.

`EvidenceStore` has the rows of local databases and the published snapshot of each
contributor.  Any statement may fail, an answer may be lost although the transaction
committed, and a process may die between two statements.  A snapshot is read table by
table; the rows that a refresh misses are looked up in one step for each table and
inserted later.  `Now` is the time of what is recorded during the run, and `Elsewhere`
the contributor whose snapshot comes from another clone; the initial store may hold an
earlier report.

### VerificationStages

One run of `verify_backend`.  Stage one runs the cases of each plan of the oracle and
certifies the kernels whose required cases have all passed; stage two builds the
certificates again from the evidence and accepts them only when they are the same, then
runs each plan of the target whose operation is authorized, and both stages' records
are bound and validated as one report.  A case passes, fails or raises; a provider of the
target may fail as a whole, which replaces what its cases had shown; a plan may be
deferred or left without authority.  A digest is the set of facts it is taken of, so a
certificate stands for its digest.  The target is either the compiled provider, which
has its receipts before it runs, or one that compiles as it runs and has a receipt for
each launch.  Payloads, shapes, tolerances, deviations and the written form of a report
are left out.

### LayoutAlgebra, IndexMaps, Tensors, TensorViews

A layout is a sequence of trees whose leaves have an extent and a stride.
`LayoutAlgebra` defines what `core/layout.py` computes (coalescing, complements,
compositions, divisions, products, inverses), by recursion on trees.  `IndexMaps`
builds maps step by step and carries, beside the map, its *image*, computed from what
an operation means; the invariant compares the map's own evaluation with it.
`TensorViews` does the same for sequences of views: beside each view the model keeps
which element of the base each of its elements is, and compares what the code's
backward sends back with the sum over that relation.

### Kernels

`TensorKernels` chooses a call (an operation and its operands in any layout), lets
each of two carriers compute it, and then lets each take a cotangent back.  The
Generic definitions go by ordinal, the CPU definitions by the key with a digit for
each leaf, as in the sources; neither is defined by the other.  Values are integers,
NaN and the zero with its sign set; rounding and the transcendental functions are left
out.  `KernelsAgree` compares the carriers.  `KernelsAdjoint` compares a backward with
central differences of the forward of step 2, for cotangents that are multiples of 12
so that divisions stay exact; `Smooth` names the calls where there is no derivative
(ties, NaN, thresholds), and `NaNCap` the one gradient on which the carriers differ by
more than a layout: a `clamp` whose upper bound is NaN (section 4).

### Descriptions and Functional

A description is its sequence of tokens; `Descriptions` compiles it as `einops` does, to
the trees by which a layout is taken apart and put together, or to nothing when it is
ill-formed.  A call in `Functional` has a *plan*, the operations that the function
dispatches (`Plan`, one operator for each function); `Perform` performs the next one with
the view and kernel definitions of `TensorViews` and `TensorKernels`, holds its result and
records it, or refuses the call.  `BeginBackward` and `GoBack` then follow the tape
backwards with one cotangent, through every operation of the plan, broadcasts that a
kernel made of its operands included.

`CallsMeanWhatTheySay` compares this with what the call means (`Meaning`), which is
written without plans, trees or views: the grammar of a description (`WellFormed`), a sum
over the assignments of indices to names, a function on ordinals.  A call is refused
exactly when it means nothing, its result is what it means, and the gradients that
arrive at its operands are the derivatives of that.

*Abstractions.*  The lexer, the cache of compiled descriptions and the texts of errors are
left out.  Functions that are not evaluated exactly (`exp`, `sin`, `erf`, `pow` of two
tensors ...) are the name with its arguments, and no gradient is taken of them; the
division of a mean is exact.  A gradient that a view of a broadcast tensor rejects ends
the call as "rejected" (section 4).  `as_strided` and slices are in `TensorViews` only.  Of
the factories only `tensor` of nested lists is modelled.

## 3. Runs

| run | shows | bounds |
|---|---|---|
| `tiled_works` | counters, pins, homes and release are right in any order of two works, their evictions, writes, a prefetch and failures | 2 tiles, 2 works, 3 requests, one program thread |
| `tiled_two_threads` | what was decided under the lock holds at the commit, and the carrier is a flat memory, although two threads write and move the same tile | 1 tile of 2 elements, 2 threads, 1 work |
| `tiled_liveness` | every request and every work ends, whatever fails | 2 tiles, 1 work, 2 requests, fair workers |
| `tiled_release_race` | **violated:** a second thread starts a request between the checks and the effects of a release | 1 tile, 2 threads |
| `move_safety` | ownership is exact, no value is lost, also with providers that break their contract, and a move is an atomic hand-over | 3 native carriers, 2 moves, 2 threads |
| `move_torn` | **violated:** a write of Python storage that was checked before the claim lands during the move | 2 Python carriers, 1 move |
| `block_device` | the device is a memory of separate arrays under concurrent allocation, transfer, release, close and faults | 2 threads, 2 carriers, 6 slots aligned in pairs |
| `components` | the properties of the twelve components of `MCComponents`, each on its own | below |
| `evictable_overtaken` | **violated:** a transition that was overtaken moves a tier it has not entered and brings an older value back | 2 threads, 5 carriers |
| `tensors` | views return gradients to the right elements; kernels agree and their gradients are derivatives; calls of functions return what they name, forward and back, and refuse the rest | sequences of 2 views; the families of `MCTensorKernels` and `MCFunctional` |
| `slice_gradients` | **violated:** the gradient of a slice of a tensor that is not stored in order lands on other elements | as `tensors` |
| `passed_view` | **violated:** a report that certifies a kernel with an exact and a deferred plan has no view of what passed | as `components` |

*Why these bounds are enough.*

- `TiledResidency`: every decision is about one tile or about two overlapping tile
  sets, so two tiles, two works and three requests (two promotions and an eviction)
  show every conflict; the demands of `MCTiledResidency` hold a plain projection, one
  with a retain and an evict set and a replacing scatter, chosen so that they overlap.
  `tiled_two_threads` trades the second tile for a second element, because the write
  of *another* element is what an unsound commit loses.
- `MoveAsync`: two moves contain the opposite pair and the pair with a common source
  or destination; the third carrier adds chains.  `EveryMoveEnds` is checked among the
  components, with two carriers, one of them in Python, and one change of a version:
  what could keep a move from ending is another move or a refusal, not a third carrier.
  `NativeSpec` of `MCMoveAsync` is `Spec` without the steps of carriers in `Torn`; the
  three steps of their writes and releases are taken in `components` and `move_torn`.
- `BlockDeviceArena`: six slots in pairs leave a hole, an exactly fitting range and a
  tail too short for the larger size; two carriers free their extents in both orders.
- Pools: two selections, each with a residency request that waits for a move and an
  eviction of its own, on pools of one and two workers.
- Evictable: three carriers (the two tiers and a fresh one) and two threads, whose
  transitions take turns with the fresh carrier.  Up to four carriers no transition goes
  astray, with five one does: the violated run has five.  The proofs (section 6) hold
  for any number.
- Autograd: six graphs of five tensors, with a chain, a diamond, a tensor used twice,
  one used directly and through another, an input without a derivative, a leaf that is
  not differentiable, and retained intermediates; two traversals.
- Servers: two directories, two acquisitions and a shutdown, two attempts, two
  launches.
- Providers: two operands with two acts on them, patterns of two kinds, an unordered
  value.
- Evidence: one store, two processes, two contributors, two reports that share a
  receipt, two calls.
- Index maps: two operations on maps of up to sixteen elements, of every kind.
- Plans: every operation with every dtype and number in each of two places, and a
  chosen five in each of three.
- Profiler: two threads, one profiler that selects one kind of operation, one move,
  three events, depth three.
- Verification: four plans of the oracle (one operation deferred, one with a deferred and
  an exact plan, a sum) and two of the other target (an operation that the oracle does
  not have, a sum of another accumulator), one movement and one witness; every outcome of
  every case.
- Authority: one class, one definition, four packs, three instances at two addresses.
- Calls: every description with up to four tokens on one side, well-formed or not, for
  `rearrange` and `reduce_sum`; contractions with and without a batch, with nothing
  contracted, ill-formed, and over hierarchies; every axis and position in and out of
  range; operands in order, transposed, nested, padded and broadcast, of one carrier and
  of two.  Nothing in the lowering depends on how large an extent is, only on whether it
  is one; two and three tell modes apart.
- Views: eight bases (in order, transposed, padded, nested, with singletons), two views
  in any order, an offset in the carrier.

`CHECK_DEADLOCK FALSE` stands in every configuration because the program may stop:
identities of moves are used once, a released carrier stays released, a version
counter at its bound refuses writes, and a call of an operation ends.

Symmetry is used only where the specification has no fairness and no `CHOOSE`
over the set.

*Fairness.*  `TiledResidency!Fairness` and `MoveAsync!Fairness` say that a thread
which is inside a call, a worker which has accepted a task, and a move that has
been started keep going; nobody is obliged to start anything.  `ComponentsFairness`
says the same of the workers of the pools and of the threads inside a call of the
server registry, and `MoveAsync`'s fairness of the moves, each as long as it is the
component that moves.  The code justifies
this: the workers are daemon threads that block only on their queue and on the
handles modelled here, `_DaemonExecutor.submit` refuses a task that no thread will
run, Python's locks are released by `with` blocks, and a wait for a server has a time
out.  It assumes that a provider's copy terminates, and that a pool is not exhausted
by works that wait for tasks of the same pool; the pools are separate for this reason
(`carriers/_background.py:63`), which is what `WorkDrains` checks of
`BackgroundExecutors`.

## 4. Divergences found

The five violated runs; the statement is the specification's, the behaviour the
code's.

1. `tiled_release_race`: `_release_storage` tests its counters under the lock and
   releases the tiles after dropping it (`tiled_evictable/carrier.py:1302-1324`).
   `openspec/specs/tiled-carrier-composition/spec.md:577-580` promises that
   `release()` fails, and releases no tile, while a request is not terminal.
2. `move_torn`: `_definition_set_value` checks, stores and then moves the version
   (`carriers/base.py:99-108`), so a write that began before the claim lands while
   the move is pending; `openspec/specs/interop-movement/spec.md:901` says it fails.
3. `evictable_overtaken`: `evict` and `promote` enter the tier they read and move the
   tier they read again (`evictable/carrier.py:410-413`).  Another thread may have
   replaced it; an older value is then installed over a newer one, although
   `openspec/specs/carrier-composition/spec.md:26` says that a transition does not
   change logical values.
4. `slice_gradients`: the backward of a slice scatters logical ordinals where the
   carrier takes storage offsets (`carriers/shared_ops.py:346-352`); for an input that
   is injective and not in order the cotangent lands on other elements, against
   `openspec/specs/core-tensor-views/spec.md:448`.
5. `passed_view`: a view of a report makes each certificate again from the stage-one
   records it holds (`verification/reporting.py:447`), but the digest of a certificate
   also covers the records of its kernel's deferred plans (`verification/model.py:1259`).
   `report.passed` drops those, so for a kernel such as `cpu.pow`, which has an exact and
   a deferred plan, it raises "Stage One certificate disagrees with report evidence";
   `openspec/specs/verification-report/spec.md:328-331` calls every selection a
   provenance-complete view.  `PassedView` says exactly when (`PassedViewIsExact`).

Seen while modelling, with no run of their own (a run refutes one property):

- *Moves.*  `_commit_success` gives both carriers back before the handle is terminal,
  so another thread can use the destination first; `interop-movement/spec.md:863`
  protects them until then.
- *Tiled carrier.*  A policy eviction whose tile is pending when the work ends stays in
  `_deferred_evictions`, and only the end of another work looks at it again
  (`carrier.py:1203`; `tiled-carrier-composition/spec.md:540-541`).  The pins of a work
  are dropped before its handle is terminal (`carrier.py:1199`; `spec.md:539-540`), and a
  work that fails before its promotion ends completes while its tiles are pending
  (`selection_ops.py:263`; `spec.md:279-281`).
- *Evictable.*  A release that runs beside a promotion may leave a live primary, which
  `beside` excludes from `ReleaseComplete`.  A `dispatch_move` that raises (`carrier.py:407`,
  `458`) and a move that returns another carrier than its destination (`419-420`,
  `472-473`) leave a fresh destination live and claimed, because both raise outside the
  `try` that disposes of it; `carrier-composition/spec.md:217-230` says that fresh
  destinations are released and relinquished and that such a transition fails without
  committing.  `TiersOwned` allows exactly these (`leaked`).
- *Autograd.*  A traversal validates versions when it comes to an operation, after it
  has accumulated into leaves (`_tensor.cpp:598-606`, `657-659`); `autograd/spec.md:354`
  says that no `.grad` is modified then.
- *Servers.*  A shutdown that raises leaves the directories after it reserved and their
  servers registered by nobody (`server.py:626`, and the docstring at 5-6).  A termination
  that raises, after a `kill` that was not obeyed in time (490-491), has forgotten a process
  that may still run, and the `finally` (629-632) frees its directory, so that the next
  acquisition starts a second server of it; the docstrings of `_await_release` (555-562)
  and of `shutdown_servers` (603-606) say that a directory stays reserved until its process
  has exited.  `ServersKept` is about all processes but those (`stray`).
- *Evidence.*  `initialize` creates the database in one transaction (`dolt.py:254-279`)
  and the tables in another (360-393); a failure in between leaves a database that every
  later call refuses (330-335; `kernel-evidence-tracking/spec.md:183`).  The identity of
  an observation omits when it was recorded, so one report that a contributor records in
  two stores conflicts on refresh; concurrent publishers can replace a newer snapshot by
  an older one; a lost answer to a commit reports a failure of what was committed; what
  `spec.md:458-462` calls one atomic operation is several transactions.
- *Profiler.*  After a rejected exit on another thread the session is said to be
  abandoned (`operation-profiling/spec.md:336-338`), but the owner's moves are still
  recorded and the owner can still exit and publish; "freeze its recorded events" (101)
  does not hold for the late phase of a move.  The public `move` is
  `move_async(...).wait()` (`functional/api.py:2049`) and publishes both phases, whereas
  `operation-profiling/spec.md:147-151`, `182-185` and `interop-movement/spec.md:947-948`
  say that it leaves the events unchanged.  `ProfileExact` states what the code does: it
  does not distinguish who waits for a move.
- *Providers.*  A rollback does not give back a claim that the provider has made, and a
  NaN that nobody has touched counts as changed (`definition_dispatch.py:180`).
- *Layouts.*  The complement of a layout with a broadcast singleton raises
  `ZeroDivisionError` where `core-layout/spec.md:349-358` says `ValueError`; a tiler of
  several modes for `zipped_divide` is not what `spec.md:379-381` describes;
  `Layout.compose` may return a map that is no layout.
- *Views.*  A view of a broadcast tensor cannot be differentiated
  (`core-tensor-views/spec.md:449-470`).
- *Kernels.*  CPU `reduce_max` of two negative zeros gives a positive one, and
  `reduce_min` of two positive zeros a negative one (`_cpu_reduction.hpp:21-45`,
  `operation-dtype-policy/spec.md:74-75`); the comment of `_cpu_extrema.hpp:17-18` is
  wrong about ties, which are split in halves; CPU unary results keep an injective
  layout with gaps where the comment of `generic/ops.py:91-95` says that results are
  fresh and canonical; the CPU gradient of `abs` at NaN is 0 and not NaN; the CPU gradient of a `clamp` whose
  upper bound is NaN is 0 where the lower bound is selected (`_cpu_extrema.hpp:45-53` looks
  for NaN in the operands only, `clamp.cpp:176-182`), and the Generic one NaN
  (`ternary_ops.py:290-304`), so `KernelsAgree` leaves this case out; an index out of
  range raises `ValueError` on CPU and `IndexError` on Generic.

## 5. Properties

Each property of a passing run has a mutant: a definition that changes one action the
way a plausible bug would, under which TLC finds the property violated.

*Tiled carrier.*  `CountersExact`: the pending set, the two counters and the pins
equal what the requests in flight and the running works account for, after any
failure.  `OneHome`: a tile has a value in one place.  `RequestShape`: what was
decided under the lock and staged outside it is still true at the commit.
`PinnedUntouched`: a work computes on the tiles it asked for (`BodyResident`), and
nobody changes or evicts them meanwhile.  `ReleaseWaits`, `ReleaseLeaksNothing`: a
release meets no work and leaves no child live.  `EveryRequestEnds`.  `FlatMemory`:
refinement of `TiledMemory`.

*Moves.*  `OwnershipExact`: tokens are exclusive and never leak.  `SourceKept` and
`DestinationServed`: at any moment, one participant holds the value.  `EveryMoveEnds`.  `AtomicTransfer`: refinement of `TransferMemory`.

*Block device.*  `Partition`: free ranges and extents partition the device, free
neighbours are always joined, and the search finds the lowest aligned place if there is
one.  `ExtentsCover`: a live carrier has an extent that covers it, and nobody keeps one
after a close.  `TransferOwnsPayload`, `WritesAreVersioned`.  `SeparateArrays`:
refinement of `ArenaMemory`.

*Evictable.*  `TiersOwned`: as long as every transition has moved a tier that it had
entered, the value is kept, both tiers stay claimed, nothing else does but what a
transition has in hand or what an exception outside its `try` has leaked.  `ReleaseComplete`: a release that succeeds has released both
tiers, also after an earlier one stopped half-way.

*The others.*  `WorkersServe` (a task that was accepted has a worker) and `WorkDrains`
(every task ends).  `ServersKept`: but for the strays of terminations that raised, no two servers
of one directory run, and a running one is known or about to be stopped; `AcquisitionsWake`: no acquisition waits for ever.
`OperandsSettled`: a failed call leaves what it could restore as it was, a successful
one has counted one mutation of each operand it may mutate and changed no other.
`AnswersFinal`: what was answered once about a class or an instance stays the answer.
`PlansDeclared`: a plan that a number reaches has been declared by every class that
executes the operation.  `GradientsExact`: a traversal that ends has put the sum over
all paths into each leaf.  `RunsAfterConsumers`: an operation runs once, and after its
consumers.  `ProfileExact`: what a profiler publishes is what happened inside it, in
order, nested as it was, once; for a move that is given a token, the public `move`
included, both phases.
`EvidenceSound`: nothing runs at a target without every required case of its kernel
having passed at the oracle, a report answers each required case once, stage two accepts
what stage one certified, reports and their views by stage, kernel and problem are
valid.  `EvidenceComplete`: a report in a store is there with everything it refers to, and so is
one in a snapshot.  `MapsMeanWhatTheySay`: every map evaluates to its image, and its
verdicts are true of it.

*Tensors.*  `ViewsReturnGradients`, `KernelsAgree`, `KernelsAdjoint`,
`CallsMeanWhatTheySay`, as in section 2.

## 6. Proofs

Eight modules hold theorems; each extends the modules it is about.  They assume only
the named assumptions of those modules (`TiledAssumption`, `MoveAssumption`,
`ArenaAssumption`, `EvictableAssumption`, `ExecutorsAssumption`, `SubmitterAssumption`,
`ServersAssumption`, `ProviderAssumption`, `AuthorityAssumption`, `EvidenceAssumption`,
`AutogradAssumption`, `ProfilerAssumption`, `StagesAssumption`, `ClassesAssumption`,
`AbsentAssumption`): marks for "nothing" are not values, receipts or certificates, bounds
are numbers, the two initial tiers differ, task waits go down in depth, a task is
submitted by one caller, a report has records and a record belongs to one report, an
operation is younger than its inputs, a plan occurs once among a carrier's, no plan's
operation is a movement, each is of exactly one of the kinds that
`_validate_classification_catalog` demands, and a sum has an analytic witness.  A
hypothesis beyond these is written in the theorem, and a violated run shows that it is
needed.

| module | theorem | states |
|---|---|---|
| `TiledResidency_proofs` | `TypeCorrect`, `CountersStayExact`, `OneHomeAlways` | `TypeOK`, `CountersExact`, `OneHome` |
| | `DecisionsHold`, `PinsProtect`, `ReleaseForgetsNothing` (with `OneCaller`) | `RequestShape`, `PinnedUntouched`, `ReleaseLeaksNothing` |
| | `CarrierIsFlat` (with `OneCaller`) | `FlatMemory`: refinement of `TiledMemory` |
| `MoveAsync_proofs` | `TypeCorrect`, `OwnershipStaysExact`, `SourceStaysKept`, `DestinationStaysServed` | `TypeOK`, `OwnershipExact`, `SourceKept`, `DestinationServed` |
| | `MovesHandOver` (with `Torn = {}`) | `AtomicTransfer`: refinement of `TransferMemory` |
| `BlockDeviceArena_proofs` | `TypeCorrect`, `DevicePartitioned`, `ExtentsKept`, `TransfersOwnTheirPayload`, `WritesMoveVersions` | `TypeOK`, `Partition`, `ExtentsCover`, `TransferOwnsPayload`, `WritesAreVersioned` |
| | `DeviceIsArrays` | `SeparateArrays`: refinement of `ArenaMemory` |
| `EvictableHierarchy_proofs` | `TiersAlwaysOwned`, `ReleasesComplete` | `TiersOwned`, `ReleaseComplete` |
| `BackgroundExecutors_proofs` | `WorkersAlwaysServe`, `NobodyWaitsInACircle` | `WorkersServe`; while a task is unfinished, some worker can move |
| `VerificationStore_proofs` | `ServersAlwaysKept`, `EvidenceStaysComplete` | `ServersKept`, `EvidenceComplete` |
| | `ServersTyped`, `EvidenceTyped`, `StagesTyped` | `ServersTypeOK`, `EvidenceTypeOK`, `StagesTypeOK` |
| | `RunsStayAuthorized`, `EveryCaseIsAnswered`, `EvidenceIsSound` | `RunsAuthorized`, `EveryCaseAnswered`; `EvidenceSound`, which adds `ReportsHold` |
| | `PassedViewIsExact` | `PassedView`: the view of what passed is valid exactly if it certifies no kernel with a deferred plan |
| `Extensions_proofs` | `AnswersStayFinal`, `OperandsAlwaysSettled` | `AnswersFinal`, `OperandsSettled` |
| | `AuthorityTyped`, `TypeCorrect` | `AuthorityTypeOK`, `ProviderTypeOK` |
| `Autograd_proofs` | `ConsumersRunFirst`, `AutogradTyped`, `ProfilerTyped` | `RunsAfterConsumers`, `AutogradTypeOK`, `ProfilerTypeOK` |
| | `ProfilerHolds`, `ProfileIsExact` | `ProfilerInv`, `ProfileExact` |

Each module first proves its inductive invariant, action by action and conjunct by
conjunct, and derives the theorems from it.  Why the invariants are what they are:

*Tiled carrier.*  None of the checked invariants is inductive.  The counters need
`Accounts` (`Shapes`, `PinsTotal`, `RequestCounts`, `WorkCounts`): a counter is the
cardinality of a set of requests or works, and each step moves one member.  The rest
needs `Sound`, which adds: `Decisions`, because a request commits long after its
admission and must find the records it read; `Promises`, because the body of a work
starts after its own promotion and must find all of it; `Unguarded`, because an eviction
admitted before a pin must not move a tile that is pinned by now; `Committed`, because no
failure may follow the first effect of a commit; `Emptied`, because a release visits the
tiles one by one.  `OneCaller` says that the thread that releases is the only program
thread, or that nobody releases.  Without it the claim is false (`tiled_release_race`);
`OneHomeAlways` and the counters do not use it.

*Moves.*  `Vault` is `TypeOK`, `OwnershipExact` and `Values`: what the captured value of
each move says of the source and of the destination at each of its steps, and that a
store that was checked before a claim can only be one of a carrier in `Torn`.  The
refinement also needs `Betrayals`, because a move fails later than the provider's act
that dooms it.  `MovesHandOver` assumes that no carrier is torn: `move_torn` shows that a
store which is not atomic breaks the atomic hand-over.

*Block device.*  `IInv` says how the free ranges and the extents cut the device
(`Layout`), who may free an extent (`Referenced`, `Attached`), what a thread between two
steps has (`Pending`, `Locked`), and that versions move with the payload (`Versions`).
The lemmas are about ranges: the union of two neighbours, what is left of a range from
which an aligned place is cut, that the search returns the lowest place.  `Fitted` adds
that a place that has been reserved was the lowest one, for the refinement.

*Evictable hierarchy.*  A transition is eight steps without a lock, so `Settled` says
for each thread what it may count on: a fresh destination is its own (`Destinations`), the
destination of a promotion that is about to install holds the value, and the thread that
is about to install has released the active tier (`Turns`, `Accesses`).  All of that
holds as long as no transition has gone `astray`, which is the condition of
`TiersOwned` and cannot be dropped (`evictable_overtaken`).  A release that nobody runs
beside finds the tiers as it left them (`Returning`).

*Executors.*  `Staffed` counts workers against queued and running tasks.  For
`NobodyWaitsInACircle` the depth of a task is the measure: of the unfinished tasks one
has the greatest depth, and none that it waits for is unfinished.  This is the safety
half of `WorkDrains`; that the workers then do move is fairness.

*Servers, providers, authority.*  `Kept` says who refers to a server that runs: the
registry, an acquisition that launches it, a shutdown that has taken it, or nobody if its
termination has raised.  `Ledger` bounds
what a provider has done to an operand by what its snapshot and its progress say.
`Sealed` says that whatever has been told about a class or an instance was computed from
what can no longer change.

*Evidence.*  `Archive` says of every store that its rows are closed: what a row refers
to is there, and a report that is there has all of its records (`Stores`), and the same
of what has been published (`Snapshots`).  It says of a job under way what it adds to
its store, a report or rows that are whole reports together with those there, or what
its queries have found so far; none of this another process can take back, because no
row is ever removed (`Jobs`).  A record is looked up by its key, hence the assumption
that two reports share no record.

*Verification stages.*  `Staged` gives, for each step of a verification, the requirements
that have been asked so far (`Required`) and says that the records answer exactly these,
each once (`Answers`): what the next step asks is disjoint from them, because its stage,
its plan or its kernel differs.  A certificate is accepted only after stage two has made
it again from the evidence, so it stands for cases that have passed (`Trusted`), and a
record of the target that has run keeps one such certificate (`Allowed`), also through
the late receipts of the report.  That no report is refused needs `Vouched`: each record
fits its receipt and its certificate (`Fitting`), the certificates are those that the
oracle's records give again (`Restored`), also after their receipts have been stamped,
and every computation that has run is bound (`BoundTo`).  A certificate that was issued
for a plan of the oracle covers the classes of the target's plan because both are
classified by their operation (`SameClasses`).  A view is then a report exactly if it
agrees with the certificates it shows (`ViewsHold`): the views by kernel show all that a
certificate was made of, the view of the problems shows none of it, and the view of what
passed all but the deferred plans (`AgreesPassed`), whose absence changes the digest.

*Types.*  The types of the components that `MCComponents` puts side by side are not
checked by a run.  They are proved: most of a type is part of the inductive invariant, and
`ServersTyped`, `EvidenceTyped` and `StagesTyped` add what it does not say (no acquisition
tries too often, rows are only in a store that has tables, the place of a stage is within
its plans, a record is of a case that is required).

*Autograd.*  `Scheduled` counts: what is left to a tensor is the number of found
operations that consume it and have not run.  So the last consumer makes an operation
ready, once.  That nothing is left over when the stack is empty follows from the order
of creation: the youngest operation that has not run has only consumers that have.
`Reached` is the least set closed under inputs, which is why every operation but the
root's has a consumer in it.

*Profiler.*  `ProfilerInv` ties what is recorded to what runs: the frames of a session
that follows its thread are the top of the thread's stack, no other session's operation
lies above them, and each frame names the nearest selected operation still running
(`FramesFollow`); so an operation that begins finds its parent in the innermost frame
(`EventsFollow`).  A session that is abandoned stops following, and then nothing of it
is claimed until its thread gives it up.  `PhasesHeld` counts the pending moves of a
profiler, which is why the last phase finds `pending` at one and publishes
(`Published`).  The rest is arithmetic of ranks: times are distinct (`TimesUnique`), so
the place of a time in the sorted list determines it (`PlacesInOrder`, `ReadBack`).

*What is only model-checked.*

- `EveryRequestEnds`, `EveryMoveEnds`, `WorkDrains` and `AcquisitionsWake` are liveness
  under fairness, which TLAPS does not reach.
- `LayoutAlgebra`, `IndexMaps`, `Descriptions`, `Tensors`, `TensorViews`, the kernels and
  `Functional` compute by
  recursion on trees and sequences; what a recursive definition computes for every input
  needs induction over data, which the installed provers cannot instantiate.  So
  `MapsMeanWhatTheySay`, `ViewsReturnGradients`, `KernelsAgree`, `KernelsAdjoint` and
  `CallsMeanWhatTheySay` stay with TLC.
- `GradientsExact` compares a traversal with a sum over paths, a recursive definition;
  the order it rests on is proved.
- `PlansDeclared` is about finite tables of the policy; its run evaluates them entirely.

## 7. Not modelled

- *Metal*: the specialization cache is a bounded map under one lock that is held across
  compilation; the kernels need a device.
- *Dtype registry*: a registration is one critical section, the rest validates immutable
  descriptors.  *Move routes*: a static registry; its outcome is the guard of a move.
  *Storage backends*: element storage behind the carrier protocol.
- *Functions on tensors*: execution options, the gradient mode, and the factories other
  than `tensor`.  *Modules and optimizers*: the registry of parameters, the layers that
  call one function, and the optimizer's step.
- The provenance of a build, the written form of reports, and the status queries of the
  evidence store.
- The geometry of a tiled selection, the carriers that `scatter` and `new_like` build,
  DLPack, fork, and `_complete_declaration` of the shipped carriers.

Four hazards have no property.  A garbage collection that runs inside a block under the
device's lock and finalizes a carrier of that device waits for ever; the specification
leaves such callbacks out, and here a collection waits for the lock.  The pins of a work
are dropped before its handle is terminal, a traversal fails after it has accumulated
into leaves, and a failure between the creation of an evidence database and its tables
leaves it unusable: these follow from one step of the model each and are described in
section 4.

## 8. Plan

1. Model the registries of dtypes and routes, and the bounded cache of metal
   specializations.
2. Compare the address plans of the metal carrier with the index maps they are made of.
