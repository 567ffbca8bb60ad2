# A formal model of the Intel Quantum Passes

TLA+ specifications of the compiler passes in this repository, with the TLC
configurations that check them on small platforms and blocks, and theorems
about them checked by TLAPS.

## 1. The system

The passes turn a program with quantum kernels into one that a quantum runtime
executes on a given platform. They run on LLVM IR, one after the other, in one
thread; a kernel is a function, a *quantum basic block* (QBB) one of its blocks.
The state they share is the `QuantumModule`: arrays of qubits, and for every QBB
the placement of program qubits on physical qubits at its start
(`qubit_maps`) and at its end (`final_qubit_maps`).

| part | state it keeps | operations | what makes it correct |
|---|---|---|---|
| `MapProgToPhysQubits` | program -> physical and physical -> program arrays, special values, ids of qubits | registration of arrays, trivial / custom / range placements, swap, join, intersect, removal | the two arrays are inverse of one another after every operation |
| `QuantumInitPlacement`, `SimpleQbitPlacement`, `QuantumPlacementUtils`, `QuantumGeneralUtils` | placements per QBB, visited set of a traversal | trivial, custom, dense and local placement; handing the placement at the end of a block to its successors, also around loops | every QBB has one placement, equal on all ways into it |
| `QuantumScheduler` | placements at the start, now and at the end, the table, the routing swaps | forward scheduling with routing, backward routing (retrace, sorting networks, grid), sweep of the table, rewriting of the block | the block that is run is the block of the source; qubits end where they are recorded |
| `ConvertQbitToQID` | none of its own | conversion of operands through the final placement, back-fill of qubit arrays | every operand names the physical qubit its program qubit is on |
| `ValidateAndConditionQBB` | cache of verified blocks, iterators on the blocks with gates | linear chain check, removal of gates after a release, moving all gates into one block | whichever way is taken through a kernel, the gates of the source are run, in their order, up to a release |
| `QuantumModule`, `QuantumCompilerLinkage` | linkage and compilation position of the module | numbering of arrays over the call graph, inference of the position | the stages run from the inferred position on |
| `SpinNativeLowerFromCanonical`, `DecomposeToffoli`, `SpinNativeAnglesInRange`, `SpinNativeConvertToIMM` | indices of parameter tables | decomposition, range reduction, allocation of parameters | the same operation after every step; no two parameters under one index |
| `FlattenQuantumKernel`, the rounds of `QuantumPassPipeline` with `QuantumLoopUnrolling` | calls to inline, functions found valid, attempt counters | inlining, unrolling and validation in turn | a flattened kernel holds the gates written in it and below it; the rounds end, with every kernel in use valid |
| `SeparateAndReplaceQBB`, `QuantumClassicalModuleSplit`, `FinalizeQuantumCompilation`, `Serialize` | lists of blocks | the outer pipeline | one block per kernel call is left for the runtime |
| `QuantumCircuit`, `QuantumCircuitOp` | the block, and a graph in which each operation names the next user of each of its qubits | circuits made from a block; append, insert, move, remove; two iterators | block and graph tell the same order on every qubit, after any edits |
| `QuantumIterator`, `QuantumRefs`, FLEQ | a cursor; the first gate of every block, shared; instructions to put in order; the lists of qubits and the choices for cancelled factors made so far | insertion, removal, traversal; slices and joins of lists; arithmetic on parameters and its simplification | the cursor is on a gate, operands stand before their users; a list has the qubits its expression stands for; a simplified parameter is what it was |
| the script, the driver, the stages | a file, and the stage to go on with | stopping after a stage, picking files up | no stage is skipped or done out of order |
| printers, JSON, the frontend plugin | files; the syntax tree of an expression | input and output | - |

Parts interact by calls and through the `QuantumModule`: placement writes
`qubit_maps` and `final_qubit_maps`, the scheduler reads the first and may
overwrite the second, the conversion reads the second. There is no concurrency.
What is hard is order and state that outlives its use: members of the one
scheduler object that are used for all blocks, lists that shrink while they are
walked, a table read row by row, placements that follow swaps, pointers to
placements shared by several blocks, a graph kept in step with a block by hand. `PROJECT.json` lists these hazards at
their lines.

## 2. The modules

| module | models | code |
|---|---|---|
| `QubitMaps` | the placement, its consistency, the exchange of two physical qubits | `QuantumMapProgToPhysQubits.{hpp,cpp}` |
| `LogicalCircuit` | the promise of scheduling: every gate executed once, on the program qubits of the source, in an order that keeps that of gates sharing a qubit | - (abstract) |
| `Scheduler` | the scheduler and the conversion of the operands it leaves | `Scheduler.{h,cpp}`, `ConvertQbitToQID.cpp` |
| `DenseSet` | `findBestDenseSet`, one action per step of its search | `QuantumPlacementUtils.cpp` |
| `LocalSearch` | `LocalSearch::localSearch`, one action per step of an iteration | `QuantumPlacementUtils.cpp` |
| `PlacementMaps` | registration of arrays, the setters and `join` | `QuantumMapProgToPhysQubits.{hpp,cpp}` |
| `Placement` | the placement methods, for the global qubits and for every kernel | `QuantumInitPlacement.cpp`, `QuantumGeneralUtils.cpp` |
| `OperationGraph` | the graph: dependences, links, the two iterators | `QuantumCircuit.h`, `QuantumCircuitOp.cpp`, iterators of `QuantumCircuit.cpp` |
| `QuantumCircuit` | the circuit of one block and its edits | `QuantumCircuit.cpp`, `QuantumCircuitOp.cpp` |
| `GateCursor` | the promise of a gate iterator: a cursor on the sequence of the gates | - (abstract) |
| `GateIterator` | `QBBIter`: moves, edits, and putting operands in order | `QuantumIterator.{h,cpp}`, `QuantumRefs.cpp`, `QuantumGeneralUtils.cpp` |
| `Conditioning` | validation of a kernel and its reduction to one quantum block | `ValidateAndConditionQBB.cpp`, `QuantumGeneralUtils.cpp` |
| `GateAlgebra` | matrices of gates over a finite field | - (definitions of the gates) |
| `NativeLowering` | the passes from the gates of the language to those of the backend | `DecomposeToffoli.cpp`, `SpinNative*.cpp` |
| `KernelPasses` | inlining of kernels into kernels, and the rounds of unrolling and validation | `FlattenQuantumKernel.cpp`, `QuantumPassPipeline.cpp`, `QuantumLoopUnrolling.cpp`, `QuantumGeneralUtils.cpp` |
| `QubitLists` | `QRefArray`: lists of qubits in quantum expressions, and what is remembered of them | `QuantumRefs.{h,cpp}` |
| `CompilationStages` | the stages of a compilation, stopped and picked up again | `QuantumCompilerLinkage.cpp`, `quantum-optimization-driver.cpp`, `quantum-module-stage.cpp`, `iqc-out-of-tree.sh`, `QuantumPassPipeline.cpp` |
| `ParameterExpressions` | `ParaRef`: arithmetic on parameters, and its simplification by polynomials | `QuantumRefs.cpp`, `QuantumClassicalSimplify.h` |
| `MCScheduler`, `MCPlacementSearches`, `MCPlacement`, `MCPlacementPrograms`, `MCQuantumCircuit`, `MCGateIterator`, `MCConditioning`, `MCNativeLowering`, `MCKernelPasses`, `MCQubitLists`, `MCParameterExpressions` | small platforms, blocks, programs, circuits, kernels | - |
| `SchedulerProofs`, `SchedulerExecutionProofs`, `PlacementProofs`, `DenseSetProofs`, `LocalSearchProofs`, `FiniteSums`, `KernelPassesProofs`, `CompilationStagesProofs` | lemmas and theorems | - |

### `Scheduler`

`pc` names the part of `runImpl` that is executed; one action is one iteration
of a loop of the code, or what lies between two loops.

- *populate*: `StartQBB`, then for each gate `ScheduleInPlace`, or `FindRoute`,
  one `RoutingSwap` per swap of the route, and `PlaceRouted`; `FailToRoute` is
  the exit of the compiler; `EndPopulate` decides on the way back.
- *scan*, *undo* (retrace): `RetraceScan` is one iteration of the loop that
  cancels pairs of swaps, `RetracePass` the end of a pass over the list,
  `RetraceSwap` one swap undone.
- *prune*, *undo* (sorting): `PruneQubit`, `PruneDone`, `SortSwap`;
  `BackwardDone` is the check at the end of either method.
- *sweep*: `SweepQubit` is one iteration of the inner loop of
  `convertTableToSequence`, `SweepRound` the end of the outer one.
- *reorder*, *convert*: `ReorderGate` and `ReorderDone` rewrite the block,
  `ConvertGate` converts the operands of one gate, `FinishQBB` goes on to the
  next block with the same scheduler object.

The conversion pass of the code runs when all blocks have been scheduled. It
uses only the final placement of the block it converts, which nothing changes
any more, and is modelled at the end of the block.

Gates are the numbers of the table: from 0 for gates of the block, negative for
the swaps, `is_idle_` for padding. The table, the two lists of swaps, the
working list of the retrace method, the path of the sorting methods and the
locals of the sweep are modelled as they are. Data that no property tells apart
is left out: angles, parameters, classical bits, names.

The platform (`hardware::Machine`) and the sorting networks (`swapnet`) are
submodules that are not in the repository. They are modelled from how they are
used: the platform may answer with *any* route along links that ends where the
gate is available and displaces neither operand, so that everything shown holds
for every routing heuristic; a sorting network may exchange any two neighbours
on the path that are out of order, in any order.

Three history variables make the correctness of the result expressible.
`trail` holds the placements between the swaps that are still to be undone;
`where` and `executed` follow the rewritten and converted block as the hardware
runs it. The code has none of the three and no action reads them except to
update them.

### `DenseSet` and `LocalSearch`

Both are algorithms on the connectivity graph that keep a state which is only
brought up to date: markers that count as visited once, a list of positions to
remove, a table of cost differences. Actions are the steps of their loops:
`StartAtRoot`, `StartLayer`, `StartSource`, `Visit`, `TrimPosition`, `KeepBetter`
in one; `Shuffle`, `CheckSwaps` or `ReturnZeroCost`, then `MoveRandom` or
`MoveBest` in the other. What the code lists without using the list as one is a
set: the roots, taken in the order in which the code finds each first
(`NextRoot`; a root found again starts the same search, which is not better than
itself), and the neighbours of a vertex, in ascending order. Random numbers are free choices. The graph of links and the distances
come from the platform, which is external: `Distance` is a constant of which only
its sign is assumed. What is undefined in C++ (a choice
from an empty table) is an action that leads to `undefined`.
`MCPlacementSearches` runs either of the two or `Placement`, with variables of its own for each.

### `Placement`

A program is the list of its global arrays, without repetition, and, for each
kernel, the qubits its gates use, in order. A map is the one of `QubitMaps` with
the order in which arrays were registered, from which ids follow: the id of a
qubit is the number of elements of the arrays before its own, and its position
in that one (`IdOf`). A loop of the code over ids, or over physical qubits in
ascending order, is the list of a set in that order (`OrderedBy`), and a setter
assigns the pairs of a qubit and a physical qubit that the loop makes (`Paired`,
`Assign`). First the global qubits are
placed (`TrivialGlobals`, `DenseGlobals`, `CustomGlobals`, `LocalGlobals`), then
kernel after kernel (`TrivialKernel`, `DenseKernel`, `LocalKernel`,
`SkipKernel`). The searches are used through what the modules above show of
them: a dense set is any set that contains the qubits in use and has no more
elements than asked for, or those in use alone (`ExtendsMappedSet`); local
search gives any one-to-one placement (`PlacementsValid`) of the ids it is asked
to place. The rest of the application graph is outside of what `LocalSearch`
assumes; what happens to it (`Strays`) is modelled in `Placement`.

Validation leaves a kernel with one block that has gates, behind blocks that
have none, so that the walk over predecessors always ends at the entry of the
kernel, with the global map. Pointers to maps are not told apart from what they
point to: the code copies a map before it is stored as a final one.

### `QuantumCircuit`

A graph is a record: `edges` (`Successors` and `Predecessors`, which
`addSuccessor` and `removeSuccessor` keep in step), `next` (the map
`SuccessorDependency`, by qubit) and `wires` (the map `SuccessorDependence`, by
operation). The last two say the same thing and are updated one after the other
by hand. An operation is its gate identifier, which the code gives in the order
of creation and by which the iterator chooses the oldest operation that is
ready. `block` is the order of the instructions in the LLVM block.

`Init` makes the circuit of a block (`FromBlock`). `AppendGate`, `InsertGate`,
`RemoveGate` (also `deleteGate`), `MoveGate` and `MoveGateToEnd` are then called
in any order; a copied gate is another operation with the same operands. Both
moves remove the gate before they put it in. The operations in `Foreign` have an
argument that is not mapped into the function of the block: adding one fails,
after it has been counted and its instruction put into the block. `fault` stands
for an assertion that fails or memory read out of bounds, after which nothing
happens any more.

Maps keyed by qubits are walked in the order of `QubitCompare`, which is
`QubitOrder`. Sets of pointers are walked in the order of addresses, which the
model takes to be some fixed order. It could matter only where two edges stand
for one qubit: the dependences checked in the passing run exclude that, and the
violations found do not depend on it.

### `GateIterator` and `GateCursor`

A block is a sequence of instructions `[id, kind, type, uses]`. Gates are calls;
between them are the loads of their qubits and the classical values that indices
and angles are computed from. `begin` is the entry of `q_BB_RANGE_MAP_` for the
block, shared by all iterators; an iterator is the identity of an instruction,
which may have been erased. Every public operation of the class that moves or
edits is an action; two iterators call them in any order. `FixOrder` of
`insertGate` decides whether operands are put in order at once
(`updateGatesForBB`) or are left on `InstsToCheck` until
`updateGateDependencies` is called.

`recursiveMoveBefore` is translated with the numbers the code takes before it
moves anything and the map of what it has moved.

An angle is a constant, an expression over a value of the block that its
reference owns until the gate is inserted (`owned`), or a value of the block as
it is (`given`), which is what `getParametricOperands` of another gate returns.
`add_para_call` lists the expression, but for a given value the instruction it
is to stand before: the one at the insertion point, or the gate whose angle is
replaced. That one may be erased before the list is worked off; the code then
reads memory given back, and the model lets it be passed over or be any
instruction created since (`Readings`). Expressions are not given in turn.
Angles and qubits that are known to be equal to those they replace are skipped;
`setQubitOperands` and `setParametricOperands` are calls in which none is.

`GateCursor` knows only the
gates and where each iterator is; the refinement maps an iterator on an erased
gate to `Lost`, which the code cannot tell and the caller has to avoid.

### `Conditioning`

A kernel is a control flow graph with a number of gates in each block and at
most a few releases. `locateMeasurementControlInst` looks at the releases,
`Validate` is `validateQuantumKernel` (post-order of the components, the check
of loops, `verifyLinearChain` with its cache, and of operands),
`RemoveAfterRelease` one iteration over the blocks behind the release,
`SplitBlock` the cut, and `MoveGates` moves the gates of one block, the last
first. `contains_release` is an uninitialized variable in a function without a
release: `Validate` lets it be any block.

### `NativeLowering` and `GateAlgebra`

The passes over one block, one action per gate: `DecomposeToffoli` (on request),
`LowerFromCanonical`, which goes backwards, `AnglesInRange`, `ConvertAngles` and
`ConvertMeasurement`. An angle is a constant, the value of a variable known at
run time or half of one, or an entry of the table, which the stores of the block
before fill.

Operations are compared as matrices. `GateAlgebra` computes them over the field
with 12289 elements, in which a root of unity of order 32 stands for
e^(i pi/16): every angle that is a multiple of pi/8 is exact there, and equal
operations are equal, up to the global phase, which is not observable. Two
operations that differ could only be taken for equal if 12289 divided the
difference. Measurements and preparations are Kraus operators, one for each
outcome. The definitions of the gates are those of the language and of the
backend; they are external to the passes, which have names only.

### `KernelPasses`

A module is a list of functions, each a kernel, a quantum expression or neither.
A body is a list of gates and calls, with the qubits they are applied to and
whether they are in a loop; a qubit is an element of a global array, at a
constant or at the variable of the loop, or an argument of the function.

`ScanCycle` and `ScanFunction` are one step of the walk over the call graph,
bottom-up and otherwise in any order, `InlineCall` one call inlined,
`MarkInlined` the attribute on what nobody calls any more. A round is `PreMPM`,
then for each function one of `Skip`, `AlreadyValid`, `GiveUp` and `Simplify`,
then `PostMPM`. `validateQuantumKernel` is modelled with its codes -1 (loop), -3
(operand not resolved), -4 (operands not known to differ), 0 and 1; branches
(-2) are the subject of `Conditioning`.

The passes of LLVM are external. `Simplify` unrolls *any* of the loops of a
function, or none, so that what is shown does not depend on what LLVM can
unroll; a loop is one gate and has two iterations. The removal of dead code
keeps what a function visible to the linker reaches (`Needed`). Helpers that are
always inlined are left out.

### `QubitLists`

A list is a sequence of segments `<<register, index, width>>`, as in the code,
and an expression an array, the empty list, a slice, the rest of a list or a
join. Indices are numbers, known from the start or after loops have been
unrolled (`ResolveIndices`), or sizes of lists. `get` is a request for the list
of one expression; it builds what the expression needs and is not in
`ARRAY_MAP_` yet, also that something could not be built. `advance` stops at
segments without qubits as the code does, and `isAddableToArray` has the overlap
test of the code, which compares the end of the register. Lists allocated as data
lists are left out.

### `ParameterExpressions`

A parameter is a value: a constant, an argument, an instruction (`insts`), or the
choice that belongs to another value, the `select` instruction of
`handleDivisionByZero`. `MakeParameter` is a sequence of operators applied to
parameters, `updateToSimplified` is the method: `build` writes the value as a
polynomial (`TermTimes` and `TermInverse` note which factors were cancelled
against a divisor), `constructVariable` makes instructions of it, and
`conditionOnHandleDivisionByZeros` sets what the choices are otherwise
(`outcome`), for the rest of the compilation. `Polynomial` takes arithmetic to be
exact; numbers are those of the field with 7 elements, in which every quotient is
a number and a sum of products that is not the same expression differs somewhere.
Elements of a `std::map` are walked in the order of addresses, which the model
takes to be some fixed order. A term of an erased factor has its power read again
by the code: the model takes it to be the zero that was there.

### `CompilationStages`

Of a file the model has what is asked of it: whether there are kernels and named
blocks, the kinds of gates, angles and operands, the calls of the runtime, and
(for the properties only) the stages whose passes have been over it. `Position`
is the chain of checks of `QuantumCompilerLinkage`, `StageAt` the choice of the
script, and there is one action per stage, which runs its passes, or exits when
what they need is not there (`Passes`). `Compile` is a call of the script with a
last stage. Assumed are programs that are valid and fit the platform; complete
files are not compiled again; a first stage given by the user is left out.

`MCKernelPasses` runs one of `KernelPasses`, `QubitLists`, `Conditioning` and
`CompilationStages`,
`MCNativeLowering` one of `NativeLowering` and `ParameterExpressions`.

Variants. A definition whose comment says *variant* is a copy of the one after
it with a bug in it. No specification uses it: `PROJECT.json` pairs each with a
property that must fail when it takes the place of the original.

## 3. Properties

- `TypeOK`: the kinds of the variables.
- `PlacementsConsistent`: the three placements of the scheduler, and the one the
  hardware reaches, pair program and physical qubits one to one.
- `UndoLeadsBack`: the swaps still to be undone lead, link by link, from the
  placement at the start of the block to the current one - while the list grows,
  while pairs are cancelled out of it, and while it is undone.
- `UndoIsReduced`: when undoing starts, no cancelling pair is left.
- `HoldBlocksRestored`: a block that holds its qubits ends on the placement it
  started from, and the compiler never gives up on the way.
- `TableIsASchedule`: a gate on two rows of the table is there once on each, at
  the same time.
- `SequenceFollowsTable`: the sequence is complete, without repetition, in the
  order of start times.
- `BlockFitsPlatform`: every gate of the rewritten block is on qubits where the
  platform has it, every swap on linked ones.
- `MatchedMeasuredOnce`: no physical qubit is measured twice by measurements
  matched with their readout.
- `FinalMapReached`: the placement the hardware reaches is the final placement
  that is recorded.
- `ImplementsLogicalCircuit`: refinement of `LogicalCircuit` under
  `circuit <- gates`, `executed <- executed`.
- `EveryBlockIsFinished`: every block is finished, unless the platform cannot
  execute it.

`DenseSet`: `AnswersAsPromised`, which is `ExtendsMappedSet`, what the placement methods rely on;
`FindsEnoughQubits`, the search is not trapped between qubits in use on a
connected platform. A conjunct of the first is
`ConnectivityIsOfOutcome`, collections are compared as they are kept.
`SearchesTerminate` is of both searches.

`LocalSearch`: `PlacementsValid`, the two maps are inverse of one another, fixed
qubits stay, and so is the answer; `CostsExact`, the assertion at the end of the
search, at any time, and that what is returned is never worse than placing in
order; `TableIsExact`, entries that were not refreshed are right
all the same, and there is one for every exchange worth considering.

`Placement`: `PlacementsAgree`, which is `MapsConsistent`, and `GlobalQubitsAgree`:
every kernel finds the global qubits where all others leave them; `EveryOperandPlaced`, also that the compiler
refuses no program that has a placement (`ExitsAreJustified`, with the exception of the
local method, which counts unused elements of arrays, as the property says);
`ValuesBeforePlaceholderFollowed`. For the local method the first and third are
conditional on ids without gaps (`IdsAreDense`): see the finding.

`QuantumCircuit`: `MapsAgree`, the two maps of every operation agree and no
assertion fails (`AssertionsHold`);
`EveryGateIterated`, no gate is left dangling and no cycle keeps the iterator
out; `WireOrder`, on every qubit iteration and block have the same order;
`QubitDependenciesMaintained`, each operation passes each of its qubits to the
next user of the qubit in the block; `SlicesAreParallel`, the iterator of time
slices gives every gate once, never two on one qubit, and in the order of the
block.

`GateIterator`: `GateOperandsDefined`, once nothing is left to put in
order, indices, the expressions of angles, and all they are computed from stand
before their users (not so an angle that is a value given as it is:
`GivenAnglesDefined` says it for those too, and is violated);
`FixedStayFirst`, PHIs stay in front, and the shared first gate is the first gate after
edits by any iterator (`BeginIsFirstGate`); `IsACursorOnTheGates`, refinement of `GateCursor`.

`Conditioning`: `PathsRunSameGates`, also that the gates are run from one block
and none behind the release is left in it; `RejectedAreNotChains`,
no kernel is rejected that every way passes completely; `AcceptedAreChains`, its
converse, which the code violates.

`NativeLowering`: `SameOperation`, after every step the block is the operation of
the program, for every outcome and every value of an unknown angle;
`MeasurementsReadBack`, each cbit gets the result of its measurement.

`KernelPasses`: `FlattenedAsWritten`, every flattened kernel and expression holds
the gates written in it and in the kernels below it, in their order and on the
right qubits; `CalledAreValid`, what something calls comes out of the rounds
found valid, and still is; `KernelRoundsTerminate`. `ArgumentsAreOkay`, that a quantum
expression without loops and repeated operands is accepted, the code violates.

`QubitLists`: `ListsAsWritten`, a list has the qubits its expression stands for, in
their order, unless a list below it could not be put together and became empty.
Of what comments say beyond this the code violates `FailedBuildsAreNull`,
`ElementsAsWritten` and `NoQubitTwice`.

`ParameterExpressions`: `SimplifiedKeepsValue`, simplification does not change a
parameter where it is a number, and a product in which a divisor has been
cancelled is still not a number where it was none; `EquivalentThroughout`, that it
stays so, the code violates.

`CompilationStages`: `NoStageSkipped`, no pass works on a file that an earlier
stage has not been over, wherever compilations were stopped and picked up;
`OthersContinue`, only files stopped after scheduling, or without kernels, are
given up on; `PickedUpFilesContinue`, that none is, the code violates.

In the modules other than `Scheduler`, `KernelPasses`, `QubitLists`,
`Conditioning` and `ParameterExpressions` the type invariant is a conjunct of the
first property (of `CostsExact` in `LocalSearch`).

Fairness. `FairSpec` of `Scheduler`, `KernelsSpec` for `KernelPasses` add weak fairness of the next-state relation, and
`SearchesSpec` that of the steps of the two searches (`Search`): one thread runs the pass and a step that is possible is taken. Nothing is assumed about which step,
so that termination holds for every route and every network chosen, and when no
pass ever unrolls a loop.

## 4. The runs

| run | configuration | what it shows |
|---|---|---|
| `retrace` | line 0-1-2-3, no interaction between 2 and 3; qubits a, b, c with physical qubit 2 free; blocks of up to three gates out of five (crossing two-qubit gates, and measurements that call qubits back), blocks of two that also release, and one gate with three operands; 48132 states | all properties of the scheduler but the two that need other constants |
| `sort` | the line with a link 1-3, any of the qubits 0, 1, 2 free, measurements possible on 0 and 3 only and matched, blocks of up to two gates and one of three measurements; 149679 states | restoring by sorting; every gate where the platform has it; pruning at the end of the path, allowed in its middle (2) and refused (1); one measurement per qubit, and failure when there are not enough qubits |
| `searches` | placement: two kernels out of six, up to three global arrays, two local ones, four physical qubits, every method, eight initializers for the custom one; for the local one programs that use local arrays in part; dense set: a line, a ring, a grid, two trees with branches, two parts that are not linked, one qubit, a star of nine; every set in use and every size; local search: a ring of four with a fifth qubit; eight calls: nothing fixed, one or two qubits fixed, no usable link, nothing to place, too much; two resets of three iterations; 169897 states | the properties of `Placement`, `DenseSet` and `LocalSearch` |
| `local_ids` | the programs of `searches` with the local method | **violation** of `LocalSearchPlacesGraph` |
| `circuit` | three qubits, six gates on one or two of them, one of which cannot be added; four blocks to start from; 52379 states | the properties of `QuantumCircuit` |
| `circuit_remove` | gates on one pair of qubits in both directions and on either of the two | **violation** of `QubitDependenciesMaintained` |
| `iterator` | two iterators, three blocks of up to two gates, two edits; gates with one angle, constant, computed or given; 99224 states | the properties of `GateIterator` |
| `conditioning_branches` | `if (a \|\| b) X; H;` | **violation** of `AcceptedAreChains` |
| `native` | every gate of the language in every order of its qubits, rotations by six constants and by unknown angles, blocks of several gates that share table entries, Toffoli gates, measurements; with and without RZ, results queued and matched; every expression of one or two operations on two arguments and a constant, longer ones that cancel factors or raise sums to a power, one parameter made of another; 13629 states | the properties of `NativeLowering` and `ParameterExpressions` |
| `kernels` | four functions: three kernels in a chain, callers before and behind what they call, called twice, in a loop, from `main` or from outside; quantum expressions; recursion; loops over arrays that repeat a qubit; attempt limit 2; lists made in three steps of an array of three qubits and one of a single qubit; conditioned: all graphs of four blocks, edges forward and at most one back, gates in any of them, with and without a release, kernels with repeated and unresolved operands, functions that are no kernels; compilations of seventeen programs, with any number of stops; 279763 states | the properties of `KernelPasses`, `QubitLists`, `Conditioning` and `CompilationStages` |
| `picked_up` | one program, stopped after `schedule` | **violation** of `PickedUpFilesContinue` |
| `parameters_choice` | a/a and then a*b/a; b/(a/a + 2) + a/a | **violation** of `EquivalentThroughout` |

Further configurations are kept beside the runs. Each checks a property that
the code violates, for a deviation the runs leave out:

| configuration | module | violated |
|---|---|---|
| `MCSchedulerCanonical.cfg` | `MCScheduler` | `OperandsConvertToTable`: canonical gates in a block that releases its qubits |
| `MCPlacementPlaceholder.cfg` | `MCPlacement` | `CustomValuesFollowed`: values behind a placeholder |
| `MCQuantumCircuitInsert.cfg` | `MCQuantumCircuit` | `WireOrder`: a gate put behind a gate on another qubit |
| `MCQuantumCircuitKernel.cfg` | `MCQuantumCircuit` | `AssertionsHold`: a call of a kernel without operands |
| `MCGateIteratorGiven.cfg` | `MCGateIterator` | `GivenAnglesDefined`: an angle that is a value of the block as it is, behind the gate |
| `MCGateIteratorTwoAngles.cfg` | `MCGateIterator` | `GateOperandsDefined`: a gate with two angles computed from one value |
| `MCKernelPassesArguments.cfg` | `MCKernelPasses` | `ArgumentsAreOkay`: a gate on a global qubit and then an argument |
| `MCQubitListsElements.cfg` (with `-continue`, to see both) | `MCQubitLists` | `FailedBuildsAreNull`: a list rotated by one, without a qubit in it twice; `ElementsAsWritten`: an element behind a slice that ends between two segments |
| `MCQubitListsOverlap.cfg` | `MCQubitLists` | `NoQubitTwice`: part of an array joined with all of it |

Bounds. Four qubits on a line are the least on which two routes cross, a swap
has a disjoint one between two cancelling ones, and a free qubit moves; three
gates let a route start from what two earlier ones have left, and let the swaps
of one gate cancel those of another around a third pair, so that the scan of
the swaps to undo goes through its list a second time. Blocks follow one
another without bound, so that state left over from one block meets the next.
The eight platforms of the dense set are those on which a layer brings too many
qubits of different degree, qubits in use surround a root, or a part is out of
reach. Local search needs a ring: on a tree no exchange changes an entry away
from it. Two iterations are needed to use a stale entry, a third to see it in
the best placement. Four physical qubits and arrays of one and two elements are
the least with which arrays are used in part, from their end, in an order other
than that of their keys, and with which a program does and does not fit.
The circuits of the passing run have a cycle of pairs of qubits, so that a gate
has different neighbours on its two qubits, gates become newer than their
successors by moving, and qubits are learnt late. What it leaves out are the
three situations in which the code is known to go wrong, each of which has a
configuration of its own: two gates on the same pair of qubits, a gate put after a gate on
another qubit (in the passing run one goes to the start or after a gate on its
qubit), and calls of kernels without operands. Without a cap: gates are finitely
many and each is in the circuit or not, so that all sequences of edits are
covered.
The blocks of `iterator` have a value behind a gate that needs it and a value
that is computed from another, the least for which moving one operand is not
enough; gates that share a load; and no gate at all. Two edits let one iterator
erase what the other is on, and let instructions on the list be moved by a later
edit. Left out are gates with two angles (a configuration of their own), the order of
angles given as they are (another), more
than one instruction that must stay in front (a gate goes between them), and the
use of one value as an index and as an angle.
Of parameters, two operations are the least that cancel a factor against a
divisor; longer ones cancel several, or some of a power.
Four blocks are the least graph in which a block can be left out by one branch
and the search still has a cached result for another; later blocks have one gate
when there is a release (of two, the code leaves one outside).
Constants of `native` lie on both sides of every comparison of the passes: below
zero, pi, beyond pi, beyond 2 pi, in a reserved entry and not.
Three levels of calls are the least on which inlining in a wrong order leaves a
call in a body that has been inlined already. An attempt limit of 2 (the
default of the code is 10) lets a kernel fail once with attempts left and then
run out of them; a kernel becomes valid in the first round, in a later one, or
never. Three steps make lists of several segments that are cut again, in the
middle of a segment and between two; two longer ones show what follows an empty
segment.
The seventeen programs of `kernels` have every kind of gate and of angle, alone and
together, so that each check of the position is decided either way.
Deadlock is not checked: the compiler exits with an error in three places, and
then there is no next step.

Findings.

- Conditioning accepts kernels with a branch that leaves out a block with gates,
  when another way has reached the first successor of that branch before:
  `verifyLinearChain` returns the cached result of one successor. The gates of
  the block are then executed on every way.
- Scheduling canonical gates writes back, for a physical qubit, the program
  qubit that was on it at the *start* of the block; the conversion looks it up
  in the *final* placement. The two agree when the block is restored, and
  disagree for a block that releases its qubits after a swap.
- A placeholder in a custom placement makes the compiler ignore the values after
  it in the same array.
- The local method numbers the qubits to place without gaps, which ids do not
  have in general: a kernel that uses only the second element of a local array
  gets an operand without a place, or two operands on one physical qubit.
- Removing an operation links the one before it to the one after it by all
  qubits they share that are free at that moment. Of CNOT(a,b); CNOT(b,a); Y(b)
  the middle one is removed: the first passes b on to the end instead of to Y.
- An inserted gate follows the given gate in the block; in the graph it follows
  the last gate on its qubit that the iterator has come past before the given
  one, which may come later in the block.
- A circuit that ends in a call of a kernel without operands does not record by
  which qubits the call leads to the end. Removing the call fails the assertion
  in `removeGate`.

- An angle that is a value of the block as it is, and stands behind the gate, is
  not put in front of it: `add_para_call` lists the instruction at the insertion
  point in place of the value (`QuantumIterator.cpp:1330`). The passes of the
  pipeline that hand over such values insert behind them, or in a later block.
- Of two angles of a gate computed from one value, that value can be moved in
  front of the later user only: `recursiveMoveBefore` compares positions taken before
  anything was moved (`QuantumGeneralUtils.cpp:774`).
- A quantum expression may be applied to its arguments, but a gate on a global
  qubit and then an argument makes it invalid, because the two are not known to
  differ (-4), while the gate on the same two in the other order is accepted, because
  -3 is found first and returned for the whole function.
- A simplified parameter in which a factor was cancelled is the one choice kept
  for that factor, whose other outcome every later simplification that cancels the
  factor sets anew: a/a is simplified, then a*b/a, and the first has become b.
  Inside a sum the choice becomes a part of itself.
- A slice of a list that ends between two segments gets a segment without qubits
  (`QuantumRefs.cpp:1288`). Of a[0], a[2], b[0] take the first two and join a[1]: as a
  whole the list is right, but its third element is b[0]. Join the first two to
  the last, which rotates the list: the start of the empty segment counts as
  overlap, and the outcome is the empty list.
- A join that fails returns an empty list, not a null pointer, and lists made of it
  have other qubits than they are written with. The overlap test sees only whether
  the new segment starts inside of another: a qubit can be in a list twice.

- A file stopped after the stage `schedule` is picked up with that stage again, in
  which the operands are places already, and the compiler exits; the README of the
  repository says files are continued as far as possible. The one check that could
  tell such a file (angles in range) leads to the same stage
  (`iqc-out-of-tree.sh:604`). A program without kernels passes every check
  trivially, is picked up at the last stage and fails for want of the array that
  an earlier stage makes.

Met while modelling, and not the subject of a run: gates in a block behind a
release are removed by a loop that skips every second one
(`ValidateAndConditionQBB.cpp:100`); `contains_release` is read uninitialized; a
gate at the beginning of a block with two PHIs goes between them; an idle gate
would make the lowering loop forever, and iSWAP uses RZ also where the platform
has none; of two measurements into one cbit the first result stays, because the
calls are put in front of one another; matched measurements are not
postponed to the end of the block, as one comment in `runImpl` says and another
denies (`Scheduler.cpp:540`); trimming the dense set looks up connectivity by a
position in another list; local search uses an element of its table of exchanges
also when the table is empty, and divides by costs that can be zero; in a
circuit, a gate on two qubits inserted after a gate on both loses a dependence,
a kernel call appended to an empty circuit is not noted as blocking, one that is
removed stays noted, and the position of the last one passed is one too far when
a new qubit is inserted; the help of the script names a stage `start`, the driver
knows `begin`, and an unknown first stage is taken for one behind all others, so
that nothing is compiled and success reported; no code sets the position at which
the script refuses a file; a given `.ll` file is removed when `-k` is not given.

## 5. Proofs

Of the scheduler every safety property a run checks is proved, and the refinement
of `LogicalCircuit`, for every platform, set of blocks and number of blocks;
each proof module extends the one before it. The assumptions on the constants
are `ConventionalValues`, `PlatformShape` and `BlockShape`; what single theorems
need besides is said with them.

`SchedulerProofs`. An exchange keeps a placement consistent, is undone by itself
in either direction, and commutes with an exchange of two other qubits
(`SwapTwice`, `SwapsCommute`). Then

- `TypeCorrect`: `Spec => []TypeOK`
- `PlacementsStayConsistent`: `Spec => []PlacementsConsistent`
- `UndoChain`: `Spec => []UndoLeadsBack`
- `RetraceRestoresBlocks`: with the retrace method, `Spec => []HoldBlocksRestored`
- `SortingRestoresBlocks`: with a sorting method, `Spec => []HoldBlocksRestored`, if
  the path visits every physical qubit once (`PathIsHamiltonian`, which the code
  asks the platform for) and no qubit is left virtual when a block is scheduled
  (`NothingVirtual`: the check on the length of the path counts virtual qubits too)
- `UndoStaysReduced`: `Spec => []UndoIsReduced`

The inductive invariant `IInv` adds to these that all placements on the trail
are consistent (needed to commute and cancel swaps), what the entries of the
table and of the sequence may be (so that every number in a block being
rewritten has operands or a swap), and how far counters and lists are in each
stage (`Bookkeeping`). The one step with an argument of its own is
`RetraceScan`: cancelling swaps `i` and `j` that are on the same pair, with only
swaps on other qubits between them, shifts the placements between them by one
exchange, and the rest of the chain stays as it is (`ShiftedPlacements`,
`ChainRemove`). That a retraced block is restored is then the case of an empty
chain. For the sorting methods, what is left of the path still has every qubit in
use (`LineCovers`), the qubits placed are the ones the block started with (`Kin`,
since exchanges drop none), so that every one on the path has a position it must
come to and no two the same one; if some had to go up, the last of them would be
out of order with its neighbour, and the first of those that had to go down
(`SortedStay`). That the path is long enough is a count of the places it has.
`UndoStaysReduced` follows the scan: in a pass that has removed nothing so
far, the part of the list behind the scan has no pair that cancels, so that a
pass without a removal leaves none in all of it.

In the second half of the module, about the table of time slots,

- `TableStaysSchedule`: `Spec => []TableIsASchedule`. With the type invariant the
  property is inductive as it stands: a gate is entered under a number that no
  row has, at the latest end of its rows, so that each entry of a row is one the
  row had, padding, or the new one (`EntryOrigin`), and any two of these agree.
- `SequenceIsTheTable`: `Spec /\ []IntsSuffice => []SequenceFollowsTable`.
  `IntsSuffice` says that a block has at most as many gates as the mark for idle
  entries is large, and that no time passes the one the sweep takes for
  infinite: the limits of the C++ `int`, which the code does not check. The
  invariant `Swept` says of every row that the entries passed have started by
  the time of the round and the next one is not due, or is due and its qubit
  still to be asked in this round; a round in which no qubit moves then means
  that all rows are at their end, and `EveryPositionOnce` counts the gates.

`SchedulerExecutionProofs`, for gates that are not canonical yet. The condition is
needed because the identifier that a canonical gate names for a qubit free at
the start of a block may be any.

- `MeasurementsStayApart`: `Spec => []MatchedMeasuredOnce`. The invariant `MInv`
  follows a matched measurement from its operand through the sequence to the
  rewritten block: the qubit of each one scheduled is recorded as measured, no
  two are on one qubit, the one being routed goes to a qubit that none has, the
  sequence names no gate twice, and the rewritten block has the operands of its
  gates.
- `BlocksFitPlatform`: `Spec => []BlockFitsPlatform`, if neighbours on the
  Hamiltonian path are linked (`PathIsLinked`, what such a path of the platform
  is). `RouteLeads` says that what is left of a route is made of simple paths
  that end on the places found, and that a swap on the first link of one moves
  its operand along and the other at most out of the way (`RouteStepOne`,
  `RouteStepTwo`); so a gate is entered where its operands are. Pruning keeps
  the line one of linked qubits, because it asks for the link that closes the
  gap (`PrunedLinked`).

Under the same conditions and `[]IntsSuffice`,

- `OperandsAreOnTheirRows`: `OperandsConvertToTable` always holds. A
  configuration of section 4 shows it violated for canonical gates.
- `FinalMapIsReached`: `FinalMapReached` always holds.
- `BlockOfTheSource`: `Spec /\ []IntsSuffice => ImplementsLogicalCircuit`, the
  refinement mapping of `LogicalCircuit` step by step.

The compiler follows the placement in the order gates are *entered*, the hardware
in the order they are *executed*, and swaps on other qubits may have changed
places. What both agree on is an account `C` of the table (`Account`): what each
physical qubit holds after each entry of its row. It begins with the placement at
the start of the block, gates and padding leave contents alone, the two entries
of a swap exchange them, a gate of the program is on qubits that hold its
operands, and the last entries hold the compiler's placement. Of the sequence
executed up to some point, each row has seen a first part (`CutBefore`,
`CutAfter`), and the hardware's placement is what the rows hold there (`Follows`):
so a gate executed next finds its operands, and at the end the placement is the
compiler's. For the order of dependent gates (`TableInOrder`), where the operands of an
entered gate are by now its time is over (`Behind`); a later gate on one of them
starts after that and comes later in the sequence (`Precedes`, `EarlierDone`).
The last program qubits agree as well because both placements differ from the
first by exchanges only (`Kin`).

`PlacementProofs` proves for every platform, every program that has each global
array once and whatever the searches answer, from `ConventionalValues`,
`ArraysPartitionQubits` and `PlacementInputs`:

- `MapsAgreeOnGlobals`: `PlacementSpec => []PlacementsAgree`
- `OperandsArePlaced`: `PlacementSpec => []EveryOperandPlaced`
- `ValuesAreFollowed`: `PlacementSpec => []ValuesBeforePlaceholderFollowed`

The searches answer what section 3 says of them: any set that `DenseSets` has,
any one-to-one placement of the ids that are asked for. That local search gives
one is `PlacementsStayValid` below, that the dense set is one `DenseSetAnswers`.

All three follow from one invariant, `PlacementInv` (`PlacementInductive`). TLC
checks it on the programs of the run `searches` as well, when it is given as the
invariant of `PlacementSpec`. It is stronger than the properties in three
ways. It speaks of maps that are *well formed*: every known qubit is in an array
that is registered, once, so that ids name known qubits (`WellFormed`). It says
that once the first kernel is placed no global qubit is without a place
(`GlobalsSettled`), without which a kernel could place one itself and disagree
with the program. And it says which qubits each map knows: the global ones
and those of the kernel (`PlacedFor`); this is what turns the size of a kernel
into free physical qubits.

The argument has three parts. Lists become sets: whatever order the elements of a
finite set are taken in, by id, by number or by the order of keys, the list has
each once (`OrderedByEnumerates`, `IdsEnumerate`, by counting the elements
before one). Setters place: assigning pairs of qubits without a place and free physical
qubits, none in two pairs, gives a well-formed, consistent map in which nothing
else has moved (`AssignPlaces`, `PlacesMore`); every setter does that
(`TrivialPlaces`, `SetPlaces`, `MapPlaces`, `CustomFits`), and joining and
adding leave places alone (`JoinedToEmpty`, `AddedQubits`). Counting: a
consistent map has as many placed qubits as physical qubits in use, so that the
qubits without a place fit the free ones exactly when all qubits fit the
platform (`PlacedAndMapped`). That is why the exits in the middle of a placement are never
reached, and why only the exits at the beginning need a reason. For local search the ids
to be placed are counted against all elements of the registered arrays
(`IdsToPlaceFit`), and ids without gaps leave no qubit to be placed at 0
(`LocalPlaces`).

`DenseSetProofs` proves for every platform, set of qubits in use and size, from
`PlatformsAreGraphs`,

- `DenseSetAnswers`: `DenseSpec => []AnswersAsPromised`

The invariant `DenseInv` (`DenseSetInductive`), which TLC checks on the small
platforms of the run as well, has two ideas. One is that what the search has
expanded is closed under links but for the vertices it still has at hand
(`ClosureOK`): each vertex marked in a layer is among the new ones, among those
of the layer before, or has neighbours that are all marked or about to be
visited. So a search that ends for lack of new vertices has been everywhere
on a connected platform, also where it had to pass through qubits in use, and has
every free qubit (`SearchedEverywhere`). The other is the account of the trimming
(`TrimOK`): the positions to be removed are different ones, as many as there are
too many, whichever of them a later position replaces, so that what is kept is
as large as wanted, and by reindexing the sums over positions what is left of the
connectivity is the sum over the vertices kept (`TrimmedIsKept`). With a link at
every vertex that sum is positive, so that the first collection is not lost
against an empty one. The proof uses nothing of which position is replaced: the
index into the wrong list that section 4 names costs quality only.

`LocalSearchProofs` proves for every platform, every call and any number of
resets and iterations, from `PlatformShape`, `OptionsShape` and `InstanceShape`:

- `PlacementsStayValid`: `Spec => []PlacementsValid`
- `CostsStayExact`: `Spec => []CostsExact`
- `TableStaysExact`: `Spec => []TableIsExact`

The argument is one about sums. What an exchange of linked qubits changes is a
sum over the gates; of each gate it is what its two ends contribute, and nothing
for the gate between the qubits exchanged, because linked qubits cost nothing in
either order (`DeltaExact`). The terms of one end are those of its neighbours
(`LeavingIsEdgeGain`). An entry of the table that is not refreshed has no end
near a qubit that moved, so that its two sums are the same as before
(`LeavingFar`), and the entry of the exchange itself changes its sign
(`DeltaReverts`). The invariant `IInv` says this of every entry which is not
waiting to be refreshed.

`FiniteSums` has the facts on sums of integers over finite sets that both searches
need: any element can be taken out first, sums can be added, split and
reindexed. They are by induction over the subsets of a set, which is the
well-foundedness of strict inclusion, applied to a smallest counterexample.

`KernelPassesProofs` proves `CalledStayValid`, `Spec => []CalledAreValid`, for every
program, every number of attempts and whatever is unrolled, from `Counts` and
`ProgramShape`. The invariant says that a function recorded as complete is found
valid by its present body (`FoundValid`), that nothing calls a function marked
as inlined (`InlinedUnused`), and, during a round, that those passed over
without an error are valid, out of use or will be asked about again (`RoundInv`).
Inlining keeps bodies well formed (`InlinedIsWellFormed`): a flattened sequence of
sequences exists and is the one the library chooses (`FlatteningExists`,
`PutTogether`), which is by induction over its length in the form of a least
counterexample (`LeastElement`).

It also proves `KernelsFlattenedAsWritten`, `Spec => []FlattenedAsWritten`: for any
number of functions, any depth of calls and any order in which the components of
the call graph can come, what a kernel or a quantum expression holds when the
last call has been inlined is what the source says. `FlatInv` is its invariant.

- While the call graph is walked (`ScanInv`, `Closed`, `Ranks`), what has been
  scanned calls only what has been, every call of a scanned kernel is in the list
  (`SitesOfAll`), and kernels can be given ranks, each above those of the kernels
  it calls: a kernel is given the number of functions scanned before it. That a
  kernel without a cycle calls only what has been scanned (`CallsOnlyScanned`) is
  where the order from the leaves up is used; a cycle through a kernel exits.
- In the list a call comes after the calls in the function it calls
  (`CalleesFirst`). It is this that fails when sites are put at the front.
- While calls are inlined (`InlinedAs`), each body is the one that was written
  with the present bodies of the callees in the place of some of its calls, those
  that no longer wait, and nothing waits in a callee that has been copied. So a
  body does not change after it has been copied (`InlineKeepsDone`), and to
  inline the first call of the list changes one piece of one body (`InlineOne`):
  copied calls have longer identities than written ones (`LongerIds`) and are
  never on the list.

When nothing waits, a body has its own gates and those of the bodies of the
kernels it calls (`GatesOfOne`), and by induction over the ranks the gates
`Written` has at that level (`GatesOfAll`), of which there are fewer than
functions. The facts on lists the argument stands on are that replacing the
elements of a list commutes with putting lists together (`MappedConcat`,
`MappedFlatten`), from which those on gates (`GatesTogether`, `GatesInPlace`) and
on inlined calls (`InlinedTogether`) follow; they are by induction over lengths.
`Reached` is for that reason the least set that is closed under calls, not what
some number of steps reaches.

`CompilationStagesProofs` proves, for every set of programs and any number of stops,

- `StagesStayInOrder`: `StagesSpec => []NoStageSkipped`
- `OtherFilesContinue`: `StagesSpec => []OthersContinue`

Its invariant says what can be seen in a file of the stages it has been through
(`Shape`), for the file that is there and the one that is worked on; that a stage
told from such a file is never too late is the lemma `PickedUpInTime`.

Only model-checked: the scheduling of canonical gates, where a theorem asks for
gates that are not; liveness, which the prover does not treat, and with it that
the exchanges of a sort come to an end; the modules
on circuits, iterators, conditioning, lowering and lists; of kernels only that the
rounds come to an end.
`Conditioning`, `GateIterator` and `ParameterExpressions` use recursive operators, about which nothing can be proved.

## 6. Not modelled, and the plan

Of the scheduler: the grid method, whose network is external; the method
`none`, which does nothing; the marking of the last gate of a block. Of
placement: joining the maps of several predecessors, intersection and removal,
which no conditioned kernel needs; the set of starting qubits of local search,
which is always empty. Of circuits: several blocks, the insertion of a circuit
into another, iteration limited to some qubits, edits during an iteration,
parameters. The other components are listed with their status in
`PROJECT.json`.

Of the iterator and of references: the searches by qubit, composite gates, and iterators over
unresolved functions. Of the lowering passes: slices, the flip flag of
measurements, the size of the table (65536 entries, which is not checked), idle
gates, and several blocks. Of the kernel passes: branches, and what LLVM's own
passes do to a function apart from unrolling. `Serialize` works on LLVM IR:
what it changes is not told apart by a model of this size, and the frontend plugin
(`ClangQuantumExtensions`) rewrites the syntax tree of one expression at a time,
before any pass. Of
FLEQ, the language of quantum expressions, the repository has the graph of node
kinds, which nothing calls; the passes that evaluate expressions are not in it.

Done, in this order: `QubitMaps`, `Scheduler`, `LogicalCircuit` and the theorems
of section 5; `DenseSet`, `LocalSearch`, `PlacementMaps`, `Placement`;
`OperationGraph`, `QuantumCircuit`; `GateIterator`, `GateCursor`,
`Conditioning`, `GateAlgebra`, `NativeLowering`; `KernelPasses`,
`QubitLists`; `ParameterExpressions`, `KernelPassesProofs`;
`CompilationStages`.

Left:

1. Of circuits: edits during an iteration, circuits of several blocks and
   `insertCircuit`, limited iteration.
2. A module that composes placement with what is proved of the scheduler: a
   block that holds ends where it started, so that kernels can be called in any
   order, and the numbers written into global and local qubit arrays are the
   qubits' places whenever a kernel starts.
3. More proofs: the maps of `OperationGraph`. They go through lists with
   `FoldLeft` and `SelectSeq`, for which the library has no facts that can be
   cited; they have to be proved first, by a smallest counterexample, or the
   lists replaced by the sets they amount to, as in `PlacementMaps`.

