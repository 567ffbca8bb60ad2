----------------------------- MODULE Conditioning ------------------------------
(***************************************************************************)
(* The pass that turns a quantum kernel, a control flow graph with gates   *)
(* in some of its blocks, into one with a single quantum basic block.      *)
(*                                                                         *)
(* A kernel is valid when no gate is in a loop and every way through it    *)
(* passes all blocks with gates; their gates may then be moved into a new  *)
(* block, cut off the last of them.  A release of the quantum state ends   *)
(* the quantum part of a kernel: gates behind it are removed.  Kernels     *)
(* that are not valid are removed too, unless something still uses them.   *)
(***************************************************************************)
EXTENDS Integers, Sequences, FiniteSets, SequencesExt

CONSTANTS
  NumBlocks,     \* blocks of a kernel; 1 is the entry
  Kernels,       \* see below
  NoBlock

Blocks == 1 .. NumBlocks

(* succ: the successors of every block, in the order of its branch; gates: *)
(* how many gates every block has; releases: [block, after], a release behind    *)
(* that many gates of a block; operands: what the qubits of its gates are; *)
(* used: whether the function has a user; isQKernel: whether it is marked. *)
KernelShape ==
  \A k \in Kernels :
    /\ k.succ \in [Blocks -> Seq(Blocks \ {1})]
    /\ \A b \in Blocks : \A r \in k.releases : r.block = b => r.after \in 0 .. k.gates[b]
    /\ k.operands \in {"distinct", "unresolved", "repeated"}
    /\ NoBlock \notin Blocks

VARIABLES
  phase,
  kernel,        \* the kernel as it comes
  contains_release,
  F_gates,       \* the blocks with gates or the release, the last one first
  result,        \* of validateQuantumKernel
  blockGates,    \* block -> its gates
  endBB,         \* the block the new one is cut off, or NoBlock
  QBB,           \* the gates of the new block
  start, position       \* indices of F_gates

conditioningVars == <<phase, kernel, contains_release, F_gates, result, blockGates, endBB, QBB, start, position>>

Release == CHOOSE r \in kernel.releases : TRUE
HasRelease == kernel.releases # {}

-----------------------------------------------------------------------------
(* Depth first search: the blocks that b reaches, in the order it leaves   *)
(* them.  The strongly connected components are found in that order.       *)
RECURSIVE Leave(_, _)
Leave(b, done) ==
  IF b \in done.seen THEN done
  ELSE LET below == FoldLeft(LAMBDA d, c : Leave(c, d),
                             [done EXCEPT !.seen = @ \cup {b}], kernel.succ[b])
       IN  [below EXCEPT !.order = Append(@, b)]

PostOrder == Leave(1, [seen |-> {}, order |-> <<>>]).order

Successors(s) == UNION {ToSet(kernel.succ[b]) : b \in s}

ReachedFrom(s) ==
  LET after[n \in Nat] == IF n = 0 THEN s ELSE after[n - 1] \cup Successors(after[n - 1])
  IN  after[NumBlocks]

InCycle(b) == b \in ReachedFrom(Successors({b}))

GateBlocks(released) == {b \in ToSet(PostOrder) : kernel.gates[b] > 0 \/ b = released}

(* verifyLinearChain, from block b; chain lists the blocks to pass, next   *)
(* is the first of them still ahead.  A block met again on the way ends    *)
(* that way.  cache keeps results by successor and next; the one found for *)
(* a successor is returned without a look at the others.                   *)
Ahead(b, chain, next) == IF next <= Len(chain) /\ chain[next] = b THEN next + 1 ELSE next

RECURSIVE verifyLinearChain(_, _, _, _, _)
verifyLinearChain(b, visited, cache, chain, next) ==
  LET to == Ahead(b, chain, next)
      Try(acc, c) ==
        IF acc.stop THEN acc
        ELSE IF <<c, to>> \in DOMAIN acc.cache
        THEN [acc EXCEPT !.ok = acc.cache[<<c, to>>], !.stop = TRUE]
        ELSE LET r == verifyLinearChain(c, visited \cup {b}, acc.cache, chain, to)
             IN  [ok |-> r.ok, cache |-> r.cache @@ (<<c, to>> :> r.ok), stop |-> ~r.ok]
  IN  IF next > Len(chain) \/ b \in visited \/ to > Len(chain)
      THEN [ok |-> TRUE, cache |-> cache]
      ELSE LET tried == FoldLeft(Try, [ok |-> kernel.succ[b] # <<>>, cache |-> cache, stop |-> FALSE],
                                 kernel.succ[b])
           IN  [ok |-> tried.ok, cache |-> tried.cache]

AllPassedInPostOrder(fgates) == verifyLinearChain(1, {}, <<>>, fgates, 1).ok   \* a variant

AllPassed(fgates) == verifyLinearChain(1, {}, <<>>, Reverse(fgates), 1).ok

(* validateQuantumKernel; operands are those of some gate of the kernel.   *)
Validation(gateBlocks, fgates) ==
  LET hasGates == \E b \in gateBlocks : kernel.gates[b] > 0
  IN  IF \E b \in gateBlocks : InCycle(b) THEN -1
      ELSE IF ~AllPassed(fgates) THEN -2
      ELSE IF hasGates /\ kernel.operands = "unresolved" THEN -3
      ELSE IF hasGates /\ kernel.operands = "repeated" THEN -4
      ELSE IF kernel.isQKernel THEN 1 ELSE 0

-----------------------------------------------------------------------------
ConditioningInit ==
  /\ phase = "locate"
  /\ kernel \in Kernels
  /\ contains_release = NoBlock
  /\ F_gates = <<>>
  /\ result = 0
  /\ blockGates = [b \in Blocks |-> [k \in 1 .. kernel.gates[b] |-> <<b, k>>]]
  /\ endBB = NoBlock
  /\ QBB = <<>>
  /\ start = 1 /\ position = 1

(* locateMeasurementControlInst, for all kernels before any is validated.  *)
locateMeasurementControlInst ==
  /\ phase = "locate"
  /\ phase' = IF Cardinality(kernel.releases) > 1 THEN "exit" ELSE "validate"
  /\ UNCHANGED <<kernel, contains_release, F_gates, result, blockGates, endBB, QBB, start, position>>

(* contains_release is not initialized: without a release it may be any    *)
(* block as far as the comparisons with it can tell.                       *)
Validate ==
  /\ phase = "validate"
  /\ contains_release' \in IF HasRelease THEN {Release.block} ELSE Blocks \cup {NoBlock}
  /\ LET gateBlocks == GateBlocks(contains_release')
         fgates     == SelectSeq(PostOrder, LAMBDA b : b \in gateBlocks)
     IN  /\ result' = Validation(gateBlocks, fgates)
         /\ F_gates' = IF result' < 0 THEN <<>> ELSE fgates
  /\ phase' = IF result' < 0 THEN IF kernel.used THEN "exit" ELSE "removed"
           ELSE IF result' = 0 \/ F_gates' = <<>> THEN "done"
           ELSE IF HasRelease THEN "release" ELSE "split"
  /\ UNCHANGED <<kernel, blockGates, endBB, QBB, start, position>>

(* A loop that removes the gate of the iterator, which goes on to the next *)
(* one, and advances it once more: every second gate is left.              *)
EverySecond(gates) == [k \in 1 .. Len(gates) \div 2 |-> gates[2 * k]]

PastRelease(gates) == gates                                       \* a variant

UpToRelease(gates) == SubSeq(gates, 1, Release.after)

(* The next block from the last one, up to the one with the release.       *)
RemoveAfterRelease ==
  /\ phase = "release"
  /\ IF F_gates[position] = Release.block
     THEN /\ blockGates' = [blockGates EXCEPT ![F_gates[position]] = UpToRelease(@)]
          /\ start' = position
          /\ phase' = "split"
          /\ UNCHANGED position
     ELSE /\ blockGates' = [blockGates EXCEPT ![F_gates[position]] = EverySecond(@)]
          /\ position' = position + 1
          /\ UNCHANGED <<phase, start>>
  /\ UNCHANGED <<kernel, contains_release, F_gates, result, endBB, QBB>>

(* The block is cut behind its last gate, or in front when it has none.    *)
SplitBlock ==
  /\ phase = "split"
  /\ endBB' = F_gates[start]
  /\ position' = start
  /\ phase' = "move"
  /\ UNCHANGED <<kernel, contains_release, F_gates, result, blockGates, QBB, start>>

AppendedTo(gates, moved) == gates \o moved                        \* a variant

InFrontOf(gates, moved) == moved \o gates

(* All gates of one block, the last one first, each before the others.     *)
MoveGates ==
  /\ phase = "move" /\ position <= Len(F_gates)
  /\ QBB' = InFrontOf(QBB, blockGates[F_gates[position]])
  /\ blockGates' = [blockGates EXCEPT ![F_gates[position]] = <<>>]
  /\ position' = position + 1
  /\ phase' = IF position = Len(F_gates) THEN "done" ELSE "move"
  /\ UNCHANGED <<kernel, contains_release, F_gates, result, endBB, start>>

ConditioningNext == locateMeasurementControlInst \/ Validate \/ RemoveAfterRelease \/ SplitBlock \/ MoveGates

ConditioningSpec == ConditioningInit /\ [][ConditioningNext]_conditioningVars

-----------------------------------------------------------------------------
(* The ways through a kernel that end, without going round its loops.      *)
RECURSIVE PathsFrom(_, _)
PathsFrom(b, seen) ==
  IF kernel.succ[b] = <<>> THEN {<<b>>}
  ELSE UNION {{<<b>> \o p : p \in PathsFrom(c, seen \cup {b})} : c \in ToSet(kernel.succ[b]) \ (seen \cup {b})}

Paths == PathsFrom(1, {})

(* Every way through the kernel passes every block with gates or a release.*)
IsChain == \A p \in Paths : GateBlocks(contains_release) \subseteq ToSet(p)

(* The gates of a way through the source, and through what became of it.   *)
SourceGates(p) ==
  LET Of(b) == [k \in 1 .. kernel.gates[b] |-> <<b, k>>]
      Add(acc, b) == IF acc.released THEN acc
                     ELSE IF HasRelease /\ b = Release.block
                     THEN [gates |-> acc.gates \o SubSeq(Of(b), 1, Release.after), released |-> TRUE]
                     ELSE [acc EXCEPT !.gates = @ \o Of(b)]
  IN  FoldLeft(Add, [gates |-> <<>>, released |-> FALSE], p).gates

ConditionedGates(p) ==
  FlattenSeq([k \in DOMAIN p |-> blockGates[p[k]] \o IF p[k] = endBB THEN QBB ELSE <<>>])

Conditioned == phase = "done" /\ result = 1

(* No gate is left outside of the one quantum basic block, and none that   *)
(* follows the release is in it.                                           *)
OneQuantumBlock ==
  Conditioned =>
    /\ \A b \in Blocks : blockGates[b] = <<>>
    /\ HasRelease => \A k \in DOMAIN QBB : QBB[k][1] = Release.block => QBB[k][2] <= Release.after

(* Whichever way is taken through a conditioned kernel, the gates that are *)
(* run and their order are those of the same way through the source, up to *)
(* the release of the quantum state if there is one; and they are run from *)
(* one quantum basic block.                                                *)
PathsRunSameGates ==
  /\ Conditioned /\ IsChain => \A p \in Paths : ConditionedGates(p) = SourceGates(p)
  /\ OneQuantumBlock

(* A kernel is not rejected for its branches unless a way through it leaves*)
(* out a block with gates or with what is taken for the release.           *)
RejectedAreNotChains == result = -2 => ~IsChain

(* A kernel is not accepted when a way through it leaves out one of them.  *)
AcceptedAreChains == Conditioned => IsChain

=============================================================================
