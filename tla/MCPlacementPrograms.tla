------------------------- MODULE MCPlacementPrograms --------------------------
(***************************************************************************)
(* Two global arrays, two local ones, four physical qubits.  The arrays    *)
(* are ordered differently as keys and in the module.                      *)
(***************************************************************************)
EXTENDS Integers, Sequences

SmallArrays == [g |-> <<"g0", "g1">>, h |-> <<"h0">>, l |-> <<"l0", "l1">>, t |-> <<"t0">>]
Keys == <<"l", "h", "t", "g">>

SmallQubits    == {"g0", "g1", "h0", "l0", "l1", "t0"}
SmallRegisters == {"g", "h", "l", "t"}

Values(x, y, z) == [g |-> <<x, y>>, h |-> <<z>>, l |-> <<0, 0>>, t |-> <<0>>]

(* Not initialized; complete; placeholders first, last and everywhere; an  *)
(* index given twice and one that is too large.                            *)
SmallInitializers ==
  {Values(0, 0, 0), Values(3, 1, 2), Values(0, 3, 0), Values(-1, 2, 0),
   Values(2, -1, 3), Values(-1, -1, 1), Values(1, 0, 1), Values(4, 1, 2)}

NotInitialized == Values(0, 0, 0)

(* Both global arrays, one, none, and more global qubits than there are.   *)
Both == <<"g", "h">>
One  == <<"h">>
Excess == <<"g", "l", "h">>

WithKernels(globals, kernelSet) ==
  {[globals |-> globals, kernels |-> <<a, b>>] : a, b \in kernelSet}

Input(methods, initializers, programs) ==
  {[method |-> m, globals |-> p.globals, kernels |-> p.kernels, initializer |-> f] :
     m \in methods, f \in initializers, p \in programs}

(* No gate; one qubit; an array used from its end; two local arrays, one   *)
(* of them in part; more qubits than there are.                            *)
Kernels == {<<>>, <<"g0">>, <<"h0", "l0">>, <<"l1", "g1">>, <<"l0", "l1">>, <<"t0", "l1">>}

SmallPrograms ==
  WithKernels(Both, Kernels) \cup WithKernels(<<>>, {<<>>, <<"t0">>, <<"l1", "t0">>}) \cup
  {[globals |-> Excess, kernels |-> <<<<"g0">>>>]}

(* Local arrays used in part, from either end and in either order.         *)
LocalPrograms ==
  WithKernels(One, {<<>>, <<"l0">>, <<"h0", "l0">>, <<"t0", "l1">>, <<"l1", "t0">>, <<"l0", "t0">>, <<"l0", "l1", "t0">>})
    \cup WithKernels(<<>>, {<<>>, <<"l0", "l1">>}) \cup WithKernels(Both, {<<"l0">>, <<"t0">>, <<"l0", "l1">>})

CustomInputs == Input({"custom"}, SmallInitializers, SmallPrograms)
LocalInputs  == Input({"local"}, {NotInitialized}, LocalPrograms)

SmallInputs ==
  CustomInputs \cup LocalInputs \cup Input({"trivial", "dense"}, {NotInitialized}, SmallPrograms)
==============================================================================
