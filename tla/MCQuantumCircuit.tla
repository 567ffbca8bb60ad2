--------------------------- MODULE MCQuantumCircuit ---------------------------
(***************************************************************************)
(* Circuits of up to six operations on up to three qubits.                 *)
(***************************************************************************)
EXTENDS QuantumCircuit

CONSTANTS q0, q1, q2

AllQubits == <<q0, q1, q2>>

(* No two gates on the same pair of qubits; the last gate, whose qubit is  *)
(* an argument of another function, cannot be added.                       *)
SparseOperands == <<<<q0>>, <<q0, q1>>, <<q1>>, <<q1, q2>>, <<q2, q0>>, <<q0>> >>
SparseBlocks   == {<<>>, <<1, 2, 3>>, <<1, 2, 4, 5>>, <<2, 4, 5>>}

(* A gate on one qubit is put at the start or after a gate on its qubit.   *)
OnWire == {p \in Ops \X Nodes :
             /\ Len(Operands[p[1]]) = 1
             /\ p[2] = StartOp \/ p[2] = EndOp
                  \/ (p[2] \in Ops /\ QubitsOf(p[1]) \subseteq QubitsOf(p[2]))}

(* Gates on the same pair of qubits, in either direction.                  *)
PairOperands == <<<<q0, q1>>, <<q1, q0>>, <<q0>>, <<q1>> >>
PairBlocks   == {<<1, 2>>, <<1, 3, 4>>, <<1, 2, 4>>}

(* Gates on one qubit, put after a gate on any qubit.                      *)
LocalOperands == <<<<q0>>, <<q0>>, <<q1>>, <<q1>> >>
LocalBlocks   == {<<>>, <<1, 2, 3>>}

(* Calls of kernels without operands, met in a block or appended.          *)
KernelOperands == <<<<q0>>, <<q0, q1>>, <<q1>>, <<>> >>
KernelBlocks   == {<<>>, <<1, 2, 3>>, <<1, 3, 4>>}

AnyWhere == Ops \X Nodes
NoWhere  == {}
=============================================================================
