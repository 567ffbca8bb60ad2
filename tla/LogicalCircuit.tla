---------------------------- MODULE LogicalCircuit ----------------------------
(***************************************************************************)
(* What scheduling promises of a quantum basic block, whatever the         *)
(* placement, the routing and the order it chooses: the hardware executes  *)
(* every gate of the block once, on the program qubits the source names,   *)
(* and two gates that share a qubit keep their order.  Gates are numbered  *)
(* from 0, by their position in the block.                                 *)
(***************************************************************************)
EXTENDS Integers, Sequences

CONSTANT Circuits      \* sequences of records with a field qubits

VARIABLES
  circuit,    \* the block
  executed    \* the gates executed so far, [gate, qubits], in order

vars == <<circuit, executed>>

QubitsOf(c, g) == {c[g + 1].qubits[i] : i \in 1 .. Len(c[g + 1].qubits)}

Executed(g) == \E i \in 1 .. Len(executed) : executed[i].gate = g

Init == circuit = <<>> /\ executed = <<>>

Start ==
  /\ \A g \in 0 .. Len(circuit) - 1 : Executed(g)
  /\ circuit' \in Circuits
  /\ executed' = <<>>

Execute(g) ==
  /\ ~Executed(g)
  /\ \A h \in 0 .. g - 1 :
        QubitsOf(circuit, h) \cap QubitsOf(circuit, g) # {} => Executed(h)
  /\ executed' = Append(executed, [gate |-> g, qubits |-> circuit[g + 1].qubits])
  /\ UNCHANGED circuit

Next == Start \/ \E g \in 0 .. Len(circuit) - 1 : Execute(g)

Spec == Init /\ [][Next]_vars

==============================================================================
