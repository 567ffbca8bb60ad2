---------------------------- MODULE MCKernelPasses -----------------------------
(***************************************************************************)
(* Modules of four functions: three of which some are kernels, and main.   *)
(* The functions come in the order of their numbers, so that a caller may  *)
(* stand before or behind what it calls.  Or else the lists of qubits that *)
(* quantum expressions use, kernels that are conditioned, or a compilation *)
(* that is stopped and picked up: one of the four is run.                  *)
(***************************************************************************)
EXTENDS KernelPasses, MCQubitLists, MCConditioning, CompilationStages

VARIABLE part                              \* of the four, the one that is run

Q(n, i) == [reg |-> Global(n), idx |-> i]
Arg(n)  == [reg |-> Argument(n), idx |-> 0]

Gate(name, qubits)     == [kind |-> "gate", gate |-> name, callee |-> 0, qubits |-> qubits, looped |-> FALSE]
Loop(name, qubits)     == [Gate(name, qubits) EXCEPT !.looped = TRUE]
Call(f, qubits)        == [kind |-> "call", gate |-> "none", callee |-> f, qubits |-> qubits, looped |-> FALSE]
LoopCall(f, qubits)    == [Call(f, qubits) EXCEPT !.looped = TRUE]

Numbered(items) ==
  [k \in DOMAIN items |-> [id |-> <<k>>, kind |-> items[k].kind, gate |-> items[k].gate,
                           callee |-> items[k].callee, qubits |-> items[k].qubits, looped |-> items[k].looped]]

Program(kinds, internal, byValue, bodies) ==
  [kind |-> kinds, internal |-> [f \in Functions |-> f \in internal],
   byValue |-> [f \in Functions |-> f \in byValue],
   body |-> [f \in Functions |-> Numbered(bodies[f])]]

(* A loop over an array may apply a gate to one qubit twice; an argument   *)
(* becomes a qubit of the caller, which may be the loop's.                 *)
Xs == <<Loop("X", <<Q(1, LoopIndex)>>)>>
Cs == <<Loop("CNOT", <<Q(1, LoopIndex), Q(1, 1)>>)>>
Cg == <<Gate("CNOT", <<Q(1, 0), Q(2, 0)>>)>>
Ha == <<Gate("H", <<Arg(1)>>)>>
Ca == <<Gate("CNOT", <<Arg(1), Q(2, 0)>>)>>

Plain == {<<>>, Xs, Cs, Cg, Ha, Ca}

Twice(f) == <<Gate("Z", <<Q(2, 1)>>), Call(f, <<Q(1, 1)>>), Call(f, <<Q(2, 0)>>)>>

Main(s) == [k \in 1 .. Cardinality(s) |-> Call(SetToSeq(s)[k], <<Q(2, 0)>>)]

(* Three kernels in a chain, in two orders; main calls the last or the     *)
(* other two.                                                              *)
Chains ==
  {Program(<<"kernel", "kernel", "kernel", "classical">>, internal, {},
           [f \in Functions |-> IF f = o[1] THEN low ELSE IF f = o[2] THEN mid[o[1]]
                                ELSE IF f = o[3] THEN top[o[2]] ELSE main]) :
     o \in {<<1, 2, 3>>, <<3, 2, 1>>}, low \in Plain,
     mid \in {[f \in Functions |-> Ca], [f \in Functions |-> <<Call(f, <<Arg(1)>>)>>]},
     top \in {[f \in Functions |-> Twice(f)], [f \in Functions |-> <<LoopCall(f, <<Q(1, LoopIndex)>>)>>]},
     main \in {Main({3}), Main({1, 2})}, internal \in {{}, {1, 2}}}

(* A kernel or a function, and a quantum expression, that call the same    *)
(* kernel.                                                                 *)
Expressions ==
  {Program(<<"qexpr", kind, "kernel", "classical">>, {}, {}, <<b1, <<Call(3, <<Q(1, 0)>>)>>, low, main>>) :
     kind \in {"kernel", "classical"}, low \in Plain,
     b1 \in {Ha, Cs, <<Call(3, <<Arg(1)>>)>>, Twice(3)}, main \in {Main({1}), Main({2}), Main({1, 2})}}

(* Kernels that call themselves or one another, directly or through a      *)
(* function, and qubits by value.                                          *)
Refused ==
  {Program(<<"kernel", kind, "classical", "classical">>, {}, byValue, <<<<Call(f, <<Q(1, 0)>>)>>, <<Call(g, <<Q(1, 0)>>)>>, <<Call(3, <<>>)>>, <<Call(1, <<Q(1, 0)>>)>>>>) :
     kind \in {"kernel", "classical"}, f \in 1 .. 3, g \in {1, 3}, byValue \in {{}, {1}}}

SmallPrograms == Chains \cup Expressions \cup Refused

(* CNOT of a global qubit and the argument.                                *)
GlobalThenArgument ==
  {Program(<<"qexpr", "classical", "classical", "classical">>, {}, {},
           <<<<Gate("CNOT", <<Q(1, 0), Arg(1)>>)>>, <<>>, <<>>, <<Call(1, <<Q(2, 0)>>)>>>>)}

-----------------------------------------------------------------------------
ASSUME ListsAreOrdered

GraphKernels == AllKernels
OneKernel    == Disjunction

ASSUME KernelShape

(* Programs without kernels or without gates, with gates of either kind,   *)
(* and with angles of every kind.                                          *)
Source(kernels, gates, angles) ==
  [kernels |-> kernels, conditioned |-> FALSE, gates |-> gates, ids |-> FALSE, angles |-> angles,
   table |-> FALSE, calls |-> "none", applied |-> {}]

SmallSources ==
  {Source(k, {}, {}) : k \in BOOLEAN} \cup
  {Source(TRUE, g, a) :
     g \in {{"canonical"}, {"native"}, {"canonical", "native"}},
     a \in {{}, {"inside"}, {"inside", "half"}, {"beyond"}, {"beyond", "unknown"}}}

SomeProgram == CHOOSE p \in Programs : TRUE
SomeKernel  == CHOOSE k \in Kernels : TRUE
SomeSource  == CHOOSE f \in Sources : TRUE

KernelsInit ==
  /\ part \in {"rounds", "lists", "conditioning", "stages"}
  /\ IF part = "rounds" THEN program \in Programs ELSE program = SomeProgram
  /\ Init
  /\ IF part = "lists" THEN ListInit ELSE exprs = <<>> /\ resolved = FALSE /\ ARRAY_MAP_ = <<>>
  /\ IF part = "conditioning" THEN kernel \in Kernels ELSE kernel = SomeKernel
  /\ ConditioningInit
  /\ IF part = "stages" THEN file \in Sources ELSE file = SomeSource /\ extension = "cpp"
  /\ StagesInit

Rounds == part = "rounds" /\ Next /\ UNCHANGED <<part, listVars, conditioningVars, stageVars>>

KernelsNext ==
  \/ Rounds
  \/ part = "lists" /\ ListNext /\ UNCHANGED <<part, vars, conditioningVars, stageVars>>
  \/ part = "conditioning" /\ ConditioningNext /\ UNCHANGED <<part, vars, listVars, stageVars>>
  \/ part = "stages" /\ StagesNext /\ UNCHANGED <<part, vars, listVars, conditioningVars>>

allVars == <<part, vars, listVars, conditioningVars, stageVars>>

KernelsSpec == KernelsInit /\ [][KernelsNext]_allVars /\ WF_allVars(Rounds)

(* The rounds end, also when no pass ever unrolls a loop.                  *)
KernelRoundsTerminate == part = "rounds" => RoundsTerminate
===============================================================================
