----------------------------- MODULE KernelPasses ------------------------------
(***************************************************************************)
(* From the kernels of a program to kernels that can be validated: calls   *)
(* of kernels inside of kernels are inlined, then the passes that unroll   *)
(* loops are run on every kernel that is not valid yet, again and again,   *)
(* up to a number of attempts.                                             *)
(***************************************************************************)
EXTENDS Integers, Sequences, FiniteSets, SequencesExt

CONSTANTS
  NumFunctions,    \* functions of a module, numbered in its order
  Programs,        \* see below
  AttemptLimit,
  LoopIndex        \* the index of a qubit that is the variable of a loop

Functions == 1 .. NumFunctions

(* kind: what a function is; internal: not visible to the linker; byValue: *)
(* a qubit is passed by value; body: gates and calls, in the order they    *)
(* are in, each with the qubits it is applied to and whether it is in a    *)
(* loop.  A qubit is an element of a register: a global array, or an       *)
(* argument of the function; its index may be the variable of the loop.    *)
Global(n)   == <<"global", n>>
Argument(n) == <<"argument", n>>

ASSUME ProgramShape ==
  \A p \in Programs :
    /\ p.kind \in [Functions -> {"kernel", "qexpr", "classical"}]
    /\ p.internal \in [Functions -> BOOLEAN] /\ p.byValue \in [Functions -> BOOLEAN]
    /\ DOMAIN p.body = Functions
    /\ \A f \in Functions : p.body[f] \in Seq(ToSet(p.body[f]))
    /\ \A f \in Functions : \A i \in DOMAIN p.body[f] :
         LET item == p.body[f][i]
         IN  /\ DOMAIN item = {"id", "kind", "gate", "callee", "qubits", "looped"}
             /\ item.id = <<i>>
             /\ item.kind \in {"gate", "call"}
             /\ item.callee \in {0} \cup Functions          \* 0 is a gate
             /\ item.kind = "call" <=> item.callee # 0
             /\ \A k \in DOMAIN item.qubits : item.qubits[k].idx = LoopIndex => item.looped

ASSUME Counts == NumFunctions \in Nat /\ AttemptLimit \in Nat

VARIABLES
  pc,
  program,          \* as it comes
  present,          \* functions that are still in the module
  body,             \* function -> what it has become
  scanned,          \* functions the walk over the call graph has passed
  CB_to_inline,     \* pairs <<caller, id of a call>>
  Inlined,
  quantum_inlined,  \* functions with that attribute
  at,               \* function of the module the round is at
  FuncsFound, Complete, Attempts

flattenVars == <<scanned, CB_to_inline, Inlined, quantum_inlined>>
roundVars   == <<at, FuncsFound, Complete, Attempts>>
vars == <<pc, program, present, body, flattenVars, roundVars>>

-----------------------------------------------------------------------------
isQKernel(f)   == program.kind[f] = "kernel"
isQExprFunc(f) == program.kind[f] = "qexpr"

CalledIn(items) == {items[k].callee : k \in {j \in DOMAIN items : items[j].kind = "call"}}

Callees(s) == UNION {CalledIn(body[f]) : f \in s}

Used(f) == \E g \in present : f \in Callees({g})

(* What is in every set that has s and all that its functions call.        *)
Reached(s) ==
  {f \in Functions : \A c \in SUBSET Functions : s \subseteq c /\ Callees(c) \subseteq c => f \in c}

(* Of what is there: what the linker can see, and what that needs.         *)
Needed == present \cap Reached({f \in present : ~program.internal[f]})

scc(f) == {f} \cup {g \in Functions : g \in Reached(Callees({f})) /\ f \in Reached(Callees({g}))}

hasCycle(f) == f \in Reached(Callees({f}))

-----------------------------------------------------------------------------
(* -1 when it is not known whether two qubits are the same: one is of an   *)
(* array and the other of an argument, or an index is not resolved.        *)
isEqual(q, r) ==
  IF q.reg[1] # r.reg[1] THEN -1
  ELSE IF q.reg # r.reg THEN 0
  ELSE IF q.idx = r.idx THEN 1
  ELSE IF LoopIndex \in {q.idx, r.idx} THEN -1 ELSE 0

Unresolved(q) == q.idx = LoopIndex \/ q.reg[1] = "argument"

(* The first operand that is not resolved or not known to differ from a    *)
(* later one decides.                                                      *)
OperandFault(qubits) ==
  LET At(fault, j) ==
        IF fault # 0 THEN fault
        ELSE IF Unresolved(qubits[j]) THEN -3
        ELSE IF \E k \in j + 1 .. Len(qubits) : isEqual(qubits[j], qubits[k]) # 0 THEN -4
        ELSE 0
  IN  FoldLeft(At, 0, [j \in 1 .. Len(qubits) |-> j])

(* What validateQuantumKernel finds; branches, which it treats like loops, *)
(* are left out here.                                                      *)
FaultOf(items) ==
  LET gates == SelectSeq(items, LAMBDA item : item.kind = "gate")
      First(fault, g) == IF fault # 0 THEN fault ELSE OperandFault(g.qubits)
  IN  IF \E g \in ToSet(gates) : g.looped THEN -1 ELSE FoldLeft(First, 0, gates)

validateQuantumKernel(f, items) ==
  IF FaultOf(items) # 0 THEN FaultOf(items) ELSE IF isQKernel(f) THEN 1 ELSE 0

Accepted(f, items) ==
  LET result == validateQuantumKernel(f, items)
  IN  result > 0 \/ (isQExprFunc(f) /\ result \in {-3, 0})

-----------------------------------------------------------------------------
Init ==
  /\ pc = "scan"
  /\ program \in Programs
  /\ present = Functions
  /\ body = program.body
  /\ scanned = {} /\ CB_to_inline = <<>>
  /\ Inlined = {} /\ quantum_inlined = {}
  /\ at = 1 /\ FuncsFound = FALSE
  /\ Complete = {} /\ Attempts = [f \in Functions |-> 0]

(* Components of the call graph come bottom-up, in any order that is.      *)
NextComponent(f) ==
  /\ pc = "scan"
  /\ f \in Needed \ scanned
  /\ Callees(scc(f)) \subseteq scanned \cup scc(f)

CallSites(f) ==
  LET SiteAt(g, item) == IF item.kind = "call" /\ item.callee = f THEN <<<<g, item.id>>>> ELSE <<>>
      SitesIn(g) == FlattenSeq([k \in DOMAIN body[g] |-> SiteAt(g, body[g][k])])
  IN  FlattenSeq([g \in Functions |-> IF isQKernel(g) \/ isQExprFunc(g) THEN SitesIn(g) ELSE <<>>])

PutFirst(list, sites) == sites \o list                            \* a variant

PutLast(list, sites) == list \o sites

ScanCycle(f) ==
  /\ NextComponent(f) /\ hasCycle(f)
  /\ scanned' = scanned \cup scc(f)
  /\ pc' = IF \E g \in scc(f) : isQKernel(g) THEN "exit" ELSE "scan"
  /\ UNCHANGED <<program, present, body, CB_to_inline, Inlined, quantum_inlined, roundVars>>

ScanFunction(f) ==
  /\ NextComponent(f) /\ ~hasCycle(f)
  /\ scanned' = scanned \cup {f}
  /\ IF ~isQKernel(f) THEN UNCHANGED <<pc, CB_to_inline>>
     ELSE IF program.byValue[f] THEN pc' = "exit" /\ UNCHANGED CB_to_inline
     ELSE CB_to_inline' = PutLast(CB_to_inline, CallSites(f)) /\ UNCHANGED pc
  /\ UNCHANGED <<program, present, body, Inlined, quantum_inlined, roundVars>>

ScanDone ==
  /\ pc = "scan" /\ Needed \subseteq scanned
  /\ pc' = "inline"
  /\ UNCHANGED <<program, present, body, flattenVars, roundVars>>

(* The body of the callee in the place of the call.                        *)
Substituted(qubits, args) ==
  [k \in DOMAIN qubits |-> IF qubits[k].reg[1] = "argument" THEN args[qubits[k].reg[2]] ELSE qubits[k]]

InPlaceOf(site, items) ==
  [k \in DOMAIN items |->
     [items[k] EXCEPT !.id = site.id \o @,
                      !.qubits = Substituted(@, site.qubits),
                      !.looped = @ \/ site.looped]]

WithInlined(items, id) ==
  FlattenSeq([k \in DOMAIN items |->
                IF items[k].kind = "call" /\ items[k].id = id THEN InPlaceOf(items[k], body[items[k].callee]) ELSE <<items[k]>>])

CalleeAt(site) == LET i == CHOOSE i \in DOMAIN body[site[1]] : body[site[1]][i].id = site[2]
                  IN  body[site[1]][i].callee

InlineCall ==
  /\ pc = "inline" /\ CB_to_inline # <<>>
  /\ LET site == Head(CB_to_inline)
     IN  /\ body' = [body EXCEPT ![site[1]] = WithInlined(@, site[2])]
         /\ Inlined' = Inlined \cup {CalleeAt(site)}
  /\ CB_to_inline' = Tail(CB_to_inline)
  /\ UNCHANGED <<pc, program, present, scanned, quantum_inlined, roundVars>>

InlineFails ==
  /\ pc = "inline" /\ CB_to_inline # <<>>
  /\ pc' = "exit"
  /\ UNCHANGED <<program, present, body, flattenVars, roundVars>>

MarkedAnyway == Inlined                                           \* a variant

Marked == {f \in Inlined : ~Used(f)}

MarkInlined ==
  /\ pc = "inline" /\ CB_to_inline = <<>>
  /\ quantum_inlined' = Marked
  /\ pc' = "pre"
  /\ UNCHANGED <<program, present, body, scanned, CB_to_inline, Inlined, roundVars>>

-----------------------------------------------------------------------------
(* One round over the functions of the module.  The passes before and      *)
(* after it remove what is not needed.                                     *)
PreMPM ==
  /\ pc = "pre"
  /\ present' = Needed
  /\ FuncsFound' = FALSE /\ at' = 1
  /\ pc' = "round"
  /\ UNCHANGED <<program, body, flattenVars, Complete, Attempts>>

AtPending ==
  /\ pc = "round" /\ at \in present \ Complete
  /\ isQKernel(at) \/ isQExprFunc(at)

Skip ==
  /\ pc = "round" /\ at <= NumFunctions /\ ~AtPending
  /\ at' = at + 1
  /\ UNCHANGED <<pc, program, present, body, flattenVars, FuncsFound, Complete, Attempts>>

AlreadyValid ==
  /\ AtPending /\ Accepted(at, body[at])
  /\ Complete' = Complete \cup {at}
  /\ at' = at + 1
  /\ UNCHANGED <<pc, program, present, body, flattenVars, FuncsFound, Attempts>>

CountedAnew(n) == 1                                               \* a variant

Counted(n) == n + 1

(* A kernel that was inlined is left alone, one nobody calls gets a        *)
(* warning.                                                                *)
GiveUp ==
  /\ AtPending /\ ~Accepted(at, body[at])
  /\ Attempts[at] >= AttemptLimit
  /\ Attempts' = [Attempts EXCEPT ![at] = Counted(@)]
  /\ pc' = IF at \notin quantum_inlined /\ Used(at) THEN "exit" ELSE "round"
  /\ at' = at + 1
  /\ UNCHANGED <<program, present, body, flattenVars, FuncsFound, Complete>>

(* A loop of two iterations.                                               *)
Unrolled(item) ==
  [n \in 1 .. 2 |->
     [item EXCEPT !.looped = FALSE,
                  !.qubits = [k \in DOMAIN @ |-> IF @[k].idx = LoopIndex THEN [@[k] EXCEPT !.idx = n - 1] ELSE @[k]]]]

(* The function passes unroll some of the loops, or none.                  *)
FPMRun(f, loops) ==
  FlattenSeq([k \in DOMAIN body[f] |-> IF k \in loops THEN Unrolled(body[f][k]) ELSE <<body[f][k]>>])

Loops(f) == {k \in DOMAIN body[f] : body[f][k].kind = "gate" /\ body[f][k].looped}

Simplify ==
  /\ AtPending /\ ~Accepted(at, body[at])
  /\ Attempts[at] < AttemptLimit
  /\ Attempts' = [Attempts EXCEPT ![at] = Counted(@)]
  /\ \E loops \in SUBSET Loops(at) : body' = [body EXCEPT ![at] = FPMRun(at, loops)]
  /\ IF Accepted(at, body'[at])
     THEN Complete' = Complete \cup {at} /\ UNCHANGED FuncsFound
     ELSE FuncsFound' = TRUE /\ UNCHANGED Complete
  /\ at' = at + 1
  /\ UNCHANGED <<pc, program, present, flattenVars>>

PostMPM ==
  /\ pc = "round" /\ at > NumFunctions
  /\ present' = Needed
  /\ pc' = IF FuncsFound THEN "pre" ELSE "done"
  /\ UNCHANGED <<program, body, flattenVars, roundVars>>

Next ==
  \/ \E f \in Functions : ScanCycle(f) \/ ScanFunction(f)
  \/ ScanDone \/ InlineCall \/ InlineFails \/ MarkInlined
  \/ PreMPM \/ Skip \/ AlreadyValid \/ GiveUp \/ Simplify \/ PostMPM

Spec     == Init /\ [][Next]_vars
FairSpec == Spec /\ WF_vars(Next)
-----------------------------------------------------------------------------
(* The gates of a function as it is written, with the gates of the kernels *)
(* it calls in the place of the calls, to any depth.                       *)
GateOf(item) == [gate |-> item.gate, qubits |-> item.qubits, looped |-> item.looped]

GatesIn(items) ==
  FlattenSeq([k \in DOMAIN items |-> IF items[k].kind = "gate" THEN <<GateOf(items[k])>> ELSE <<>>])

AppliedTo(gates, site) ==
  [i \in DOMAIN gates |-> [gates[i] EXCEPT !.qubits = Substituted(@, site.qubits), !.looped = @ \/ site.looped]]

(* What each function has when the functions it calls have what below says. *)
WithBelow(below) ==
  [g \in Functions |->
     FlattenSeq([k \in DOMAIN program.body[g] |->
       LET item == program.body[g][k]
       IN  IF item.kind = "gate" THEN <<GateOf(item)>>
           ELSE IF isQKernel(item.callee) THEN AppliedTo(below[item.callee], item) ELSE <<>>])]

Written(f) ==
  LET Deep[n \in 0 .. NumFunctions] ==
        WithBelow(IF n = 0 THEN [g \in Functions |-> <<>>] ELSE Deep[n - 1])
  IN  Deep[NumFunctions][f]

(* When all calls have been inlined, every kernel and every quantum        *)
(* expression holds, of its own, the gates that it and the kernels called  *)
(* from it have, in the order in which they are written.                   *)
FlattenedAsWritten ==
  pc = "inline" /\ CB_to_inline = <<>> =>
    \A f \in Needed : isQKernel(f) \/ isQExprFunc(f) => GatesIn(body[f]) = Written(f)


(* No kernel that something calls comes out of the rounds without having   *)
(* been found valid, whatever the passes did to it; and what was found     *)
(* valid still is.                                                         *)
CalledAreValid ==
  pc = "done" =>
    \A f \in present : (isQKernel(f) \/ isQExprFunc(f)) /\ Used(f) => f \in Complete /\ Accepted(f, body[f])

(* The rounds end, also when no pass ever unrolls a loop.                  *)
RoundsTerminate == <>(pc \in {"done", "exit"})

(* The qubits a quantum expression is applied to may be its arguments:     *)
(* "Needed for FLEQ, since qbit args are okay" (validateQuantumKernel).    *)
ArgumentsAreOkay ==
  pc = "round" =>
    \A f \in present :
      /\ isQExprFunc(f)
      /\ \A item \in ToSet(body[f]) :
           /\ ~item.looped
           /\ \A j, k \in DOMAIN item.qubits : j # k => item.qubits[j] # item.qubits[k]
      => Accepted(f, body[f])

=============================================================================
