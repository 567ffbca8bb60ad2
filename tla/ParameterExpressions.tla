------------------------- MODULE ParameterExpressions --------------------------
(***************************************************************************)
(* Simplification of the parameters of gates: class ParaRef and the class  *)
(* Polynomial it simplifies with.  A parameter is a value of the classical *)
(* code.  Arithmetic on parameters makes instructions; simplification      *)
(* writes an expression as a sum of products and makes instructions for    *)
(* that.  Where a factor is cancelled against a divisor, the result is a   *)
(* choice: not a number if the factor is zero.  There is one such choice   *)
(* for every factor, kept for the rest of the compilation, and its other   *)
(* outcome is set when the result is made.                                 *)
(*                                                                         *)
(* Polynomial takes arithmetic to be exact.  Numbers are those of a field  *)
(* of FieldSize elements, a prime; NaN is what is not a number in it.      *)
(***************************************************************************)
EXTENDS Integers, Sequences, FiniteSets, FiniteSetsExt, SequencesExt

CONSTANTS
  FieldSize,
  Arguments,      \* parameters that are arguments of the function
  Scripts,        \* sequences of expressions that parameters are made as
  NaN

Numbers == 0 .. FieldSize - 1

(* A value is a constant, an argument, an instruction by its number, or    *)
(* the choice that belongs to another value.                               *)
ConstantFP(c)           == <<"const", c>>
ArgumentFP(a)           == <<"arg", a>>
Instruction(n)          == <<"inst", n>>
handleDivisionByZero(v) == <<"choice", v>>

isConstant(v)             == v[1] = "const"
isInstruction(v)          == v[1] = "inst"
isHandleDivisionByZero(v) == v[1] = "choice"

(* An expression is a sequence of records [op, args, power], made one      *)
(* after the other; an operand is a constant, an argument, an earlier      *)
(* element of the sequence, or a parameter made before.                    *)
Own(k)  == <<"own", k>>
Para(n) == <<"para", n>>

VARIABLES
  script,
  insts,    \* instructions, records [op, args, power]
  outcome,  \* value -> what the choice for it is otherwise, once it was set
  paras     \* parameters: value; meaning, the number each was made to be, for
            \* all numbers the arguments may be; product, whether it was made
            \* without sums; simplified

parameterVars == <<script, insts, outcome, paras>>

-----------------------------------------------------------------------------
(* Numbers.                                                                *)
Reciprocal(x) == CHOOSE y \in Numbers : (x * y) % FieldSize = 1

Power(x, k) ==
  LET up[n \in Nat] == IF n = 0 THEN 1 ELSE (x * up[n - 1]) % FieldSize
  IN  CASE x = NaN             -> NaN
        [] x # NaN /\ k >= 0   -> up[k]
        [] x = 0 /\ k < 0      -> NaN
        [] x \notin {0, NaN} /\ k < 0 -> Reciprocal(up[-k])

(* op applied to the numbers of a sequence.                                *)
Applied(op, x, power) ==
  CASE NaN \in ToSet(x)        -> NaN
    [] op = "add"              -> (x[1] + x[2]) % FieldSize
    [] op = "sub"              -> (x[1] - x[2]) % FieldSize
    [] op = "mul"              -> (x[1] * x[2]) % FieldSize
    [] op = "div" /\ x[2] = 0  -> NaN
    [] op = "div" /\ x[2] # 0  -> (x[1] * Reciprocal(x[2])) % FieldSize
    [] op = "neg"              -> (-x[1]) % FieldSize
    [] op = "pow"              -> Power(x[1], power)

-----------------------------------------------------------------------------
(* Making instructions.  What is at hand is a record [insts, outcome], the *)
(* result [at, v]: what is at hand afterwards, and the value.  Constants   *)
(* are calculated with.                                                    *)
Made(at, op, args, power) ==
  IF \A i \in DOMAIN args : isConstant(args[i])
  THEN [at |-> at, v |-> ConstantFP(Applied(op, [i \in DOMAIN args |-> args[i][2]], power))]
  ELSE [at |-> [at EXCEPT !.insts = Append(@, [op |-> op, args |-> args, power |-> power])],
        v  |-> Instruction(Len(at.insts) + 1)]

BinaryOp(at, op, x, y) == Made(at, op, <<x, y>>, 1)

takePower(at, v, k) ==
  CASE isConstant(v)           -> Made(at, "pow", <<v>>, k)
    [] ~isConstant(v) /\ k = -1 -> BinaryOp(at, "div", ConstantFP(1), v)
    [] ~isConstant(v) /\ k = 1  -> [at |-> at, v |-> v]
    [] ~isConstant(v) /\ k = 2  -> BinaryOp(at, "mul", v, v)
    [] ~isConstant(v) /\ k \notin {-1, 1, 2} -> Made(at, "pow", <<v>>, k)

-----------------------------------------------------------------------------
(* A term is a product: a function from values to their powers.  A choice  *)
(* stays in it with the power zero.                                        *)
EmptyTerm   == <<>>
Variable(v) == [x \in {v} |-> 1]

PowerIn(t, v) == IF v \in DOMAIN t THEN t[v] ELSE 0

CancelsInOneWay(old, i) == old + i >= 0 /\ old >= 0 /\ i < 0      \* a variant

(* Whether a factor with power old is cancelled when its power grows by i. *)
(* The code looks at the power again when the entry of a power that became *)
(* zero has been erased, and finds the zero that was there.                *)
Cancels(old, i) == old + i >= 0 /\ (old >= 0) = (i < 0)

TermTimes(t, u) ==
  LET Total(v) == PowerIn(t, v) + PowerIn(u, v)
      factors  == {v \in DOMAIN t \cup DOMAIN u : isHandleDivisionByZero(v) \/ Total(v) # 0}
      choices  == {handleDivisionByZero(v) :
                     v \in {w \in DOMAIN u : ~isHandleDivisionByZero(w) /\ Cancels(PowerIn(t, w), u[w])}}
  IN  [v \in factors \cup choices |-> Total(v)]

TermInverse(t) ==
  LET choices == {handleDivisionByZero(v) : v \in {w \in DOMAIN t : t[w] < 0}}
  IN  [v \in DOMAIN t \cup choices |-> -PowerIn(t, v)]

(* A polynomial is a function from terms to their coefficients, none zero. *)
NoTerms      == <<>>
Single(t, c) == [x \in {t} |-> c]

Coefficient(p, t) == IF t \in DOMAIN p THEN p[t] ELSE 0

Plus(x, y)  == Applied("add", <<x, y>>, 1)
Times(x, y) == Applied("mul", <<x, y>>, 1)
Over(x, y)  == Applied("div", <<x, y>>, 1)
MinusOne    == Applied("neg", <<1>>, 1)

Nonzero(terms, C(_)) == [t \in {u \in terms : C(u) # 0} |-> C(t)]

PolySum(p, q) ==
  Nonzero(DOMAIN p \cup DOMAIN q, LAMBDA t : Plus(Coefficient(p, t), Coefficient(q, t)))

Scaled(p, c) == [t \in DOMAIN p |-> Times(c, p[t])]

PolyProduct(p, q) ==
  LET pairs == (DOMAIN p) \X (DOMAIN q)
      Add(x, sum) == Plus(sum, Times(p[x[1]], q[x[2]]))
  IN  Nonzero({TermTimes(x[1], x[2]) : x \in pairs},
              LAMBDA t : FoldSet(Add, 0, {x \in pairs : TermTimes(x[1], x[2]) = t}))

-----------------------------------------------------------------------------
(* Back to values: constructVariable of a term, which leaves out factors   *)
(* of power zero, and of a polynomial.                                     *)
Joined(made, op, f) == BinaryOp(f.at, op, made.v, f.v)

TermVariable(at, t) ==
  LET factors == SetToSeq({v \in DOMAIN t : t[v] # 0})
      With(acc, v) ==
        IF v = Head(factors) THEN takePower(acc.at, v, t[v])
        ELSE Joined(acc, IF t[v] < 0 THEN "div" ELSE "mul",
                    takePower(acc.at, v, IF t[v] < 0 THEN -t[v] ELSE t[v]))
  IN  FoldLeft(With, [at |-> at, v |-> ConstantFP(1)], factors)

TimesCoefficient(f, c) == IF c = 1 THEN f ELSE BinaryOp(f.at, "mul", ConstantFP(c), f.v)

getHandleDivisionByZeros(p) == UNION {{v \in DOMAIN t : isHandleDivisionByZero(v) /\ t[v] = 0} : t \in DOMAIN p}

(* The other outcome of every choice is set to what there is so far.       *)
conditionOnHandleDivisionByZeros(made, choices) ==
  LET On(acc, v) ==
        [at |-> [acc.at EXCEPT !.outcome = [w \in DOMAIN @ \cup {v[2]} |-> IF w = v[2] THEN acc.v ELSE @[w]]],
         v  |-> v]
  IN  FoldLeft(On, made, SetToSeq(choices))

constructVariable(at, p) ==
  LET terms == SetToSeq(DOMAIN p)
      Summand(acc, t) == TimesCoefficient(TermVariable(acc.at, t), p[t])
      With(acc, t) == IF t = Head(terms) THEN Summand(acc, t) ELSE Joined(acc, "add", Summand(acc, t))
  IN  conditionOnHandleDivisionByZeros(FoldLeft(With, [at |-> at, v |-> ConstantFP(0)], terms),
                                       getHandleDivisionByZeros(p))

hasUniqueTerm(p) == Cardinality(DOMAIN p) = 1

(* The inverse: of one term, of its factors; of a sum, of a value made for *)
(* it.                                                                     *)
InverseOfTerm(t, c)  == Single(TermInverse(t), Over(1, c))
PowerOfMade(made, k) == [at |-> made.at, p |-> Single([x \in {made.v} |-> k], 1)]

Inverted(at, p) ==
  IF hasUniqueTerm(p)
  THEN [at |-> at, p |-> LET t == CHOOSE t \in DOMAIN p : TRUE IN InverseOfTerm(t, p[t])]
  ELSE PowerOfMade(constructVariable(at, p), -1)

(* By squaring, for the binary digits of k from the lowest.                *)
PolyPower(p, k) ==
  LET Digit(acc, n) == [outcome |-> IF (k \div 2 ^ n) % 2 = 1 THEN PolyProduct(acc.outcome, acc.base) ELSE acc.outcome,
                        base    |-> PolyProduct(acc.base, acc.base)]
      digits == Cardinality({n \in 0 .. k : 2 ^ n <= k})
  IN  FoldLeft(Digit, [outcome |-> Single(EmptyTerm, 1), base |-> p], [n \in 1 .. digits |-> n - 1]).outcome

Powered(base, k) == [base EXCEPT !.p = PolyPower(@, k)]

power_limit == 3

(* pow with a known integer: a high power of a sum is a power of a value   *)
(* made for it.                                                            *)
Raised(at, p, k) ==
  CASE k > power_limit /\ ~hasUniqueTerm(p) -> PowerOfMade(constructVariable(at, p), k)
    [] k < 0                                -> Powered(Inverted(at, p), -k)
    [] k >= 0 /\ (k <= power_limit \/ hasUniqueTerm(p)) -> Powered([at |-> at, p |-> p], k)

(* The polynomial of a value.                                              *)
TimesInverse(p, inverse) == [inverse EXCEPT !.p = PolyProduct(p, @)]

(* The polynomials of the operands, put together.                          *)
Combined(op, operands, power) ==
  LET at == operands.at
      p  == operands.polys
  IN  CASE op = "add" -> [at |-> at, p |-> PolySum(p[1], p[2])]
        [] op = "sub" -> [at |-> at, p |-> PolySum(p[1], Scaled(p[2], MinusOne))]
        [] op = "mul" -> [at |-> at, p |-> PolyProduct(p[1], p[2])]
        [] op = "div" -> TimesInverse(p[1], Inverted(at, p[2]))
        [] op = "neg" -> [at |-> at, p |-> Scaled(p[1], MinusOne)]
        [] op = "pow" -> Raised(at, p[1], power)

AndPolynomial(operands, made) == [at |-> made.at, polys |-> Append(operands.polys, made.p)]

RECURSIVE build(_, _)
build(at, v) ==
  CASE isConstant(v) -> [at |-> at, p |-> IF v[2] = 0 THEN NoTerms ELSE Single(EmptyTerm, v[2])]
    [] v[1] \in {"arg", "choice"} -> [at |-> at, p |-> Single(Variable(v), 1)]
    [] isInstruction(v) ->
         LET i == at.insts[v[2]]
             With(operands, x) == AndPolynomial(operands, build(operands.at, x))
         IN  Combined(i.op, FoldLeft(With, [at |-> at, polys |-> <<>>], i.args), i.power)

Polynomial(made) == constructVariable(made.at, made.p)

tryToSimplify(at, v) == Polynomial(build(at, v))

-----------------------------------------------------------------------------
Environments == [Arguments -> Numbers]

(* What a value is at run time.  A choice that is its own outcome is never *)
(* a number.                                                               *)
RECURSIVE Value(_, _, _)
Value(v, env, open) ==
  CASE isConstant(v)    -> v[2]
    [] v[1] = "arg"     -> env[v[2]]
    [] isInstruction(v) -> LET i == insts[v[2]]
                           IN  Applied(i.op, [k \in DOMAIN i.args |-> Value(i.args[k], env, open)], i.power)
    [] isHandleDivisionByZero(v) ->
         IF v \in open \/ Value(v[2], env, open) = 0 THEN NaN ELSE Value(outcome[v[2]], env, open \cup {v})

(* What an expression is, as it is written.                                *)
Meaning(e, env) ==
  LET number[k \in DOMAIN e] ==
        Applied(e[k].op,
                [i \in DOMAIN e[k].args |->
                   LET x == e[k].args[i]
                   IN  CASE isConstant(x)  -> x[2]
                         [] x[1] = "arg"   -> env[x[2]]
                         [] x[1] = "own"   -> number[x[2]]
                         [] x[1] = "para"  -> paras[x[2]].meaning[env]],
                e[k].power)
  IN  number[Len(e)]

ParametersIn(e) == {x[2] : x \in {y \in UNION {ToSet(e[k].args) : k \in DOMAIN e} : y[1] = "para"}}

-----------------------------------------------------------------------------
ParametersInit ==
  /\ script \in Scripts
  /\ insts = <<>> /\ outcome = <<>> /\ paras = <<>>

AtHand == [insts |-> insts, outcome |-> outcome]

(* The operators on parameters.                                            *)
MakeParameter ==
  /\ Len(paras) < Len(script)
  /\ LET e == script[Len(paras) + 1]
         Operand(x, own) == CASE x[1] = "own"  -> own[x[2]]
                              [] x[1] = "para" -> paras[x[2]].value
                              [] x[1] \in {"const", "arg"} -> x
         With(acc, i) ==
           LET made == Made(acc.at, i.op, [k \in DOMAIN i.args |-> Operand(i.args[k], acc.own)], i.power)
           IN  [at |-> made.at, own |-> Append(acc.own, made.v)]
         all == FoldLeft(With, [at |-> AtHand, own |-> <<>>], e)
     IN  /\ insts' = all.at.insts
         /\ paras' = Append(paras,
              [value |-> Last(all.own),
               meaning |-> [env \in Environments |-> Meaning(e, env)],
               product |-> /\ \A k \in DOMAIN e : e[k].op \in {"mul", "div", "pow"}
                           /\ \A n \in ParametersIn(e) : paras[n].product,
               simplified |-> FALSE])
  /\ UNCHANGED <<script, outcome>>

(* Every use of a value replaced.  A result that is identical to what there *)
(* was is not taken; what was set on the way to it stays.                  *)
ReplaceIn(made, n, old, new) ==
  LET Replaced(v) == IF v = old THEN new ELSE v
  IN  /\ insts' = [i \in DOMAIN made.at.insts |->
                     [made.at.insts[i] EXCEPT !.args = [k \in DOMAIN @ |-> Replaced(@[k])]]]
      /\ outcome' = [v \in DOMAIN made.at.outcome |-> Replaced(made.at.outcome[v])]
      /\ paras' = [paras EXCEPT ![n].value = new, ![n].simplified = TRUE]

Taken(made, n, old) ==
  ReplaceIn(made, n, old,
            IF isInstruction(made.v) /\ made.at.insts[made.v[2]] = insts[old[2]] THEN old ELSE made.v)

updateToSimplified(n) ==
  /\ n \in DOMAIN paras /\ ~paras[n].simplified /\ isInstruction(paras[n].value)
  /\ Taken(tryToSimplify(AtHand, paras[n].value), n, paras[n].value)
  /\ UNCHANGED script

ParametersNext ==
  \/ MakeParameter
  \/ \E n \in DOMAIN script : updateToSimplified(n)

ParametersSpec == ParametersInit /\ [][ParametersNext]_parameterVars
-----------------------------------------------------------------------------
(* A parameter is what it was made as, where that is a number.             *)
HasItsValue(n) ==
  \A env \in Environments :
    paras[n].meaning[env] # NaN => Value(paras[n].value, env, {}) = paras[n].meaning[env]

(* A product of factors and divisors is not a number where it was none:    *)
(* nothing has been cancelled without trace.                               *)
StaysUndefined(n) ==
  \A env \in Environments :
    paras[n].product /\ paras[n].meaning[env] = NaN => Value(paras[n].value, env, {}) = NaN

RECURSIVE HoldsChoice(_)
HoldsChoice(v) ==
  \/ isHandleDivisionByZero(v)
  \/ isInstruction(v) /\ \E x \in ToSet(insts[v[2]].args) : HoldsChoice(x)

(* updateToSimplified leaves a parameter what it is: a number that is not  *)
(* changed, and for a product also not a number in the same places.        *)
SimplifiedKeepsValue ==
  [][\A n \in DOMAIN paras :
       paras'[n].simplified /\ ~paras[n].simplified /\ ~HoldsChoice(paras[n].value)
         => (HasItsValue(n) => HasItsValue(n)') /\ (StaysUndefined(n) => StaysUndefined(n)')]_parameterVars

(* "Try to simplify the Value and return an equivalent" (QuantumRefs.h):   *)
(* what has been simplified stays equivalent to what it was.               *)
EquivalentThroughout == \A n \in DOMAIN paras : HasItsValue(n)

===============================================================================
