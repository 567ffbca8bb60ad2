------------------------ MODULE MCParameterExpressions -------------------------
(***************************************************************************)
(* Parameters made of two arguments: every expression of one or two        *)
(* operations, longer ones in which factors are cancelled, sums are        *)
(* divided by or raised to a power, and some that use an earlier one.      *)
(***************************************************************************)
EXTENDS ParameterExpressions

alpha == ArgumentFP("a")
beta  == ArgumentFP("b")
two   == ConstantFP(2)

Op(op, x, y) == [op |-> op, args |-> <<x, y>>, power |-> 1]
Neg(x)       == [op |-> "neg", args |-> <<x>>, power |-> 1]
Pow(x, k)    == [op |-> "pow", args |-> <<x>>, power |-> k]

Leaves == {alpha, beta, two}

OneOperation(operands) ==
  {Op(op, x, y) : op \in {"add", "sub", "mul", "div"}, x \in operands, y \in operands}
    \cup {Neg(x) : x \in operands} \cup {Pow(x, k) : x \in operands, k \in {-2, 2, 4}}

TwoOperations ==
  {<<o, p>> : o \in OneOperation(Leaves),
              p \in {q \in OneOperation(Leaves \cup {Own(1)}) : Own(1) \in {q.args[k] : k \in DOMAIN q.args}}}

Short == {<<o>> : o \in OneOperation(Leaves)} \cup TwoOperations

(* a * a * b * b / a / b, a * b * 2 / a, a to the fourth over a, powers of *)
(* a + b, (a + b) / (a + b), a sum over a product.                         *)
Long ==
  {<<Op("mul", alpha, alpha), Op("mul", Own(1), beta), Op("mul", Own(2), beta), Op("div", Own(3), alpha), Op("div", Own(4), beta)>>,
   <<Op("mul", alpha, beta), Op("mul", Own(1), two), Op("div", Own(2), alpha)>>,
   <<Pow(alpha, 4), Op("mul", beta, Own(1)), Op("div", Own(2), alpha)>>,
   <<Op("div", beta, alpha), Op("div", Own(1), alpha), Op("mul", alpha, Own(2)), Op("mul", alpha, Own(3))>>,
   <<Op("add", alpha, beta), Pow(Own(1), 4), Op("div", Own(2), Own(1))>>,
   <<Op("add", alpha, beta), Op("mul", Own(1), Own(1)), Op("mul", alpha, alpha), Op("sub", Own(2), Own(3))>>,
   <<Op("add", alpha, beta), Op("add", beta, alpha), Op("div", Own(1), Own(2))>>,
   <<Op("div", alpha, beta), Op("add", Own(1), two), Op("div", Own(2), beta), Pow(Own(3), -2)>>,
   <<Op("mul", alpha, beta), Op("div", Own(1), alpha), Op("sub", Own(2), beta)>>,
   <<Op("div", alpha, alpha), Op("div", beta, beta), Op("add", Own(1), Own(2))>>}

(* One parameter in another, simplified before or after it.                *)
Shared ==
  {<<<<o>>, <<p>>>> : o \in {Op("add", alpha, beta), Op("div", alpha, beta), Op("mul", alpha, two)},
                      p \in {q \in OneOperation({alpha, beta, Para(1)}) : Para(1) \in {q.args[k] : k \in DOMAIN q.args}}}

MCScripts == {<<e>> : e \in Short \cup Long} \cup Shared

(* a / a and then a * b / a; b / (a / a + 2) + a / a.                      *)
TwoQuotients ==
  {<<<<Op("div", alpha, alpha)>>, <<Op("mul", alpha, beta), Op("div", Own(1), alpha)>>>>,
   <<<<Op("div", alpha, alpha), Op("add", Own(1), two), Op("div", beta, Own(2)), Op("add", Own(3), Own(1))>>>>}
=============================================================================
