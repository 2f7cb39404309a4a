--------------------------- MODULE OperationPlans ---------------------------
(***************************************************************************)
(* The dtype policy of operations and what the carriers execute of it.     *)
(* A call names an operation and gives each operand as a dtype (a tensor)  *)
(* or a Python number (a weak scalar).  The central policy resolves it to  *)
(* one plan (carriers/operation_policy.py); a carrier runs the plan only   *)
(* when its class has declared it (operation_capability.py).  A class      *)
(* declares what an enumeration of the policy finds, for a few sample      *)
(* numbers, and its kernels implement (generic, cpu, metal/capabilities).  *)
(*                                                                         *)
(* Numbers are named by what tells them apart: 3 and -1 fit Int32, 2^31    *)
(* does not, 0.5 is no integer, and True counts as a floating number.      *)
(***************************************************************************)
EXTENDS Naturals, Sequences

CONSTANT PlanCalls    \* the calls: an operation, its operands, an accumulator

SUPPORTED_TENSOR_DTYPES == {"Float32", "Int32"}
Stored == SUPPORTED_TENSOR_DTYPES \union {"Bool"}
OtherDtype == {"Float64", "Compound", "Category"}    \* no operation takes them
Integral == {"3", "-1", "2^31"}
WeakScalar == Integral \union {"0.5", "True"}

(* Mutant: the fractional probe is forgotten.                              *)
IntegralProbes == {"3", "-1"}

WEAK_SCALAR_PROBES == {"3", "-1", "0.5"}

FLOATING_ACTIVATIONS == {"elu", "exp", "gelu", "leaky_relu", "sigmoid", "silu", "softplus", "tanh"}
Elementwise == {"add", "sub", "elementwise_mul"}
Predicates == {"eq", "ne", "lt", "le", "logical_not"}
Float32Unary == {"neg", "abs", "sign", "recip", "sqrt", "rsqrt", "exp2", "log", "log2", "sin",
                 "cos", "erf", "floor", "ceil", "round"}
Float32Binary == {"maximum", "minimum", "rem"}
IndexResults == {"argmax", "argmin", "_sort_indices", "_topk_indices"}
Selections == {"_sort_values", "_sort_indices", "_topk_values", "_topk_indices"}
Mixed == {"gather", "scatter", "scatter_add", "select"}
Configurable == {"reduce_sum", "matmul"}

(* Accumulations whose order or rule is part of the result.                *)
Pinned == [reduce_prod |-> "product", reduce_max |-> "maximum", reduce_min |-> "minimum",
           argmax |-> "argmax", argmin |-> "argmin", cumsum |-> "sequential",
           conv_general |-> "sequential", scatter_add |-> "sequential"]

REGISTRY == FLOATING_ACTIVATIONS \union Elementwise \union Predicates \union Float32Unary
    \union Float32Binary \union Selections \union Mixed \union Configurable \union DOMAIN Pinned
    \union {"div", "mul", "pow", "relu", "clamp"}
-----------------------------------------------------------------------------
(* An overload: the roles of its operands, the rule that resolves it, and  *)
(* whether the registry leaves its dtypes to whoever enumerates it.        *)
Tensors(n) == [i \in 1..n |-> "tensor"]
Overload(roles, rule) == [roles |-> roles, rule |-> rule, open |-> rule # "exact"]

Arity(op) == IF op \in {"scatter", "scatter_add", "select"} THEN 3
             ELSE IF op \in Float32Binary \union {"eq", "ne", "lt", "le", "gather", "conv_general"} THEN 2 ELSE 1

Overloads(op) ==
    CASE op \in Elementwise \union {"matmul"} -> {Overload(Tensors(2), "closed")}
      [] op \in {"relu", "reduce_sum"}        -> {Overload(Tensors(1), "closed")}
      [] op \in FLOATING_ACTIVATIONS          -> {Overload(Tensors(1), "floating")}
      [] op = "div" -> {Overload(Tensors(2), "floating")}
      [] op = "mul" -> {Overload(Tensors(2), "closed"), Overload(<<"tensor", "scalar">>, "closed")}
      [] op = "pow" -> {Overload(Tensors(2), "floating"), Overload(<<"tensor", "scalar">>, "closed"),
                        Overload(<<"scalar", "tensor">>, "floating")}
      [] op = "clamp" -> {Overload(<<"tensor", a, b>>, "exact") : a, b \in {"tensor", "scalar"}}
      [] OTHER -> {Overload(Tensors(Arity(op)), "exact")}

(* The one dtype of a position whose rule leaves no choice.                *)
ExactDtype(op, i) == IF op = "select" /\ i = 1 THEN "Bool"
                     ELSE IF op \in Mixed \ {"select"} /\ i = 2 THEN "Int32" ELSE "Float32"

Output(op) == IF op \in Predicates THEN "Bool" ELSE IF op \in IndexResults THEN "Int32" ELSE "Float32"

OperandPlans(o, args, to) ==
    [i \in DOMAIN args |-> [role |-> o.roles[i], to |-> to[i],
                            dtype |-> IF o.roles[i] = "tensor" THEN args[i] ELSE "none"]]

Plan(op, operands, compute, accumulation, accumulator, output) ==
    [operation |-> op, operands |-> operands, compute |-> compute, output |-> output,
     accumulation |-> accumulation, accumulator |-> accumulator]

(* An operation that takes one dtype in each position.                     *)
ExactPlan(op, o, args) ==
    LET to == [i \in DOMAIN args |-> ExactDtype(op, i)] IN
    {Plan(op, OperandPlans(o, args, to), "binary32",
          IF op \in DOMAIN Pinned THEN Pinned[op] ELSE "none", "none", Output(op)) :
        x \in {i \in {1} : \A j \in DOMAIN args : o.roles[j] = "tensor" => args[j] = to[j]}}

(* Every operand is converted to Float32.                                  *)
FloatingPlan(op, o, args) ==
    Plan(op, OperandPlans(o, args, [i \in DOMAIN args |-> "Float32"]), "binary32",
         IF op \in Configurable THEN "floating" ELSE "none",
         IF op \in Configurable THEN "Float32" ELSE "none", "Float32")

(* Integers in, integers out.  A sum, and a product of two matrices, is    *)
(* checked once at its end; a clipped value cannot overflow.               *)
IntegerPlan(op, o, args) ==
    Plan(op, OperandPlans(o, args, [i \in DOMAIN args |-> "Int32"]),
         IF op \in {"relu", "matmul"} THEN "int32_exact" ELSE "int32_exact_checked",
         IF op \in Configurable THEN "exact_integer" ELSE "none", "none", "Int32")

(* A power stays an integer for an exponent in [0, 2^31 - 1] only.         *)
KeepsInteger(op, v) == v \in (IF op = "pow" THEN {"3"} ELSE Integral)

ClosedPlan(op, o, args) ==
    IF \E i \in DOMAIN args : IF o.roles[i] = "tensor" THEN args[i] # "Int32" ELSE ~KeepsInteger(op, args[i])
    THEN {FloatingPlan(op, o, args)}
    ELSE IF \E i \in DOMAIN args : args[i] = "2^31" THEN {} ELSE {IntegerPlan(op, o, args)}

(* What the rule of an overload returns: one plan, or none when it raises. *)
Rule(op, o, args) ==
    IF \E i \in DOMAIN args :
          args[i] \notin (IF o.roles[i] = "scalar" THEN WeakScalar
                          ELSE IF o.rule = "exact" THEN Stored ELSE SUPPORTED_TENSOR_DTYPES)
    THEN {}
    ELSE CASE o.rule = "exact"    -> ExactPlan(op, o, args)
           [] o.rule = "floating" -> {FloatingPlan(op, o, args)}
           [] o.rule = "closed"   -> ClosedPlan(op, o, args)
-----------------------------------------------------------------------------
SupportedAccumulators == {"Float32", "Float64"}

WithAccumulator(p, d) == [p EXCEPT !.accumulator = d]

Variants(p) == {p} \union {WithAccumulator(p, d) :
                             d \in {x \in SupportedAccumulators : p.accumulation = "floating"}}

(* Mutant: only the default accumulator is enumerated.                     *)
VariantsDefault(p) == {p}

(* An operand that is neither a dtype nor a number has no role; whichever  *)
(* overload is chosen then refuses it.                                     *)
Role(v) == IF v \in Stored \union OtherDtype THEN "tensor" ELSE "scalar"

SelectOverload(op, args) == {o \in Overloads(op) : o.roles = [i \in DOMAIN args |-> Role(args[i])]}

AccumulatorValid(op, d) == d = "none" \/ (op \in Configurable /\ d \in SupportedAccumulators)

(* resolve_operation_plan: the plan of a call, or none.                    *)
ResolvePlan(c) ==
    LET plans == UNION {Rule(c.operation, o, c.args) : o \in SelectOverload(c.operation, c.args)} IN
    IF ~AccumulatorValid(c.operation, c.accumulator) THEN {}
    ELSE IF c.accumulator = "none" THEN plans
    ELSE {WithAccumulator(p, c.accumulator) : p \in {q \in plans : q.accumulation = "floating"}}

(* The operands that an enumeration tries: dtypes from open in a position  *)
(* the registry leaves open, from named where it names its dtype.          *)
Candidates(op, o, open, named) ==
    {args \in [DOMAIN o.roles -> Stored \union WEAK_SCALAR_PROBES] :
        \A i \in DOMAIN args :
            args[i] \in (IF o.roles[i] = "scalar" THEN WEAK_SCALAR_PROBES
                         ELSE IF o.open THEN open ELSE named \intersect {ExactDtype(op, i)})}

Enumerated(op, open, named) ==
    UNION {UNION {Variants(p) : p \in UNION {Rule(op, o, args) : args \in Candidates(op, o, open, named)}} :
             o \in Overloads(op)}
-----------------------------------------------------------------------------
(* The kernels of Generic and of CPU: one representation for the whole     *)
(* loop, a result in it unless the operation names another, and exactly    *)
(* the accumulations that are written.                                     *)
ComputeDtype(compute) == IF compute = "binary32" THEN "Float32" ELSE "Int32"

Accumulating == Configurable \union DOMAIN Pinned

ConvertsUniformly(p) ==
    \A i \in DOMAIN p.operands :
        p.operands[i].to = (IF p.operation \in Mixed THEN ExactDtype(p.operation, i) ELSE ComputeDtype(p.compute))

StoresResult(p) == p.output = (IF p.operation \in Predicates \union IndexResults
                               THEN Output(p.operation) ELSE ComputeDtype(p.compute))

GenericAccumulators(p) ==
    IF p.operation \notin Accumulating THEN {<<"none", "none">>}
    ELSE IF p.operation \in DOMAIN Pinned THEN {<<Pinned[p.operation], "none">> : x \in {1} \intersect
                                                  (IF p.compute = "binary32" THEN {1} ELSE {})}
    ELSE IF p.compute = "binary32" THEN {"floating"} \X SupportedAccumulators
    ELSE IF p.compute = (IF p.operation = "matmul" THEN "int32_exact" ELSE "int32_exact_checked")
    THEN {<<"exact_integer", "none">>} ELSE {}

ExactOperands(p) ==
    p.operation \in {"select", "clamp"} =>
        /\ Len(p.operands) = 3
        /\ \A i \in 1..3 : p.operands[i].role = "tensor" => p.operands[i].dtype = ExactDtype(p.operation, i)
        /\ p.operands[1].role = "tensor"

GenericExecutes(p) == /\ ExactOperands(p) /\ ConvertsUniformly(p) /\ StoresResult(p)
                      /\ <<p.accumulation, p.accumulator>> \in GenericAccumulators(p)

CpuAccumulators(p) ==
    IF p.operation \notin Accumulating THEN {<<"none", "none">>}
    ELSE IF p.operation \in DOMAIN Pinned THEN {<<Pinned[p.operation], "none">>}
    ELSE ({"floating"} \X SupportedAccumulators) \union {<<"exact_integer", "none">>}

CpuExecutes(p) == /\ ConvertsUniformly(p) /\ StoresResult(p)
                  /\ <<p.accumulation, p.accumulator>> \in CpuAccumulators(p)
-----------------------------------------------------------------------------
(* The kernels of Metal compute in binary32; some convert integers.        *)
Tensor32(x) == x.role = "tensor" /\ x.dtype = "Float32" /\ x.to = "Float32"
Converting(x) == x.role = "tensor" /\ x.dtype \in SUPPORTED_TENSOR_DTYPES /\ x.to = "Float32"
Weak32(x) == x.role = "scalar" /\ x.to = "Float32"
AllConverting(xs) == \A i \in DOMAIN xs : Converting(xs[i])
AllIntegers(xs) == \A i \in DOMAIN xs : xs[i].dtype = "Int32"

MetalOperands(p) ==
    LET op == p.operation
        xs == p.operands
    IN  CASE op \in FLOATING_ACTIVATIONS \union {"div"} -> AllConverting(xs)
          [] op \in Elementwise -> AllConverting(xs) /\ ~AllIntegers(xs)
          [] op = "mul" -> \/ Converting(xs[1]) /\ Weak32(xs[2])
                           \/ AllConverting(xs) /\ ~AllIntegers(xs)
          [] op = "pow" -> \/ AllConverting(xs)
                           \/ \E i \in 1..2 : Converting(xs[i]) /\ Weak32(xs[3 - i])
          [] op = "clamp" -> Tensor32(xs[1]) /\ \A i \in 2..3 : Tensor32(xs[i]) \/ Weak32(xs[i])
          [] op \in Mixed -> \A i \in DOMAIN xs : /\ xs[i].role = "tensor"
                                                  /\ xs[i].dtype = ExactDtype(op, i)
                                                  /\ xs[i].to = ExactDtype(op, i)
          [] OTHER -> (\A i \in DOMAIN xs : Tensor32(xs[i]))

MetalAccumulation(op) == IF op \in Configurable THEN <<"floating", "Float32">>
                         ELSE IF op \in DOMAIN Pinned THEN <<Pinned[op], "none">> ELSE <<"none", "none">>

MetalExecutes(p) ==
    /\ p.compute = "binary32" /\ p.output = Output(p.operation)
    /\ <<p.accumulation, p.accumulator>> = MetalAccumulation(p.operation)
    /\ MetalOperands(p)
-----------------------------------------------------------------------------
(* Select takes a Bool, which no enumeration of the arithmetic dtypes      *)
(* tries: CPU and Metal add its plan.                                      *)
SelectPlan(op) == IF op = "select"
                  THEN Rule(op, Overload(Tensors(3), "exact"), <<"Bool", "Float32", "Float32">>) ELSE {}

GenericDeclares(op) == {p \in Enumerated(op, SUPPORTED_TENSOR_DTYPES, Stored) : GenericExecutes(p)}
ResolvablePlans(op) == Enumerated(op, SUPPORTED_TENSOR_DTYPES, SUPPORTED_TENSOR_DTYPES) \union SelectPlan(op)
CpuDeclares(op) == {p \in ResolvablePlans(op) : CpuExecutes(p)}
MetalDeclares(op) == {p \in ResolvablePlans(op) : MetalExecutes(p)}

(* A hierarchy of Generic over files runs what Generic runs and both store.*)
FileStored == {"Float32", "Int32"}
HierarchyDeclares(op) == {p \in GenericDeclares(op) : p.output \in Stored \intersect FileStored}

Backend == {"Generic", "CPU", "Metal", "Hierarchy"}
Declares(b, op) == CASE b = "Generic" -> GenericDeclares(op) [] b = "CPU" -> CpuDeclares(op)
                     [] b = "Metal" -> MetalDeclares(op) [] b = "Hierarchy" -> HierarchyDeclares(op)
Executes(b, p) == CASE b = "Generic" -> GenericExecutes(p) [] b = "CPU" -> CpuExecutes(p)
                    [] b = "Metal" -> MetalExecutes(p)
                    [] b = "Hierarchy" -> GenericExecutes(p) /\ p.output \in FileStored
-----------------------------------------------------------------------------
VARIABLES request,    \* the call
          resolved,   \* its plan, when it has one
          answer      \* who answered, and what

planVars == <<request, resolved, answer>>

PlansInit == request \in PlanCalls /\ resolved = {} /\ answer = <<"policy", "none">>

Resolve == /\ answer = <<"policy", "none">>
           /\ resolved' = ResolvePlan(request)
           /\ answer' = <<"policy", IF resolved' = {} THEN "raises" ELSE "resolves">>
           /\ UNCHANGED request

(* require_capability: the plan is run exactly when it has been declared.  *)
RequireCapability(b) ==
    /\ answer = <<"policy", "resolves">>
    /\ answer' = <<b, IF resolved \subseteq Declares(b, request.operation) THEN "runs" ELSE "refused">>
    /\ UNCHANGED <<request, resolved>>

PlansNext == Resolve \/ \E b \in Backend : RequireCapability(b)
-----------------------------------------------------------------------------
(* "A backend that cannot execute a plan raises", and only such a one: the *)
(* enumerations try a few operands, and find every plan that any call can  *)
(* resolve to and a kernel can run; Generic and CPU run every plan.        *)
PlansDeclared ==
    \A b \in Backend, p \in resolved :
        /\ answer = <<b, "runs">> => Executes(b, p)
        /\ answer = <<b, "refused">> => ~Executes(b, p) /\ b \notin {"Generic", "CPU"}
=============================================================================
