---------------------------- MODULE MCComponents ----------------------------
(***************************************************************************)
(* The components that do not interact, checked side by side: the first    *)
(* state chooses one, and only that one moves.                             *)
(***************************************************************************)
EXTENDS BackgroundExecutors, EvictableHierarchy, Autograd, ManagedServers,
        ProviderTransaction, MCEvidenceStore, MCIndexMaps, OperationPlans,
        OperationProfiler, CarrierAuthority, MCVerificationStages,
        MoveAsync

CONSTANTS s1, r1, m1, k1, e1, n1, s2, r2, m2, e2, n2

(* Two selections: each waits for a residency request that waits for the   *)
(* move of a tile, and submits one that evicts a tile.  k1 is a copy.      *)
MCTask == {s1, r1, m1, k1, e1, n1, s2, r2, m2, e2, n2}
MCWork == [t \in MCTask |-> CASE t \in {s1, s2} -> "selection"
                              [] t \in {r1, r2, e1, e2} -> "residency"
                              [] OTHER -> "move"]
MCAwaits == [t \in MCTask |-> CASE t = s1 -> {r1} [] t = s2 -> {r2}
                                [] t = r1 -> {m1} [] t = r2 -> {m2}
                                [] t = e1 -> {n1} [] t = e2 -> {n2} [] OTHER -> {}]
MCSubmits == [t \in MCTask |-> CASE t = s1 -> {e1} [] t = s2 -> {e2} [] OTHER -> {}]
MCMaxWorkers == [p \in {"move", "residency", "selection"} |-> IF p = "selection" THEN 2 ELSE 1]
-----------------------------------------------------------------------------
(* Five tensors: a chain, a diamond, a tensor used twice, a tensor used    *)
(* directly and through another, an input without a derivative, a leaf     *)
(* that is not differentiable, and retained intermediate results.          *)
Graph(ins, factor, plain, retaining) ==
    [inputs |-> ins, factor |-> factor, plain |-> plain, retaining |-> retaining]

MCGraphs ==
    { Graph(<< <<>>, <<1>>, <<2>>, <<3>>, <<4>> >>, << <<>>, <<2>>, <<3>>, <<0>>, <<2>> >>, {}, {3}),
      Graph(<< <<>>, <<1>>, <<1>>, <<2, 3>>, <<4>> >>, << <<>>, <<2>>, <<3>>, <<1, 2>>, <<1>> >>, {}, {}),
      Graph(<< <<>>, <<>>, <<1, 1>>, <<3, 2>>, <<4, 3>> >>, << <<>>, <<>>, <<1, 2>>, <<3, 1>>, <<1, 1>> >>, {}, {4}),
      Graph(<< <<>>, <<>>, <<1>>, <<3, 2>>, <<4, 1>> >>, << <<>>, <<>>, <<2>>, <<1, 3>>, <<1, 1>> >>, {}, {}),
      Graph(<< <<>>, <<>>, <<1, 2>>, <<3>>, <<4, 3>> >>, << <<>>, <<>>, <<1, 2>>, <<0>>, <<1, 2>> >>, {2}, {3}),
      Graph(<< <<>>, <<1>>, <<2, 1>>, <<2, 3>>, <<4, 2>> >>, << <<>>, <<1>>, <<2, 1>>, <<0, 1>>, <<1, 0>> >>, {}, {2}) }

CleanGraph == CHOOSE h \in MCGraphs : TRUE
MCRequests == {{1, 3}}
-----------------------------------------------------------------------------
(* Every operation with operands of every kind; a few for those of three.  *)
OperandValue == Stored \union OtherDtype \union WeakScalar \union {"text"}
FewValues == {"Float32", "Int32", "Bool", "0.5", "3"}
MCPlanCalls ==
    LET Invocation(op, args, d) == [operation |-> op, args |-> args, accumulator |-> d]
        Length(op) == {Len(o.roles) : o \in Overloads(op)}
        Given(op) == UNION {[1..n -> IF n = 3 THEN FewValues ELSE OperandValue] : n \in Length(op)}
    IN  UNION {{Invocation(op, args, "none") : args \in Given(op)} : op \in REGISTRY}
        \union UNION {{Invocation(op, args, d) : args \in Given(op), d \in {"Float64", "Float32", "Int32"}} :
                       op \in Configurable \union {"cumsum"}}
-----------------------------------------------------------------------------
MCKernel(n, op) == [id |-> n, plans |-> {op}]
MCDefinitions == {[kernels |-> <<MCKernel(1, "add")>>]}
MCPacks == {[class |-> "custom", identity |-> k[1], kernels |-> <<MCKernel(k[2], k[3])>>] :
              k \in {<<1, 1, "mul">>, <<2, 2, "mul">>, <<3, 3, "add">>, <<3, 4, "mul">>}}
MCComposes == [i \in Instance |-> "custom"]
-----------------------------------------------------------------------------
MCSelects == [p \in Profiler |-> {"file"}]
-----------------------------------------------------------------------------
VARIABLE part    \* the component that moves

componentVars == <<part, execVars, evictableVars, autogradVars, serversVars, providerVars,
                  evidenceVars, mapVars, planVars, profilerVars, authorityVars, stagesVars,
                  vars>>

(* Init, Next and vars are those of MoveAsync.                             *)
(* A component that does not move starts in one state.  Values are alike,  *)
(* so the first of a hierarchy is any one; what a store holds at first is  *)
(* the larger report, and the first carrier of a provider is comparable.   *)
ComponentsInit ==
    /\ part \in {"executors", "evictable", "autograd", "servers", "provider", "evidence", "maps", "plans", "profiler", "authority", "stages", "moves"}
    /\ ExecInit /\ ServersInit
    /\ EvictableInit
    /\ value = CHOOSE v \in Datum : TRUE
    /\ part # "evictable" => data[First] = data[Second]
    /\ AutogradInit
    /\ part # "autograd" => graph = CleanGraph
    /\ ProviderInit
    /\ cells[CHOOSE c \in Backing : TRUE].val \notin Unordered
    /\ part # "provider" => \A c \in Backing : cells[c].val \notin Unordered
    /\ EvidenceInit
    /\ \A s \in EvStore : Firsts("run", rows[s]) \subseteq {report1}
    /\ part # "evidence" => published[Elsewhere] = {} /\ \A s \in EvStore : rows[s] = {}
    /\ IndexMapsInit
    /\ part # "maps" => imap = <<PermutationPart(<<1, 0>>, 2)>>
    /\ ProfilerInit /\ AuthorityInit
    /\ IF part = "plans" THEN PlansInit
       ELSE /\ request = [operation |-> "div", args |-> <<"Float32", "Int32">>, accumulator |-> "none"]
            /\ resolved = {} /\ answer = <<"policy", "none">>
    /\ StagesInit
    /\ part # "stages" => provider = "compiled-executable"
    /\ Init /\ \A c \in Carrier : contents[c] # None

ComponentsNext ==
    /\ UNCHANGED part
    /\ IF part = "executors" THEN ExecNext ELSE UNCHANGED execVars
    /\ IF part = "evictable" THEN EvictableNext ELSE UNCHANGED evictableVars
    /\ IF part = "autograd" THEN AutogradNext ELSE UNCHANGED autogradVars
    /\ IF part = "servers" THEN ServersNext ELSE UNCHANGED serversVars
    /\ IF part = "provider" THEN ProviderNext ELSE UNCHANGED providerVars
    /\ IF part = "evidence" THEN EvidenceNext ELSE UNCHANGED evidenceVars
    /\ IF part = "maps" THEN IndexMapsNext ELSE UNCHANGED mapVars
    /\ IF part = "plans" THEN PlansNext ELSE UNCHANGED planVars
    /\ IF part = "profiler" THEN ProfilerNext ELSE UNCHANGED profilerVars
    /\ IF part = "authority" THEN AuthorityNext ELSE UNCHANGED authorityVars
    /\ IF part = "stages" THEN StagesNext ELSE UNCHANGED stagesVars
    /\ IF part = "moves" THEN Next ELSE UNCHANGED vars

(* ExecFairness, ServersFairness and the Fairness of moves, each owed by   *)
(* its own component.                                                      *)
ComponentsFairness == /\ WF_execVars(part = "executors" /\ WorkerStep)
                      /\ WF_serversVars(part = "servers" /\ ThreadStep)
                      /\ \A m \in Move : WF_vars(part = "moves" /\ MoveStep(m))
                      /\ \A u \in User : WF_vars(part = "moves" /\ CallStep(u))

ComponentsSpec == ComponentsInit /\ [][ComponentsNext]_componentVars /\ ComponentsFairness
=============================================================================
