------------------------------ MODULE MCTensors ------------------------------
(***************************************************************************)
(* Views, kernels and calls of functions, checked side by side: the first  *)
(* state chooses one.                                                      *)
(***************************************************************************)
EXTENDS MCTensorViews, MCTensorKernels, MCFunctional

VARIABLE part            \* "views", "kernels" or "calls"

tensorVars == <<part, viewVars, kernelVars, functionalVars>>

FirstBase == <<Leaf(4, 1)>>
FirstCall == Call("neg", <<T(FirstBase, <<1>>)>>, 0)
FirstRequest == Request("generic", "neg", <<T(FirstBase, <<1>>)>>, 0)

TensorsInit ==
    /\ part \in {"views", "kernels", "calls"}
    /\ TensorViewsInit
    /\ part # "views" => base = FirstBase
    /\ IF part = "kernels" THEN TensorKernelsInit
       ELSE call = FirstCall /\ made = [c \in Carriers |-> Pending] /\ given = [c \in Carriers |-> <<>>]
    /\ IF part = "calls" THEN FunctionalInit
       ELSE request = FirstRequest /\ held = request.operands /\ recorded = <<>> /\ owed = <<>> /\ phase = "forward"

ViewsStep == part = "views" /\ TensorViewsNext /\ UNCHANGED <<part, kernelVars, functionalVars>>
KernelsStep == part = "kernels" /\ TensorKernelsNext /\ UNCHANGED <<part, viewVars, functionalVars>>
CallsStep == part = "calls" /\ FunctionalNext /\ UNCHANGED <<part, viewVars, kernelVars>>
TensorsNext == ViewsStep \/ KernelsStep \/ CallsStep

TensorsSpec == TensorsInit /\ [][TensorsNext]_tensorVars
=============================================================================
