------------------------ MODULE MCVerificationStages ------------------------
(***************************************************************************)
(* Plans for VerificationStages: one operation with a deferred and an      *)
(* exact plan, one deferred altogether, and a sum, whose accumulator is    *)
(* another one at the target; and an operation the oracle does not have.   *)
(***************************************************************************)
EXTENDS VerificationStages

MCPlan(o, c, a) == [operation |-> o, compute |-> c, accumulator |-> a]

MCOraclePlans == << MCPlan("exp", "BINARY32", "none"), MCPlan("pow", "BINARY32", "none"),
                    MCPlan("pow", "INT32", "none"), MCPlan("reduce_sum", "BINARY32", "Float64") >>
MCJitPlans == << MCPlan("cumsum", "BINARY32", "none"), MCPlan("reduce_sum", "BINARY32", "Float32") >>
=============================================================================
