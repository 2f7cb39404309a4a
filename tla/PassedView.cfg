\* A report whose view of what passed is refused.
CONSTANTS
    ExactOperations = {"add"}
    StructuralOperations = {"cumsum"}
    TranscendentalOperations = {"exp"}
    OraclePlans <- MCOraclePlans
    JitPlans <- MCJitPlans
    Movements = {"move"}
    Witnesses = {"layout"}
    Absent = Absent
SPECIFICATION StagesSpec
CHECK_DEADLOCK FALSE
INVARIANTS PassedViewIsReport
