CONSTANTS
  s1 = s1 r1 = r1 m1 = m1 k1 = k1 e1 = e1 n1 = n1 s2 = s2 r2 = r2 m2 = m2 e2 = e2 n2 = n2
  Task <- MCTask Work <- MCWork Awaits <- MCAwaits Submits <- MCSubmits MaxWorkers <- MCMaxWorkers
  Storage = {p, q, x} First = p Second = q Datum = {v1, v2} Caller = {u1, u2}
  Nobody = Nobody Nothing = Nothing
  Last = 5 Graphs <- MCGraphs Requests <- MCRequests MaxTraversals = 2
  Dir = {d1, d2} Acquisition = {a1, a2} Shutdown = {h1} Attempts = 2 Launches = 2
  Backing = {c1, c2} Element = {one, nan} Unordered = {nan} Empty = Empty
  Patterns = 2 MaxOperands = 2 MaxActs = 2
  EvStore = {b1} EvProcess = {p1, p2} Producer = {o1, o2} Elsewhere = o2 Report = {report1, report2} Time = {t1, t2} Now = t1
  report1 = report1 report2 = report2 receipt1 = receipt1 receipt2 = receipt2
  record1 = record1 record2 = record2 record3 = record3
  Bundle <- MCBundle Records <- MCRecords NoFact = NoFact MaxCalls = 2
  Pieces <- MCPieces Factors <- MCFactors Lookups <- MCLookups Outputs <- MCOutputs
  SwizzleStages <- MCStages Tilers <- MCTilers ZippedTilers <- MCZippedTilers MaxSize = 16 MaxIndex = 24 MaxSteps = 2
  PlanCalls <- MCPlanCalls
  OpThread = {w1, w2} Profiler = {f1} MoveRequest = {q1} Unset = Unset OpKind = {"file", "cpu"}
  Selects <- MCSelects MaxEvents = 3 MaxDepth = 3
  CarrierClass = {"custom"} Capability = {"add", "mul"} Definition <- MCDefinitions Pack <- MCPacks
  Instance = {i1, i2, i3} Composes <- MCComposes Address = {x1, x2} Undecided = Undecided
  ExactOperations = {"add"} StructuralOperations = {"cumsum"} TranscendentalOperations = {"exp"}
  OraclePlans <- MCOraclePlans JitPlans <- MCJitPlans Movements = {"move"} Witnesses = {"layout"} Absent = Absent
  Carrier = {a, b} Val = {v1} User = {u1, u2} Move = {m1, m2}
  None = None Unknown = Unknown Torn = {b} Meddling = FALSE MaxVersion = 1
SPECIFICATION ComponentsSpec
CHECK_DEADLOCK FALSE
INVARIANTS WorkersServe TiersOwned GradientsExact RunsAfterConsumers ServersKept OperandsSettled EvidenceComplete MapsMeanWhatTheySay PlansDeclared ProfileExact AnswersFinal EvidenceSound
PROPERTIES ReleaseComplete WorkDrains AcquisitionsWake EveryMoveEnds
