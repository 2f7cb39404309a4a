CONSTANTS
  Bases <- MCBases Keys <- MCKeys Shapes <- MCShapes Orders <- MCOrders Trees <- MCTrees Selectors <- MCSelectors
  BaseOffset = 1 MaxViews = 2
  Calls <- MCCalls Requests <- MCRequests NaN = NaN NegativeZero = NegativeZero
SPECIFICATION TensorsSpec
CHECK_DEADLOCK FALSE
INVARIANTS ViewsReturnGradients KernelsAgree KernelsAdjoint CallsMeanWhatTheySay
