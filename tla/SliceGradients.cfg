CONSTANTS
  Bases <- MCBases Keys <- MCKeys Shapes <- MCShapes Orders <- MCOrders Trees <- MCTrees Selectors <- MCSelectors
  BaseOffset = 1 MaxViews = 2
SPECIFICATION TensorViewsSpec
CHECK_DEADLOCK FALSE
INVARIANT SlicesScatterBack
