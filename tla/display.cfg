CONSTANTS
  MaxSwapsPerFrame <- MCOneSwapPerFrame
  MaxFrame <- MCMaxFrame
SPECIFICATION Spec
INVARIANTS TypeOK
PROPERTIES LastSwapShown
