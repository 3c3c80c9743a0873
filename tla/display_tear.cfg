CONSTANTS
  MaxSwapsPerFrame <- MCOneSwapPerFrame
  MaxFrame <- MCMaxFrame
SPECIFICATION Spec
PROPERTIES NoTearing
