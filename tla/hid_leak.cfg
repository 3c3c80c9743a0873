CONSTANTS
  Devs <- MCDevs
  Pipes <- MCPipes
SPECIFICATION Spec
INVARIANTS PipesReleased
