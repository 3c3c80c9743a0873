CONSTANTS
  Pins <- MCPins
  Modes <- MCModes
  Strengths <- MCStrengths
  Pulls <- MCPulls
SPECIFICATION Spec
PROPERTIES GpioRefined
