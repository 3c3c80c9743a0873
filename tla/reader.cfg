CONSTANTS
  Width <- MCWidth
  MaxPerTick <- MCMaxPerTick
SPECIFICATION Spec
INVARIANTS RateExact
PROPERTIES DataShown QuietShowsNoData
