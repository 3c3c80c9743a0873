CONSTANTS
  Files <- MCFilesAll
  Vals = {v1, v2}
  TlcVals = {v1}
  RconfigVals <- MCRconfigValsBridge
  RecSize <- MCRecSize
  BuiltTextSizes <- MCBuiltTextSizes
  MonitorNameLen = 7
  MaxBlocks <- MCMaxBlocks
  Datagrams <- BridgeDatagrams
SPECIFICATION Spec
INVARIANT
  StoreCopyInBounds
