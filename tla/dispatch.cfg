CONSTANTS
  Files <- MCFilesSmall
  Vals = {v1, v2}
  TlcVals = {v1}
  RconfigVals <- MCRconfigVals
  RecSize <- MCRecSize
  BuiltTextSizes <- MCBuiltTextSizes
  MonitorNameLen = 7
  MaxBlocks <- MCMaxBlocks
  Datagrams <- GateDatagrams
SPECIFICATION Spec
INVARIANTS
  TypeOK
  TftpSessionUnique
  FirmwareComplete
PROPERTIES
  WriteGate
  LockPersists
