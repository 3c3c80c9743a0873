CONSTANTS
  Ports <- MCPorts
  Addrs <- MCAddrs
  PortAddress <- MCPortAddress
  Enabled <- MCEnabled
  SacnPorts <- MCSacnPorts
SPECIFICATION Spec
INVARIANTS RdmTransparent
