---------------------------- MODULE MC_ArtNetRdm ----------------------------
(* The node's four ports (ArtNet::MAX_PORTS).  Ports 0 to 2 share one     *)
(* address: port 0 bridges sACN in Art-Net 4 mode, port 1 is a plain      *)
(* Art-Net port, port 2 is disabled.  Port 3 bridges sACN on a second     *)
(* address.                                                               *)
EXTENDS ArtNetRdm

MCPorts == {0, 1, 2, 3}
MCAddrs == {1, 2}
MCPortAddress == [i \in MCPorts |-> IF i = 3 THEN 2 ELSE 1]
MCEnabled == {0, 1, 3}
MCSacnPorts == {0, 3}

=============================================================================
