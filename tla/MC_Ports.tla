------------------------------- MODULE MC_Ports -------------------------------
(* Pins 6 and 7 share CFG0 (7 in its top field) and DRV0 and PUL0; pin   *)
(* 31 is the top field of CFG3, DRV1 and PUL1 and the top bit of DAT.      *)
(* Modes input, output and disabled.                                      *)
EXTENDS Ports

MCPins == {6, 7, 31}
MCModes == {0, 1, 7}
MCStrengths == {1, 3}
MCPulls == {0, 1}

=============================================================================
