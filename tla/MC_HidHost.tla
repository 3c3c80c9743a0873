------------------------------ MODULE MC_HidHost ------------------------------
(* Two device addresses and a pool of three interrupt pipes: enough for a  *)
(* keyboard and a mouse on one device and an interface of the other, and   *)
(* for the pool to run dry.                                               *)
EXTENDS HidHost

MCDevs == {1, 2}
MCPipes == {1, 2, 3}

=============================================================================
