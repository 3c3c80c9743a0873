--------------------------- MODULE ArtNetRdmProofs --------------------------
(***************************************************************************)
(* Proof that HandleRdm is transparent to DMX for every port table.       *)
(*                                                                         *)
(* RdmTransparent is not inductive: whether HandleRdm stops and restarts  *)
(* a port correctly depends on m_IsLightSetRunning[i] being right when it *)
(* is read.  For an sACN port HandleRdm refreshes it from the Art-Net 4   *)
(* handler first; for an Art-Net port only the node's DMX path writes it, *)
(* together with the output (Tracked).  HandleTodControl, which does not  *)
(* refresh, cannot disturb Tracked either: it never writes the flag and,  *)
(* on an Art-Net port, restarts exactly what it stopped.                  *)
(***************************************************************************)
EXTENDS ArtNetRdm, TLAPS

Typed ==
  /\ output \in [Ports -> BOOLEAN]
  /\ running \in [Ports -> BOOLEAN]
  /\ responder \in BOOLEAN
  /\ rdmOnLive \subseteq Handlers
  /\ outputFlip \subseteq Handlers

\* The flag of an enabled Art-Net port says whether it sends DMX.
Tracked == \A i \in Enabled \ SacnPorts : running[i] = output[i]

IInv == Typed /\ Tracked /\ RdmTransparent

\* A handler deciding by a flag equal to the port's output neither talks
\* RDM on a live line nor leaves the output changed.
LEMMA FlagRight ==
  ASSUME NEW i \in Ports, NEW run, NEW rdm, output[i] \in BOOLEAN, responder \in BOOLEAN,
         run = output[i]
  PROVE  /\ ~(rdm /\ ~responder /\ Stopped(i, run))
         /\ After(i, run) = output[i]
BY Zenon DEF Stopped, After

LEMMA InitIInv == Init => IInv
BY Zenon DEF Init, IInv, Typed, Tracked, RdmTransparent

LEMMA NextIInv == IInv /\ [Next]_vars => IInv'
<1> SUFFICES ASSUME IInv, [Next]_vars PROVE IInv'
  OBVIOUS
<1>0. \A a : Match(a) \subseteq Enabled
  BY DEF Match
<1> USE PortsAssumption DEF IInv, Typed
<1>1. ASSUME NEW i \in Ports, ArtDmxStart(i) \/ ArtDmxStop(i) \/ SacnOutput(i)
      PROVE  IInv'
  BY <1>1, Zenon DEF ArtDmxStart, ArtDmxStop, SacnOutput, Tracked, RdmTransparent
<1>2. ASSUME NEW a \in Addrs, NEW cmd \in Commands, HandleTodControl(a, cmd)
      PROVE  IInv'
  <2> DEFINE ports == Match(a)
  <2>1. \A i \in ports \ SacnPorts : After(i, running[i]) = output[i]
    BY <1>0, FlagRight DEF Tracked
  <2>2. output' = [i \in Ports |-> IF i \in ports THEN After(i, running[i]) ELSE output[i]]
        /\ UNCHANGED <<running, responder>>
    BY <1>2 DEF HandleTodControl
  <2>3. output' \in [Ports -> BOOLEAN]
    BY <2>2, Zenon DEF After, Stopped
  <2>4. Tracked'
    BY <1>0, <2>1, <2>2, Zenon DEF Tracked
  <2>5. rdmOnLive' \subseteq Handlers /\ outputFlip' \subseteq Handlers
        /\ "HandleRdm" \notin rdmOnLive' \cup outputFlip'
    BY <1>2, Zenon DEF HandleTodControl, Note, Handlers, RdmTransparent
  <2>. QED BY <2>2, <2>3, <2>4, <2>5, Zenon DEF RdmTransparent
<1>3. ASSUME NEW a \in Addrs, HandleRdm(a)
      PROVE  IInv'
  <2> DEFINE ports == Match(a)
             run == [i \in Ports |->
                       IF i \in ports /\ ~responder /\ i \in SacnPorts
                       THEN Status(i) \cap Mask # {} ELSE running[i]]
  <2>1. \A i \in ports : run[i] = output[i] \/ responder
    <3> SUFFICES ASSUME NEW i \in ports, ~responder PROVE run[i] = output[i]
      OBVIOUS
    <3>1. CASE i \in SacnPorts
      BY <1>0, <3>1, Zenon DEF Status, Mask
    <3>2. CASE i \notin SacnPorts
      BY <1>0, <3>2, Zenon DEF Tracked
    <3>. QED BY <3>1, <3>2
  <2>2. \A i \in ports : ~(~responder /\ Stopped(i, run[i])) /\ After(i, run[i]) = output[i]
    <3> SUFFICES ASSUME NEW i \in ports PROVE ~(~responder /\ Stopped(i, run[i]))
                                             /\ After(i, run[i]) = output[i]
      OBVIOUS
    <3>1. CASE responder
      BY <3>1, Zenon DEF Stopped, After
    <3>2. CASE ~responder
      BY <1>0, <2>1, <3>2, FlagRight
    <3>. QED BY <3>1, <3>2
  <2>3. /\ running' = run
        /\ output' = [i \in Ports |-> IF i \in ports THEN After(i, run[i]) ELSE output[i]]
        /\ Note("HandleRdm", ports, run, TRUE)
        /\ UNCHANGED responder
    BY <1>3 DEF HandleRdm
  <2>4. Clash(ports, run, TRUE) = {} /\ Flipped(ports, run) = {}
    BY <1>0, <2>2 DEF Clash, Flipped
  <2>5. output' = output
    BY <1>0, <2>2, <2>3
  <2>6. rdmOnLive' = rdmOnLive /\ outputFlip' = outputFlip
    BY <2>3, <2>4 DEF Note
  <2>7. running' \in [Ports -> BOOLEAN]
    BY <2>3, Zenon
  <2>8. Tracked'
    BY <1>0, <2>3, <2>5, Zenon DEF Tracked
  <2>. QED BY <2>3, <2>5, <2>6, <2>7, <2>8, Zenon DEF RdmTransparent
<1>4. CASE UNCHANGED vars
  BY <1>4 DEF vars, Tracked, RdmTransparent
<1>. QED BY <1>1, <1>2, <1>3, <1>4 DEF Next

\* HandleRdm as an RDM controller or a responder, with the node's DMX path
\* and the Art-Net 4 handler starting and stopping ports in any order, for
\* every port table: it never talks RDM on a line that is carrying DMX and
\* leaves every port sending exactly when it found it sending.
THEOREM RdmAlwaysTransparent == Spec => []RdmTransparent
<1>1. Init => IInv
  BY InitIInv
<1>2. IInv /\ [Next]_vars => IInv'
  BY NextIInv
<1>3. IInv => RdmTransparent
  BY DEF IInv
<1>. QED BY <1>1, <1>2, <1>3, PTL DEF Spec

=============================================================================
