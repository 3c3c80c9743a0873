----------------------------- MODULE ArtNetRdm ------------------------------
(***************************************************************************)
(* RDM over Art-Net in the Art-Net node (src/lib-artnet/src/artnetrdm.cpp):*)
(* SetRdmHandler, HandleTodControl, HandleTodRequest and HandleRdm.         *)
(*                                                                         *)
(* An output port drives one DMX line.  RDM as a controller shares the     *)
(* line with DMX, so the handlers stop the port's light set while they     *)
(* talk RDM and start it again afterwards, as m_IsLightSetRunning[i] says. *)
(* That flag is kept by the node's own DMX path.  A port in Art-Net 4 mode *)
(* that bridges sACN (PORT_ARTNET_SACN) is driven by the Art-Net 4        *)
(* handler instead, and HandleRdm refreshes the flag from that handler's   *)
(* status before it uses it; HandleTodControl does not.                    *)
(*                                                                         *)
(* The node's DMX and sACN paths are not in the repository: they appear   *)
(* here as the environment actions that start and stop a port's output.   *)
(* The TOD contents, the RDM packets and the replies sent are left out.    *)
(***************************************************************************)
EXTENDS FiniteSets

CONSTANTS
  Ports,        \* output ports, 0 .. ArtNet::MAX_PORTS - 1
  Addrs,        \* port addresses (Net << 8 | Address)
  PortAddress,  \* m_OutputPorts[i].port.nPortAddress
  Enabled,      \* the ports with m_OutputPorts[i].bIsEnabled
  SacnPorts     \* the ports with PORT_ARTNET_SACN, the Art-Net 4 handler set

ASSUME PortsAssumption ==
  /\ IsFiniteSet(Ports)
  /\ PortAddress \in [Ports -> Addrs]
  /\ Enabled \subseteq Ports
  /\ SacnPorts \subseteq Ports

\* TArtTodControl.Command: 0x01 is AtcFlush, anything else AtcNone here.
Commands == {"AtcNone", "AtcFlush"}

\* HandleRdm's mask of the Art-Net 4 handler's GO_ status bits.
Mask == {"merging", "transmitting", "sacn"}

\* The handlers that talk RDM on a line.
Handlers == {"HandleTodControl", "HandleRdm"}

VARIABLES
  output,      \* the port's light set is sending DMX
  running,     \* m_IsLightSetRunning
  responder,   \* m_IsRdmResponder
  rdmOnLive,   \* (history) handlers that put RDM on a line carrying DMX
  outputFlip   \* (history) handlers that left a port's output changed

vars == <<output, running, responder, rdmOnLive, outputFlip>>

\* The ports a packet for address a is handled on.
Match(a) == {i \in Enabled : PortAddress[i] = a}

\* m_pArtNet4Handler->GetStatus(i): the bits set while it sends on port i.
Status(i) == IF output[i] THEN {"transmitting", "sacn"} ELSE {}

\* SetRdmHandler(pArtNetRdm, IsResponder) at start-up, before any packet:
\* no port sends DMX yet.
Init ==
  /\ output = [i \in Ports |-> FALSE]
  /\ running = [i \in Ports |-> FALSE]
  /\ responder \in BOOLEAN
  /\ rdmOnLive = {} /\ outputFlip = {}

(***************************************************************************)
(* The environment: the node's DMX path keeps the flag of an Art-Net port; *)
(* the Art-Net 4 handler starts and stops an sACN port on its own.         *)
(***************************************************************************)
ArtDmxStart(i) ==
  /\ i \in Enabled \ SacnPorts /\ ~output[i]
  /\ output' = [output EXCEPT ![i] = TRUE]
  /\ running' = [running EXCEPT ![i] = TRUE]
  /\ UNCHANGED <<responder, rdmOnLive, outputFlip>>

ArtDmxStop(i) ==
  /\ i \in Enabled \ SacnPorts /\ output[i]
  /\ output' = [output EXCEPT ![i] = FALSE]
  /\ running' = [running EXCEPT ![i] = FALSE]
  /\ UNCHANGED <<responder, rdmOnLive, outputFlip>>

SacnOutput(i) ==
  /\ i \in Enabled \cap SacnPorts
  /\ output' = [output EXCEPT ![i] = ~output[i]]
  /\ UNCHANGED <<running, responder, rdmOnLive, outputFlip>>

(***************************************************************************)
(* The handlers.  The node runs one packet at a time from its main loop;  *)
(* the ports of a packet are handled one after another and independently. *)
(***************************************************************************)

\* What a handler does on port i, given the flag it decides by (run) and
\* whether it talks RDM on the line (rdm): Stop(i) when the flag is set and
\* the node is an RDM controller, the RDM exchange, Start(i) on the same
\* condition.
Stopped(i, run) == IF run /\ ~responder THEN FALSE ELSE output[i]
After(i, run) == IF run /\ ~responder THEN TRUE ELSE Stopped(i, run)
Clash(ports, run, rdm) == {i \in ports : rdm /\ ~responder /\ Stopped(i, run[i])}
Flipped(ports, run) == {i \in ports : After(i, run[i]) # output[i]}

\* Record handler h in the histories.
Note(h, ports, run, rdm) ==
  /\ rdmOnLive' = IF Clash(ports, run, rdm) # {} THEN rdmOnLive \cup {h} ELSE rdmOnLive
  /\ outputFlip' = IF Flipped(ports, run) # {} THEN outputFlip \cup {h} ELSE outputFlip

\* HandleTodControl: stop, a full discovery on AtcFlush, SendTod, start,
\* all by m_IsLightSetRunning as it stands.
HandleTodControl(a, cmd) ==
  LET ports == Match(a) IN
  /\ output' = [i \in Ports |-> IF i \in ports THEN After(i, running[i]) ELSE output[i]]
  /\ Note("HandleTodControl", ports, running, cmd = "AtcFlush")
  /\ UNCHANGED <<running, responder>>

\* HandleTodRequest: SendTod for every matching port; no state changes.

\* Bug variant: the flag is not refreshed from the Art-Net 4 handler.
HandleRdmNoRefresh(a) ==
  LET ports == Match(a) IN
  /\ output' = [i \in Ports |-> IF i \in ports THEN After(i, running[i]) ELSE output[i]]
  /\ Note("HandleRdm", ports, running, TRUE)
  /\ UNCHANGED <<running, responder>>

\* HandleRdm: as an RDM controller, refresh the flag of an sACN port from
\* the Art-Net 4 handler's status, stop, hand the packet to the RDM
\* controller (which talks on the line), send any reply, start.  As a
\* responder the packet goes to the node's own responder.
HandleRdm(a) ==
  LET ports == Match(a)
      run == [i \in Ports |->
                IF i \in ports /\ ~responder /\ i \in SacnPorts
                THEN Status(i) \cap Mask # {} ELSE running[i]]
  IN
  /\ running' = run
  /\ output' = [i \in Ports |-> IF i \in ports THEN After(i, run[i]) ELSE output[i]]
  /\ Note("HandleRdm", ports, run, TRUE)
  /\ UNCHANGED responder

Next ==
  \/ \E i \in Ports : ArtDmxStart(i) \/ ArtDmxStop(i) \/ SacnOutput(i)
  \/ \E a \in Addrs, cmd \in Commands : HandleTodControl(a, cmd)
  \/ \E a \in Addrs : HandleRdm(a)

Spec == Init /\ [][Next]_vars

(***************************************************************************)
(* Properties.                                                             *)
(***************************************************************************)

\* HandleRdm, with DMX and sACN starting and stopping ports around it:
\* it never talks RDM on a line that is carrying DMX, and it leaves every
\* port sending DMX exactly when it found it sending.
RdmTransparent == "HandleRdm" \notin rdmOnLive \cup outputFlip

\* HandleTodControl, likewise for the full discovery of AtcFlush: it never
\* runs on a line that is carrying DMX.
TodControlQuiet == "HandleTodControl" \notin rdmOnLive

=============================================================================
