------------------------------- MODULE HidHost -------------------------------
(***************************************************************************)
(* The TinyUSB HID host class (src/tinyusb/src/class/hid/hid_host.c) with *)
(* the firmware's keyboard callbacks (src/usb.c).                          *)
(*                                                                         *)
(* hid_host.c keeps one interface slot per class and device address       *)
(* (keyboardh_data, mouseh_data, generich_data, index dev_addr - 1) holding *)
(* the interrupt-IN pipe hcd_pipe_open gave it.  The keyboard callback     *)
(* starts polling on mount and re-arms the transfer from the transfer-    *)
(* complete interrupt; every transfer of every keyboard lands in the one  *)
(* usb_keyboard_report buffer.  The USB host core and the host controller *)
(* driver are not in the repository: a bounded pool of pipes, device      *)
(* attach and detach, and the end of a transfer are environment actions.  *)
(***************************************************************************)
EXTENDS Naturals, FiniteSets

CONSTANTS
  Devs,     \* device addresses, 1 .. CFG_TUSB_HOST_DEVICE_MAX
  Pipes     \* the host controller's interrupt pipes

ASSUME HidHostConstantsAssumption ==
  /\ Devs \subseteq Nat \ {0} /\ IsFiniteSet(Pipes) /\ 0 \notin Pipes

\* An interface's class slot: boot keyboard, boot mouse, anything else.
Kinds == {"keyboard", "mouse", "generic"}

\* xfer_result_t values the controller reports.
Events == {"SUCCESS", "FAILED", "STALLED"}

\* A slot with no pipe: tu_memclr leaves an invalid pipe handle.
NoPipe == 0

VARIABLES
  attached,    \* the device at each address is configured
  slot,        \* slot[k][d]: the pipe of class k's interface of device d
  owner,       \* the device each pipe of the pool is open for, 0 when free
  busy,        \* pipes with a transfer pending
  stalled      \* (history) keyboards whose last transfer ended STALLED

vars == <<attached, slot, owner, busy, stalled>>

TypeOK ==
  /\ attached \subseteq Devs
  /\ slot \in [Kinds -> [Devs -> Pipes \cup {NoPipe}]]
  /\ owner \in [Pipes -> Devs \cup {0}]
  /\ busy \subseteq Pipes
  /\ stalled \subseteq Devs

Init ==
  /\ attached = {}
  /\ slot = [k \in Kinds |-> [d \in Devs |-> NoPipe]]
  /\ owner = [p \in Pipes |-> 0]
  /\ busy = {}
  /\ stalled = {}

\* The host core has enumerated device d and set it configured.
Attach(d) ==
  /\ d \notin attached
  /\ attached' = attached \cup {d}
  /\ UNCHANGED <<slot, owner, busy, stalled>>

\* hidh_interface_get_report, from the keyboard callbacks: a transfer is
\* started when the device is configured and the pipe is idle.
GetReport(d, p, b) ==
  IF d \in attached /\ p # NoPipe /\ p \notin b THEN b \cup {p} ELSE b

\* hidh_open_subtask for an interface of class k, once SET_IDLE and the
\* report descriptor have been fetched: hidh_interface_open stores
\* whatever hcd_pipe_open returns in the class slot, an invalid handle when
\* the pool is empty, and TU_ASSERT then returns before the mount
\* callback.  tuh_hid_keyboard_mounted_cb asks for the first report.
OpenInterface(d, k) ==
  /\ d \in attached
  /\ \/ \E p \in Pipes :
          /\ owner[p] = 0
          /\ owner' = [owner EXCEPT ![p] = d]
          /\ slot' = [slot EXCEPT ![k][d] = p]
          /\ busy' = IF k = "keyboard" THEN GetReport(d, p, busy) ELSE busy
          /\ stalled' = IF k = "keyboard" THEN stalled \ {d} ELSE stalled
     \/ /\ \A p \in Pipes : owner[p] # 0
        /\ slot' = [slot EXCEPT ![k][d] = NoPipe]
        /\ UNCHANGED <<owner, busy, stalled>>
  /\ UNCHANGED attached

\* Bug variant: a FAILED transfer is not retried.
KeyboardIsrNoRetry(d, p, ev, b) ==
  IF ev = "SUCCESS" THEN GetReport(d, p, b) ELSE b

\* tuh_hid_keyboard_isr: log the report and ask for the next one on
\* SUCCESS, ask again on FAILED, nothing on any other result.
KeyboardIsr(d, p, ev, b) ==
  IF ev \in {"SUCCESS", "FAILED"} THEN GetReport(d, p, b) ELSE b

\* The controller ends the transfer of pipe p and calls hidh_isr, which
\* hands it to the class whose slot holds p.  Only the keyboard's ISR
\* does anything.
TransferComplete(p, ev) ==
  LET d == owner[p]
      b == busy \ {p}
      kbd == slot["keyboard"][d] = p
  IN
  /\ p \in busy
  /\ busy' = IF kbd THEN KeyboardIsr(d, p, ev, b) ELSE b
  /\ stalled' = IF kbd /\ ev = "STALLED" THEN stalled \cup {d} ELSE stalled
  /\ UNCHANGED <<attached, slot, owner>>

\* The device is unplugged: the host core calls hidh_close, which closes
\* and clears each class slot holding a valid pipe.
Detach(d) ==
  LET closed == {slot[k][d] : k \in Kinds} \ {NoPipe} IN
  /\ d \in attached
  /\ attached' = attached \ {d}
  /\ slot' = [k \in Kinds |-> [slot[k] EXCEPT ![d] = NoPipe]]
  /\ owner' = [p \in Pipes |-> IF p \in closed THEN 0 ELSE owner[p]]
  /\ busy' = busy \ closed
  /\ UNCHANGED stalled

Next ==
  \/ \E d \in Devs : Attach(d) \/ Detach(d)
  \/ \E d \in Devs, k \in Kinds : OpenInterface(d, k)
  \/ \E p \in Pipes, ev \in Events : TransferComplete(p, ev)

Spec == Init /\ [][Next]_vars

(***************************************************************************)
(* Properties.                                                             *)
(***************************************************************************)

\* The keyboard mount callback and tuh_hid_keyboard_isr, against transfers
\* ending SUCCESS or FAILED at any time, a second keyboard interface and
\* unplugging: a mounted keyboard whose last transfer did not stall always
\* has a transfer pending on the pipe its slot holds, so it keeps being
\* polled.
KeyboardPolled ==
  \A d \in Devs : slot["keyboard"][d] # NoPipe /\ d \notin stalled
                   => slot["keyboard"][d] \in busy

\* hidh_close on unplug: no pipe of the pool stays open for a device that
\* is no longer there.
PipesReleased == \A p \in Pipes : owner[p] # 0 => owner[p] \in attached

=============================================================================
