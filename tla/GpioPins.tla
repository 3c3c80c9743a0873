------------------------------ MODULE GpioPins ------------------------------
(***************************************************************************)
(* What the pin functions of src/ports.c promise: each pin of a PIO port  *)
(* has its own function select (0 input, 1 output, 2-6 a peripheral, 7    *)
(* disabled) and its own output level, and setting one pin's never        *)
(* touches another pin's.                                                  *)
(***************************************************************************)
CONSTANTS Pins, Modes

VARIABLES mode, level

\* The port after reset: every pin disabled, every level low.
Init ==
  /\ mode = [p \in Pins |-> 7]
  /\ level = [p \in Pins |-> 0]

SetMode(p, m) ==
  /\ mode' = [mode EXCEPT ![p] = m]
  /\ UNCHANGED level

SetLevel(p, d) ==
  /\ level' = [level EXCEPT ![p] = d]
  /\ UNCHANGED mode

Next ==
  \E p \in Pins : \/ \E m \in Modes : SetMode(p, m)
                  \/ \E d \in {0, 1} : SetLevel(p, d)

Spec == Init /\ [][Next]_<<mode, level>>

=============================================================================
