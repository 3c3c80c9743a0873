-------------------------------- MODULE Ports --------------------------------
(***************************************************************************)
(* The PIO pin functions of src/ports.c, on one port's registers:          *)
(* set_pin_mode (CFG0-3, four bits a pin, three of them the function),    *)
(* set_pin_data and get_pin_data (DAT, a bit a pin), set_pin_drive (DRV0-1,*)
(* two bits a pin) and set_pin_pull (PUL0-1, two bits a pin).  Each       *)
(* register is a 32-bit word, modelled as a function from bit positions   *)
(* to bits, so the C masks and shifts are the bitwise operations they are. *)
(* No caller of these functions is in the repository: a pin, a mode, a    *)
(* level, a strength or a pull is any value of the small sets below.      *)
(***************************************************************************)
EXTENDS Naturals, FiniteSets

CONSTANTS
  Pins,       \* the pins the callers use, in 0 .. 31
  Modes,      \* function selects, in 0 .. 7
  Strengths,  \* drive levels, in 0 .. 3
  Pulls       \* pull settings, in 0 .. 3

ASSUME PortsConstantsAssumption ==
  /\ Pins \subseteq 0 .. 31
  /\ Modes \subseteq 0 .. 7 /\ Strengths \subseteq 0 .. 3 /\ Pulls \subseteq 0 .. 3

Bit == 0 .. 31
Word == [Bit -> {0, 1}]

\* A small unsigned constant (below 2^30, as all the masks and values the
\* functions shift are) as a word, and the C operators on words.
Vec(v) == [k \in Bit |-> IF k < 30 THEN (v \div 2^k) % 2 ELSE 0]
Shl(x, s) == [k \in Bit |-> IF k >= s THEN x[k - s] ELSE 0]
BitAnd(x, y) == [k \in Bit |-> x[k] * y[k]]
BitOr(x, y) == [k \in Bit |-> IF x[k] + y[k] > 0 THEN 1 ELSE 0]
BitNot(x) == [k \in Bit |-> 1 - x[k]]

\* The value of the w bits of x from bit off.
Field(x, off, w) == CHOOSE v \in 0 .. (2^w - 1) : \A k \in 0 .. (w - 1) : x[off + k] = Vec(v)[k]

VARIABLES cfg, dat, drv, pul

vars == <<cfg, dat, drv, pul>>

TypeOK ==
  /\ cfg \in [0 .. 3 -> Word] /\ dat \in Word
  /\ drv \in [0 .. 1 -> Word] /\ pul \in [0 .. 1 -> Word]

\* The reset values of the H3 PIO registers: every function select 7
\* (disabled), data low, drive level 1, no pull.
Init ==
  /\ cfg = [i \in 0 .. 3 |-> [k \in Bit |-> Vec(7)[k % 4]]]   \* 0x77777777
  /\ dat = Vec(0)
  /\ drv = [i \in 0 .. 1 |-> [k \in Bit |-> Vec(1)[k % 2]]]   \* 0x55555555
  /\ pul = [i \in 0 .. 1 |-> Vec(0)]

\* set_pin_mode's choice of CFGn, and the pin's field in it.
CfgIndex(pin) == IF pin < 8 THEN 0 ELSE IF pin < 16 THEN 1 ELSE IF pin < 24 THEN 2 ELSE 3
CfgShift(pin) == (pin - 8 * CfgIndex(pin)) * 4

\* Bug variant: only two of the three function-select bits are cleared.
SetPinModeMask3(pin, m) ==
  /\ cfg' = [cfg EXCEPT ![CfgIndex(pin)] =
               BitOr(BitAnd(@, BitNot(Shl(Vec(3), CfgShift(pin)))), Shl(Vec(m), CfgShift(pin)))]
  /\ UNCHANGED <<dat, drv, pul>>

\* set_pin_mode: clear the pin's three bits, then or in the mode.
SetPinMode(pin, m) ==
  /\ cfg' = [cfg EXCEPT ![CfgIndex(pin)] =
               BitOr(BitAnd(@, BitNot(Shl(Vec(7), CfgShift(pin)))), Shl(Vec(m), CfgShift(pin)))]
  /\ UNCHANGED <<dat, drv, pul>>

\* set_pin_data: set or clear the pin's bit.
SetPinData(pin, d) ==
  /\ dat' = IF d # 0 THEN BitOr(dat, Shl(Vec(1), pin))
                     ELSE BitAnd(dat, BitNot(Shl(Vec(1), pin)))
  /\ UNCHANGED <<cfg, drv, pul>>

\* get_pin_data: the pin's bit, as 0 or 1.
GetPinData(pin) == BitAnd(dat, Shl(Vec(1), pin))[pin]

\* set_pin_drive and set_pin_pull: DRV0/PUL0 for pins 0-15, DRV1/PUL1 for
\* the others; the register is and-ed with 3 << pin * 2, then the value is
\* or-ed in.
TwoBitIndex(pin) == IF pin < 16 THEN 0 ELSE 1
TwoBitShift(pin) == (pin - 16 * TwoBitIndex(pin)) * 2
TwoBitWrite(r, pin, v) ==
  BitOr(BitAnd(r, Shl(Vec(3), TwoBitShift(pin))), Shl(Vec(v), TwoBitShift(pin)))

SetPinDrive(pin, s) ==
  /\ drv' = [drv EXCEPT ![TwoBitIndex(pin)] = TwoBitWrite(@, pin, s)]
  /\ UNCHANGED <<cfg, dat, pul>>

SetPinPull(pin, p) ==
  /\ pul' = [pul EXCEPT ![TwoBitIndex(pin)] = TwoBitWrite(@, pin, p)]
  /\ UNCHANGED <<cfg, dat, drv>>

Next ==
  \E pin \in Pins :
    \/ \E m \in Modes : SetPinMode(pin, m)
    \/ \E d \in {0, 1} : SetPinData(pin, d)
    \/ \E s \in Strengths : SetPinDrive(pin, s)
    \/ \E p \in Pulls : SetPinPull(pin, p)

Spec == Init /\ [][Next]_vars

(***************************************************************************)
(* Properties.                                                             *)
(***************************************************************************)

\* The pin configuration the registers hold: the function select and the
\* level get_pin_data reads back.
PinMode(pin) == Field(cfg[CfgIndex(pin)], CfgShift(pin), 3)
PinDrive(pin) == Field(drv[TwoBitIndex(pin)], TwoBitShift(pin), 2)

GP == INSTANCE GpioPins WITH
        mode <- [p \in Pins |-> PinMode(p)],
        level <- [p \in Pins |-> GetPinData(p)]

\* set_pin_mode and set_pin_data, in any order on any pins, among drive and
\* pull writes: the registers implement the per-pin configuration of
\* GpioPins, each call setting its own pin's field and no other.
GpioRefined == GP!Spec

\* set_pin_drive: a call changes the drive level of at most one pin.
DriveIsolated ==
  [][Cardinality({p \in Pins : PinDrive(p)' # PinDrive(p)}) <= 1]_vars

=============================================================================
