------------------------------ MODULE PortsProofs -----------------------------
(***************************************************************************)
(* Proof that the PIO registers of src/ports.c implement GpioPins, for    *)
(* every set of pins and modes.                                            *)
(*                                                                         *)
(* The argument goes down to bits.  Every mask and value the functions    *)
(* shift is below 8, so its word has at most its three low bits set       *)
(* (VecLow, VecHigh); a pin's three-bit function select reads as the sum  *)
(* of its bits (FieldValue); set_pin_mode's clear-and-or writes exactly   *)
(* the bits of its own field (ModeWriteBits), and the fields of two pins  *)
(* never overlap; set_pin_data writes exactly the pin's bit of DAT.        *)
(***************************************************************************)
EXTENDS Ports, TLAPS

\* The numeric facts the bit lemmas rest on.
\* The provers evaluate a power of literals only, so the exponents the
\* words use are taken one at a time.
LEMMA PowBig ==
  ASSUME NEW k \in 3 .. 29
  PROVE  2^k \in Nat /\ 2^k >= 8
<1>0. k = 3 \/ k = 4 \/ k = 5 \/ k = 6 \/ k = 7 \/ k = 8 \/ k = 9 \/ k = 10
      \/ k = 11 \/ k = 12 \/ k = 13 \/ k = 14 \/ k = 15 \/ k = 16 \/ k = 17
      \/ k = 18 \/ k = 19 \/ k = 20 \/ k = 21 \/ k = 22 \/ k = 23 \/ k = 24
      \/ k = 25 \/ k = 26 \/ k = 27 \/ k = 28 \/ k = 29
  BY SMT
<1>1. CASE k = 3
  BY <1>1, SMT
<1>2. CASE k = 4
  BY <1>2, SMT
<1>3. CASE k = 5
  BY <1>3, SMT
<1>4. CASE k = 6
  BY <1>4, SMT
<1>5. CASE k = 7
  BY <1>5, SMT
<1>6. CASE k = 8
  BY <1>6, SMT
<1>7. CASE k = 9
  BY <1>7, SMT
<1>8. CASE k = 10
  BY <1>8, SMT
<1>9. CASE k = 11
  BY <1>9, SMT
<1>10. CASE k = 12
  BY <1>10, SMT
<1>11. CASE k = 13
  BY <1>11, SMT
<1>12. CASE k = 14
  BY <1>12, SMT
<1>13. CASE k = 15
  BY <1>13, SMT
<1>14. CASE k = 16
  BY <1>14, SMT
<1>15. CASE k = 17
  BY <1>15, SMT
<1>16. CASE k = 18
  BY <1>16, SMT
<1>17. CASE k = 19
  BY <1>17, SMT
<1>18. CASE k = 20
  BY <1>18, SMT
<1>19. CASE k = 21
  BY <1>19, SMT
<1>20. CASE k = 22
  BY <1>20, SMT
<1>21. CASE k = 23
  BY <1>21, SMT
<1>22. CASE k = 24
  BY <1>22, SMT
<1>23. CASE k = 25
  BY <1>23, SMT
<1>24. CASE k = 26
  BY <1>24, SMT
<1>25. CASE k = 27
  BY <1>25, SMT
<1>26. CASE k = 28
  BY <1>26, SMT
<1>27. CASE k = 29
  BY <1>27, SMT
<1>. QED BY <1>0, <1>1, <1>2, <1>3, <1>4, <1>5, <1>6, <1>7, <1>8, <1>9, <1>10, <1>11, <1>12, <1>13, <1>14, <1>15, <1>16, <1>17, <1>18, <1>19, <1>20, <1>21, <1>22, <1>23, <1>24, <1>25, <1>26, <1>27, Zenon

LEMMA DivSmall ==
  ASSUME NEW v \in 0 .. 7, NEW q \in Nat, q >= 8
  PROVE  v \div q = 0
BY Z3

\* A value below 8 has no bit above bit 2.
LEMMA VecHigh ==
  ASSUME NEW v \in 0 .. 7, NEW k \in Bit, k >= 3
  PROVE  Vec(v)[k] = 0
<1>1. CASE k < 30
  <2> DEFINE q == 2^k
  <2>0. k \in 3 .. 29
    BY <1>1 DEF Bit
  <2>1. q \in Nat /\ q >= 8
    BY <2>0, PowBig, Zenon
  <2> HIDE DEF q
  <2>2. (v \div q) % 2 = 0
    BY <2>1, DivSmall
  <2>3. Vec(v)[k] = (v \div q) % 2
    BY <1>1, Zenon DEF Vec, q
  <2>. QED BY <2>2, <2>3
<1>2. CASE k >= 30
  <2>1. ~(k < 30)
    BY <1>2 DEF Bit
  <2>. QED BY <2>1, Zenon DEF Vec
<1>. QED BY <1>1, <1>2 DEF Bit

\* Its three low bits, and the value they make.
LEMMA VecLow ==
  ASSUME NEW v \in 0 .. 7
  PROVE  /\ Vec(v)[0] = v % 2
         /\ Vec(v)[1] = (v \div 2) % 2
         /\ Vec(v)[2] = (v \div 4) % 2
         /\ Vec(v)[0] \in {0, 1} /\ Vec(v)[1] \in {0, 1} /\ Vec(v)[2] \in {0, 1}
         /\ v = Vec(v)[0] + 2 * Vec(v)[1] + 4 * Vec(v)[2]
<1>1. 2^0 = 1 /\ 2^1 = 2 /\ 2^2 = 4
  BY SMT
<1>2. Vec(v)[0] = v % 2 /\ Vec(v)[1] = (v \div 2) % 2 /\ Vec(v)[2] = (v \div 4) % 2
  BY <1>1 DEF Vec, Bit
<1>. QED BY <1>2, Z3

\* Every bit of a small value's word is a bit.
LEMMA VecWord ==
  ASSUME NEW v \in 0 .. 7
  PROVE  Vec(v) \in Word
<1>1. \A k \in Bit : Vec(v)[k] \in {0, 1}
  BY VecLow, VecHigh DEF Bit
<1>. QED BY <1>1 DEF Vec, Word

\* A three-bit field of a word reads as the number its bits make.
LEMMA FieldValue ==
  ASSUME NEW x \in Word, NEW off \in 0 .. 29
  PROVE  Field(x, off, 3) = x[off] + 2 * x[off + 1] + 4 * x[off + 2]
<1> DEFINE v == x[off] + 2 * x[off + 1] + 4 * x[off + 2]
           P(u) == \A k \in 0 .. 2 : x[off + k] = Vec(u)[k]
<1>1. x[off] \in {0, 1} /\ x[off + 1] \in {0, 1} /\ x[off + 2] \in {0, 1}
  BY DEF Word, Bit
<1>2. v \in 0 .. 7
  BY <1>1
<1>3. \A u \in 0 .. 7 : P(u) <=> x[off] = Vec(u)[0] /\ x[off + 1] = Vec(u)[1]
                                 /\ x[off + 2] = Vec(u)[2]
  <2>1. 0 .. 2 = {0, 1, 2} /\ off + 0 = off
    BY SMT
  <2>. QED BY <2>1, Zenon
<1>4. P(v)
  <2>1. x[off] = Vec(v)[0] /\ x[off + 1] = Vec(v)[1] /\ x[off + 2] = Vec(v)[2]
    BY <1>1, <1>2, VecLow
  <2>. QED BY <1>2, <1>3, <2>1
<1>5. \A u \in 0 .. 7 : P(u) => u = v
  <2> SUFFICES ASSUME NEW u \in 0 .. 7, P(u) PROVE u = v
    OBVIOUS
  <2>1. x[off] = Vec(u)[0] /\ x[off + 1] = Vec(u)[1] /\ x[off + 2] = Vec(u)[2]
    BY <1>3
  <2>. QED BY <2>1, VecLow
<1>6. Field(x, off, 3) = CHOOSE u \in 0 .. 7 : P(u)
  <2>1. 2^3 - 1 = 7 /\ 3 - 1 = 2
    BY SMT
  <2>. QED BY <2>1, Zenon DEF Field
<1>7. (CHOOSE u \in 0 .. 7 : P(u)) \in 0 .. 7 /\ P(CHOOSE u \in 0 .. 7 : P(u))
  BY <1>2, <1>4, Zenon
<1>. QED BY <1>5, <1>6, <1>7, Zenon

\* The C operators keep a word a word.
LEMMA WordOps ==
  ASSUME NEW x \in Word, NEW y \in Word, NEW s \in Nat
  PROVE  /\ BitAnd(x, y) \in Word /\ BitOr(x, y) \in Word /\ BitNot(x) \in Word
         /\ Shl(x, s) \in Word
<1>1. BitAnd(x, y) \in Word
  BY DEF BitAnd, Word, Bit
<1>2. BitOr(x, y) \in Word
  BY DEF BitOr, Word, Bit
<1>3. BitNot(x) \in Word
  BY DEF BitNot, Word, Bit
<1>4. Shl(x, s) \in Word
  BY DEF Shl, Word, Bit
<1>. QED BY <1>1, <1>2, <1>3, <1>4

\* A small value shifted left by s fills bits s to s + 2 and no other.
LEMMA ShlVec ==
  ASSUME NEW v \in 0 .. 7, NEW s \in 0 .. 31, NEW k \in Bit
  PROVE  Shl(Vec(v), s)[k] = IF k >= s /\ k < s + 3 THEN Vec(v)[k - s] ELSE 0
<1>1. CASE k >= s /\ k >= s + 3
  <2>1. k - s \in Bit /\ k - s >= 3
    BY <1>1 DEF Bit
  <2>2. Vec(v)[k - s] = 0
    BY <2>1, VecHigh
  <2>. QED BY <1>1, <2>2 DEF Shl
<1>2. CASE k >= s /\ k < s + 3
  BY <1>2 DEF Shl
<1>3. CASE k < s
  BY <1>3 DEF Shl, Bit
<1>. QED BY <1>1, <1>2, <1>3 DEF Bit

\* set_pin_mode's register and field: the fields are the nibbles of the
\* four CFG registers, one pin each.
LEMMA CfgFacts ==
  ASSUME NEW p \in 0 .. 31
  PROVE  /\ CfgIndex(p) \in 0 .. 3
         /\ CfgShift(p) \in 0 .. 28 /\ CfgShift(p) % 4 = 0
         /\ \A q \in 0 .. 31 : q # p /\ CfgIndex(q) = CfgIndex(p) => CfgShift(q) # CfgShift(p)
BY DEF CfgIndex, CfgShift

\* set_pin_mode's clear-and-or on a register: the pin's three bits take
\* the mode's, every other bit keeps its value.
ModeWord(x, s, m) == BitOr(BitAnd(x, BitNot(Shl(Vec(7), s))), Shl(Vec(m), s))

LEMMA ModeWriteBits ==
  ASSUME NEW x \in Word, NEW s \in 0 .. 28, NEW m \in 0 .. 7
  PROVE  /\ ModeWord(x, s, m) \in Word
         /\ \A k \in Bit : k >= s /\ k < s + 3 => ModeWord(x, s, m)[k] = Vec(m)[k - s]
         /\ \A k \in Bit : k < s \/ k >= s + 3 => ModeWord(x, s, m)[k] = x[k]
<1>0. 7 \in 0 .. 7 /\ s \in 0 .. 31 /\ s \in Nat
  OBVIOUS
<1>1. ModeWord(x, s, m) \in Word
  <2>1. Vec(7) \in Word /\ Vec(m) \in Word
    BY <1>0, VecWord
  <2>2. Shl(Vec(7), s) \in Word /\ Shl(Vec(m), s) \in Word
    BY <1>0, <2>1, WordOps, Zenon
  <2>3. BitAnd(x, BitNot(Shl(Vec(7), s))) \in Word
    BY <2>2, WordOps, Zenon
  <2>. QED BY <2>2, <2>3, WordOps, Zenon DEF ModeWord
<1>2. ASSUME NEW k \in Bit, k >= s /\ k < s + 3 PROVE ModeWord(x, s, m)[k] = Vec(m)[k - s]
  <2>1. k - s \in 0 .. 2
    BY <1>2 DEF Bit
  <2>2. Vec(7)[k - s] = 1 /\ Vec(m)[k - s] \in {0, 1}
    BY <2>1, VecLow
  <2>3. Shl(Vec(7), s)[k] = (IF k >= s /\ k < s + 3 THEN Vec(7)[k - s] ELSE 0)
        /\ Shl(Vec(m), s)[k] = (IF k >= s /\ k < s + 3 THEN Vec(m)[k - s] ELSE 0)
    BY <1>0, ShlVec
  <2>4. Shl(Vec(7), s)[k] = 1 /\ Shl(Vec(m), s)[k] = Vec(m)[k - s]
    BY <1>2, <2>2, <2>3
  <2>5. x[k] \in {0, 1}
    BY DEF Word
  <2>. QED BY <2>2, <2>4, <2>5 DEF ModeWord, BitOr, BitAnd, BitNot
<1>3. ASSUME NEW k \in Bit, k < s \/ k >= s + 3 PROVE ModeWord(x, s, m)[k] = x[k]
  <2>1. Shl(Vec(7), s)[k] = (IF k >= s /\ k < s + 3 THEN Vec(7)[k - s] ELSE 0)
        /\ Shl(Vec(m), s)[k] = (IF k >= s /\ k < s + 3 THEN Vec(m)[k - s] ELSE 0)
    BY <1>0, ShlVec
  <2>2. Shl(Vec(7), s)[k] = 0 /\ Shl(Vec(m), s)[k] = 0
    BY <1>3, <2>1 DEF Bit
  <2>3. x[k] \in {0, 1}
    BY DEF Word
  <2>. QED BY <2>2, <2>3 DEF ModeWord, BitOr, BitAnd, BitNot
<1>. QED BY <1>1, <1>2, <1>3

\* A one shifted to the pin's bit.
LEMMA PinBit ==
  ASSUME NEW pin \in 0 .. 31
  PROVE  /\ Shl(Vec(1), pin) \in Word
         /\ \A k \in Bit : Shl(Vec(1), pin)[k] = IF k = pin THEN 1 ELSE 0
<1>0. 1 \in 0 .. 7 /\ pin \in Nat
  OBVIOUS
<1>1. Shl(Vec(1), pin) \in Word
  <2>1. Vec(1) \in Word
    BY <1>0, VecWord
  <2>. QED BY <1>0, <2>1, WordOps, Zenon
<1>2. ASSUME NEW k \in Bit PROVE Shl(Vec(1), pin)[k] = IF k = pin THEN 1 ELSE 0
  <2>1. Vec(1)[0] = 1 /\ Vec(1)[1] = 0 /\ Vec(1)[2] = 0
    BY <1>0, VecLow
  <2>2. Shl(Vec(1), pin)[k] = IF k >= pin /\ k < pin + 3 THEN Vec(1)[k - pin] ELSE 0
    BY <1>0, ShlVec
  <2>3. k >= pin /\ k < pin + 3 => k - pin \in {0, 1, 2}
    BY DEF Bit
  <2>. QED BY <2>1, <2>2, <2>3 DEF Bit
<1>. QED BY <1>1, <1>2

\* set_pin_data on DAT: the pin's bit takes the level, every other bit
\* keeps its value.
DataWord(x, pin, d) ==
  IF d # 0 THEN BitOr(x, Shl(Vec(1), pin)) ELSE BitAnd(x, BitNot(Shl(Vec(1), pin)))

LEMMA DataWriteBits ==
  ASSUME NEW x \in Word, NEW pin \in 0 .. 31, NEW d \in {0, 1}
  PROVE  /\ DataWord(x, pin, d) \in Word
         /\ DataWord(x, pin, d)[pin] = d
         /\ \A k \in Bit : k # pin => DataWord(x, pin, d)[k] = x[k]
<1>0. Shl(Vec(1), pin) \in Word /\ \A k \in Bit : Shl(Vec(1), pin)[k] = IF k = pin THEN 1 ELSE 0
  BY PinBit
<1>1. DataWord(x, pin, d) \in Word
  <2>1. BitOr(x, Shl(Vec(1), pin)) \in Word
    BY <1>0, WordOps, Zenon
  <2>2. BitAnd(x, BitNot(Shl(Vec(1), pin))) \in Word
    BY <1>0, WordOps, Zenon
  <2>. QED BY <2>1, <2>2, Zenon DEF DataWord
<1>2. x[pin] \in {0, 1} /\ pin \in Bit
  BY DEF Word, Bit
<1>3. DataWord(x, pin, d)[pin] = d
  BY <1>0, <1>2 DEF DataWord, BitOr, BitAnd, BitNot
<1>4. ASSUME NEW k \in Bit, k # pin PROVE DataWord(x, pin, d)[k] = x[k]
  <2>1. x[k] \in {0, 1}
    BY DEF Word
  <2>. QED BY <1>0, <1>4, <2>1 DEF DataWord, BitOr, BitAnd, BitNot
<1>. QED BY <1>1, <1>3, <1>4

\* get_pin_data reads the pin's bit of DAT.
LEMMA GetPinDataBit ==
  ASSUME NEW pin \in 0 .. 31, dat \in Word
  PROVE  GetPinData(pin) = dat[pin]
<1>1. Shl(Vec(1), pin)[pin] = 1 /\ pin \in Bit
  <2>1. pin \in Bit
    BY DEF Bit
  <2>. QED BY <2>1, PinBit
<1>2. dat[pin] \in {0, 1}
  BY <1>1 DEF Word
<1>. QED BY <1>1, <1>2 DEF GetPinData, BitAnd

(***************************************************************************)
(* The registers stay words.                                               *)
(***************************************************************************)

\* The writes of the actions, as the operators of the bit lemmas.
LEMMA ActionWords ==
  ASSUME NEW pin \in Pins
  PROVE  /\ \A m \in Modes : SetPinMode(pin, m) =>
              cfg' = [cfg EXCEPT ![CfgIndex(pin)] = ModeWord(cfg[CfgIndex(pin)], CfgShift(pin), m)]
         /\ \A d \in {0, 1} : SetPinData(pin, d) => dat' = DataWord(dat, pin, d)
BY Zenon DEF SetPinMode, SetPinData, ModeWord, DataWord

\* set_pin_drive's and set_pin_pull's write keeps a word a word.
LEMMA TwoBitWord ==
  ASSUME NEW r \in Word, NEW pin \in 0 .. 31, NEW v \in 0 .. 3
  PROVE  TwoBitWrite(r, pin, v) \in Word
<1>1. TwoBitShift(pin) \in Nat /\ 3 \in 0 .. 7 /\ v \in 0 .. 7
  BY DEF TwoBitShift, TwoBitIndex
<1>2. Vec(3) \in Word /\ Vec(v) \in Word
  BY <1>1, VecWord
<1>3. Shl(Vec(3), TwoBitShift(pin)) \in Word /\ Shl(Vec(v), TwoBitShift(pin)) \in Word
  BY <1>1, <1>2, WordOps, Zenon
<1>4. BitAnd(r, Shl(Vec(3), TwoBitShift(pin))) \in Word
  BY <1>3, WordOps, Zenon
<1>. QED BY <1>3, <1>4, WordOps, Zenon DEF TwoBitWrite

LEMMA InitTypeOK == Init => TypeOK
<1> SUFFICES ASSUME Init PROVE TypeOK
  OBVIOUS
<1>1. \A k \in Bit : k % 4 \in 0 .. 3 /\ k % 2 \in 0 .. 1
  BY DEF Bit
<1>2. \A j \in 0 .. 3 : Vec(7)[j] \in {0, 1} /\ Vec(1)[j] \in {0, 1}
  <2>1. Vec(7) \in Word /\ Vec(1) \in Word /\ 0 .. 3 \subseteq Bit
    BY VecWord DEF Bit
  <2>. QED BY <2>1 DEF Word
<1>3. [k \in Bit |-> Vec(7)[k % 4]] \in Word /\ [k \in Bit |-> Vec(1)[k % 2]] \in Word
  BY <1>1, <1>2 DEF Word
<1>4. Vec(0) \in Word
  BY VecWord
<1>. QED BY <1>3, <1>4 DEF Init, TypeOK

LEMMA NextTypeOK == TypeOK /\ [Next]_vars => TypeOK'
<1> SUFFICES ASSUME TypeOK, [Next]_vars PROVE TypeOK'
  OBVIOUS
<1>0. Pins \subseteq 0 .. 31 /\ Modes \subseteq 0 .. 7 /\ Strengths \subseteq 0 .. 3
      /\ Pulls \subseteq 0 .. 3
  BY PortsConstantsAssumption
<1>1. ASSUME NEW pin \in Pins, NEW m \in Modes, SetPinMode(pin, m) PROVE TypeOK'
  <2>1. CfgIndex(pin) \in 0 .. 3 /\ CfgShift(pin) \in 0 .. 28
    BY <1>0, CfgFacts
  <2>2. ModeWord(cfg[CfgIndex(pin)], CfgShift(pin), m) \in Word
    BY <1>0, <2>1, ModeWriteBits DEF TypeOK
  <2>3. cfg' = [cfg EXCEPT ![CfgIndex(pin)] = ModeWord(cfg[CfgIndex(pin)], CfgShift(pin), m)]
    BY <1>1, ActionWords, Zenon
  <2>4. UNCHANGED <<dat, drv, pul>>
    BY <1>1 DEF SetPinMode
  <2>. QED BY <2>1, <2>2, <2>3, <2>4 DEF TypeOK
<1>2. ASSUME NEW pin \in Pins, NEW d \in {0, 1}, SetPinData(pin, d) PROVE TypeOK'
  <2>1. DataWord(dat, pin, d) \in Word
    BY <1>0, DataWriteBits DEF TypeOK
  <2>2. dat' = DataWord(dat, pin, d)
    BY <1>2, ActionWords, Zenon
  <2>3. UNCHANGED <<cfg, drv, pul>>
    BY <1>2 DEF SetPinData
  <2>. QED BY <2>1, <2>2, <2>3 DEF TypeOK
<1>3. ASSUME NEW pin \in Pins, NEW v \in Strengths, SetPinDrive(pin, v) PROVE TypeOK'
  <2>1. TwoBitIndex(pin) \in 0 .. 1
    BY <1>0 DEF TwoBitIndex
  <2>2. TwoBitWrite(drv[TwoBitIndex(pin)], pin, v) \in Word
    BY <1>0, <2>1, TwoBitWord DEF TypeOK
  <2>. QED BY <1>3, <2>1, <2>2 DEF SetPinDrive, TypeOK
<1>4. ASSUME NEW pin \in Pins, NEW v \in Pulls, SetPinPull(pin, v) PROVE TypeOK'
  <2>1. TwoBitIndex(pin) \in 0 .. 1
    BY <1>0 DEF TwoBitIndex
  <2>2. TwoBitWrite(pul[TwoBitIndex(pin)], pin, v) \in Word
    BY <1>0, <2>1, TwoBitWord DEF TypeOK
  <2>. QED BY <1>4, <2>1, <2>2 DEF SetPinPull, TypeOK
<1>5. CASE UNCHANGED vars
  BY <1>5 DEF vars, TypeOK
<1>. QED BY <1>1, <1>2, <1>3, <1>4, <1>5 DEF Next

\* Every register stays a 32-bit word: the typing the refinement's step
\* lemmas need of the state they start from.
LEMMA PortsTypeCorrect == Spec => []TypeOK
BY InitTypeOK, NextTypeOK, PTL DEF Spec

(***************************************************************************)
(* The refinement.                                                          *)
(***************************************************************************)

\* set_pin_mode's write, read back through any pin's field of the
\* register: the pin's own field holds the mode, every other field is as
\* it was.
LEMMA FieldOfModeWord ==
  ASSUME NEW x \in Word, NEW s \in 0 .. 28, NEW m \in 0 .. 7, NEW t \in 0 .. 28,
         s % 4 = 0, t % 4 = 0
  PROVE  Field(ModeWord(x, s, m), t, 3) = IF t = s THEN m ELSE Field(x, t, 3)
<1>0. /\ ModeWord(x, s, m) \in Word
      /\ \A k \in Bit : k >= s /\ k < s + 3 => ModeWord(x, s, m)[k] = Vec(m)[k - s]
      /\ \A k \in Bit : k < s \/ k >= s + 3 => ModeWord(x, s, m)[k] = x[k]
  BY ModeWriteBits
<1>1. t \in 0 .. 29 /\ t \in Bit /\ t + 1 \in Bit /\ t + 2 \in Bit
  BY DEF Bit
<1>2. Field(ModeWord(x, s, m), t, 3)
        = ModeWord(x, s, m)[t] + 2 * ModeWord(x, s, m)[t + 1] + 4 * ModeWord(x, s, m)[t + 2]
  BY <1>0, <1>1, FieldValue
<1>3. CASE t = s
  <2>1. ModeWord(x, s, m)[t] = Vec(m)[0] /\ ModeWord(x, s, m)[t + 1] = Vec(m)[1]
        /\ ModeWord(x, s, m)[t + 2] = Vec(m)[2]
    BY <1>0, <1>1, <1>3
  <2>2. m = Vec(m)[0] + 2 * Vec(m)[1] + 4 * Vec(m)[2]
    BY VecLow
  <2>. QED BY <1>2, <1>3, <2>1, <2>2
<1>4. CASE t # s
  <2>1. t + 2 < s \/ t >= s + 3
    BY <1>4
  <2>2. ModeWord(x, s, m)[t] = x[t] /\ ModeWord(x, s, m)[t + 1] = x[t + 1]
        /\ ModeWord(x, s, m)[t + 2] = x[t + 2]
    BY <1>0, <1>1, <2>1
  <2>3. Field(x, t, 3) = x[t] + 2 * x[t + 1] + 4 * x[t + 2]
    BY <1>1, FieldValue
  <2>. QED BY <1>2, <1>4, <2>2, <2>3
<1>. QED BY <1>3, <1>4

\* After reset every pin reads as disabled and low.
LEMMA InitRefined == Init => GP!Init
<1> SUFFICES ASSUME Init PROVE GP!Init
  OBVIOUS
<1>0. Pins \subseteq 0 .. 31 /\ TypeOK
  BY PortsConstantsAssumption, InitTypeOK
<1>1. ASSUME NEW p \in Pins PROVE PinMode(p) = 7
  <2> DEFINE i == CfgIndex(p)
             t == CfgShift(p)
  <2>1. i \in 0 .. 3 /\ t \in 0 .. 28 /\ t % 4 = 0
    BY <1>0, CfgFacts
  <2>2. cfg[i] = [k \in Bit |-> Vec(7)[k % 4]]
    BY <2>1 DEF Init
  <2>3. cfg[i][t] = Vec(7)[0] /\ cfg[i][t + 1] = Vec(7)[1] /\ cfg[i][t + 2] = Vec(7)[2]
    BY <2>1, <2>2 DEF Bit
  <2>4. 7 = Vec(7)[0] + 2 * Vec(7)[1] + 4 * Vec(7)[2]
    BY VecLow
  <2>5. cfg[i] \in Word /\ t \in 0 .. 29
    BY <1>0, <2>1 DEF TypeOK
  <2>6. PinMode(p) = cfg[i][t] + 2 * cfg[i][t + 1] + 4 * cfg[i][t + 2]
    BY <2>5, FieldValue DEF PinMode
  <2>. QED BY <2>3, <2>4, <2>6
<1>2. ASSUME NEW p \in Pins PROVE GetPinData(p) = 0
  <2>1. p \in 0 .. 31 /\ p \in Bit
    BY <1>0 DEF Bit
  <2>2. GetPinData(p) = dat[p]
    BY <1>0, <2>1, GetPinDataBit DEF TypeOK
  <2>3. Vec(0)[p] = 0
    <3>1. CASE p >= 3
      BY <2>1, <3>1, VecHigh
    <3>2. CASE p < 3
      <4>1. Vec(0)[0] = 0 /\ Vec(0)[1] = 0 /\ Vec(0)[2] = 0
        BY VecLow
      <4>. QED BY <2>1, <3>2, <4>1
    <3>. QED BY <2>1, <3>1, <3>2
  <2>. QED BY <2>2, <2>3 DEF Init
<1>. QED BY <1>1, <1>2 DEF GP!Init

\* set_pin_mode moves its own pin's mode and no other; the levels stay.
LEMMA ModeStep ==
  ASSUME TypeOK, NEW pin \in Pins, NEW m \in Modes, SetPinMode(pin, m)
  PROVE  GP!SetMode(pin, m)
<1>0. Pins \subseteq 0 .. 31 /\ Modes \subseteq 0 .. 7
  BY PortsConstantsAssumption
<1>1. cfg' = [cfg EXCEPT ![CfgIndex(pin)] = ModeWord(cfg[CfgIndex(pin)], CfgShift(pin), m)]
      /\ UNCHANGED dat
  BY ActionWords, Zenon DEF SetPinMode
<1>2. ASSUME NEW q \in Pins PROVE PinMode(q)' = IF q = pin THEN m ELSE PinMode(q)
  <2>1. /\ CfgIndex(pin) \in 0 .. 3 /\ CfgShift(pin) \in 0 .. 28 /\ CfgShift(pin) % 4 = 0
        /\ CfgIndex(q) \in 0 .. 3 /\ CfgShift(q) \in 0 .. 28 /\ CfgShift(q) % 4 = 0
        /\ (q # pin /\ CfgIndex(q) = CfgIndex(pin) => CfgShift(q) # CfgShift(pin))
    BY <1>0, CfgFacts
  <2>2. PinMode(q)' = Field(cfg'[CfgIndex(q)], CfgShift(q), 3)
    BY DEF PinMode
  <2>3. CASE CfgIndex(q) = CfgIndex(pin)
    <3>1. cfg'[CfgIndex(q)] = ModeWord(cfg[CfgIndex(pin)], CfgShift(pin), m)
      BY <1>1, <2>1, <2>3 DEF TypeOK
    <3>2. Field(ModeWord(cfg[CfgIndex(pin)], CfgShift(pin), m), CfgShift(q), 3)
            = IF CfgShift(q) = CfgShift(pin) THEN m ELSE Field(cfg[CfgIndex(pin)], CfgShift(q), 3)
      BY <1>0, <2>1, FieldOfModeWord DEF TypeOK
    <3>3. CfgShift(q) = CfgShift(pin) <=> q = pin
      BY <2>1, <2>3
    <3>. QED BY <2>2, <2>3, <3>1, <3>2, <3>3 DEF PinMode
  <2>4. CASE CfgIndex(q) # CfgIndex(pin)
    <3>1. cfg'[CfgIndex(q)] = cfg[CfgIndex(q)] /\ q # pin
      BY <1>1, <2>1, <2>4 DEF TypeOK
    <3>. QED BY <2>2, <3>1 DEF PinMode
  <2>. QED BY <2>3, <2>4
<1>3. [p \in Pins |-> PinMode(p)]' = [[p \in Pins |-> PinMode(p)] EXCEPT ![pin] = m]
  BY <1>2
<1>4. [p \in Pins |-> GetPinData(p)]' = [p \in Pins |-> GetPinData(p)]
  BY <1>1 DEF GetPinData
<1>. QED BY <1>3, <1>4 DEF GP!SetMode

\* set_pin_data moves its own pin's level and no other; the modes stay.
LEMMA DataStep ==
  ASSUME TypeOK, NEW pin \in Pins, NEW d \in {0, 1}, SetPinData(pin, d)
  PROVE  GP!SetLevel(pin, d)
<1>0. Pins \subseteq 0 .. 31 /\ pin \in 0 .. 31
  BY PortsConstantsAssumption
<1>1. dat' = DataWord(dat, pin, d) /\ UNCHANGED cfg
  BY ActionWords, Zenon DEF SetPinData
<1>2. /\ DataWord(dat, pin, d) \in Word
      /\ DataWord(dat, pin, d)[pin] = d
      /\ \A k \in Bit : k # pin => DataWord(dat, pin, d)[k] = dat[k]
  BY <1>0, DataWriteBits DEF TypeOK
<1>3. ASSUME NEW q \in Pins PROVE GetPinData(q)' = IF q = pin THEN d ELSE GetPinData(q)
  <2>1. q \in 0 .. 31 /\ q \in Bit
    BY <1>0 DEF Bit
  <2>2. GetPinData(q) = dat[q]
    BY <2>1, GetPinDataBit DEF TypeOK
  <2>3. GetPinData(q)' = dat'[q]
    <3>1. Shl(Vec(1), q)[q] = 1
      BY <2>1, PinBit
    <3>2. dat'[q] \in {0, 1}
      BY <1>1, <1>2, <2>1 DEF Word
    <3>. QED BY <2>1, <3>1, <3>2 DEF GetPinData, BitAnd
  <2>. QED BY <1>1, <1>2, <2>1, <2>2, <2>3
<1>4. [p \in Pins |-> GetPinData(p)]' = [[p \in Pins |-> GetPinData(p)] EXCEPT ![pin] = d]
  BY <1>3
<1>5. [p \in Pins |-> PinMode(p)]' = [p \in Pins |-> PinMode(p)]
  BY <1>1 DEF PinMode
<1>. QED BY <1>4, <1>5 DEF GP!SetLevel

\* Every step of the registers is a step of GpioPins or leaves the pins'
\* modes and levels as they were.
LEMMA StepRefined ==
  TypeOK /\ [Next]_vars
    => [GP!Next]_<<[p \in Pins |-> PinMode(p)], [p \in Pins |-> GetPinData(p)]>>
<1> SUFFICES ASSUME TypeOK, [Next]_vars
             PROVE  [GP!Next]_<<[p \in Pins |-> PinMode(p)], [p \in Pins |-> GetPinData(p)]>>
  OBVIOUS
<1>1. ASSUME NEW pin \in Pins, NEW m \in Modes, SetPinMode(pin, m)
      PROVE  GP!Next
  BY <1>1, ModeStep DEF GP!Next
<1>2. ASSUME NEW pin \in Pins, NEW d \in {0, 1}, SetPinData(pin, d)
      PROVE  GP!Next
  BY <1>2, DataStep DEF GP!Next
<1>3. ASSUME UNCHANGED <<cfg, dat>>
      PROVE  UNCHANGED <<[p \in Pins |-> PinMode(p)], [p \in Pins |-> GetPinData(p)]>>
  BY <1>3 DEF PinMode, GetPinData
<1>4. ASSUME NEW pin \in Pins, NEW v \in Strengths, SetPinDrive(pin, v)
      PROVE  UNCHANGED <<cfg, dat>>
  BY <1>4 DEF SetPinDrive
<1>5. ASSUME NEW pin \in Pins, NEW v \in Pulls, SetPinPull(pin, v)
      PROVE  UNCHANGED <<cfg, dat>>
  BY <1>5 DEF SetPinPull
<1>6. CASE UNCHANGED vars
  BY <1>6, <1>3 DEF vars
<1>. QED BY <1>1, <1>2, <1>3, <1>4, <1>5, <1>6 DEF Next

\* set_pin_mode and set_pin_data, with set_pin_drive and set_pin_pull
\* among them, in any order on any pins: the PIO registers implement the
\* per-pin configuration of GpioPins, for every set of pins and modes.
THEOREM PortsRefineGpio == Spec => GpioRefined
<1>1. Init => GP!Init
  BY InitRefined
<1>2. TypeOK /\ [Next]_vars
        => [GP!Next]_<<[p \in Pins |-> PinMode(p)], [p \in Pins |-> GetPinData(p)]>>
  BY StepRefined
<1>3. Spec => []TypeOK
  BY PortsTypeCorrect
<1>. QED BY <1>1, <1>2, <1>3, PTL DEF Spec, GpioRefined, GP!Spec

=============================================================================
