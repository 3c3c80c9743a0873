------------------------- MODULE ArtNetReaderProofs -------------------------
(***************************************************************************)
(* Proof that the timer interrupt's rate is exact for every counter width.*)
(* RateExact is not inductive: a tick computes the rate from nUpdates and *)
(* nUpdatesPrevious, so the proof needs Counted, which ties them to the   *)
(* stores since the last tick (nUpdates = nUpdatesPrevious + sinceTick,   *)
(* modulo the word), and Loaded, which says the value nUpdates++ loaded   *)
(* is still the counter when it stores: the interrupt reads the counter   *)
(* but never writes it.                                                   *)
(***************************************************************************)
EXTENDS ArtNetReader, TLAPS

M == 2^Width

Counted == nUpdates = (nUpdatesPrevious + sinceTick) % M
Loaded == pc = "inc" => reg = nUpdates /\ sinceTick < MaxPerTick

IInv == TypeOK /\ Counted /\ Loaded /\ nUpdatesPerSecond = lastInterval

LEMMA WordFacts == /\ M \in Nat /\ MaxPerTick < M /\ MaxPerTick \in Nat \ {0}
                   /\ Word = 0 .. (M - 1)
<1>1. M \in Nat \ {0, 1}
  BY WordSizeAssumption DEF M
<1>2. MaxPerTick \in 1 .. (M - 1) /\ Word = 0 .. (M - 1)
  BY MaxPerTickAssumption DEF M, Word
<1> HIDE DEF M
<1>. QED BY <1>1, <1>2

\* x % m is the remainder of any division of x by m.
LEMMA ModUnique ==
  ASSUME NEW m \in Nat \ {0}, NEW k \in Int, NEW y \in 0 .. (m - 1), NEW x \in Int,
         x = k * m + y
  PROVE  x % m = y
BY Z3
\* Division with remainder, as the provers need it spelt out.
LEMMA ModDecomp ==
  ASSUME NEW m \in Nat \ {0}, NEW x \in Int
  PROVE  /\ x % m \in 0 .. (m - 1)
         /\ x = (x \div m) * m + (x % m)
BY Z3
\* One more store: (p + s) % m + 1, reduced, is p + s + 1 reduced.
LEMMA ModStep ==
  ASSUME NEW m \in Nat \ {0}, NEW p \in 0 .. (m - 1), NEW s \in Nat
  PROVE  (((p + s) % m) + 1) % m = (p + (s + 1)) % m
<1> DEFINE a == p + s
           q == a \div m
           r == a % m
<1>1. r \in 0 .. (m - 1) /\ a = q * m + r /\ q \in Int
  BY ModDecomp
<1>2. CASE r < m - 1
  <2>1. (r + 1) % m = r + 1
    BY <1>1, <1>2, ModUnique
  <2>2. (a + 1) % m = r + 1
    <3>1. a + 1 = q * m + (r + 1) /\ r + 1 \in 0 .. (m - 1) /\ a + 1 \in Int
      BY <1>1, <1>2
    <3> HIDE DEF a, q, r
    <3>. QED BY <1>1, <3>1, ModUnique
  <2>. QED BY <2>1, <2>2
<1>3. CASE r = m - 1
  <2>1. (r + 1) % m = 0
    <3>1. r + 1 = 1 * m + 0
      BY <1>3
    <3>. QED BY <3>1, ModUnique
  <2>2. (a + 1) % m = 0
    <3>1. PICK k \in Int : k = q + 1
      BY <1>1
    <3>2. a + 1 = k * m + 0 /\ a + 1 \in Int /\ 0 \in 0 .. (m - 1)
      BY <1>1, <1>3, <3>1
    <3> HIDE DEF a, q, r
    <3>. QED BY <3>2, ModUnique
  <2>. QED BY <2>1, <2>2
<1>. QED BY <1>1, <1>2, <1>3
\* A tick: the uint32_t difference of the counter and its previous value is
\* the number of stores, when fewer than a word.
LEMMA ModDiff ==
  ASSUME NEW m \in Nat \ {0}, NEW p \in 0 .. (m - 1), NEW s \in 0 .. (m - 1)
  PROVE  (((p + s) % m) - p) % m = s
<1> DEFINE a == p + s
           q == a \div m
           r == a % m
<1>1. r \in 0 .. (m - 1) /\ a = q * m + r /\ q \in Int
  BY ModDecomp
<1>2. r - p = (-q) * m + s /\ -q \in Int
  BY <1>1
<1>. QED BY <1>1, <1>2, ModUnique
\* A value of the word is its own remainder.
LEMMA ModSelf ==
  ASSUME NEW x \in Word
  PROVE  (x + 0) % M = x
<1>1. M \in Nat \ {0} /\ x \in 0 .. (M - 1) /\ x + 0 = 0 * M + x
  BY WordFacts
<1> HIDE DEF M
<1>. QED BY <1>1, ModUnique

LEMMA InitIInv == Init => IInv
<1> SUFFICES ASSUME Init PROVE IInv
  OBVIOUS
<1>1. 0 \in Word
  BY WordFacts
<1>2. (0 + 0) % M = 0
  BY <1>1, ModSelf
<1> HIDE DEF M
<1>3. TypeOK
  <2>1. /\ nUpdates \in Word /\ nUpdatesPrevious \in Word /\ nUpdatesPerSecond \in Word
        /\ reg \in Word /\ sinceTick \in 0 .. MaxPerTick /\ lastInterval \in 0 .. MaxPerTick
    BY <1>1, WordFacts DEF Init
  <2>2. /\ pc \in {"loop", "inc"} /\ installed \in BOOLEAN
        /\ led \in {"DATA", "NO_DATA"} /\ ranSinceTick \in BOOLEAN
    BY Zenon DEF Init
  <2>. QED BY <2>1, <2>2, Zenon DEF TypeOK
<1>4. Counted
  BY <1>2 DEF Init, Counted
<1>5. Loaded /\ nUpdatesPerSecond = lastInterval
  BY DEF Init, Loaded
<1>. QED BY <1>3, <1>4, <1>5 DEF IInv

LEMMA NextIInv == IInv /\ [Next]_vars => IInv'
<1> SUFFICES ASSUME IInv, [Next]_vars PROVE IInv'
  OBVIOUS
<1>0. M \in Nat \ {0} /\ MaxPerTick \in Nat \ {0} /\ MaxPerTick < M /\ Word = 0 .. (M - 1)
  BY WordFacts
<1>00. M = 2^Width
  BY DEF M
<1> HIDE DEF M
<1> USE <1>0 DEF IInv, TypeOK, Counted, Loaded
<1>1. CASE Start
  BY <1>1 DEF Start
<1>2. CASE Stop
  BY <1>2 DEF Stop
<1>3. CASE HandlerLoad
  BY <1>3 DEF HandlerLoad
<1>4. CASE HandlerStore
  <2>1. nUpdates' = (nUpdates + 1) % M
    BY <1>4, <1>00, Zenon DEF HandlerStore
  <2>2. (((nUpdatesPrevious + sinceTick) % M) + 1) % M
          = (nUpdatesPrevious + (sinceTick + 1)) % M
    <3>1. nUpdatesPrevious \in 0 .. (M - 1) /\ sinceTick \in Nat
      OBVIOUS
    <3>. QED BY <3>1, ModStep
  <2>3. nUpdates' = (nUpdatesPrevious' + sinceTick') % M
    BY <1>4, <2>1, <2>2 DEF HandlerStore
  <2>4. nUpdates' \in Word
    BY <2>1, ModDecomp
  <2>. QED BY <1>4, <2>3, <2>4 DEF HandlerStore
<1>5. CASE Tick
  <2>1. CASE installed
    <3>1. (((nUpdatesPrevious + sinceTick) % M) - nUpdatesPrevious) % M = sinceTick
      <4>1. nUpdatesPrevious \in 0 .. (M - 1) /\ sinceTick \in 0 .. (M - 1)
        OBVIOUS
      <4>. QED BY <4>1, ModDiff
    <3>0. nUpdatesPerSecond' = (nUpdates - nUpdatesPrevious) % M
      BY <1>5, <2>1, <1>00, Zenon DEF Tick
    <3>2. nUpdatesPerSecond' = sinceTick /\ lastInterval' = sinceTick
      BY <1>5, <2>1, <3>0, <3>1 DEF Tick
    <3>3. nUpdates' = (nUpdatesPrevious' + sinceTick') % M
      BY <1>5, <2>1, ModSelf DEF Tick
    <3>4. UNCHANGED <<nUpdates, pc, reg, installed, led>> /\ ranSinceTick' = FALSE
          /\ nUpdatesPrevious' = nUpdates /\ sinceTick' = 0
      BY <1>5, <2>1, Zenon DEF Tick
    <3>5. /\ nUpdates' \in Word /\ nUpdatesPrevious' \in Word /\ nUpdatesPerSecond' \in Word
          /\ reg' \in Word /\ sinceTick' \in 0 .. MaxPerTick /\ lastInterval' \in 0 .. MaxPerTick
      BY <3>2, <3>4
    <3>6. /\ pc' \in {"loop", "inc"} /\ installed' \in BOOLEAN
          /\ led' \in {"DATA", "NO_DATA"} /\ ranSinceTick' \in BOOLEAN
      BY <3>4, Zenon
    <3>7. Loaded'
      BY <3>4 DEF Loaded
    <3>. QED BY <3>2, <3>3, <3>5, <3>6, <3>7 DEF TypeOK
  <2>2. CASE ~installed
    BY <1>5, <2>2 DEF Tick
  <2>. QED BY <2>1, <2>2
<1>6. CASE Run
  BY <1>6 DEF Run
<1>7. CASE UNCHANGED vars
  BY <1>7 DEF vars
<1>. QED BY <1>1, <1>2, <1>3, <1>4, <1>5, <1>6, <1>7 DEF Next

\* arm_timer_handler against nUpdates++: every tick reports exactly the
\* stores since the tick before, for every counter width and packet rate
\* below a word.
THEOREM RateAlwaysExact == Spec => []RateExact
<1>1. Init => IInv
  BY InitIInv
<1>2. IInv /\ [Next]_vars => IInv'
  BY NextIInv
<1>3. IInv => RateExact
  BY DEF IInv, RateExact
<1>. QED BY <1>1, <1>2, <1>3, PTL DEF Spec

=============================================================================
