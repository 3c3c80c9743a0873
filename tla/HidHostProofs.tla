---------------------------- MODULE HidHostProofs ----------------------------
(***************************************************************************)
(* Proofs about the HID host class: a mounted keyboard is always polled.  *)
(* KeyboardPolled is not inductive by itself: a transfer completion or an *)
(* unplug could, as far as KeyboardPolled alone says, hit a pipe that      *)
(* belongs to another device's keyboard slot.  PipesOwned says every slot *)
(* holds a pipe open for its own device, which is attached, and that only *)
(* open pipes have transfers pending.                                     *)
(***************************************************************************)
EXTENDS HidHost, TLAPS

\* Each class slot of a device holds a pipe the pool has open for that
\* device, which is attached; a pending transfer is on an open pipe.
PipesOwned ==
  /\ \A k \in Kinds, d \in Devs :
        slot[k][d] # NoPipe => owner[slot[k][d]] = d /\ d \in attached
  /\ \A p \in busy : owner[p] # 0

IInv == TypeOK /\ PipesOwned /\ KeyboardPolled

LEMMA InitIInv == Init => IInv
BY DEF Init, IInv, TypeOK, PipesOwned, KeyboardPolled, Kinds

\* GetReport adds at most the pipe it is given, and adds it when the device
\* is attached and the pipe is idle.
LEMMA GetReportFacts ==
  ASSUME NEW d, NEW p, NEW b
  PROVE  /\ GetReport(d, p, b) \subseteq b \cup {p}
         /\ b \subseteq GetReport(d, p, b)
         /\ (d \in attached /\ p # NoPipe) => p \in GetReport(d, p, b)
BY DEF GetReport

LEMMA AttachIInv ==
  ASSUME IInv, NEW d \in Devs, Attach(d)
  PROVE  IInv'
BY DEF Attach, IInv, TypeOK, PipesOwned, KeyboardPolled

LEMMA OpenIInv ==
  ASSUME IInv, NEW d \in Devs, NEW k \in Kinds, OpenInterface(d, k)
  PROVE  IInv'
<1> USE DEF IInv
<1>1. CASE \E p \in Pipes : /\ owner[p] = 0
                            /\ owner' = [owner EXCEPT ![p] = d]
                            /\ slot' = [slot EXCEPT ![k][d] = p]
                            /\ busy' = IF k = "keyboard" THEN GetReport(d, p, busy) ELSE busy
                            /\ stalled' = IF k = "keyboard" THEN stalled \ {d} ELSE stalled
  <2>1. PICK p \in Pipes : /\ owner[p] = 0
                           /\ owner' = [owner EXCEPT ![p] = d]
                           /\ slot' = [slot EXCEPT ![k][d] = p]
                           /\ busy' = IF k = "keyboard" THEN GetReport(d, p, busy) ELSE busy
                           /\ stalled' = IF k = "keyboard" THEN stalled \ {d} ELSE stalled
    BY <1>1
  <2>2. p \notin busy /\ p # NoPipe /\ d \in attached
    BY <2>1, HidHostConstantsAssumption DEF OpenInterface, PipesOwned, NoPipe
  <2>3. busy \subseteq busy' /\ busy' \subseteq busy \cup {p}
    BY <2>1, GetReportFacts
  <2>4. k = "keyboard" => p \in busy'
    BY <2>1, <2>2, GetReportFacts
  <2>5. TypeOK'
    BY <2>1, <2>3, HidHostConstantsAssumption DEF OpenInterface, TypeOK
  <2>6. PipesOwned'
    BY <2>1, <2>2, <2>3, HidHostConstantsAssumption DEF OpenInterface, TypeOK, PipesOwned
  <2>7. KeyboardPolled'
    BY <2>1, <2>3, <2>4 DEF OpenInterface, TypeOK, KeyboardPolled
  <2>. QED BY <2>5, <2>6, <2>7
<1>2. CASE /\ \A p \in Pipes : owner[p] # 0
           /\ slot' = [slot EXCEPT ![k][d] = NoPipe]
           /\ UNCHANGED <<owner, busy, stalled>>
  BY <1>2, HidHostConstantsAssumption DEF OpenInterface, TypeOK, PipesOwned, KeyboardPolled, NoPipe
<1>. QED BY <1>1, <1>2 DEF OpenInterface

LEMMA CompleteIInv ==
  ASSUME IInv, NEW p \in Pipes, NEW ev \in Events, TransferComplete(p, ev)
  PROVE  IInv'
<1> USE DEF IInv
<1> DEFINE d == owner[p]
           b == busy \ {p}
           kbd == slot["keyboard"][d] = p
<1>1. d \in Devs
  BY DEF TransferComplete, TypeOK, PipesOwned
<1>2. busy' \subseteq busy
  BY GetReportFacts DEF TransferComplete, KeyboardIsr
<1>3. TypeOK' /\ PipesOwned'
  BY <1>2 DEF TransferComplete, TypeOK, PipesOwned
<1>4. KeyboardPolled'
  <2> SUFFICES ASSUME NEW e \in Devs, slot["keyboard"][e] # NoPipe, e \notin stalled'
               PROVE  slot["keyboard"][e] \in busy'
    BY DEF TransferComplete, KeyboardPolled
  <2>1. CASE slot["keyboard"][e] = p
    <3>1. e = d /\ kbd /\ e \in attached
      BY <2>1 DEF PipesOwned, Kinds
    <3>2. ev \in {"SUCCESS", "FAILED"}
      BY <3>1 DEF TransferComplete, Events
    <3>. QED
      BY <2>1, <3>1, <3>2, GetReportFacts, HidHostConstantsAssumption
         DEF TransferComplete, KeyboardIsr, NoPipe
  <2>2. CASE slot["keyboard"][e] # p
    BY <2>2, GetReportFacts DEF TransferComplete, KeyboardIsr, KeyboardPolled
  <2>. QED BY <2>1, <2>2
<1>. QED BY <1>3, <1>4

LEMMA DetachIInv ==
  ASSUME IInv, NEW d \in Devs, Detach(d)
  PROVE  IInv'
<1> USE DEF IInv
<1> DEFINE closed == {slot[k][d] : k \in Kinds} \ {NoPipe}
<1>1. \A q \in closed : owner[q] = d
  BY DEF PipesOwned
<1>2. TypeOK'
  BY DEF Detach, TypeOK
<1>3. PipesOwned'
  BY <1>1 DEF Detach, TypeOK, PipesOwned
<1>4. KeyboardPolled'
  <2> SUFFICES ASSUME NEW e \in Devs, slot'["keyboard"][e] # NoPipe, e \notin stalled'
               PROVE  slot'["keyboard"][e] \in busy'
    BY DEF KeyboardPolled
  <2>1. e # d /\ slot'["keyboard"][e] = slot["keyboard"][e]
    BY DEF Detach, TypeOK, Kinds
  <2>2. owner[slot["keyboard"][e]] = e /\ slot["keyboard"][e] \in busy
    BY <2>1 DEF Detach, PipesOwned, KeyboardPolled, Kinds
  <2>3. slot["keyboard"][e] \notin closed
    BY <1>1, <2>1, <2>2
  <2>. QED BY <2>1, <2>2, <2>3 DEF Detach
<1>. QED BY <1>2, <1>3, <1>4

LEMMA NextIInv == IInv /\ [Next]_vars => IInv'
<1> SUFFICES ASSUME IInv, [Next]_vars PROVE IInv'
  OBVIOUS
<1>1. CASE UNCHANGED vars
  BY <1>1 DEF vars, IInv, TypeOK, PipesOwned, KeyboardPolled
<1>. QED BY <1>1, AttachIInv, OpenIInv, CompleteIInv, DetachIInv DEF Next

\* The keyboard mount callback and tuh_hid_keyboard_isr keep every mounted
\* keyboard that has not stalled polled, for any number of devices and
\* pipes.
THEOREM KeyboardAlwaysPolled == Spec => []KeyboardPolled
<1>1. Init => IInv
  BY InitIInv
<1>2. IInv /\ [Next]_vars => IInv'
  BY NextIInv
<1>3. IInv => KeyboardPolled
  BY DEF IInv
<1>. QED BY <1>1, <1>2, <1>3, PTL DEF Spec

=============================================================================
