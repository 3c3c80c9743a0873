------------------------- MODULE DisplaySwapProofs -------------------------
(***************************************************************************)
(* Proof that display_init, the caller's drawing, the three steps of      *)
(* buffer_swap and the vertical blank keep every variable in its type,    *)
(* for any frame bound and any number of swaps a frame: in particular the *)
(* rotation of active_buffer stays among the three buffers and the swap   *)
(* count of a frame never passes the caller's bound.                      *)
(***************************************************************************)
EXTENDS DisplaySwap, TLAPS

\* The rotation of three buffers stays among them.
LEMMA NextBufferType ==
  ASSUME NEW b \in Fb
  PROVE  NextBuffer(b) \in Fb
BY DEF NextBuffer, Fb

LEMMA InitTypeOK == Init => TypeOK
<1> SUFFICES ASSUME Init PROVE TypeOK
  OBVIOUS
<1>1. dbuffer \in BOOLEAN /\ swapped \in BOOLEAN /\ pc \in {"idle", "blank", "request"}
  BY Zenon DEF Init
<1>2. /\ active \in Fb /\ ladd \in Fb /\ scan \in Fb \cup {NoBuffer}
      /\ swaps \in 0 .. MaxSwapsPerFrame /\ content \in [Fb -> 0 .. MaxFrame]
      /\ frame \in 0 .. MaxFrame
  BY MaxFrameAssumption, MaxSwapsPerFrameAssumption DEF Init, Fb, NoBuffer
<1>. QED BY <1>1, <1>2, Zenon DEF TypeOK

LEMMA NextTypeOK == TypeOK /\ [Next]_vars => TypeOK'
<1> SUFFICES ASSUME TypeOK, [Next]_vars PROVE TypeOK'
  OBVIOUS
<1> USE MaxFrameAssumption, MaxSwapsPerFrameAssumption DEF TypeOK
<1>1. CASE Draw
  BY <1>1 DEF Draw
<1>2. CASE SwapAddr
  <2>1. dbuffer' \in BOOLEAN /\ swapped' \in BOOLEAN /\ pc' \in {"idle", "blank", "request"}
    BY <1>2, Zenon DEF SwapAddr
  <2>2. /\ active' \in Fb /\ ladd' \in Fb /\ scan' \in Fb \cup {NoBuffer}
        /\ swaps' \in 0 .. MaxSwapsPerFrame /\ content' \in [Fb -> 0 .. MaxFrame]
        /\ frame' \in 0 .. MaxFrame
    BY <1>2, NextBufferType DEF SwapAddr
  <2>. QED BY <2>1, <2>2, Zenon
<1>3. CASE SwapBlank
  BY <1>3 DEF SwapBlank
<1>4. CASE SwapRequest
  <2>1. dbuffer' \in BOOLEAN /\ swapped' \in BOOLEAN /\ pc' \in {"idle", "blank", "request"}
    BY <1>4, Zenon DEF SwapRequest
  <2>2. /\ active' \in Fb /\ ladd' \in Fb /\ scan' \in Fb \cup {NoBuffer}
        /\ swaps' \in 0 .. MaxSwapsPerFrame /\ content' \in [Fb -> 0 .. MaxFrame]
        /\ frame' \in 0 .. MaxFrame
    BY <1>4 DEF SwapRequest
  <2>. QED BY <2>1, <2>2, Zenon
<1>5. CASE VBlank
  <2>1. dbuffer' \in BOOLEAN /\ swapped' \in BOOLEAN /\ pc' \in {"idle", "blank", "request"}
    BY <1>5, Zenon DEF VBlank
  <2>2. /\ active' \in Fb /\ ladd' \in Fb /\ scan' \in Fb \cup {NoBuffer}
        /\ swaps' \in 0 .. MaxSwapsPerFrame /\ content' \in [Fb -> 0 .. MaxFrame]
        /\ frame' \in 0 .. MaxFrame
    BY <1>5 DEF VBlank
  <2>. QED BY <2>1, <2>2, Zenon
<1>6. CASE UNCHANGED vars
  BY <1>6 DEF vars
<1>. QED BY <1>1, <1>2, <1>3, <1>4, <1>5, <1>6 DEF Next

\* display_init, the caller's drawing, buffer_swap step by step and the
\* vertical blank: every step keeps the variables in their types, however
\* many swaps a frame the caller makes.
THEOREM TypeCorrect == Spec => []TypeOK
<1>1. Init => TypeOK
  BY InitTypeOK
<1>2. TypeOK /\ [Next]_vars => TypeOK'
  BY NextTypeOK
<1>. QED BY <1>1, <1>2, PTL DEF Spec

=============================================================================
