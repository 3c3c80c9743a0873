---------------------------- MODULE DisplaySwap -----------------------------
(***************************************************************************)
(* Triple buffering of the HDMI display (src/display.c): display_init and *)
(* buffer_swap, against the DE2 mixer that scans a frame buffer out.       *)
(*                                                                         *)
(* buffer_swap writes the address of active_buffer into the overlay's     *)
(* TOP_LADD0 register and moves active_buffer on to the next of the three  *)
(* buffers (SwapAddr), blanks that one (SwapBlank) and sets GLB_DBUFFER    *)
(* (SwapRequest); a vertical blank may fall between any two of these      *)
(* steps.  The mixer takes the new address only at a vertical blank with  *)
(* GLB_DBUFFER set, so the buffer scanned out lags the register.  The     *)
(* caller of buffer_swap is not in the repository: between its calls it   *)
(* draws into active_buffer, and it begins at most MaxSwapsPerFrame       *)
(* buffer_swap calls between two vertical blanks.                         *)
(***************************************************************************)
EXTENDS Naturals

CONSTANTS
  MaxSwapsPerFrame,  \* buffer_swap calls the caller makes in one frame
  MaxFrame           \* frames the caller draws

ASSUME MaxSwapsPerFrameAssumption == MaxSwapsPerFrame \in Nat \ {0}
ASSUME MaxFrameAssumption == MaxFrame \in Nat

\* framebuffer1, framebuffer2, framebuffer3; NoBuffer is the mixer before it
\* has latched any address.
Fb == {1, 2, 3}
NoBuffer == 0

VARIABLES
  active,     \* active_buffer
  ladd,       \* DE_MIXER0_OVL_V_TOP_LADD0(0), as a buffer
  dbuffer,    \* DE_MIXER0_GLB_DBUFFER: a latch is pending
  scan,       \* the buffer the mixer scans out
  swapped,    \* buffer_swap has run at least once
  swaps,      \* buffer_swap calls since the last vertical blank
  content,    \* what each buffer holds: the number of the frame drawn, 0 blank
  frame,      \* frames the caller has drawn
  pc          \* where the caller is in buffer_swap: "idle" outside it

vars == <<active, ladd, dbuffer, scan, swapped, swaps, content, frame, pc>>

TypeOK ==
  /\ active \in Fb /\ ladd \in Fb
  /\ dbuffer \in BOOLEAN
  /\ scan \in Fb \cup {NoBuffer}
  /\ swapped \in BOOLEAN
  /\ swaps \in 0 .. MaxSwapsPerFrame
  /\ content \in [Fb -> 0 .. MaxFrame]
  /\ frame \in 0 .. MaxFrame
  /\ pc \in {"idle", "blank", "request"}

\* Bug variant: the rotation never returns to framebuffer1.
NextBufferNoWrap(b) == b + 1

\* The rotation of buffer_swap: framebuffer1 -> 2 -> 3 -> 1.
NextBuffer(b) == IF b = 1 THEN 2 ELSE IF b = 2 THEN 3 ELSE 1

\* display_init: active_buffer = framebuffer1; de2_init points the overlay
\* at framebuffer1 and requests the latch.
Init ==
  /\ active = 1
  /\ ladd = 1 /\ dbuffer = TRUE
  /\ scan = NoBuffer
  /\ swapped = FALSE
  /\ swaps = 0
  /\ content = [b \in Fb |-> 0]
  /\ frame = 0
  /\ pc = "idle"

\* The caller draws its next frame into active_buffer (not while it is
\* inside buffer_swap).
Draw ==
  /\ pc = "idle"
  /\ frame < MaxFrame
  /\ frame' = frame + 1
  /\ content' = [content EXCEPT ![active] = frame + 1]
  /\ UNCHANGED <<active, ladd, dbuffer, scan, swapped, swaps, pc>>

\* buffer_swap, lines 177-184: show the buffer just drawn and move
\* active_buffer on to the next one.
SwapAddr ==
  /\ pc = "idle"
  /\ swaps < MaxSwapsPerFrame
  /\ ladd' = active
  /\ active' = NextBuffer(active)
  /\ swapped' = TRUE
  /\ swaps' = swaps + 1
  /\ pc' = "blank"
  /\ UNCHANGED <<dbuffer, scan, content, frame>>

\* buffer_swap, lines 186-187: the loop that blanks the new active_buffer.
SwapBlank ==
  /\ pc = "blank"
  /\ content' = [content EXCEPT ![active] = 0]
  /\ pc' = "request"
  /\ UNCHANGED <<active, ladd, dbuffer, scan, swapped, swaps, frame>>

\* Bug variant: the GLB_DBUFFER write is left out.
SwapRequestNoDbuffer ==
  /\ pc = "request"
  /\ pc' = "idle"
  /\ UNCHANGED <<active, ladd, dbuffer, scan, swapped, swaps, content, frame>>

\* buffer_swap, line 188: request the latch of TOP_LADD0.
SwapRequest ==
  /\ pc = "request"
  /\ dbuffer' = TRUE
  /\ pc' = "idle"
  /\ UNCHANGED <<active, ladd, scan, swapped, swaps, content, frame>>

\* The mixer at vertical blank: a pending request latches the register.
VBlank ==
  /\ scan' = IF dbuffer THEN ladd ELSE scan
  /\ dbuffer' = FALSE
  /\ swaps' = 0
  /\ UNCHANGED <<active, ladd, swapped, content, frame, pc>>

Next == Draw \/ SwapAddr \/ SwapBlank \/ SwapRequest \/ VBlank

\* The display refreshes every frame, and a buffer_swap once begun runs
\* to its end: it is straight-line code with no wait.
Spec == Init /\ [][Next]_vars /\ WF_vars(VBlank)
          /\ WF_vars(SwapBlank) /\ WF_vars(SwapRequest)

(***************************************************************************)
(* Properties.                                                             *)
(***************************************************************************)

\* buffer_swap and the caller's drawing, against the latch at vertical
\* blank: once the first swap has happened, the picture being scanned out
\* changes only when the mixer latches a new buffer, never because a
\* buffer on screen is drawn into or blanked.
NoTearing ==
  [][swapped /\ scan # NoBuffer /\ scan' = scan => content'[scan] = content[scan]]_vars

\* buffer_swap's GLB_DBUFFER request: once the caller stops swapping, the
\* last buffer it swapped in is scanned out for good.
LastSwapShown ==
  <>[][~SwapAddr]_vars => <>[](scan = ladd)

=============================================================================
