---------------------------- MODULE ArtNetReader ----------------------------
(***************************************************************************)
(* The Art-Net timecode reader of the LTC node                             *)
(* (src/lib-h3/lib-ltc/src/h3/artnetreader.cpp).                           *)
(*                                                                         *)
(* Two actors share three volatile uint32_t counters: the main loop, which *)
(* runs Handler for every ArtTimeCode packet and Run once per iteration,   *)
(* and the ARM generic timer interrupt, which once per second turns the    *)
(* count into a rate.  nUpdates++ is a load, an add and a store, so the    *)
(* interrupt can fire between the load and the store.  The interrupt runs  *)
(* to completion before the main loop resumes.                             *)
(*                                                                         *)
(* The timecode itself (m_tMidiTimeCode and the LTC, RTP-MIDI and display *)
(* outputs Handler and Run feed) carries no control and is left out.       *)
(***************************************************************************)
EXTENDS Integers

CONSTANTS
  Width,       \* bits of the counters (32 on the H3)
  MaxPerTick   \* most timecode packets that arrive between two timer ticks

\* Art-Net timecode comes at most at 30 frames per second, far below 2^32,
\* so the updates of one second never wrap a whole counter period.
ASSUME WidthAssumption == Width \in Nat \ {0}
ASSUME WordSizeAssumption == 2^Width \in Nat \ {0, 1}
ASSUME MaxPerTickAssumption == MaxPerTick \in 1 .. (2^Width - 1)

Word == 0 .. (2^Width - 1)

VARIABLES
  nUpdates,           \* the counter Handler increments
  nUpdatesPrevious,   \* nUpdates as the last tick saw it
  nUpdatesPerSecond,  \* the rate the last tick computed
  pc,                 \* "loop", or "inc" between the load and the store of nUpdates++
  reg,                \* the value nUpdates++ loaded
  installed,          \* arm_timer_handler is the timer's handler
  led,                \* the LedBlink frequency: "DATA" or "NO_DATA"
  ranSinceTick,       \* Run has run since the last tick
  sinceTick,          \* (history) stores of nUpdates since the last tick that ran the handler
  lastInterval        \* (history) stores between the last two such ticks

vars == <<nUpdates, nUpdatesPrevious, nUpdatesPerSecond, pc, reg, installed,
          led, ranSinceTick, sinceTick, lastInterval>>

TypeOK ==
  /\ nUpdates \in Word /\ nUpdatesPrevious \in Word /\ nUpdatesPerSecond \in Word
  /\ pc \in {"loop", "inc"}
  /\ reg \in Word
  /\ installed \in BOOLEAN
  /\ led \in {"DATA", "NO_DATA"}
  /\ ranSinceTick \in BOOLEAN
  /\ sinceTick \in 0 .. MaxPerTick
  /\ lastInterval \in 0 .. MaxPerTick

\* The statics start at 0; Start installs the handler and shows NO_DATA.
Init ==
  /\ nUpdates = 0 /\ nUpdatesPrevious = 0 /\ nUpdatesPerSecond = 0
  /\ pc = "loop" /\ reg = 0
  /\ installed = TRUE
  /\ led = "NO_DATA"
  /\ ranSinceTick = FALSE
  /\ sinceTick = 0 /\ lastInterval = 0

\* ArtNetReader::Start, again after a Stop.
Start ==
  /\ pc = "loop"
  /\ installed' = TRUE
  /\ led' = "NO_DATA"
  /\ UNCHANGED <<nUpdates, nUpdatesPrevious, nUpdatesPerSecond, pc, reg,
                 ranSinceTick, sinceTick, lastInterval>>

\* ArtNetReader::Stop: the timer keeps firing with no handler.
Stop ==
  /\ pc = "loop"
  /\ installed' = FALSE
  /\ UNCHANGED <<nUpdates, nUpdatesPrevious, nUpdatesPerSecond, pc, reg, led,
                 ranSinceTick, sinceTick, lastInterval>>

\* Handler, first half: nUpdates++ loads the counter.
HandlerLoad ==
  /\ pc = "loop"
  /\ sinceTick < MaxPerTick
  /\ pc' = "inc"
  /\ reg' = nUpdates
  /\ UNCHANGED <<nUpdates, nUpdatesPrevious, nUpdatesPerSecond, installed, led,
                 ranSinceTick, sinceTick, lastInterval>>

\* Handler, second half: the store of the incremented value; the outputs
\* that follow change none of the counters.
HandlerStore ==
  /\ pc = "inc"
  /\ nUpdates' = (reg + 1) % 2^Width
  /\ pc' = "loop"
  /\ sinceTick' = sinceTick + 1
  /\ UNCHANGED <<nUpdatesPrevious, nUpdatesPerSecond, reg, installed, led,
                 ranSinceTick, lastInterval>>

\* Bug variant: the interrupt reads the counter and clears it.
TickResets ==
  /\ ranSinceTick
  /\ IF installed
     THEN /\ nUpdatesPerSecond' = nUpdates
          /\ nUpdates' = 0
          /\ UNCHANGED nUpdatesPrevious
          /\ lastInterval' = sinceTick
          /\ sinceTick' = 0
     ELSE UNCHANGED <<nUpdates, nUpdatesPrevious, nUpdatesPerSecond, sinceTick, lastInterval>>
  /\ ranSinceTick' = FALSE
  /\ UNCHANGED <<pc, reg, installed, led>>

\* The timer interrupt, once a second: arm_timer_handler when installed.
\* The main loop runs many times a second, so Run has run since the last
\* tick (ranSinceTick).  The uint32_t subtraction is modulo 2^Width.
Tick ==
  /\ ranSinceTick
  /\ IF installed
     THEN /\ nUpdatesPerSecond' = (nUpdates - nUpdatesPrevious) % 2^Width
          /\ nUpdatesPrevious' = nUpdates
          /\ lastInterval' = sinceTick
          /\ sinceTick' = 0
     ELSE UNCHANGED <<nUpdatesPrevious, nUpdatesPerSecond, sinceTick, lastInterval>>
  /\ ranSinceTick' = FALSE
  /\ UNCHANGED <<nUpdates, pc, reg, installed, led>>

\* Bug variant: a single packet a second is taken for noise.
RunThreshold ==
  /\ pc = "loop"
  /\ led' = IF nUpdatesPerSecond > 1 THEN "DATA" ELSE "NO_DATA"
  /\ ranSinceTick' = TRUE
  /\ UNCHANGED <<nUpdates, nUpdatesPrevious, nUpdatesPerSecond, pc, reg,
                 installed, sinceTick, lastInterval>>

\* Bug variant: the LED is set to DATA but never set back.
RunNoElse ==
  /\ pc = "loop"
  /\ led' = IF nUpdatesPerSecond # 0 THEN "DATA" ELSE led
  /\ ranSinceTick' = TRUE
  /\ UNCHANGED <<nUpdates, nUpdatesPrevious, nUpdatesPerSecond, pc, reg,
                 installed, sinceTick, lastInterval>>

\* ArtNetReader::Run: the LED shows whether the last second had updates.
Run ==
  /\ pc = "loop"
  /\ led' = IF nUpdatesPerSecond # 0 THEN "DATA" ELSE "NO_DATA"
  /\ ranSinceTick' = TRUE
  /\ UNCHANGED <<nUpdates, nUpdatesPrevious, nUpdatesPerSecond, pc, reg,
                 installed, sinceTick, lastInterval>>

Next == Start \/ Stop \/ HandlerLoad \/ HandlerStore \/ Tick \/ Run

\* The main loop never stops (Run, and a started nUpdates++ completes) and
\* the timer fires every second.  Packets need not arrive: HandlerLoad has
\* no fairness.
Fairness == WF_vars(Run) /\ WF_vars(HandlerStore) /\ WF_vars(Tick)

Spec == Init /\ [][Next]_vars /\ Fairness

(***************************************************************************)
(* Properties.                                                             *)
(***************************************************************************)

\* arm_timer_handler racing nUpdates++: every tick reports exactly the
\* packets whose increment was stored since the tick before, none lost and
\* none counted twice, also when the interrupt falls between the load and
\* the store, across the wrap of the counters, and after Stop and Start.
RateExact == installed => nUpdatesPerSecond = lastInterval

\* Run, while timecode keeps arriving and the handler stays installed: the
\* LED shows DATA again and again.
DataShown ==
  ([]<><<HandlerStore>>_vars /\ <>[]installed) => []<>(led = "DATA")

\* Run, once timecode stops for good and the handler stays installed: the
\* LED settles on NO_DATA.
QuietShowsNoData ==
  (<>[][UNCHANGED nUpdates]_vars /\ <>[]installed) => <>[](led = "NO_DATA")

=============================================================================
