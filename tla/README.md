# Verification of the Allwinner H3 bare-metal firmware

TLA+ models of the firmware in `src/`, model-checked with TLC. The core
safety properties are also proved with TLAPS.

## The system

The repository holds bare-metal firmware for Allwinner H3 boards (Art-Net,
sACN and OSC pixel controllers). Each `main.cpp` builds the components once
and then runs one loop forever:

    for (;;) { hw.WatchdogFeed(); nw.Run(); node.Run(); remoteConfig.Run();
               spiFlashStore.Flash(); lb.Run(); display.Run(); }

Besides the loop, only interrupt handlers run: the ARM generic timer that
drives the Art-Net timecode reader's rate, and the USB host controller's
transfer-complete interrupt. The display mixer and the PIO ports are
hardware the code programs through registers.

| Part | Source | What it does | Model |
|------|--------|--------------|-------|
| RemoteConfig dispatcher | `lib-remoteconfig/src/remoteconfig.cpp` `Run` | A UDP listener on port 0x2905. It classifies each datagram by its command literal and calls one handler. | `RemoteConfig` |
| Query handlers | same, `HandleUptime` ... `HandleTftpGet` | They answer `?uptime#`, `?version#`, `?list#`, `?display#` and `?tftp#`, as text or, with `bin`, as binary. | `RemoteConfig` |
| Configuration bridge | same, `HandleTxtFile*`, `HandleGet*`, `HandleStoreGet` | Writes one of 22 configuration files into its parameter store, as text or as a binary record, and reads it back. | `ConfigBridge` |
| TFTP gate | same, `HandleTftpSet`, `TftpExit` | `!tftp#1` creates a TFTP server. `!tftp#0` writes a finished image to flash and frees the server. | `RemoteConfig` |
| Boot and restart | `*/firmware/main.cpp` | Loads `rconfig.txt` (the disable, reboot, uptime and write-lock flags), then loops. | `RemoteConfig` (`Init`, `Restart`) |
| Art-Net RDM | `lib-artnet/src/artnetrdm.cpp` | Stops a port's DMX output around RDM discovery and RDM requests, and starts it again. | `ArtNetRdm` |
| Art-Net timecode reader | `lib-ltc/src/h3/artnetreader.cpp` | Counts timecode packets. A timer interrupt turns the count into a rate once a second, which drives the LED. | `ArtNetReader` |
| Display | `display.c` | `buffer_swap` rotates three frame buffers behind the DE2 mixer's latch at vertical blank. | `DisplaySwap` |
| PIO pins | `ports.c` | Sets a pin's function, level, drive and pull in registers shared by 8 or 16 pins. | `Ports`, `GpioPins` |
| HID host | `tinyusb/src/class/hid/hid_host.c`, `usb.c` | Keeps an interrupt pipe per class and device, dispatches transfer completions, and polls keyboards. | `HidHost` |
| SpiFlashStore, WS28xx multi | `lib-spiflashstore/include/spiflashstore.h`, `lib-ws28xx/include/ws28xxmulti.h` | Class declarations only. | not modelled |
| TV encoder, USB/GPIO init | `tve.c`, `usb_init`, `gpio_init` | Register initialisation sequences. | not modelled |

## Modules

- **`ConfigBridge.tla`** models the write and read paths of the bridge.
  - State:
    - `params`: the record in the store behind every Params class, abstracted to a value;
    - `handleMode`: `m_tHandleMode`;
    - `copyEnd`: the end offset of the last `memcpy` into `m_pStoreBuffer`.
  - Files: `TxtFile` lists all 22 files of `s_TXT` with their name lengths.
    - `ModulesOf(f)` is the set of Params classes a file reaches: one class for most files; Art-Net 3 or Art-Net 4 for artnet.txt; TLC59711 or WS28xx for devices.txt; its own motor for motor0-3.
  - Write handlers:
    - `HandleTxtFileSingle` covers the one-record files.
    - `HandleTxtFileArtnet` and `HandleTxtFileDevices` keep their handlers' branches, including the early return of the devices handler.
    - `HandleTxtFileMotor` keeps the motor handlers' binary-mode TODO, which stores nothing.
  - Read path: `SaveOf(f)` is the sequence of texts `HandleGet` sends.
- **`RemoteConfig.tla`** extends `ConfigBridge` with the listener.
  - A datagram is a record: its command literal, its argument, the file, record size and value of a file command, and whether it ends in a newline.
  - `Handler(dg)` reproduces the order of the checks in `Run`, and each handler is one action.
  - `Run` is one iteration of the main loop.
  - `TftpExit`, `SetDisable`, `HandleReboot` and `PowerCycle` are actions of their own. `Restart` reloads the flags from the stored `rconfig.txt`.
- **`ArtNetReader.tla`** models the counters shared by the main loop and the timer interrupt.
  - `Handler`'s `nUpdates++` is split into `HandlerLoad` and `HandlerStore`, so the interrupt can fall in between.
  - `Tick` is the timer interrupt, with the uint32_t subtraction taken modulo `2^Width`.
  - `Run` sets the LED. `Start` and `Stop` install and remove the handler.
  - `sinceTick` and `lastInterval` are history variables: the stores since the last tick.
- **`DisplaySwap.tla`** models `display_init` and `buffer_swap` against the mixer.
  - `ladd` is the `TOP_LADD0` register and `dbuffer` the `GLB_DBUFFER` request.
  - `scan` is the buffer scanned out, which `VBlank` latches.
  - `Draw` is the caller, which is not in the repository. It draws into `active_buffer` between swaps and begins at most `MaxSwapsPerFrame` `buffer_swap` calls between two blanks.
  - `buffer_swap` is not atomic against the vertical blank, so it is three steps, with `pc` the point reached:
    - `SwapAddr` (lines 176-184) writes `TOP_LADD0` and advances `active_buffer`;
    - `SwapBlank` (185-187) clears the new `active_buffer`;
    - `SwapRequest` (188-189) sets `GLB_DBUFFER`.
  - `VBlank` may fall between any two of them.
- **`ArtNetRdm.tla`** models `SetRdmHandler`, `HandleTodControl` and `HandleRdm` over four ports.
  - State: `output` (the light set is sending DMX), `running` (`m_IsLightSetRunning`) and `responder` (`m_IsRdmResponder`).
  - The node's DMX and sACN paths are not in the repository, so they are environment actions:
    - the Art-Net path keeps the flag of its port (`ArtDmxStart`, `ArtDmxStop`);
    - the Art-Net 4 handler starts and stops an sACN port without touching the flag (`SacnOutput`).
  - The history sets `rdmOnLive` and `outputFlip` record which handler talked RDM on a live line, and which changed a port's output.
  - `HandleTodRequest` only sends packets and changes no state.
- **`Ports.tla`** models the `ports.c` functions on one port's registers.
  - Each register is a 32-bit word, a function from bit positions to bits, so `&=`, `|=`, `~` and `<<` are exactly the C operators.
  - The registers start at the H3 reset values.
  - `GpioPins.tla` is the abstract specification: a function select and a level per pin. `Ports` instantiates it with `PinMode` and `GetPinData` as the refinement mapping.
- **`HidHost.tla`** models the HID host class.
  - `slot[k][d]` is the interface slot of class `k` for device `d`. `owner` is the pipe pool of the host controller driver, and `busy` holds the pipes with a pending transfer.
  - `OpenInterface` is `hidh_open_subtask` after its control transfers, including the mount callback's first `get_report`.
  - `TransferComplete` is `hidh_isr` with `tuh_hid_keyboard_isr`. `Detach` is `hidh_close`.
  - The host core and the controller driver are not in the repository. The pool, device attach and the end of a transfer are environment actions.
- **`MC_*.tla`** give the constants of the TLC runs.
- **`RemoteConfigProofs.tla`, `ArtNetReaderProofs.tla`, `DisplaySwapProofs.tla`, `ArtNetRdmProofs.tla`, `PortsProofs.tla` and `HidHostProofs.tla`** hold the TLAPS proofs. Each extends its component's module.

## Runs

Passing runs:

- **dispatch** (`MC_RemoteConfig`, every command and the TFTP commands, 56 000 states).
  - `TftpSessionUnique`: at most one TFTP server exists, and it exists exactly while `m_bEnableTFTP` is set.
  - `FirmwareComplete`: flash only ever holds a complete image.
  - `WriteGate`: while the write lock is set, a non-query datagram changes nothing.
  - `LockPersists`: the lock cannot be lifted remotely, even across reboots.
- **reader** (`MC_ArtNetReader`, `Width` = 2, up to 3 packets a second; 844 states).
  - `RateExact`: every tick reports exactly the stores since the tick before. This holds through the interrupt landing between load and store, the wrap of the 2-bit counter, and Stop and Start.
  - `DataShown` and `QuietShowsNoData`: the LED follows the traffic.
- **display** (one swap a frame, four frames; 1 515 states).
  - `TypeOK`, whose mutant lets `active_buffer` run past the third buffer.
  - `LastSwapShown`: once the caller stops swapping, the last buffer swapped in ends up on screen.
- **rdm** (`MC_ArtNetRdm`: four ports, two sACN, one Art-Net, one disabled; 136 states).
  - `RdmTransparent`: `HandleRdm` never talks RDM on a line carrying DMX, and it leaves every output as it found it.
- **ports** (`MC_Ports`: pins 6 and 7, which share CFG0, and pin 31, the top field of every register; 19 440 states).
  - `GpioRefined`: `set_pin_mode` and `set_pin_data` implement `GpioPins`.
- **hid** (`MC_HidHost`: two devices, three pipes; 8 600 states).
  - `KeyboardPolled`: a mounted keyboard whose last transfer did not stall always has a report transfer pending.

Violation runs each show a disagreement between the code and the spec or the code's own intent:

- **disable_write**: `!tftp#0` on an unfinished transfer writes nothing, while the spec (§4.3, §8) says the write is always attempted.
- **store_copy**: the binary `memcpy` reads up to 18 bytes past the 1024-byte receive buffer.
- **rdm_todcontrol** (`TodControlQuiet`): the Art-Net 4 handler starts sACN output on a port, and `HandleTodControl` trusts the stale `m_IsLightSetRunning`. An AtcFlush then runs full RDM discovery while DMX is being transmitted. `HandleRdm` refreshes the flag first; `HandleTodControl` does not.
- **ports_drive** (`DriveIsolated`): `set_pin_drive` clears with `&= 3 << pin*2` rather than `&= ~(3 << pin*2)`, so one call resets every other pin's drive level. `set_pin_pull` has the same bug.
- **display_tear** (`NoTearing`): a vertical blank can fall inside `buffer_swap`, after `TOP_LADD0` is written and before `GLB_DBUFFER` is set. The latch then waits for the next blank, and the caller's next swap makes the buffer on screen the active one and blanks it, even with one swap a frame.
- **hid_leak** (`PipesReleased`): a device with two interfaces of one class overwrites the first pipe in the class slot. After unplug that pipe is never closed.

### Known code behaviour not kept as a run

- `?uptime#` and `?reboot##` answer `?#ERROR#` when disabled; the spec says they are ignored.
- `?store#` of an unknown file sends 12 of the 14 bytes of its error literal.
- A devices.txt binary record of WS28xx size is dropped, because the TLC59711 size check returns first.
- Two `buffer_swap` calls within one frame blank the buffer on screen.
- With two keyboards attached, both transfers land in the one `usb_keyboard_report`.

## Bounds

- **RemoteConfig:**
  - two values per parameter block, one of them with a TLC59711 led type;
  - three `rconfig.txt` contents (open, locked and disabled);
  - images of up to 2 blocks;
  - every length check of `Run` hit exactly at its boundary.
- **ArtNetReader:** `Width` = 2 makes the counter wrap within a few seconds. `MaxPerTick` = 3 stays below a word, as 30 frames a second stays below 2^32.
- **DisplaySwap:** four frames take every buffer round the rotation more than once. One swap a frame is the caller that looks correct: with it, `display_tear` still finds the blank that falls inside `buffer_swap`.
- **ArtNetRdm:** the node's four ports cover matched and unmatched ports, a disabled port, and sACN and Art-Net ports on one address.
- **Ports:** two pins in one register show whether a write isolates its own pin. Pin 31 exercises the top bits and the second DRV/PUL register.
- **HidHost:** three pipes for two devices are enough for the pool to run dry and for a second interface of one class.

## Fairness

- **ArtNetReader:** weak fairness of `Run` and `HandlerStore`, because the main loop never blocks and a started increment completes. Weak fairness of `Tick`, because the timer fires every second. There is none on `HandlerLoad`: packets need not arrive.
- **DisplaySwap:** weak fairness of `VBlank`, because the mixer refreshes every frame. Weak fairness of `SwapBlank` and `SwapRequest`, because `buffer_swap` is straight-line code that finishes once begun. There is none on `Draw` or `SwapAddr`: the caller need not swap again.
- **Everything else:** none. The listener, the RDM handlers, the pin functions and the HID class only react to datagrams, calls and transfers, which need not come.

## Proofs

All theorems hold for every value of the constants that satisfies the
assumptions of their modules.

`RemoteConfigProofs.tla` proves its theorems with TLAPS for every value of
the constants. It uses only the assumptions declared in `ConfigBridge` and
`RemoteConfig`:

- the file table is part of `TxtFile` and holds rconfig.txt and network.txt;
- rconfig.txt holds flag records;
- `MaxBlocks` is positive;
- every file write in `Datagrams` carries a value of its file's type.

| Theorem | Statement |
|---------|-----------|
| `IInvInvariant` | `Spec => []IInv` |
| `TypeCorrect` | `Spec => []TypeOK` |
| `TftpSessionsSafe` | `Spec => []TftpSessionUnique` |
| `FirmwareSafe` | `Spec => []FirmwareComplete` |
| `LockPersistent` | `Spec => LockPersists` |
| `TextAlwaysReadsBack` | `Spec => []TextReadsBack` |
| `WriteGated` | `Spec => WriteGate` |

`IInv` is `TypeOK /\ TftpSessionUnique /\ FirmwareComplete /\ WriteLockHeld`. It needs both strengthenings:

- **`TypeOK` needs `TftpSessionUnique`.** `!tftp#0` decrements `tftpAllocs`, and the count stays a natural only because a server exists whenever the decrement runs.
- **`LockPersists` needs `WriteLockHeld`.** A restart sets the flags from the stored rconfig.txt. The lock survives only because, while it is set, that store still holds the locked flags. The argument has two parts:
  - `FileHandlerHead` shows that `Run` routes a datagram to `HandleTxtFile` only when writes are enabled.
  - `NextFlags` shows that no step other than a restart changes the flags.

The proof of `NextIInv` has one lemma per action. Its supporting lemmas are:

- `TftpSetTftpOK`, for both callers of `HandleTftpSet`;
- `AnswerIInv`, for every handler that only replies, together with one typing lemma per reply form;
- `HandleTxtFileTyped`, for the per-file write handlers;
- `RestartIInv`.

`ArtNetReaderProofs.tla` proves `RateAlwaysExact`: `Spec => []RateExact`, for every counter width and for every `MaxPerTick` below a word.

- **Assumptions.** `WidthAssumption`, `WordSizeAssumption` and `MaxPerTickAssumption`.
- **Why a strengthening is needed.** `RateExact` alone is not inductive. A tick computes the rate from `nUpdates - nUpdatesPrevious`, so the invariant must say what that difference is.
- **The strengthening.** The inductive invariant adds two conjuncts:
  - `Counted`: `nUpdates = (nUpdatesPrevious + sinceTick) % 2^Width`;
  - `Loaded`: between the load and the store of `nUpdates++`, the loaded value is still the counter. This holds because the interrupt reads `nUpdates` and never writes it.
- **Lemmas.**
  - The modular arithmetic of the store and of the uint32_t subtraction is proved once, in `ModStep` and `ModDiff`.
  - Both rest on `ModUnique`, which says that a remainder is unique.

`HidHostProofs.tla` proves `KeyboardAlwaysPolled`: `Spec => []KeyboardPolled`, for every set of devices and pipes.

- **Assumptions.** `HidHostConstantsAssumption`.
- **The strengthening.** The inductive invariant adds `PipesOwned`:
  - a pipe in a device's class slot belongs to that device, and the device is attached;
  - a busy pipe is owned.
- **Why it is needed.** Without it, a transfer completing on a pipe could be dispatched to a keyboard that no longer holds it, or to a detached one, and the argument would break.

The last two theorems of `RemoteConfigProofs` work as follows:

- **`TextReadsBack` needs no strengthening beyond the store types.** No run checks it: the proof covers every file and every value, which a TLC run over a few files could not.
  - `TxtWriteReadsBack` follows `HandleTxtFile` in text mode through each kind of file: a one-class file, artnet.txt (the Art-Net 4 block, which `SaveOf` sends last), devices.txt (the TLC59711 block when the value sets a led type, otherwise both blocks), and a motor file.
  - Every other step either handles no datagram (`NoDgNotDatagram`) or handles one that `Handler` does not route to a text write. For `HandleReboot` this holds under the reloaded flags too, because the datagram is a `?` query (`QueryReadsBack`).
- **`WriteGate` needs `LockedIdle`:** while writes are locked, no TFTP server exists.
  - Without it, a datagram that `Run` ignores could arrive in the same `Run` as a block the file server takes, and `session` would change under the gate.
  - TLC checked `LockedIdle` on the dispatch instance before it was proved.
  - `LockedIgnores` shows that, under the lock, `Handler` ignores everything but a `?` query. So the only step a gated datagram can take is `Ignore`.

`DisplaySwapProofs.tla` proves `TypeCorrect`: `Spec => []TypeOK`, for any number of swaps a frame. `NextBufferType` shows that the rotation stays within the three buffers.

`OffscreenDrawing` and `NoTearing` are not proved, because they are false of the code: `display_tear` shows a blank falling between the `TOP_LADD0` write and the `GLB_DBUFFER` request, after which the next swap blanks the buffer on screen.

`ArtNetRdmProofs.tla` proves `RdmAlwaysTransparent`: `Spec => []RdmTransparent`, for every port table that satisfies `PortsAssumption`.

- **The strengthening.** The inductive invariant adds `Tracked`: on an enabled Art-Net port, `m_IsLightSetRunning` equals the port's output.
- **Why it is needed.** `HandleRdm` decides whether to stop and restart a port by that flag. It refreshes the flag itself only for sACN ports.
- **Why the environment keeps it.** `HandleTodControl` never writes the flag, and on an Art-Net port it restarts exactly what it stopped.

`PortsProofs.tla` proves `PortsRefineGpio`: `Spec => GpioRefined`, for every pin table and mode set that satisfy `PortsConstantsAssumption`. It proves the refinement: `Ports` implements `GpioPins` under the mapping that reads each pin's mode from its 3-bit CFG field and its level from its DAT bit.

- **Initial states.** The initial states map to `GpioPins!Init` (`InitRefined`).
- **Register typing.** The lemma `PortsTypeCorrect` keeps every register a 32-bit word, which the step lemmas need of the state they start from.
- **Steps.** Each register write is a step of one pin or a stutter:
  - `ModeStep` shows that the read-modify-write of a CFG register changes only the 3-bit field of that pin, which becomes the new mode;
  - `DataStep` shows the same for a DAT bit.
- **Bit-level lemmas.** These steps rest on lemmas about `Vec`, `Shl` and the bitwise operators:
  - `VecLow` and `VecHigh`: the bits of a small constant;
  - `FieldValue`: a 3-bit field is `b0 + 2 b1 + 4 b2`;
  - `ModeWriteBits` and `DataWriteBits`: which bits a write changes.
- **Powers of two.** SMT cannot bound `2^k` over a range of `k`. `PowBig` therefore proves the bound with one case per bit position.

All safety properties of the passing runs are now proved. Only these stay with TLC:

- the liveness properties;
- the violated properties, each of which TLC refutes.

The liveness properties `DataShown`, `QuietShowsNoData` and `LastSwapShown` are beyond the prover and stay with TLC, because they depend on fairness and `ENABLED`. No module declares a recursive operator: text formatting and parsing are abstracted to lengths and values. This keeps every module usable from a proof module.

## Not modelled

- **SpiFlashStore and the WS28xx driver.** Only their headers are in the repository, so `RemoteConfig` models the store as a plain copy.
- **Hardware initialisation:**
  - `tve.c`, the TV encoder;
  - `usb_init`, the USB host controller;
  - `gpio_init`.

  These are fixed register writes with no control to check.
- **`HandleTodRequest`.** It only sends the TOD and changes no state.
- **The HID class:**
  - its control transfers (SET_PROTOCOL and SET_IDLE);
  - the overrun of the report descriptor parser, which depends on the bytes of a descriptor.
- **Text content:**
  - the content of text replies;
  - `SetDisplayName`;
  - the stale bytes of `m_pUdpBuffer` that the unchecked `memcmp`s of `?reboot##`, `?uptime#`, `?version#` and `?list#` may read.
