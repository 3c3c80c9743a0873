---------------------------- MODULE RemoteConfig ----------------------------
(***************************************************************************)
(* The remote configuration listener RemoteConfig                         *)
(* (src/lib-remoteconfig/src/remoteconfig.cpp): the dispatcher Run, the    *)
(* query handlers, the TFTP firmware-update gate HandleTftpSet/TftpExit,   *)
(* SetDisable, and the restart of the node (HandleReboot or a power        *)
(* cycle), composed with the configuration bridge of ConfigBridge.         *)
(*                                                                         *)
(* The main loop calls Run once per iteration; one Run is one step: the    *)
(* TFTP file server's Run, then at most one datagram.  A datagram is a     *)
(* record: the command literal it starts with (head), what follows it      *)
(* (arg, or the file name, record size and value of a file command) and    *)
(* whether a '\n' ends it.  The replies keep the kind and the data a       *)
(* property tells apart, and the exact bytes of the error literals.        *)
(***************************************************************************)
EXTENDS ConfigBridge

CONSTANTS
  Datagrams,   \* the datagrams the network can deliver in this model
  MaxBlocks    \* bound on the blocks of one TFTP image

ASSUME MaxBlocksAssumption == MaxBlocks \in Nat \ {0}

\* The command literals of namespace udp::cmd with their lengths, and the
\* heads of datagrams that start with '?', '!', '#' or another byte but
\* with none of the literals.
CmdLen ==
  [h \in {"?reboot##", "?uptime#", "?version#", "?list#", "?get#", "?store#",
          "?display#", "?tftp#", "!store#", "!display#", "!tftp#",
          "?", "!", "#", "*"} |->
     CASE h \in {"?reboot##", "?version#", "?display#", "!display#"} -> 9
       [] h = "?uptime#" -> 8
       [] h \in {"?store#", "!store#"} -> 7
       [] h \in {"?list#", "?tftp#", "!tftp#"} -> 6
       [] h = "?get#" -> 5
       [] OTHER -> 1]
Heads == DOMAIN CmdLen
QueryHeads == {"?reboot##", "?uptime#", "?version#", "?list#", "?get#",
               "?store#", "?display#", "?tftp#", "?"}
SetHeads == {"!store#", "!display#", "!tftp#", "!"}
FileHeads == {"?get#", "?store#", "#", "!store#"}

\* What follows a command that takes no file: nothing, "bin", one digit or
\* two other bytes.
ArgLen == [a \in {"", "bin", "0", "1", "xx"} |-> IF a = "xx" THEN 2 ELSE
                                                IF a = "bin" THEN 3 ELSE
                                                IF a = "" THEN 0 ELSE 1]
Args == DOMAIN ArgLen

\* Length of a file name no entry of the table matches.
UNKNOWN_NAME_LEN == 7
\* The value field of a datagram that carries no file body.
NoVal == [noval |-> TRUE]
NoDg == [head |-> "none"]
NoReply == [kind |-> "none"]
NoSession == [live |-> FALSE, blocks |-> 0, done |-> FALSE]
\* The image a node leaves the factory with.
Factory == [blocks |-> 0, done |-> TRUE]

DgRecords ==
  [head : Heads, arg : Args, file : Files \cup {LAST},
   size : Nat, val : Vals \cup RconfigVals \cup {NoVal}, nl : BOOLEAN]

\* The contents a file write can carry: an rconfig.txt text or record holds
\* the listener's flags, any other file a parameter block.
FileVals(f) == IF f = "RCONFIG" THEN RconfigVals ELSE Vals

ASSUME DatagramsAssumption ==
  /\ Datagrams \subseteq DgRecords
  /\ \A dg \in Datagrams :
       dg.head \in {"#", "!store#"} /\ dg.file # LAST => dg.val \in FileVals(dg.file)

\* Bytes RecvFrom returns for dg, and m_nBytesReceived once a trailing '\n'
\* is stripped.
DgLen(dg) ==
  CmdLen[dg.head] +
    IF dg.head \in FileHeads
    THEN (IF dg.file = LAST THEN UNKNOWN_NAME_LEN ELSE NameLen[dg.file]) + dg.size
    ELSE ArgLen[dg.arg]
RecvLen(dg) == DgLen(dg) + (IF dg.nl THEN 1 ELSE 0)

\* The error literals Run, HandleGet and HandleStoreGet send, the length of
\* each and the number of bytes the SendTo call passes for it.
ErrLiteralLen == [e \in {"?#ERROR#\n", "!#ERROR#\n", "?get#ERROR#\n", "?store#ERROR#\n"} |->
                    CASE e = "?get#ERROR#\n" -> 12
                      [] e = "?store#ERROR#\n" -> 14
                      [] OTHER -> 9]
ErrSent == [e \in DOMAIN ErrLiteralLen |-> IF e \in {"?#ERROR#\n", "!#ERROR#\n"} THEN 9 ELSE 12]
ErrReply(e) == [kind |-> "error", val |-> <<e, ErrSent[e]>>]

Sessions == [live : {TRUE}, blocks : 0..MaxBlocks, done : BOOLEAN]
Images == [blocks : 0..MaxBlocks, done : BOOLEAN]
Statuses == {"none", "TftpOn", "TftpOff", "ErrorTftp"}
FlashOps == {"none", "ok", "fail"}
Forms == {"txt", "bin"}
\* The replies, typed by their kind.
ReplyOK(r) ==
  CASE r.kind = "none"  -> r = NoReply
    [] r.kind = "error" -> r.val[1] \in DOMAIN ErrLiteralLen /\ r = ErrReply(r.val[1])
    [] r.kind \in {"uptime", "version", "list"} -> r.val \in Forms
    [] r.kind \in {"display", "tftp"} -> r.val \in Forms \X BOOLEAN
    [] r.kind = "get"   -> r.val \in UNION {[1..n -> Vals \cup RconfigVals] : n \in 1..2}
    [] r.kind = "store" -> r.val \in Files
    [] OTHER -> FALSE

VARIABLES
  flags,       \* m_bDisableWrite, m_bEnableReboot, m_bEnableUptime as set at boot
  disabled,    \* m_bDisable
  tftpOn,      \* m_bEnableTFTP
  session,     \* *m_pTFTPFileServer: blocks received and isDone(), or NoSession
  tftpAllocs,  \* TFTP server/buffer pairs allocated and not deleted
  sleep,       \* Display sleep state
  status,      \* last TFTP TextStatus message on the display
  firmware,    \* the firmware image in flash (Factory until one is written)
  flashOp,     \* outcome of a WriteFirmware call in the last step
  rx,          \* the datagram the last step handled
  reply        \* the reply the last step sent

vars == <<flags, disabled, tftpOn, session, tftpAllocs, sleep, status,
          firmware, flashOp, rx, reply, params, handleMode, copyEnd>>

TypeOK ==
  /\ BridgeTypeOK
  /\ flags \in RconfigFlags
  /\ disabled \in BOOLEAN
  /\ tftpOn \in BOOLEAN
  /\ session \in Sessions \cup {NoSession}
  /\ tftpAllocs \in Nat
  /\ sleep \in BOOLEAN
  /\ status \in Statuses
  /\ firmware \in Images
  /\ flashOp \in FlashOps
  /\ rx \in Datagrams \cup {NoDg}
  /\ ReplyOK(reply)

(***************************************************************************)
(* Boot: the constructor, then RemoteConfigParams::Load and Set, which     *)
(* apply the flags stored in rconfig.txt.  A restart keeps what is in      *)
(* flash (the parameter stores and the firmware) and loses the rest.       *)
(***************************************************************************)
VolatileInit ==
  /\ flags = params[RC]
  /\ disabled = params[RC].disable
  /\ tftpOn = FALSE
  /\ session = NoSession
  /\ tftpAllocs = 0
  /\ sleep = FALSE
  /\ status = "none"
  /\ flashOp = "none"
  /\ reply = NoReply
  /\ handleMode \in HandleModes
  /\ copyEnd = 0

Init ==
  /\ params \in {p \in [Modules -> Vals \cup RconfigVals] : \A m \in Modules : p[m] \in ValsOf(m)}
  /\ copyEnd = 0
  /\ firmware = Factory
  /\ rx = NoDg
  /\ VolatileInit

\* Bug variant: a boot that does not apply the stored write lock.
RestartLockLost(dg) ==
  /\ flags' = [params[RC] EXCEPT !.disableWrite = FALSE]
  /\ disabled' = params[RC].disable
  /\ tftpOn' = FALSE
  /\ session' = NoSession
  /\ tftpAllocs' = 0
  /\ sleep' = FALSE
  /\ status' = "none"
  /\ flashOp' = "none"
  /\ reply' = NoReply
  /\ handleMode' \in HandleModes
  /\ copyEnd' = 0
  /\ rx' = dg
  /\ UNCHANGED <<params, firmware>>

\* HandleReboot, or power lost at any point: the node starts again.
Restart(dg) ==
  /\ flags' = params[RC]
  /\ disabled' = params[RC].disable
  /\ tftpOn' = FALSE
  /\ session' = NoSession
  /\ tftpAllocs' = 0
  /\ sleep' = FALSE
  /\ status' = "none"
  /\ flashOp' = "none"
  /\ reply' = NoReply
  /\ handleMode' \in HandleModes
  /\ copyEnd' = 0
  /\ rx' = dg
  /\ UNCHANGED <<params, firmware>>

PowerCycle == Restart(NoDg)

(***************************************************************************)
(* TFTP firmware update.                                                   *)
(***************************************************************************)

\* TFTPFileServer::Run: at most one more block of the image arrives; a
\* short block ends the transfer (isDone).
ServerRun(s) ==
  IF s = NoSession \/ s.done \/ s.blocks = MaxBlocks THEN {s}
  ELSE {s} \cup {[live |-> TRUE, blocks |-> s.blocks + 1, done |-> d] : d \in BOOLEAN}

\* Bug variant: a server is created on every "!tftp#1", the nullptr check
\* dropped.
HandleTftpSetNoNullCheck(c, s) ==
  LET enable == c # "0" IN
  /\ tftpOn' = enable
  /\ sleep' = IF enable THEN FALSE ELSE sleep
  /\ IF enable
     THEN /\ session' = [live |-> TRUE, blocks |-> 0, done |-> FALSE]
          /\ tftpAllocs' = tftpAllocs + 1
          /\ status' = "TftpOn"
          /\ flashOp' = "none"
          /\ UNCHANGED firmware
     ELSE IF s # NoSession
     THEN /\ session' = NoSession
          /\ tftpAllocs' = tftpAllocs - 1
          /\ IF s.done
             THEN \E ok \in BOOLEAN :
                    /\ flashOp' = IF ok THEN "ok" ELSE "fail"
                    /\ firmware' = IF ok THEN [blocks |-> s.blocks, done |-> s.done]
                                          ELSE firmware
                    /\ status' = IF ok THEN "TftpOff" ELSE "ErrorTftp"
             ELSE /\ flashOp' = "none"
                  /\ status' = "TftpOff"
                  /\ UNCHANGED firmware
     ELSE /\ session' = s
          /\ flashOp' = "none"
          /\ UNCHANGED <<tftpAllocs, status, firmware>>

\* Bug variant: "!tftp#0" tears the server down without checking that one
\* exists.
HandleTftpSetNoServerCheck(c, s) ==
  LET enable == c # "0" IN
  /\ tftpOn' = enable
  /\ sleep' = IF enable THEN FALSE ELSE sleep
  /\ IF enable /\ s = NoSession
     THEN /\ session' = [live |-> TRUE, blocks |-> 0, done |-> FALSE]
          /\ tftpAllocs' = tftpAllocs + 1
          /\ status' = "TftpOn"
          /\ flashOp' = "none"
          /\ UNCHANGED firmware
     ELSE IF ~enable
     THEN /\ session' = NoSession
          /\ tftpAllocs' = tftpAllocs - 1
          /\ IF s.done
             THEN \E ok \in BOOLEAN :
                    /\ flashOp' = IF ok THEN "ok" ELSE "fail"
                    /\ firmware' = IF ok THEN [blocks |-> s.blocks, done |-> s.done]
                                          ELSE firmware
                    /\ status' = IF ok THEN "TftpOff" ELSE "ErrorTftp"
             ELSE /\ flashOp' = "none"
                  /\ status' = "TftpOff"
                  /\ UNCHANGED firmware
     ELSE /\ session' = s
          /\ flashOp' = "none"
          /\ UNCHANGED <<tftpAllocs, status, firmware>>

\* Bug variant: the image is written whether or not isDone() holds.
HandleTftpSetNoDoneCheck(c, s) ==
  LET enable == c # "0" IN
  /\ tftpOn' = enable
  /\ sleep' = IF enable THEN FALSE ELSE sleep
  /\ IF enable /\ s = NoSession
     THEN /\ session' = [live |-> TRUE, blocks |-> 0, done |-> FALSE]
          /\ tftpAllocs' = tftpAllocs + 1
          /\ status' = "TftpOn"
          /\ flashOp' = "none"
          /\ UNCHANGED firmware
     ELSE IF ~enable /\ s # NoSession
     THEN /\ session' = NoSession
          /\ tftpAllocs' = tftpAllocs - 1
          /\ \E ok \in BOOLEAN :
               /\ flashOp' = IF ok THEN "ok" ELSE "fail"
               /\ firmware' = IF ok THEN [blocks |-> s.blocks, done |-> s.done]
                                     ELSE firmware
               /\ status' = IF ok THEN "TftpOff" ELSE "ErrorTftp"
     ELSE /\ session' = s
          /\ flashOp' = "none"
          /\ UNCHANGED <<tftpAllocs, status, firmware>>

\* RemoteConfig::HandleTftpSet with c the byte at m_pUdpBuffer[6] and s the
\* file server as its Run left it.
HandleTftpSet(c, s) ==
  LET enable == c # "0" IN
  /\ tftpOn' = enable
  /\ sleep' = IF enable THEN FALSE ELSE sleep
  /\ IF enable /\ s = NoSession
     THEN /\ session' = [live |-> TRUE, blocks |-> 0, done |-> FALSE]
          /\ tftpAllocs' = tftpAllocs + 1
          /\ status' = "TftpOn"
          /\ flashOp' = "none"
          /\ UNCHANGED firmware
     ELSE IF ~enable /\ s # NoSession
     THEN /\ session' = NoSession
          /\ tftpAllocs' = tftpAllocs - 1
          /\ IF s.done
             THEN \E ok \in BOOLEAN :
                    /\ flashOp' = IF ok THEN "ok" ELSE "fail"
                    /\ firmware' = IF ok THEN [blocks |-> s.blocks, done |-> s.done]
                                          ELSE firmware
                    /\ status' = IF ok THEN "TftpOff" ELSE "ErrorTftp"
             ELSE /\ flashOp' = "none"
                  /\ status' = "TftpOff"
                  /\ UNCHANGED firmware
     ELSE /\ session' = s
          /\ flashOp' = "none"
          /\ UNCHANGED <<tftpAllocs, status, firmware>>

\* RemoteConfig::TftpExit: the shutdown path writes '0' at m_pUdpBuffer[6]
\* and calls HandleTftpSet.
TftpExit ==
  /\ HandleTftpSet("0", session)
  /\ rx' = NoDg
  /\ reply' = NoReply
  /\ UNCHANGED <<flags, disabled, bridgeVars>>

\* RemoteConfig::SetDisable: End or Begin the listening port.
SetDisable(b) ==
  /\ disabled' = b
  /\ UNCHANGED <<flags, tftpOn, session, tftpAllocs, sleep, status, firmware,
                 flashOp, rx, reply, bridgeVars>>

(***************************************************************************)
(* The dispatcher RemoteConfig::Run.                                       *)
(***************************************************************************)

\* The handler Run picks for dg, in the order of its checks: datagrams
\* under 4 bytes are dropped; the '?' commands are tried in turn, reboot
\* and uptime only when enabled, and an unmatched one gets "?#ERROR#\n";
\* with writes enabled the '#' files and the '!' commands follow.  n is
\* m_nBytesReceived once a trailing '\n' is stripped.
QueryHandler(dg, n) ==
  IF dg.head = "?reboot##" /\ flags.reboot THEN "HandleReboot"
  ELSE IF dg.head = "?uptime#" /\ flags.uptime THEN "HandleUptime"
  ELSE IF dg.head = "?version#" THEN "HandleVersion"
  ELSE IF dg.head = "?list#" THEN "HandleList"
  ELSE IF dg.head = "?get#" /\ n > 5 THEN "HandleGet"
  ELSE IF dg.head = "?store#" /\ n > 7 THEN "HandleStoreGet"
  ELSE IF dg.head = "?display#" /\ n >= 9 THEN "HandleDisplayGet"
  ELSE IF dg.head = "?tftp#" /\ n >= 6 THEN "HandleTftpGet"
  ELSE "QueryError"

SetHandler(dg, n) ==
  IF dg.head = "#" THEN "TxtFile"
  ELSE IF dg.head \notin SetHeads THEN "Ignore"
  ELSE IF dg.head = "!display#" /\ n >= 9 THEN "HandleDisplaySet"
  ELSE IF dg.head = "!tftp#" /\ n = 7 THEN "HandleTftpSet"
  ELSE IF dg.head = "!store#" /\ n > 7 THEN "StoreFile"
  ELSE "SetError"

\* Bug variant: the '#' and '!' commands handled whatever m_bDisableWrite.
HandlerNoWriteGate(dg) ==
  IF RecvLen(dg) < 4 THEN "Ignore"
  ELSE IF dg.head \in QueryHeads THEN QueryHandler(dg, DgLen(dg))
  ELSE SetHandler(dg, DgLen(dg))

Handler(dg) ==
  IF RecvLen(dg) < 4 THEN "Ignore"
  ELSE IF dg.head \in QueryHeads THEN QueryHandler(dg, DgLen(dg))
  ELSE IF ~flags.disableWrite THEN SetHandler(dg, DgLen(dg))
  ELSE "Ignore"

\* The reply of a query answered as text when nothing follows the command
\* and as binary when exactly "bin" follows it; with anything else no reply.
Form(dg) ==
  IF DgLen(dg) = CmdLen[dg.head] THEN "txt"
  ELSE IF DgLen(dg) = CmdLen[dg.head] + 3 /\ dg.arg = "bin" THEN "bin"
  ELSE "none"
FormReply(kind, dg) ==
  IF Form(dg) = "none" THEN NoReply ELSE [kind |-> kind, val |-> Form(dg)]
\* The same for a reply that reports a flag.
FlagReply(kind, dg, flag) ==
  IF Form(dg) = "none" THEN NoReply ELSE [kind |-> kind, val |-> <<Form(dg), flag>>]

\* A handler that changes nothing but sends r; s is the file server after
\* its Run.
Answer(dg, s, r) ==
  /\ rx' = dg
  /\ reply' = r
  /\ session' = s
  /\ flashOp' = "none"
  /\ UNCHANGED <<flags, disabled, tftpOn, tftpAllocs, sleep, status, firmware,
                 bridgeVars>>

\* No datagram waiting (RecvFrom returns 0).
Idle(s) == Answer(NoDg, s, NoReply)

Ignore(dg, s) ==
  /\ Handler(dg) = "Ignore"
  /\ Answer(dg, s, NoReply)

\* HandleReboot does not return: the node restarts.
HandleReboot(dg) ==
  /\ Handler(dg) = "HandleReboot"
  /\ Restart(dg)

HandleUptime(dg, s) ==
  /\ Handler(dg) = "HandleUptime"
  /\ Answer(dg, s, FormReply("uptime", dg))

HandleVersion(dg, s) ==
  /\ Handler(dg) = "HandleVersion"
  /\ Answer(dg, s, FormReply("version", dg))

HandleList(dg, s) ==
  /\ Handler(dg) = "HandleList"
  /\ Answer(dg, s, FormReply("list", dg))

HandleDisplayGet(dg, s) ==
  /\ Handler(dg) = "HandleDisplayGet"
  /\ Answer(dg, s, FlagReply("display", dg, ~sleep))

HandleTftpGet(dg, s) ==
  /\ Handler(dg) = "HandleTftpGet"
  /\ Answer(dg, s, FlagReply("tftp", dg, tftpOn))

HandleGet(dg, s) ==
  /\ Handler(dg) = "HandleGet"
  /\ Answer(dg, s, IF dg.file = LAST THEN ErrReply("?get#ERROR#\n")
                   ELSE [kind |-> "get", val |-> SaveOf(dg.file)])

HandleStoreGet(dg, s) ==
  /\ Handler(dg) = "HandleStoreGet"
  /\ Answer(dg, s, IF dg.file = LAST THEN ErrReply("?store#ERROR#\n")
                   ELSE [kind |-> "store", val |-> dg.file])

QueryError(dg, s) ==
  /\ Handler(dg) = "QueryError"
  /\ Answer(dg, s, ErrReply("?#ERROR#\n"))

SetError(dg, s) ==
  /\ Handler(dg) = "SetError"
  /\ Answer(dg, s, ErrReply("!#ERROR#\n"))

\* A file command, '#' (text) or "!store#" (binary record), applied by
\* HandleTxtFile.
FileWrite(dg, s) ==
  /\ Handler(dg) \in {"TxtFile", "StoreFile"}
  /\ HandleTxtFile(IF Handler(dg) = "TxtFile" THEN "TXT" ELSE "BIN",
                   dg.file, dg.size, dg.val)
  /\ rx' = dg
  /\ reply' = NoReply
  /\ session' = s
  /\ flashOp' = "none"
  /\ UNCHANGED <<flags, disabled, tftpOn, tftpAllocs, sleep, status, firmware>>

\* HandleDisplaySet: sleep when the byte at m_pUdpBuffer[9] is '0'.  With
\* nothing after "!display#" that byte is the stripped '\n' or whatever an
\* earlier datagram or reply left there.
HandleDisplaySet(dg, s) ==
  /\ Handler(dg) = "HandleDisplaySet"
  /\ sleep' \in IF DgLen(dg) > 9 THEN {dg.arg = "0"}
                ELSE IF dg.nl THEN {FALSE} ELSE BOOLEAN
  /\ rx' = dg
  /\ reply' = NoReply
  /\ session' = s
  /\ flashOp' = "none"
  /\ UNCHANGED <<flags, disabled, tftpOn, tftpAllocs, status, firmware, bridgeVars>>

\* "!tftp#" followed by exactly one byte.
HandleTftpSetCmd(dg, s) ==
  /\ Handler(dg) = "HandleTftpSet"
  /\ HandleTftpSet(dg.arg, s)
  /\ rx' = dg
  /\ reply' = NoReply
  /\ UNCHANGED <<flags, disabled, bridgeVars>>

Receive(dg, s) ==
  \/ Ignore(dg, s)
  \/ HandleReboot(dg)
  \/ HandleUptime(dg, s)
  \/ HandleVersion(dg, s)
  \/ HandleList(dg, s)
  \/ HandleGet(dg, s)
  \/ HandleStoreGet(dg, s)
  \/ HandleDisplayGet(dg, s)
  \/ HandleTftpGet(dg, s)
  \/ QueryError(dg, s)
  \/ FileWrite(dg, s)
  \/ HandleDisplaySet(dg, s)
  \/ HandleTftpSetCmd(dg, s)
  \/ SetError(dg, s)

\* RemoteConfig::Run: nothing while disabled; else the TFTP file server
\* runs, then at most one datagram is handled.
Run ==
  /\ ~disabled
  /\ \E s \in ServerRun(session) :
       \/ Idle(s)
       \/ \E dg \in Datagrams : Receive(dg, s)

Next ==
  \/ Run
  \/ TftpExit
  \/ \E b \in BOOLEAN : SetDisable(b)
  \/ PowerCycle

Spec == Init /\ [][Next]_vars

(***************************************************************************)
(* Properties.                                                             *)
(***************************************************************************)

\* HandleTftpSet and HandleReboot: there is never more than one TFTP server
\* with its FIRMWARE_MAX_SIZE buffer; one exists exactly while
\* m_bEnableTFTP is set, whatever order "!tftp#1", "!tftp#0", TftpExit and
\* restarts come in.
TftpSessionUnique ==
  /\ tftpAllocs = IF session = NoSession THEN 0 ELSE 1
  /\ tftpOn <=> session # NoSession

\* HandleTftpSet: the image in flash is always complete, the factory image
\* or one the file server reported done before WriteFirmware was called.
FirmwareComplete == firmware.done

\* Run with m_bDisableWrite set: a datagram that is not a '?' query changes
\* no parameter store, no display, no TFTP state and no firmware.
WriteGate ==
  [][ (rx' \in Datagrams /\ rx'.head \notin QueryHeads /\ flags.disableWrite)
        => UNCHANGED <<params, sleep, tftpOn, session, tftpAllocs, firmware>> ]_vars

\* While writes are locked, the rconfig.txt in the store is the one the
\* flags were loaded from: no handler has rewritten it since boot.
WriteLockHeld == flags.disableWrite => params[RC] = flags

\* Remote configuration cannot lift the write lock of rconfig.txt: once
\* writes are disabled they stay disabled, across HandleReboot and power
\* cycles, since the lock is reloaded from the store that only a write could
\* change.
LockPersists ==
  [][ flags.disableWrite => flags'.disableWrite ]_vars

\* What Load made of a file write, as HandleGet reads it back: the last text
\* it sends (for artnet.txt the Art-Net 4 one, which Load wrote).
ReadsAs(f, v) == SaveOf(f)[Len(SaveOf(f))] = v

\* HandleTxtFile in text mode: right after a '#' file write was handled,
\* "?get#" of that file returns what was written.
TextReadsBack ==
  (rx \in Datagrams /\ Handler(rx) = "TxtFile" /\ rx.file # LAST)
    => ReadsAs(rx.file, rx.val)

\* HandleTxtFile: the memcpy into m_pStoreBuffer reads only bytes of
\* m_pUdpBuffer.
StoreCopyInBounds == copyEnd <= BUFFER_SIZE

\* HandleTftpSet on "!tftp#0": the spec says tearing a transfer down always
\* attempts the flash write, complete or not.
DisableAlwaysWrites ==
  [][ (rx' \in Datagrams /\ rx'.head = "!tftp#" /\ tftpAllocs' < tftpAllocs)
        => flashOp' # "none" ]_vars

=============================================================================
