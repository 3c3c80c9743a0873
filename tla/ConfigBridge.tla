---------------------------- MODULE ConfigBridge ----------------------------
(***************************************************************************)
(* The text/binary configuration bridge of RemoteConfig                    *)
(* (src/lib-remoteconfig/src/remoteconfig.cpp): the write path             *)
(* HandleTxtFile and its per-file handlers HandleTxtFile<X>, and the read  *)
(* paths HandleGet and HandleStoreGet.                                     *)
(*                                                                         *)
(* A parameter block (the store record behind one Params class) is        *)
(* abstracted to a value.  A text body carries the value it parses to; a   *)
(* binary record carries its size and the value its Builder turns it into *)
(* (Builder followed by Load reproduces the record's fields).              *)
(***************************************************************************)
EXTENDS Naturals, Sequences

CONSTANTS
  Files,           \* the TxtFile entries compiled into this firmware build
  Vals,            \* contents of a parameter block other than rconfig.txt
  TlcVals,         \* contents whose led type is a TLC59711 type
  RconfigVals,     \* contents of rconfig.txt: the listener's four flags
  RecSize,         \* sizeof(struct T<X>Params) of every binary record
  BuiltTextSizes,  \* lengths the TLC59711 Builder's text output can have
  MonitorNameLen   \* length of the DMX monitor's file name

\* udp::BUFFER_SIZE and the length of udp::cmd::set::STORE ("!store#").
BUFFER_SIZE == 1024
STORE_LEN == 7

\* enum class TxtFile, with its sentinel, in the order of HandleTxtFile's
\* switch.  The file names are the comments above the #includes of each
\* Params class; NameLen is their length.  The source names no file for
\* the DMX monitor, so its length is the constant MonitorNameLen.
TxtFile == {"RCONFIG", "NETWORK", "ARTNET", "E131", "OSC_SERVER", "PARAMS",
            "DEVICES", "LTC", "LTCDISPLAY", "TCNET", "GPS", "MONITOR",
            "OSC_CLIENT", "DISPLAY", "SPARKFUN", "MOTOR0", "MOTOR1", "MOTOR2",
            "MOTOR3", "SHOW", "SERIAL", "RGBPANEL"}
LAST == "LAST"
NameLen ==
  [RCONFIG |-> 11, NETWORK |-> 11, ARTNET |-> 10, E131 |-> 8, OSC_SERVER |-> 7,
   PARAMS |-> 10, DEVICES |-> 11, LTC |-> 7, LTCDISPLAY |-> 12, TCNET |-> 9,
   GPS |-> 7, OSC_CLIENT |-> 11, DISPLAY |-> 11, SPARKFUN |-> 12, MOTOR0 |-> 10,
   MOTOR1 |-> 10, MOTOR2 |-> 10, MOTOR3 |-> 10, SHOW |-> 8, SERIAL |-> 10,
   RGBPANEL |-> 12, MONITOR |-> MonitorNameLen]

TLC == "TLC59711DmxParams"
WS == "WS28xxDmxParams"
RC == "RemoteConfigParams"

\* motor%.txt: HandleTxtFileMotor(i) loads the SparkFun, mode, motor and
\* L6470 blocks of motor i, abstracted to one block per motor.
MotorFiles == {"MOTOR0", "MOTOR1", "MOTOR2", "MOTOR3"}
MotorOf == [MOTOR0 |-> "Motor0", MOTOR1 |-> "Motor1", MOTOR2 |-> "Motor2",
            MOTOR3 |-> "Motor3"]

\* The files one Params class stands behind, and that class.
SingleFiles == TxtFile \ ({"ARTNET", "DEVICES"} \cup MotorFiles)
ParamsClass ==
  [RCONFIG |-> RC, NETWORK |-> "NetworkParams", E131 |-> "E131Params",
   OSC_SERVER |-> "OSCServerParams", PARAMS |-> "DMXParams",
   LTC |-> "LtcParams", LTCDISPLAY |-> "LtcDisplayParams",
   TCNET |-> "TCNetParams", GPS |-> "GPSParams", MONITOR |-> "DMXMonitorParams",
   OSC_CLIENT |-> "OscClientParams", DISPLAY |-> "DisplayUdfParams",
   SPARKFUN |-> "SparkFunDmxParams", SHOW |-> "ShowFileParams",
   SERIAL |-> "DmxSerialParams", RGBPANEL |-> "RgbPanelParams"]

\* The Params classes behind each file.
ModulesOf(f) ==
  CASE f = "ARTNET"     -> {"ArtNetParams", "ArtNet4Params"}
    [] f = "DEVICES"    -> {TLC, WS}
    [] f \in MotorFiles -> {MotorOf[f]}
    [] OTHER            -> {ParamsClass[f]}

Modules == UNION {ModulesOf(f) : f \in Files}

RconfigFlags == [disable : BOOLEAN, reboot : BOOLEAN,
                 uptime : BOOLEAN, disableWrite : BOOLEAN]

ValsOf(m) == IF m = RC THEN RconfigVals ELSE Vals

HandleModes == {"TXT", "BIN"}

ASSUME FilesAssumption ==
  /\ Files \subseteq TxtFile
  /\ {"RCONFIG", "NETWORK"} \subseteq Files

ASSUME ValsAssumption ==
  /\ Vals # {} /\ TlcVals \subseteq Vals
  /\ RconfigVals # {} /\ RconfigVals \subseteq RconfigFlags

\* The sizes are positive; the two static_asserts of HandleTxtFileArtnet and
\* HandleTxtFileDevices make the records that share a file differ in size.
ASSUME RecSizeAssumption ==
  /\ RecSize \in [Modules -> Nat \ {0}]
  /\ "ARTNET" \in Files => RecSize["ArtNetParams"] # RecSize["ArtNet4Params"]
  /\ "DEVICES" \in Files => RecSize[TLC] # RecSize[WS]

ASSUME MonitorNameLenAssumption == MonitorNameLen \in Nat \ {0}

ASSUME BuiltTextSizesAssumption ==
  BuiltTextSizes \subseteq Nat /\ BuiltTextSizes # {}

VARIABLES
  params,      \* the record held by the store behind every Params class
  handleMode,  \* m_tHandleMode
  copyEnd      \* end offset in m_pUdpBuffer of the last memcpy into m_pStoreBuffer

bridgeVars == <<params, handleMode, copyEnd>>

BridgeTypeOK ==
  /\ params \in [Modules -> Vals \cup RconfigVals]
  /\ \A m \in Modules : params[m] \in ValsOf(m)
  /\ handleMode \in HandleModes
  /\ copyEnd \in Nat

BridgeInit(p) ==
  /\ params = p
  /\ copyEnd = 0

(***************************************************************************)
(* Write path.  Each handler gets the mode, the record size (binary mode)  *)
(* and the value the body stands for.                                      *)
(***************************************************************************)

\* TLC59711DmxParams::IsSetLedType
IsSetLedType(v) == v \in TlcVals

\* HandleTxtFileRconfig, HandleTxtFileNetwork and the handlers of every other
\* file of one Params class (E131, Osc, OscClient, Params, Ltc, LtcDisplay,
\* TCNet, Gps, Mon, Display, SparkFun, Show, Serial, RgbPanel): in
\* binary mode a record of any other size is dropped; otherwise Builder
\* (binary mode) and Load put the value into the block.
HandleTxtFileSingle(m, mode, size, v) ==
  IF mode = "BIN" /\ size # RecSize[m]
  THEN UNCHANGED params
  ELSE params' = [params EXCEPT ![m] = v]

\* HandleTxtFileArtnet: either record (Art-Net 3 or 4) is built to text and
\* loaded by ArtNet4Params.
HandleTxtFileArtnet(mode, size, v) ==
  IF mode = "BIN" /\ size \notin {RecSize["ArtNetParams"], RecSize["ArtNet4Params"]}
  THEN UNCHANGED params
  ELSE params' = [params EXCEPT !["ArtNet4Params"] = v]

\* HandleTxtFileDevices (build without OUTPUT_PIXEL_MULTI).  The TLC59711
\* size check returns on any other size, so control reaches the WS28xx
\* branch only after a TLC59711 text or record was loaded without a led
\* type.  In binary mode m_nBytesReceived then holds the length of the text
\* the TLC59711 Builder produced, and when that equals the WS28xx record
\* size the WS28xx Builder reads the TLC59711 bytes of m_pStoreBuffer as a
\* WS28xx record: any value.
\* Bug variant: a text without a TLC59711 led type is not passed on to
\* WS28xxDmxParams.
HandleTxtFileDevicesNoWs(mode, size, v) ==
  IF mode = "BIN" /\ size # RecSize[TLC]
  THEN UNCHANGED params
  ELSE params' = [params EXCEPT ![TLC] = v]

HandleTxtFileDevices(mode, size, v) ==
  IF mode = "BIN" /\ size # RecSize[TLC]
  THEN UNCHANGED params
  ELSE LET tlcLoaded == [params EXCEPT ![TLC] = v] IN
       IF IsSetLedType(v) THEN params' = tlcLoaded
       ELSE IF mode = "TXT" THEN params' = [tlcLoaded EXCEPT ![WS] = v]
       ELSE \E n \in BuiltTextSizes :
              IF n = RecSize[WS]
              THEN \E w \in Vals : params' = [tlcLoaded EXCEPT ![WS] = w]
              ELSE params' = tlcLoaded

\* HandleTxtFileMotor: a binary record is dropped (its Builder is a TODO);
\* a text is loaded into the blocks of the motor.
HandleTxtFileMotor(m, mode, v) ==
  IF mode = "BIN"
  THEN UNCHANGED params
  ELSE params' = [params EXCEPT ![m] = v]

\* RemoteConfig::HandleTxtFile(nullptr, 0) for the file f found by GetIndex
\* (LAST when no name matched).  In binary mode a known name is followed by
\* the copy of BUFFER_SIZE bytes from just after the name into
\* m_pStoreBuffer.
HandleTxtFile(mode, f, size, v) ==
  /\ handleMode' = mode
  /\ copyEnd' = IF mode = "BIN" /\ f # LAST
                THEN STORE_LEN + NameLen[f] + BUFFER_SIZE
                ELSE copyEnd
  /\ CASE f \in SingleFiles -> HandleTxtFileSingle(ParamsClass[f], mode, size, v)
       [] f = "ARTNET"      -> HandleTxtFileArtnet(mode, size, v)
       [] f = "DEVICES"     -> HandleTxtFileDevices(mode, size, v)
       [] f \in MotorFiles  -> HandleTxtFileMotor(MotorOf[f], mode, v)
       [] OTHER -> UNCHANGED params

(***************************************************************************)
(* Read path.                                                              *)
(***************************************************************************)

\* The texts HandleGet sends for file f, in order: the Save of its Params
\* class; the Art-Net 3 then the Art-Net 4 text for artnet.txt; for
\* devices.txt the TLC59711 text when a TLC59711 led type is set, else the
\* WS28xx text; for motor%.txt the SparkFun, mode, motor and L6470 texts of
\* the motor, its one block.
SaveOf(f) ==
  CASE f = "ARTNET"  -> <<params["ArtNetParams"], params["ArtNet4Params"]>>
    [] f = "DEVICES" -> <<IF IsSetLedType(params[TLC]) THEN params[TLC] ELSE params[WS]>>
    [] OTHER         -> <<params[CHOOSE m \in ModulesOf(f) : TRUE]>>

=============================================================================
