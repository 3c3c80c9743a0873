------------------------- MODULE RemoteConfigProofs -------------------------
(***************************************************************************)
(* Proofs about RemoteConfig for every value of the constants: the type    *)
(* invariant, the TFTP gate invariants TftpSessionUnique and               *)
(* FirmwareComplete, the write lock's persistence LockPersists, and the    *)
(* read-back of text file writes TextReadsBack.                            *)
(*                                                                         *)
(* None of them is inductive alone: TypeOK needs TftpSessionUnique (a      *)
(* server is only torn down when one exists, so tftpAllocs stays a        *)
(* natural), and LockPersists needs WriteLockHeld (while the lock is set   *)
(* the stored rconfig.txt is the one the flags came from, so a restart     *)
(* reloads the lock).  IInv is their conjunction.                          *)
(***************************************************************************)
EXTENDS RemoteConfig, TLAPS

IInv == TypeOK /\ TftpSessionUnique /\ FirmwareComplete /\ WriteLockHeld

(***************************************************************************)
(* Facts about the constants.                                              *)
(***************************************************************************)

\* ModulesOf on each kind of file: the Art-Net pair, the devices pair, a
\* motor's block, and the one Params class of every other file.
LEMMA ModulesOfArms ==
  /\ ModulesOf("ARTNET") = {"ArtNetParams", "ArtNet4Params"}
  /\ ModulesOf("DEVICES") = {TLC, WS}
  /\ \A f \in MotorFiles : ModulesOf(f) = {MotorOf[f]}
  /\ \A f \in SingleFiles : ModulesOf(f) = {ParamsClass[f]}
BY DEF ModulesOf, MotorFiles, SingleFiles, TxtFile

\* The files split into those four kinds.
LEMMA TxtFileKinds ==
  ASSUME NEW f \in TxtFile
  PROVE  f \in SingleFiles \/ f = "ARTNET" \/ f = "DEVICES" \/ f \in MotorFiles
BY DEF SingleFiles

\* Of the single-class files only rconfig.txt is held by RemoteConfigParams,
\* and no motor block is.
LEMMA ParamsClassRC ==
  /\ \A f \in SingleFiles : (ParamsClass[f] = RC) <=> (f = "RCONFIG")
  /\ \A f \in MotorFiles : MotorOf[f] # RC
BY DEF SingleFiles, TxtFile, MotorFiles, ParamsClass, MotorOf, RC

\* The store behind rconfig.txt exists in every build.
LEMMA RCInModules == RC \in Modules
<1>1. "RCONFIG" \in Files /\ "RCONFIG" \in SingleFiles
  BY FilesAssumption DEF SingleFiles, TxtFile, MotorFiles
<1>2. ParamsClass["RCONFIG"] = RC
  BY DEF ParamsClass, RC
<1>. QED
  BY <1>1, <1>2, ModulesOfArms DEF Modules

\* rconfig.txt contents are flag records, so a restart loads typed flags.
LEMMA RconfigValsFlags == RconfigVals \subseteq RconfigFlags
BY ValsAssumption

\* The no-session marker is not a session.
LEMMA NoSessionNotSession == NoSession \notin Sessions
BY DEF NoSession, Sessions

\* The store types of every module of a file, and what a file write may
\* carry, agree.
LEMMA ModulesOfFiles ==
  ASSUME NEW f \in Files
  PROVE  /\ ModulesOf(f) \subseteq Modules
         /\ ModulesOf(f) # {}
         /\ \A m \in ModulesOf(f) : ValsOf(m) = FileVals(f)
<1>1. f \in TxtFile
  BY FilesAssumption
<1>2. ModulesOf(f) \subseteq Modules
  BY DEF Modules
<1>3. CASE f \in SingleFiles
  <2>1. ValsOf(ParamsClass[f]) = FileVals(f)
    BY <1>3, ParamsClassRC DEF ValsOf, FileVals
  <2>. QED
    BY <1>2, <1>3, <2>1, ModulesOfArms
<1>4. CASE f = "ARTNET" \/ f = "DEVICES"
  <2>1. /\ ValsOf("ArtNetParams") = Vals /\ ValsOf("ArtNet4Params") = Vals
        /\ ValsOf(TLC) = Vals /\ ValsOf(WS) = Vals
        /\ FileVals(f) = Vals
    BY <1>4 DEF ValsOf, FileVals, RC, TLC, WS
  <2>. QED
    BY <1>2, <1>4, <2>1, ModulesOfArms
<1>5. CASE f \in MotorFiles
  <2>1. ValsOf(MotorOf[f]) = FileVals(f)
    BY <1>5, ParamsClassRC DEF ValsOf, FileVals, MotorFiles
  <2>. QED
    BY <1>2, <1>5, <2>1, ModulesOfArms
<1>. QED
  BY <1>1, <1>3, <1>4, <1>5, TxtFileKinds

(***************************************************************************)
(* The initial states.                                                     *)
(***************************************************************************)

LEMMA InitIInv == Init => IInv
<1>. SUFFICES ASSUME Init PROVE IInv
  OBVIOUS
<1>1. params \in [Modules -> Vals \cup RconfigVals] /\ \A m \in Modules : params[m] \in ValsOf(m)
  BY DEF Init
<1>2. flags \in RconfigFlags /\ flags = params[RC] /\ disabled \in BOOLEAN
  BY <1>1, RCInModules, RconfigValsFlags DEF Init, VolatileInit, ValsOf, RconfigFlags
<1>3. ReplyOK(reply)
  BY DEF Init, VolatileInit, ReplyOK, NoReply
<1>4. firmware \in Images
  BY MaxBlocksAssumption DEF Init, Images, Factory
<1>5. BridgeTypeOK
  BY <1>1 DEF Init, VolatileInit, BridgeTypeOK
<1>6. TypeOK
  BY <1>2, <1>3, <1>4, <1>5
  DEF Init, VolatileInit, TypeOK, Statuses, FlashOps
<1>. QED
  BY <1>2, <1>6 DEF Init, VolatileInit, IInv, TftpSessionUnique, FirmwareComplete,
                    WriteLockHeld, Factory

(***************************************************************************)
(* The TFTP gate.                                                          *)
(***************************************************************************)

\* The TFTP part of IInv.
TftpOK ==
  /\ tftpOn \in BOOLEAN
  /\ session \in Sessions \cup {NoSession}
  /\ tftpAllocs \in Nat
  /\ sleep \in BOOLEAN
  /\ status \in Statuses
  /\ firmware \in Images
  /\ flashOp \in FlashOps
  /\ TftpSessionUnique
  /\ FirmwareComplete

\* TFTPFileServer::Run keeps a session a session and creates none.
LEMMA ServerRunSession ==
  ASSUME NEW t \in Sessions \cup {NoSession}, NEW s \in ServerRun(t)
  PROVE  /\ s \in Sessions \cup {NoSession}
         /\ s = NoSession <=> t = NoSession
<1>1. CASE t = NoSession \/ t.done \/ t.blocks = MaxBlocks
  BY <1>1 DEF ServerRun
<1>2. CASE ~(t = NoSession \/ t.done \/ t.blocks = MaxBlocks)
  <2>1. t \in Sessions
    BY <1>2
  <2>2. t.blocks \in 0..MaxBlocks /\ t.blocks # MaxBlocks
    BY <1>2, <2>1 DEF Sessions
  <2>3. t.blocks + 1 \in 0..MaxBlocks
    BY <2>2, MaxBlocksAssumption
  <2>4. s = t \/ \E d \in BOOLEAN : s = [live |-> TRUE, blocks |-> t.blocks + 1, done |-> d]
    BY <1>2 DEF ServerRun
  <2>5. s \in Sessions
    <3>1. CASE s = t
      BY <2>1, <3>1
    <3>2. CASE s # t
      <4>1. PICK d \in BOOLEAN : s = [live |-> TRUE, blocks |-> t.blocks + 1, done |-> d]
        BY <2>4, <3>2
      <4>. QED
        BY <2>3, <4>1 DEF Sessions
    <3>. QED
      BY <3>1, <3>2
  <2>. QED
    BY <2>1, <2>5, NoSessionNotSession
<1>. QED
  BY <1>1, <1>2

\* HandleTftpSet, from "!tftp#" or TftpExit, on a server state s its Run
\* left, keeps the TFTP part of the invariant.
LEMMA TftpSetTftpOK ==
  ASSUME TftpOK, NEW c, NEW s \in Sessions \cup {NoSession},
         s = NoSession <=> session = NoSession,
         HandleTftpSet(c, s)
  PROVE  TftpOK'
<1>1. CASE c # "0" /\ s = NoSession
  <2>1. tftpAllocs = 0
    BY <1>1 DEF TftpOK, TftpSessionUnique
  <2>2. /\ session' = [live |-> TRUE, blocks |-> 0, done |-> FALSE]
        /\ tftpAllocs' = tftpAllocs + 1 /\ tftpOn' /\ sleep' = FALSE
        /\ status' = "TftpOn" /\ flashOp' = "none" /\ firmware' = firmware
    BY <1>1 DEF HandleTftpSet
  <2>3. session' \in Sessions
    BY <2>2, MaxBlocksAssumption DEF Sessions
  <2>4. tftpAllocs' = 1
    BY <2>1, <2>2
  <2>5. session' # NoSession
    BY <2>3, NoSessionNotSession
  <2>6. TftpSessionUnique'
    BY <2>2, <2>4, <2>5 DEF TftpSessionUnique
  <2>7. FirmwareComplete'
    BY <2>2 DEF TftpOK, FirmwareComplete
  <2>8. status' \in Statuses /\ flashOp' \in FlashOps /\ firmware' \in Images
    BY <2>2 DEF TftpOK, Statuses, FlashOps
  <2>9. tftpOn' \in BOOLEAN /\ sleep' \in BOOLEAN /\ tftpAllocs' \in Nat
    <3>1. tftpAllocs' \in Nat
      BY <2>4
    <3>2. tftpOn' \in BOOLEAN /\ sleep' \in BOOLEAN
      BY <2>2, Zenon
    <3>. QED
      BY <3>1, <3>2
  <2>10. session' \in Sessions \cup {NoSession}
    BY <2>3
  <2>. QED
    BY <2>6, <2>7, <2>8, <2>9, <2>10, Zenon DEF TftpOK
<1>2. CASE c = "0" /\ s # NoSession
  <2>1. s \in Sessions /\ session # NoSession
    BY <1>2
  <2>2. tftpAllocs = 1
    BY <2>1 DEF TftpOK, TftpSessionUnique
  <2>3. /\ session' = NoSession /\ tftpAllocs' = tftpAllocs - 1
        /\ tftpOn' = FALSE /\ sleep' = sleep
    BY <1>2 DEF HandleTftpSet
  <2>4. /\ firmware' \in Images /\ firmware'.done
        /\ status' \in Statuses /\ flashOp' \in FlashOps
    <3>1. CASE s.done
      <4>1. PICK ok \in BOOLEAN :
              /\ flashOp' = IF ok THEN "ok" ELSE "fail"
              /\ firmware' = IF ok THEN [blocks |-> s.blocks, done |-> s.done] ELSE firmware
              /\ status' = IF ok THEN "TftpOff" ELSE "ErrorTftp"
        BY <1>2, <3>1 DEF HandleTftpSet
      <4>2. [blocks |-> s.blocks, done |-> s.done] \in Images
        BY <2>1 DEF Sessions, Images
      <4>. QED
        BY <3>1, <4>1, <4>2 DEF TftpOK, FirmwareComplete, Statuses, FlashOps
    <3>2. CASE ~s.done
      <4>1. flashOp' = "none" /\ status' = "TftpOff" /\ firmware' = firmware
        BY <1>2, <3>2 DEF HandleTftpSet
      <4>. QED
        BY <4>1 DEF TftpOK, FirmwareComplete, Statuses, FlashOps
    <3>. QED
      BY <3>1, <3>2
  <2>5. tftpAllocs' = 0
    BY <2>2, <2>3
  <2>6. TftpSessionUnique' /\ FirmwareComplete'
    BY <2>3, <2>4, <2>5 DEF TftpSessionUnique, FirmwareComplete
  <2>7. /\ tftpOn' \in BOOLEAN /\ sleep' \in BOOLEAN /\ tftpAllocs' \in Nat
        /\ session' \in Sessions \cup {NoSession}
    <3>1. tftpAllocs' \in Nat /\ session' \in Sessions \cup {NoSession}
      BY <2>3, <2>5
    <3>2. tftpOn' \in BOOLEAN /\ sleep' \in BOOLEAN
      BY <2>3, Zenon DEF TftpOK
    <3>. QED
      BY <3>1, <3>2
  <2>. QED
    BY <2>4, <2>6, <2>7, Zenon DEF TftpOK
<1>3. CASE ~(c # "0" /\ s = NoSession) /\ ~(c = "0" /\ s # NoSession)
  <2>1. /\ session' = s /\ tftpAllocs' = tftpAllocs /\ status' = status
        /\ firmware' = firmware /\ flashOp' = "none"
        /\ tftpOn' = (c # "0") /\ sleep' = IF c # "0" THEN FALSE ELSE sleep
    BY <1>3 DEF HandleTftpSet
  <2>2. tftpOn' <=> session' # NoSession
    BY <1>3, <2>1
  <2>3. tftpAllocs' = IF session' = NoSession THEN 0 ELSE 1
    BY <2>1 DEF TftpOK, TftpSessionUnique
  <2>4. sleep' \in BOOLEAN /\ tftpOn' \in BOOLEAN
    BY <2>1 DEF TftpOK
  <2>. QED
    BY <2>1, <2>2, <2>3, <2>4 DEF TftpOK, TftpSessionUnique, FirmwareComplete, FlashOps
<1>. QED
  BY <1>1, <1>2, <1>3

(***************************************************************************)
(* Replies.                                                                *)
(***************************************************************************)

\* The part of IInv that the TFTP gate does not touch.
RestOK ==
  /\ BridgeTypeOK
  /\ flags \in RconfigFlags
  /\ disabled \in BOOLEAN
  /\ rx \in Datagrams \cup {NoDg}
  /\ ReplyOK(reply)
  /\ WriteLockHeld

\* Run with no datagram, or a handler that sends nothing.
LEMMA NoReplyOK == ReplyOK(NoReply)
BY DEF ReplyOK, NoReply

\* Run, HandleGet and HandleStoreGet send well-formed error replies.
LEMMA ErrReplyOK ==
  ASSUME NEW e \in DOMAIN ErrLiteralLen
  PROVE  ReplyOK(ErrReply(e))
BY DEF ReplyOK, ErrReply

\* HandleUptime, HandleVersion, HandleList.
LEMMA FormReplyOK ==
  ASSUME NEW k \in {"uptime", "version", "list"}, NEW dg
  PROVE  ReplyOK(FormReply(k, dg))
<1>1. Form(dg) \in {"txt", "bin", "none"}
  BY DEF Form
<1>. QED
  BY <1>1 DEF FormReply, ReplyOK, NoReply, Forms

\* HandleDisplayGet, HandleTftpGet.
LEMMA FlagReplyOK ==
  ASSUME NEW k \in {"display", "tftp"}, NEW dg, NEW b \in BOOLEAN
  PROVE  ReplyOK(FlagReply(k, dg, b))
<1>1. Form(dg) \in {"txt", "bin", "none"}
  BY DEF Form
<1>. QED
  BY <1>1 DEF FlagReply, ReplyOK, NoReply, Forms

\* HandleStoreGet of a known file.
LEMMA StoreReplyOK ==
  ASSUME NEW f \in Files
  PROVE  ReplyOK([kind |-> "store", val |-> f])
BY DEF ReplyOK

\* HandleGet of a known file sends one or two stored values.
LEMMA SaveOfOK ==
  ASSUME BridgeTypeOK, NEW f \in Files
  PROVE  ReplyOK([kind |-> "get", val |-> SaveOf(f)])
<1>. DEFINE S == Vals \cup RconfigVals
<1>1. \A m \in Modules : params[m] \in S
  BY DEF BridgeTypeOK
<1>2. SaveOf(f) \in [1..1 -> S] \cup [1..2 -> S]
  <2>1. CASE f = "ARTNET"
    <3>1. {"ArtNetParams", "ArtNet4Params"} \subseteq Modules
      BY <2>1, ModulesOfArms DEF Modules
    <3>2. SaveOf(f) = <<params["ArtNetParams"], params["ArtNet4Params"]>>
      BY <2>1 DEF SaveOf
    <3>. QED
      BY <1>1, <3>1, <3>2
  <2>2. CASE f = "DEVICES"
    <3>1. {TLC, WS} \subseteq Modules
      BY <2>2, ModulesOfArms DEF Modules
    <3>2. SaveOf(f) = <<IF IsSetLedType(params[TLC]) THEN params[TLC] ELSE params[WS]>>
      BY <2>2 DEF SaveOf
    <3>. QED
      BY <1>1, <3>1, <3>2
  <2>3. CASE f # "ARTNET" /\ f # "DEVICES"
    <3>1. PICK m \in ModulesOf(f) : m = CHOOSE x \in ModulesOf(f) : TRUE
      BY ModulesOfFiles
    <3>2. m \in Modules
      BY ModulesOfFiles
    <3>3. SaveOf(f) = <<params[m]>>
      BY <2>3, <3>1 DEF SaveOf
    <3>. QED
      BY <1>1, <3>2, <3>3
  <2>. QED
    BY <2>1, <2>2, <2>3
<1>3. \E n \in 1..2 : SaveOf(f) \in [1..n -> S]
  BY <1>2
<1>. QED
  BY <1>3 DEF ReplyOK

(***************************************************************************)
(* The actions that send a reply and change no store.                      *)
(***************************************************************************)

LEMMA IInvParts == IInv <=> TftpOK /\ RestOK
BY DEF IInv, TypeOK, TftpOK, RestOK

\* A handler that only answers, after the file server's Run left s, keeps
\* the invariant whatever well-formed reply r it sends.
LEMMA AnswerIInv ==
  ASSUME IInv,
         NEW s \in Sessions \cup {NoSession}, s = NoSession <=> session = NoSession,
         NEW dg \in Datagrams \cup {NoDg}, NEW r, ReplyOK(r),
         Answer(dg, s, r)
  PROVE  IInv'
<1>1. /\ rx' = dg /\ reply' = r /\ session' = s /\ flashOp' = "none"
      /\ UNCHANGED <<flags, disabled, tftpOn, tftpAllocs, sleep, status, firmware,
                     params, handleMode, copyEnd>>
  BY DEF Answer, bridgeVars
<1>2. TftpOK'
  <2>1. TftpSessionUnique'
    BY <1>1 DEF IInv, TftpSessionUnique
  <2>2. FirmwareComplete' /\ firmware' \in Images /\ status' \in Statuses
    BY <1>1 DEF IInv, TypeOK, FirmwareComplete
  <2>3. tftpOn' \in BOOLEAN /\ sleep' \in BOOLEAN /\ tftpAllocs' \in Nat
    BY <1>1 DEF IInv, TypeOK
  <2>4. session' \in Sessions \cup {NoSession} /\ flashOp' \in FlashOps
    BY <1>1 DEF FlashOps
  <2>. QED
    BY <2>1, <2>2, <2>3, <2>4 DEF TftpOK
<1>3. RestOK'
  <2>1. BridgeTypeOK' /\ WriteLockHeld'
    BY <1>1 DEF IInv, TypeOK, BridgeTypeOK, WriteLockHeld
  <2>2. flags' \in RconfigFlags /\ disabled' \in BOOLEAN
    BY <1>1 DEF IInv, TypeOK
  <2>3. rx' \in Datagrams \cup {NoDg} /\ ReplyOK(reply')
    BY <1>1
  <2>. QED
    BY <2>1, <2>2, <2>3 DEF RestOK
<1>. QED
  BY <1>2, <1>3 DEF IInv, TypeOK, TftpOK, RestOK

\* HandleReboot and a power cycle: the node boots again from what is in
\* flash.
LEMMA RestartIInv ==
  ASSUME IInv, NEW dg \in Datagrams \cup {NoDg}, Restart(dg)
  PROVE  IInv'
<1>1. params[RC] \in RconfigFlags
  BY RCInModules, RconfigValsFlags DEF IInv, TypeOK, BridgeTypeOK, ValsOf
<1>2. /\ flags' = params[RC] /\ disabled' = params[RC].disable
      /\ tftpOn' = FALSE /\ session' = NoSession /\ tftpAllocs' = 0
      /\ sleep' = FALSE /\ status' = "none" /\ flashOp' = "none"
      /\ reply' = NoReply /\ handleMode' \in HandleModes /\ copyEnd' = 0
      /\ rx' = dg /\ UNCHANGED <<params, firmware>>
  BY DEF Restart
<1>3. TftpOK'
  BY <1>2 DEF TftpOK, IInv, TypeOK, TftpSessionUnique, FirmwareComplete,
              Statuses, FlashOps
<1>4. disabled' \in BOOLEAN
  BY <1>1, <1>2 DEF RconfigFlags
<1>5. BridgeTypeOK'
  BY <1>2 DEF IInv, TypeOK, BridgeTypeOK
<1>6. RestOK'
  BY <1>1, <1>2, <1>4, <1>5, NoReplyOK DEF RestOK, WriteLockHeld
<1>. QED
  BY <1>3, <1>6 DEF IInv, TypeOK, TftpOK, RestOK

(***************************************************************************)
(* File writes.                                                            *)
(***************************************************************************)

\* Run hands a datagram to HandleTxtFile only when writes are enabled, a
\* text file for '#' and a binary record for "!store#".
LEMMA FileHandlerHead ==
  ASSUME NEW dg
  PROVE  /\ Handler(dg) = "TxtFile" => dg.head = "#" /\ ~flags.disableWrite
         /\ Handler(dg) = "StoreFile" => dg.head = "!store#" /\ ~flags.disableWrite
<1>1. QueryHandler(dg, DgLen(dg)) \notin {"TxtFile", "StoreFile"}
  BY DEF QueryHandler
<1>2. /\ SetHandler(dg, DgLen(dg)) = "TxtFile" => dg.head = "#"
      /\ SetHandler(dg, DgLen(dg)) = "StoreFile" => dg.head = "!store#"
  BY DEF SetHandler
<1>. QED
  BY <1>1, <1>2 DEF Handler

\* Every store holds a value of its own type.
Typed(p) == p \in [Modules -> Vals \cup RconfigVals] /\ \A q \in Modules : p[q] \in ValsOf(q)

\* Load of one store keeps every store typed.
LEMMA TypedExcept ==
  ASSUME NEW p, Typed(p), NEW x \in Modules, NEW w \in ValsOf(x)
  PROVE  Typed([p EXCEPT ![x] = w])
BY DEF Typed, ValsOf

\* HandleTxtFile stores values of each module's type, given a body that
\* parses to a value of its file's type.
LEMMA HandleTxtFileTyped ==
  ASSUME BridgeTypeOK, NEW mode \in HandleModes, NEW f \in Files \cup {LAST},
         NEW size, NEW v, f # LAST => v \in FileVals(f),
         HandleTxtFile(mode, f, size, v)
  PROVE  BridgeTypeOK'
<1>0. f \in TxtFile => f \in Files /\ v \in FileVals(f)
  BY FilesAssumption DEF TxtFile, LAST
<1>1. Typed(params)
  BY DEF BridgeTypeOK, Typed
<1>7. Typed(params')
  <2>1. CASE f \in SingleFiles
    <3>1. ParamsClass[f] \in Modules /\ v \in ValsOf(ParamsClass[f])
      BY <2>1, <1>0, ModulesOfArms, ModulesOfFiles DEF LAST, SingleFiles
    <3>2. HandleTxtFileSingle(ParamsClass[f], mode, size, v)
      <4>1. f \notin MotorFiles /\ f # "ARTNET" /\ f # "DEVICES"
        BY <2>1 DEF SingleFiles
      <4>. QED
        BY <2>1, <4>1 DEF HandleTxtFile
    <3>. QED
      BY <1>1, <3>1, <3>2, TypedExcept DEF HandleTxtFileSingle
  <2>2. CASE f = "ARTNET"
    <3>1. "ArtNet4Params" \in Modules /\ v \in ValsOf("ArtNet4Params")
      BY <2>2, <1>0, ModulesOfArms, ModulesOfFiles DEF TxtFile
    <3>2. HandleTxtFileArtnet(mode, size, v)
      <4>1. f \notin SingleFiles /\ f \notin MotorFiles
        BY <2>2 DEF SingleFiles, MotorFiles
      <4>. QED
        BY <2>2, <4>1 DEF HandleTxtFile
    <3>. QED
      BY <1>1, <3>1, <3>2, TypedExcept DEF HandleTxtFileArtnet
  <2>3. CASE f = "DEVICES"
    <3>1. TLC \in Modules /\ WS \in Modules /\ v \in Vals
      BY <2>3, <1>0, ModulesOfArms DEF Modules, FileVals, TxtFile
    <3>2. ValsOf(TLC) = Vals /\ ValsOf(WS) = Vals
      BY DEF ValsOf, TLC, WS, RC
    <3>3. HandleTxtFileDevices(mode, size, v)
      <4>1. f \notin SingleFiles /\ f \notin MotorFiles
        BY <2>3 DEF SingleFiles, MotorFiles
      <4>. QED
        BY <2>3, <4>1 DEF HandleTxtFile
    <3>4. Typed([params EXCEPT ![TLC] = v])
      BY <1>1, <3>1, <3>2, TypedExcept
    <3>5. ASSUME NEW w \in Vals
          PROVE  Typed([[params EXCEPT ![TLC] = v] EXCEPT ![WS] = w])
      <4>1. w \in ValsOf(WS)
        BY <3>2
      <4>. QED
        BY <3>1, <3>4, <4>1, TypedExcept, Zenon
    <3>6. \/ params' = params
          \/ params' = [params EXCEPT ![TLC] = v]
          \/ \E w \in Vals : params' = [[params EXCEPT ![TLC] = v] EXCEPT ![WS] = w]
      BY <3>1, <3>3 DEF HandleTxtFileDevices
    <3>. QED
      BY <1>1, <3>4, <3>5, <3>6
  <2>4. CASE f \in MotorFiles
    <3>1. MotorOf[f] \in Modules /\ v \in ValsOf(MotorOf[f])
      BY <2>4, <1>0, ModulesOfArms, ModulesOfFiles DEF TxtFile, MotorFiles
    <3>2. HandleTxtFileMotor(MotorOf[f], mode, v)
      BY <2>4, <1>0 DEF HandleTxtFile, SingleFiles, MotorFiles
    <3>. QED
      BY <1>1, <3>1, <3>2, TypedExcept DEF HandleTxtFileMotor
  <2>5. CASE f = LAST
    <3>1. UNCHANGED params
      BY <2>5, <1>0 DEF HandleTxtFile, SingleFiles, MotorFiles, TxtFile, LAST
    <3>. QED
      BY <1>1, <3>1
  <2>6. f \in TxtFile \/ f = LAST
    BY FilesAssumption
  <2>. QED
    BY <2>1, <2>2, <2>3, <2>4, <2>5, <2>6, TxtFileKinds
<1>8. handleMode' \in HandleModes /\ copyEnd' \in Nat
  <2>1. f # LAST => NameLen[f] \in Nat
    BY FilesAssumption, MonitorNameLenAssumption DEF NameLen, TxtFile
  <2>. QED
    BY <2>1 DEF HandleTxtFile, BridgeTypeOK, STORE_LEN, BUFFER_SIZE
<1>. QED
  BY <1>7, <1>8 DEF BridgeTypeOK, Typed

\* A '#' or "!store#" datagram Run accepts keeps the invariant: it can only
\* arrive while writes are enabled, so the lock is not set when it changes
\* rconfig.txt.
LEMMA FileWriteIInv ==
  ASSUME IInv,
         NEW s \in Sessions \cup {NoSession}, s = NoSession <=> session = NoSession,
         NEW dg \in Datagrams, FileWrite(dg, s)
  PROVE  IInv'
<1>. DEFINE mode == IF Handler(dg) = "TxtFile" THEN "TXT" ELSE "BIN"
<1>1. dg.head \in {"#", "!store#"} /\ ~flags.disableWrite
  BY FileHandlerHead DEF FileWrite
<1>2. dg.file \in Files \cup {LAST} /\ (dg.file # LAST => dg.val \in FileVals(dg.file))
  BY <1>1, DatagramsAssumption DEF DgRecords
<1>3. HandleTxtFile(mode, dg.file, dg.size, dg.val)
  BY DEF FileWrite
<1>4. BridgeTypeOK'
  <2>1. mode \in HandleModes
    BY DEF HandleModes
  <2>2. BridgeTypeOK
    BY DEF IInv, TypeOK
  <2>. QED
    BY <1>2, <1>3, <2>1, <2>2, HandleTxtFileTyped
<1>5. /\ rx' = dg /\ reply' = NoReply /\ session' = s /\ flashOp' = "none"
      /\ UNCHANGED <<flags, disabled, tftpOn, tftpAllocs, sleep, status, firmware>>
  BY DEF FileWrite
<1>6. TftpOK'
  <2>1. TftpSessionUnique'
    BY <1>5 DEF IInv, TftpSessionUnique
  <2>2. FirmwareComplete' /\ firmware' \in Images /\ status' \in Statuses
    BY <1>5 DEF IInv, TypeOK, FirmwareComplete
  <2>3. tftpOn' \in BOOLEAN /\ sleep' \in BOOLEAN /\ tftpAllocs' \in Nat
    BY <1>5 DEF IInv, TypeOK
  <2>4. session' \in Sessions \cup {NoSession} /\ flashOp' \in FlashOps
    BY <1>5 DEF FlashOps
  <2>. QED
    BY <2>1, <2>2, <2>3, <2>4 DEF TftpOK
<1>7. RestOK'
  <2>1. WriteLockHeld'
    BY <1>1, <1>5 DEF WriteLockHeld
  <2>2. flags' \in RconfigFlags /\ disabled' \in BOOLEAN
    BY <1>5 DEF IInv, TypeOK
  <2>3. rx' \in Datagrams \cup {NoDg} /\ ReplyOK(reply')
    BY <1>5, NoReplyOK
  <2>. QED
    BY <1>4, <2>1, <2>2, <2>3 DEF RestOK
<1>. QED
  BY <1>6, <1>7 DEF IInv, TypeOK, TftpOK, RestOK

(***************************************************************************)
(* The remaining actions.                                                  *)
(***************************************************************************)

\* "!display#": only the display's sleep state changes.
LEMMA DisplaySetIInv ==
  ASSUME IInv,
         NEW s \in Sessions \cup {NoSession}, s = NoSession <=> session = NoSession,
         NEW dg \in Datagrams, HandleDisplaySet(dg, s)
  PROVE  IInv'
<1>1. /\ rx' = dg /\ reply' = NoReply /\ session' = s /\ flashOp' = "none"
      /\ UNCHANGED <<flags, disabled, tftpOn, tftpAllocs, status, firmware,
                     params, handleMode, copyEnd>>
  BY DEF HandleDisplaySet, bridgeVars
<1>2. sleep' \in BOOLEAN
  BY DEF HandleDisplaySet
<1>3. TftpOK'
  BY <1>1, <1>2 DEF IInv, TypeOK, TftpOK, TftpSessionUnique, FirmwareComplete, FlashOps
<1>4. RestOK'
  BY <1>1, NoReplyOK DEF IInv, TypeOK, RestOK, BridgeTypeOK, WriteLockHeld
<1>. QED
  BY <1>3, <1>4 DEF IInv, TypeOK, TftpOK, RestOK

\* HandleTftpSet leaves the flags, the stores and the listener state alone.
LEMMA TftpSetRestOK ==
  ASSUME RestOK, NEW dg \in Datagrams \cup {NoDg},
         rx' = dg, reply' = NoReply, UNCHANGED <<flags, disabled, bridgeVars>>
  PROVE  RestOK'
BY NoReplyOK DEF RestOK, BridgeTypeOK, WriteLockHeld, bridgeVars

\* "!tftp#" with one byte after it.
LEMMA TftpSetCmdIInv ==
  ASSUME IInv,
         NEW s \in Sessions \cup {NoSession}, s = NoSession <=> session = NoSession,
         NEW dg \in Datagrams, HandleTftpSetCmd(dg, s)
  PROVE  IInv'
<1>1. TftpOK /\ RestOK
  BY IInvParts
<1>2. TftpOK'
  BY <1>1, TftpSetTftpOK DEF HandleTftpSetCmd
<1>3. RestOK'
  BY <1>1, TftpSetRestOK DEF HandleTftpSetCmd
<1>. QED
  BY <1>2, <1>3 DEF IInv, TypeOK, TftpOK, RestOK

\* TftpExit, on the server as it stands.
LEMMA TftpExitIInv ==
  ASSUME IInv, TftpExit
  PROVE  IInv'
<1>1. TftpOK /\ RestOK
  BY IInvParts
<1>2. TftpOK'
  BY <1>1, TftpSetTftpOK DEF TftpExit, TftpOK
<1>3. RestOK'
  BY <1>1, TftpSetRestOK DEF TftpExit
<1>. QED
  BY <1>2, <1>3 DEF IInv, TypeOK, TftpOK, RestOK

\* SetDisable.
LEMMA SetDisableIInv ==
  ASSUME IInv, NEW b \in BOOLEAN, SetDisable(b)
  PROVE  IInv'
BY DEF IInv, SetDisable, TypeOK, BridgeTypeOK, bridgeVars, TftpSessionUnique,
       FirmwareComplete, WriteLockHeld

(***************************************************************************)
(* RemoteConfig::Run and the next-state relation.                          *)
(***************************************************************************)

\* One datagram handled after the file server's Run left s.
LEMMA ReceiveIInv ==
  ASSUME IInv,
         NEW s \in Sessions \cup {NoSession}, s = NoSession <=> session = NoSession,
         NEW dg \in Datagrams, Receive(dg, s)
  PROVE  IInv'
<1>1. dg \in Datagrams \cup {NoDg} /\ dg.file \in Files \cup {LAST}
  BY DatagramsAssumption DEF DgRecords
<1>2. sleep \in BOOLEAN /\ tftpOn \in BOOLEAN /\ BridgeTypeOK
  BY DEF IInv, TypeOK
<1>3. CASE Ignore(dg, s)
  BY <1>1, <1>3, NoReplyOK, AnswerIInv DEF Ignore
<1>4. CASE HandleReboot(dg)
  BY <1>1, <1>4, RestartIInv DEF HandleReboot
<1>5. CASE HandleUptime(dg, s) \/ HandleVersion(dg, s) \/ HandleList(dg, s)
  <2>1. \E k \in {"uptime", "version", "list"} : Answer(dg, s, FormReply(k, dg))
    BY <1>5 DEF HandleUptime, HandleVersion, HandleList
  <2>. QED
    BY <1>1, <2>1, FormReplyOK, AnswerIInv
<1>6. CASE HandleDisplayGet(dg, s) \/ HandleTftpGet(dg, s)
  <2>1. \E k \in {"display", "tftp"}, b \in BOOLEAN : Answer(dg, s, FlagReply(k, dg, b))
    BY <1>2, <1>6 DEF HandleDisplayGet, HandleTftpGet
  <2>. QED
    BY <1>1, <2>1, FlagReplyOK, AnswerIInv
<1>7. CASE HandleGet(dg, s)
  <2>1. ReplyOK(IF dg.file = LAST THEN ErrReply("?get#ERROR#\n")
                ELSE [kind |-> "get", val |-> SaveOf(dg.file)])
    BY <1>1, <1>2, SaveOfOK, ErrReplyOK DEF ErrLiteralLen
  <2>. QED
    BY <1>1, <1>7, <2>1, AnswerIInv DEF HandleGet
<1>8. CASE HandleStoreGet(dg, s)
  <2>1. ReplyOK(IF dg.file = LAST THEN ErrReply("?store#ERROR#\n")
                ELSE [kind |-> "store", val |-> dg.file])
    BY <1>1, StoreReplyOK, ErrReplyOK DEF ErrLiteralLen
  <2>. QED
    BY <1>1, <1>8, <2>1, AnswerIInv DEF HandleStoreGet
<1>9. CASE QueryError(dg, s) \/ SetError(dg, s)
  <2>1. \E e \in DOMAIN ErrLiteralLen : Answer(dg, s, ErrReply(e))
    BY <1>9 DEF QueryError, SetError, ErrLiteralLen
  <2>. QED
    BY <1>1, <2>1, ErrReplyOK, AnswerIInv
<1>10. CASE FileWrite(dg, s)
  BY <1>10, FileWriteIInv
<1>11. CASE HandleDisplaySet(dg, s)
  BY <1>11, DisplaySetIInv
<1>12. CASE HandleTftpSetCmd(dg, s)
  BY <1>12, TftpSetCmdIInv
<1>. QED
  BY <1>3, <1>4, <1>5, <1>6, <1>7, <1>8, <1>9, <1>10, <1>11, <1>12 DEF Receive

\* RemoteConfig::Run.
LEMMA RunIInv ==
  ASSUME IInv, Run
  PROVE  IInv'
<1>1. PICK s \in ServerRun(session) : Idle(s) \/ \E dg \in Datagrams : Receive(dg, s)
  BY DEF Run
<1>2. s \in Sessions \cup {NoSession} /\ (s = NoSession <=> session = NoSession)
  BY ServerRunSession DEF IInv, TypeOK
<1>3. CASE Idle(s)
  BY <1>2, <1>3, NoReplyOK, AnswerIInv DEF Idle
<1>4. CASE \E dg \in Datagrams : Receive(dg, s)
  BY <1>2, <1>4, ReceiveIInv
<1>. QED
  BY <1>1, <1>3, <1>4

\* Every step of the main loop, a shutdown, a SetDisable or a power cycle
\* keeps the inductive invariant.
LEMMA NextIInv == IInv /\ [Next]_vars => IInv'
<1>. SUFFICES ASSUME IInv, [Next]_vars PROVE IInv'
  OBVIOUS
<1>1. CASE Run
  BY <1>1, RunIInv
<1>2. CASE TftpExit
  BY <1>2, TftpExitIInv
<1>3. CASE \E b \in BOOLEAN : SetDisable(b)
  BY <1>3, SetDisableIInv
<1>4. CASE PowerCycle
  BY <1>4, RestartIInv DEF PowerCycle
<1>5. CASE UNCHANGED vars
  BY <1>5 DEF vars, IInv, TypeOK, BridgeTypeOK, TftpSessionUnique,
              FirmwareComplete, WriteLockHeld
<1>. QED
  BY <1>1, <1>2, <1>3, <1>4, <1>5 DEF Next

(***************************************************************************)
(* Theorems.                                                               *)
(***************************************************************************)

\* IInv holds in every reachable state.
THEOREM IInvInvariant == Spec => []IInv
BY InitIInv, NextIInv, PTL DEF Spec

\* Every variable keeps its type: in particular the TFTP allocation count
\* never goes negative, a reply is always one Run, HandleGet or
\* HandleStoreGet can send, and every parameter store holds a value of its
\* own type, whatever file writes arrive.
THEOREM TypeCorrect == Spec => []TypeOK
BY IInvInvariant, PTL DEF IInv

\* HandleTftpSet and TftpExit: at most one TFTP server exists, exactly while
\* m_bEnableTFTP is set, for any order of "!tftp#1", "!tftp#0", TftpExit and
\* restarts.
THEOREM TftpSessionsSafe == Spec => []TftpSessionUnique
BY IInvInvariant, PTL DEF IInv

\* HandleTftpSet writes only a finished image to flash.
THEOREM FirmwareSafe == Spec => []FirmwareComplete
BY IInvInvariant, PTL DEF IInv

\* No step but a restart changes the flags, and a restart reloads them from
\* the stored rconfig.txt.
LEMMA NextFlags == [Next]_vars => flags' = flags \/ flags' = params[RC]
<1>. SUFFICES ASSUME [Next]_vars PROVE flags' = flags \/ flags' = params[RC]
  OBVIOUS
<1>1. ASSUME NEW s, NEW dg, Receive(dg, s)
      PROVE  flags' = flags \/ flags' = params[RC]
  <2>1. CASE HandleReboot(dg)
    BY <2>1 DEF HandleReboot, Restart
  <2>2. CASE ~HandleReboot(dg)
    BY <1>1, <2>2 DEF Receive, Ignore, HandleUptime, HandleVersion, HandleList,
       HandleGet, HandleStoreGet, HandleDisplayGet, HandleTftpGet, QueryError,
       SetError, FileWrite, HandleDisplaySet, HandleTftpSetCmd, Answer
  <2>. QED
    BY <2>1, <2>2
<1>2. CASE Run
  BY <1>1, <1>2 DEF Run, Idle, Answer
<1>. QED
  BY <1>2 DEF Next, TftpExit, SetDisable, PowerCycle, Restart, vars

\* HandleReboot, a power cycle, and any remote command: once m_bDisableWrite
\* is set it stays set.  The write lock is reloaded at boot from the stored
\* rconfig.txt, and Run refuses every '#' and "!store#" write while it is
\* set, so no datagram can rewrite that file to lift it.
THEOREM LockPersistent == Spec => LockPersists
<1>1. IInv /\ [Next]_vars => (flags.disableWrite => flags'.disableWrite)
  BY NextFlags DEF IInv, WriteLockHeld
<1>. QED
  BY <1>1, IInvInvariant, PTL DEF Spec, LockPersists


(***************************************************************************)
(* Text writes read back.  TextReadsBack needs no strengthening beyond    *)
(* the store types: a '#' write to a file of the build sets the block     *)
(* HandleGet reads last, and every other step either handles a datagram   *)
(* Run does not give to HandleTxtFile as text, under the same flags or    *)
(* (HandleReboot) under the reloaded ones, or handles none.               *)
(***************************************************************************)

\* NoDg, the marker of a step that handled no datagram, is not a datagram.
LEMMA NoDgNotDatagram == NoDg \notin Datagrams
<1>1. NoDg \notin DgRecords
  BY DEF NoDg, DgRecords
<1>. QED
  BY <1>1, DatagramsAssumption

\* HandleTxtFile in text mode on a file of the build: the last text
\* HandleGet sends for that file is the value written.
LEMMA TxtWriteReadsBack ==
  ASSUME BridgeTypeOK, NEW f \in Files, NEW size, NEW v,
         HandleTxtFile("TXT", f, size, v)
  PROVE  ReadsAs(f, v)'
<1>0. f \in TxtFile
  BY FilesAssumption
<1>1. params \in [Modules -> Vals \cup RconfigVals]
  BY DEF BridgeTypeOK
<1>2. CASE f \in SingleFiles
  <2>1. ParamsClass[f] \in Modules /\ ModulesOf(f) = {ParamsClass[f]}
    BY <1>2, ModulesOfArms, ModulesOfFiles
  <2>2. f \notin MotorFiles /\ f # "ARTNET" /\ f # "DEVICES"
    BY <1>2 DEF SingleFiles
  <2>3. params' = [params EXCEPT ![ParamsClass[f]] = v]
    BY <1>2, <2>2 DEF HandleTxtFile, HandleTxtFileSingle
  <2>4. (CHOOSE m \in ModulesOf(f) : TRUE) = ParamsClass[f]
    BY <2>1, Zenon
  <2>. QED
    BY <1>1, <2>1, <2>2, <2>3, <2>4 DEF SaveOf, ReadsAs
<1>3. CASE f = "ARTNET"
  <2>1. "ArtNet4Params" \in Modules
    BY <1>3, ModulesOfArms, ModulesOfFiles
  <2>2. f \notin SingleFiles /\ f \notin MotorFiles
    BY <1>3 DEF SingleFiles, MotorFiles
  <2>3. params' = [params EXCEPT !["ArtNet4Params"] = v]
    BY <1>3, <2>2 DEF HandleTxtFile, HandleTxtFileArtnet
  <2>. QED
    BY <1>1, <1>3, <2>1, <2>3 DEF SaveOf, ReadsAs
<1>4. CASE f = "DEVICES"
  <2>1. TLC \in Modules /\ WS \in Modules /\ TLC # WS
    BY <1>4, ModulesOfArms, ModulesOfFiles DEF TLC, WS
  <2>2. f \notin SingleFiles /\ f \notin MotorFiles
    BY <1>4 DEF SingleFiles, MotorFiles
  <2>3. HandleTxtFileDevices("TXT", size, v)
    BY <1>4, <2>2 DEF HandleTxtFile
  <2>4. CASE IsSetLedType(v)
    <3>1. params' = [params EXCEPT ![TLC] = v]
      BY <2>3, <2>4 DEF HandleTxtFileDevices
    <3>. QED
      BY <1>1, <1>4, <2>1, <2>4, <3>1 DEF SaveOf, ReadsAs
  <2>5. CASE ~IsSetLedType(v)
    <3>1. params' = [[params EXCEPT ![TLC] = v] EXCEPT ![WS] = v]
      BY <2>3, <2>5 DEF HandleTxtFileDevices
    <3>2. params'[TLC] = v /\ params'[WS] = v
      BY <1>1, <2>1, <3>1
    <3>. QED
      BY <1>4, <2>5, <3>2 DEF SaveOf, ReadsAs
  <2>. QED
    BY <2>4, <2>5
<1>5. CASE f \in MotorFiles
  <2>1. MotorOf[f] \in Modules /\ ModulesOf(f) = {MotorOf[f]}
    BY <1>5, ModulesOfArms, ModulesOfFiles
  <2>2. f \notin SingleFiles /\ f # "ARTNET" /\ f # "DEVICES"
    BY <1>5 DEF SingleFiles, MotorFiles
  <2>3. params' = [params EXCEPT ![MotorOf[f]] = v]
    BY <1>5, <2>2 DEF HandleTxtFile, HandleTxtFileMotor
  <2>4. (CHOOSE m \in ModulesOf(f) : TRUE) = MotorOf[f]
    BY <2>1, Zenon
  <2>. QED
    BY <1>1, <2>1, <2>2, <2>3, <2>4 DEF SaveOf, ReadsAs
<1>. QED
  BY <1>0, <1>2, <1>3, <1>4, <1>5, TxtFileKinds

\* A step that hands Run's handler chooser a datagram under unchanged flags
\* and does not take it as a text file write leaves no text write to read.
LEMMA NotTxtReadsBack ==
  ASSUME NEW dg, rx' = dg, flags' = flags, Handler(dg) # "TxtFile"
  PROVE  TextReadsBack'
BY DEF TextReadsBack, Handler, QueryHandler, SetHandler

\* After HandleReboot the flags are reloaded, but the datagram is still a
\* '?' query, which no flags make a text file write.
LEMMA QueryReadsBack ==
  ASSUME NEW dg, rx' = dg, dg.head \in QueryHeads
  PROVE  TextReadsBack'
BY DEF TextReadsBack, Handler, QueryHandler

\* A '#' or "!store#" datagram: in text mode the write reads back.
LEMMA FileWriteReadsBack ==
  ASSUME IInv, NEW s, NEW dg \in Datagrams, FileWrite(dg, s)
  PROVE  TextReadsBack'
<1>1. rx' = dg /\ flags' = flags
  BY DEF FileWrite
<1>2. CASE Handler(dg) # "TxtFile"
  BY <1>1, <1>2, NotTxtReadsBack
<1>3. CASE Handler(dg) = "TxtFile"
  <2>1. HandleTxtFile("TXT", dg.file, dg.size, dg.val)
    BY <1>3 DEF FileWrite
  <2>2. dg.file \in Files \cup {LAST}
    BY DatagramsAssumption DEF DgRecords
  <2>3. dg.file # LAST => ReadsAs(dg.file, dg.val)'
    BY <2>1, <2>2, TxtWriteReadsBack DEF IInv, TypeOK
  <2>. QED
    BY <1>1, <2>3 DEF TextReadsBack, Handler, QueryHandler, SetHandler
<1>. QED
  BY <1>2, <1>3

\* Every step keeps TextReadsBack, given the invariant's store types: a
\* SetDisable or a stutter leaves the datagram, the flags and the stores.
LEMMA NextReadsBack == IInv /\ TextReadsBack /\ [Next]_vars => TextReadsBack'
<1>. SUFFICES ASSUME IInv, TextReadsBack, [Next]_vars PROVE TextReadsBack'
  OBVIOUS
<1>0. ASSUME rx' = NoDg PROVE TextReadsBack'
  BY <1>0, NoDgNotDatagram DEF TextReadsBack
<1>1. ASSUME NEW s, NEW dg \in Datagrams, Receive(dg, s)
      PROVE  TextReadsBack'
  <2>1. CASE FileWrite(dg, s)
    BY <2>1, FileWriteReadsBack
  <2>2. CASE HandleReboot(dg)
    <3>1. dg.head \in QueryHeads
      BY <2>2 DEF HandleReboot, Handler, QueryHandler, SetHandler
    <3>. QED
      BY <2>2, <3>1, QueryReadsBack DEF HandleReboot, Restart
  <2>3. CASE ~FileWrite(dg, s) /\ ~HandleReboot(dg)
    <3>1. rx' = dg /\ flags' = flags /\ Handler(dg) # "TxtFile"
      BY <1>1, <2>3 DEF Receive, Ignore, HandleUptime, HandleVersion, HandleList,
         HandleGet, HandleStoreGet, HandleDisplayGet, HandleTftpGet, QueryError,
         SetError, HandleDisplaySet, HandleTftpSetCmd, Answer
    <3>. QED
      BY <3>1, NotTxtReadsBack
  <2>. QED
    BY <2>1, <2>2, <2>3
<1>2. CASE Run
  BY <1>0, <1>1, <1>2 DEF Run, Idle, Answer
<1>3. CASE TftpExit \/ PowerCycle
  BY <1>0, <1>3 DEF TftpExit, PowerCycle, Restart
<1>4. CASE (\E b \in BOOLEAN : SetDisable(b)) \/ UNCHANGED vars
  BY <1>4 DEF SetDisable, vars, bridgeVars, TextReadsBack, ReadsAs, SaveOf,
     Handler, QueryHandler, SetHandler
<1>. QED
  BY <1>2, <1>3, <1>4 DEF Next

\* HandleTxtFile and HandleGet, with any order of file writes, queries,
\* TFTP commands, shutdowns and restarts, in every build: right after Run
\* handled a '#' text write of a known file, "?get#" of that file returns
\* the value written.
THEOREM TextAlwaysReadsBack == Spec => []TextReadsBack
<1>1. Init => IInv /\ TextReadsBack
  BY InitIInv, NoDgNotDatagram DEF Init, TextReadsBack
<1>2. IInv /\ TextReadsBack /\ [Next]_vars => (IInv /\ TextReadsBack)'
  BY NextIInv, NextReadsBack
<1>. QED
  BY <1>1, <1>2, PTL DEF Spec

(***************************************************************************)
(* The write gate.  WriteGate needs one more invariant, LockedIdle: while *)
(* writes are locked no TFTP server exists.  Otherwise a datagram Run      *)
(* ignores could still arrive in the same Run as a block the file server  *)
(* takes, and the session would change under the gate.                    *)
(***************************************************************************)

\* While m_bDisableWrite is set there is no TFTP file server: only
\* "!tftp#1", which the lock refuses, creates one, and a restart that sets
\* the lock deletes it.
LockedIdle == flags.disableWrite => session = NoSession

\* Run's chooser under the lock: anything but a '?' query is ignored.
LEMMA LockedIgnores ==
  ASSUME NEW dg, flags.disableWrite, dg.head \notin QueryHeads
  PROVE  Handler(dg) = "Ignore"
BY DEF Handler

\* The file server of a locked node stays absent through its Run.
LEMMA LockedServerRun ==
  ASSUME LockedIdle, flags.disableWrite, NEW s \in ServerRun(session)
  PROVE  s = session
BY DEF LockedIdle, ServerRun

\* Every step keeps LockedIdle.
LEMMA NextLockedIdle == IInv /\ LockedIdle /\ [Next]_vars => LockedIdle'
<1>. SUFFICES ASSUME IInv, LockedIdle, [Next]_vars PROVE LockedIdle'
  OBVIOUS
<1>1. ASSUME NEW s \in ServerRun(session), NEW dg \in Datagrams, Receive(dg, s)
      PROVE  LockedIdle'
  <2>1. CASE HandleReboot(dg)
    BY <2>1 DEF HandleReboot, Restart, LockedIdle
  <2>2. CASE HandleTftpSetCmd(dg, s)
    <3>1. ~flags.disableWrite /\ flags' = flags
      BY <2>2 DEF HandleTftpSetCmd, Handler, QueryHandler
    <3>. QED
      BY <3>1 DEF LockedIdle
  <2>3. CASE ~HandleReboot(dg) /\ ~HandleTftpSetCmd(dg, s)
    <3>1. flags' = flags /\ session' = s
      BY <1>1, <2>3 DEF Receive, Ignore, HandleUptime, HandleVersion, HandleList,
         HandleGet, HandleStoreGet, HandleDisplayGet, HandleTftpGet, QueryError,
         SetError, FileWrite, HandleDisplaySet, Answer
    <3>. QED
      BY <3>1, LockedServerRun DEF LockedIdle
  <2>. QED
    BY <2>1, <2>2, <2>3
<1>2. CASE Run
  <2>1. PICK s \in ServerRun(session) : Idle(s) \/ \E dg \in Datagrams : Receive(dg, s)
    BY <1>2 DEF Run
  <2>2. CASE Idle(s)
    BY <2>2, LockedServerRun DEF Idle, Answer, LockedIdle
  <2>. QED
    BY <1>1, <2>1, <2>2
<1>3. CASE TftpExit
  BY <1>3 DEF TftpExit, HandleTftpSet, LockedIdle
<1>4. CASE PowerCycle
  BY <1>4 DEF PowerCycle, Restart, LockedIdle
<1>5. CASE (\E b \in BOOLEAN : SetDisable(b)) \/ UNCHANGED vars
  BY <1>5 DEF SetDisable, vars, LockedIdle
<1>. QED
  BY <1>2, <1>3, <1>4, <1>5 DEF Next

\* The step form of WriteGate: under the lock, a step that handled a
\* datagram other than a '?' query changed none of the guarded state.
LEMMA StepWriteGate ==
  ASSUME IInv, LockedIdle, [Next]_vars
  PROVE  [ (rx' \in Datagrams /\ rx'.head \notin QueryHeads /\ flags.disableWrite)
             => UNCHANGED <<params, sleep, tftpOn, session, tftpAllocs, firmware>> ]_vars
<1>. SUFFICES ASSUME rx' \in Datagrams, rx'.head \notin QueryHeads, flags.disableWrite
              PROVE  UNCHANGED <<params, sleep, tftpOn, session, tftpAllocs, firmware>>
  OBVIOUS
<1>1. ASSUME NEW s \in ServerRun(session), NEW dg \in Datagrams, Receive(dg, s)
      PROVE  UNCHANGED <<params, sleep, tftpOn, session, tftpAllocs, firmware>>
  <2>1. rx' = dg
    BY <1>1 DEF Receive, Ignore, HandleReboot, Restart, HandleUptime, HandleVersion,
       HandleList, HandleGet, HandleStoreGet, HandleDisplayGet, HandleTftpGet,
       QueryError, SetError, FileWrite, HandleDisplaySet, HandleTftpSetCmd, Answer
  <2>2. Handler(dg) = "Ignore"
    BY <2>1, LockedIgnores
  <2>3. Ignore(dg, s)
    BY <1>1, <2>2 DEF Receive, HandleReboot, HandleUptime, HandleVersion,
       HandleList, HandleGet, HandleStoreGet, HandleDisplayGet, HandleTftpGet,
       QueryError, SetError, FileWrite, HandleDisplaySet, HandleTftpSetCmd
  <2>4. s = session
    BY LockedServerRun
  <2>. QED
    BY <2>3, <2>4 DEF Ignore, Answer, bridgeVars
<1>2. CASE Run
  <2>1. PICK s \in ServerRun(session) : Idle(s) \/ \E dg \in Datagrams : Receive(dg, s)
    BY <1>2 DEF Run
  <2>2. ~Idle(s)
    BY NoDgNotDatagram DEF Idle, Answer
  <2>. QED
    BY <1>1, <2>1, <2>2
<1>3. ~TftpExit /\ ~PowerCycle
  BY NoDgNotDatagram DEF TftpExit, PowerCycle, Restart
<1>4. CASE (\E b \in BOOLEAN : SetDisable(b)) \/ UNCHANGED vars
  BY <1>4 DEF SetDisable, vars, bridgeVars
<1>. QED
  BY <1>2, <1>3, <1>4 DEF Next

\* Run with m_bDisableWrite set, for every file table and every datagram
\* the network delivers, across restarts: a datagram that is not a '?'
\* query changes no parameter store, no display, no TFTP state and no
\* firmware.
THEOREM WriteGated == Spec => WriteGate
<1>1. Init => IInv /\ LockedIdle
  BY InitIInv DEF Init, VolatileInit, LockedIdle
<1>2. IInv /\ LockedIdle /\ [Next]_vars => (IInv /\ LockedIdle)'
  BY NextIInv, NextLockedIdle
<1>3. IInv /\ LockedIdle /\ [Next]_vars =>
        [ (rx' \in Datagrams /\ rx'.head \notin QueryHeads /\ flags.disableWrite)
            => UNCHANGED <<params, sleep, tftpOn, session, tftpAllocs, firmware>> ]_vars
  BY StepWriteGate
<1>. QED
  BY <1>1, <1>2, <1>3, PTL DEF Spec, WriteGate

=============================================================================
