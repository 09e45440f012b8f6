------------------------- MODULE OtaUpgrade_proofs -------------------------
(***************************************************************************)
(* Proofs about the firmware upgrade, for every set of files and sizes,    *)
(* with or without lost frames, failed allocations, restarts of the MCU    *)
(* and a caller of ota_start that is held up between its steps.            *)
(***************************************************************************)
EXTENDS OtaUpgrade, TLAPS

\* What travels, and whether the receive thread is about to send.
McuFrames == [cmd : {"START"}, len : Nat]
               \cup [cmd : {"TRANS"}, file : Files, off : Nat, len : Nat]
HostFrames == [cmd : {"START"}, ok : {TRUE}, size : PackageSizes]
                \cup [cmd : {"TRANS"}, ok : {TRUE}]
                \cup [cmd : {"START", "TRANS"}, ok : {FALSE}]
Sending == IF rx = "send" THEN 1 ELSE 0
Underway == Len(toMcu) + Len(toHost) + Sending

WireOK == toMcu \in Seq(McuFrames) /\ toHost \in Seq(HostFrames)

\* What carries StopAndWait over a step: outside an upgrade nothing is under
\* way, except between the send in ota_start and the assignment that follows it.
TurnInv ==
    /\ Underway <= 1
    /\ caller \notin {"state"} /\ ~InProgress => Underway = 0
    /\ caller = "send" => ~InProgress

\* The buffer holds the file that g_fw_len speaks of.
Loaded == g_fw_buf \in Files /\ g_fw_len = FileSize[g_fw_buf]

\* What carries PacketFromImage: an upgrade that anything of it is left of has
\* its file loaded, as ota_start changes the file only when nothing is.
ImageInv ==
    /\ caller # "idle" \/ InProgress \/ Underway = 1 => Loaded
    /\ PacketFromImage

OtaInd == TypeOK /\ WireOK /\ TurnInv /\ ImageInv

-----------------------------------------------------------------------------

LEMMA PacketSizes ==
  ASSUME NEW size \in PackageSizes
  PROVE  size \in {256, 512, 1024}
  BY OtaAssumption

LEMMA Sizes == FileSize \in [Files -> Nat] /\ NoFile \notin Files
  BY OtaAssumption

LEMMA InitOtaInd == Init => OtaInd
<1> SUFFICES ASSUME Init PROVE OtaInd
  OBVIOUS
<1>1. TypeOK
  <2>1. PICK size \in PackageSizes : mcu = McuInit(size)
    BY DEF Init
  <2>2. mcu \in McuStates
    BY <2>1 DEF McuInit, McuStates
  <2>3. QED
    BY <2>2 DEF Init, TypeOK, States
<1>2. toMcu = << >> /\ toHost = << >> /\ Len(toMcu) = 0 /\ Len(toHost) = 0 /\ Underway = 0
  BY DEF Init, Underway, Sending
<1>3. WireOK /\ PacketFromImage
  BY <1>2 DEF WireOK, PacketFromImage
<1>4. QED
  BY <1>1, <1>2, <1>3 DEF OtaInd, TurnInv, ImageInv, Init, InProgress

-----------------------------------------------------------------------------
(* Types                                                                   *)

LEMMA McuFrameFields ==
  ASSUME NEW frame \in McuFrames
  PROVE  /\ frame.cmd \in {"START", "TRANS"} /\ frame.len \in Nat
         /\ frame.cmd = "TRANS" => frame.file \in Files /\ frame.off \in Nat
<1>1. CASE frame \in [cmd : {"START"}, len : Nat]
  BY <1>1
<1>2. CASE frame \in [cmd : {"TRANS"}, file : Files, off : Nat, len : Nat]
  BY <1>2
<1>3. QED
  BY <1>1, <1>2 DEF McuFrames

LEMMA HostFrameFields ==
  ASSUME NEW frame \in HostFrames
  PROVE  frame.cmd = "START" /\ frame.ok => frame.size \in PackageSizes
<1>1. CASE frame \in [cmd : {"START"}, ok : {TRUE}, size : PackageSizes]
  BY <1>1
<1>2. CASE frame \in [cmd : {"TRANS"}, ok : {TRUE}]
  BY <1>2
<1>3. CASE frame \in [cmd : {"START", "TRANS"}, ok : {FALSE}]
  BY <1>3
<1>4. QED
  BY <1>1, <1>2, <1>3 DEF HostFrames

\* The frame that the MCU, or the receive thread, takes next.
LEMMA HeadOfWire ==
  ASSUME WireOK
  PROVE  /\ toMcu # << >> => Head(toMcu) \in McuFrames
         /\ toHost # << >> => Head(toHost) \in HostFrames
  BY DEF WireOK

LEMMA ChunkIsNat == TypeOK => ChunkLen \in Nat
<1> SUFFICES ASSUME TypeOK PROVE ChunkLen \in Nat
  OBVIOUS
<1>1. g_current_offset \in Nat /\ g_fw_len \in Nat /\ g_packet_size \in Nat
  BY DEF TypeOK
<1>2. QED
  BY <1>1 DEF ChunkLen

\* What the MCU's writes leave behind.
LEMMA McuClears ==
  ASSUME NEW st \in McuStates
  PROVE  [st EXCEPT !.flag = FALSE] \in McuStates
  BY DEF McuStates

LEMMA McuBegins ==
  ASSUME NEW st \in McuStates, NEW length \in Nat
  PROVE  [st EXCEPT !.flag = TRUE, !.length = length, !.prefix = 0, !.files = {}] \in McuStates
  BY DEF McuStates

LEMMA StepTypeOK == TypeOK /\ WireOK /\ [Next]_vars => TypeOK'
<1> SUFFICES ASSUME TypeOK, WireOK, [Next]_vars PROVE TypeOK'
  OBVIOUS
<1>1. ASSUME NEW f \in Files, OtaStartTooLarge(f) \/ OtaStartNoMemory(f) \/ OtaStartLoad(f)
      PROVE  TypeOK'
  <2>1. FileSize[f] \in Nat
    BY Sizes
  <2>2. /\ g_fw_len' \in Nat /\ g_fw_buf' \in Files \cup {NoFile}
        /\ caller' \in {"idle", "send", "state", "offset"}
    BY <1>1, <2>1 DEF OtaStartTooLarge, OtaStartNoMemory, OtaStartLoad, TypeOK
  <2>3. UNCHANGED <<g_state, g_packet_size, g_current_offset, rx, mcu>>
    BY <1>1 DEF OtaStartTooLarge, OtaStartNoMemory, OtaStartLoad
  <2>4. QED
    BY <2>2, <2>3 DEF TypeOK
<1>2. CASE CallerStep
  BY <1>2 DEF CallerStep, OtaStartSend, OtaStartSetState, OtaStartResetOffset,
              TypeOK, States, hostVars
<1>3. CASE RxStartReply
  <2>1. PICK size \in PackageSizes : size = Head(toHost).size
    BY <1>3, HeadOfWire, HostFrameFields DEF RxStartReply, Receive
  <2>2. size \in {256, 512, 1024}
    BY PacketSizes
  <2>3. QED
    BY <1>3, <2>1, <2>2 DEF RxStartReply, TypeOK, States
<1>4. CASE RxTransReply
  <2>1. g_current_offset' \in Nat
    BY <1>4, ChunkIsNat DEF RxTransReply, TypeOK
  <2>2. rx' = "send" /\ UNCHANGED <<g_state, g_packet_size, g_fw_len, g_fw_buf, caller, mcu>>
    BY <1>4 DEF RxTransReply
  <2>3. QED
    BY <2>1, <2>2 DEF TypeOK
<1>5. CASE RxIgnore \/ RxErrorReply \/ RxFinish \/ RxSendPacket \/ RxNoMemory
  BY <1>5 DEF RxIgnore, RxErrorReply, RxFinish, RxSendPacket, RxNoMemory,
              TypeOK, States, hostVars
<1>6. CASE McuStart
  <2>1. PICK length \in Nat : length = Head(toMcu).len
    BY <1>6, HeadOfWire, McuFrameFields DEF McuStart, McuTakes
  <2>2. mcu' \in McuStates
    <3>1. mcu' = [mcu EXCEPT !.flag = TRUE, !.length = length, !.prefix = 0, !.files = {}]
      BY <1>6, <2>1 DEF McuStart
    <3>2. mcu \in McuStates
      BY DEF TypeOK
    <3>3. QED
      BY <3>1, <3>2, McuBegins
  <2>3. QED
    BY <1>6, <2>2 DEF McuStart, TypeOK, hostVars
<1>7. CASE McuTrans
  <2> DEFINE frame == Head(toMcu)
             prefix == IF frame.off <= mcu.prefix /\ frame.off + frame.len > mcu.prefix
                       THEN frame.off + frame.len ELSE mcu.prefix
             files == IF Closing(frame) THEN mcu.files ELSE mcu.files \cup {frame.file}
  <2>1. frame.off \in Nat /\ frame.len \in Nat /\ frame.file \in Files
    BY <1>7, HeadOfWire, McuFrameFields DEF McuTrans, McuTakes
  <2>2. mcu \in McuStates
    BY DEF TypeOK
  <2>3. mcu.prefix \in Nat /\ mcu.files \in SUBSET Files
    BY <2>2 DEF McuStates
  <2>4. prefix \in Nat /\ files \in SUBSET Files
    BY <2>1, <2>3
  <2>5. mcu' = [mcu EXCEPT !.flag = ~Closing(frame), !.files = files, !.prefix = prefix]
    BY <1>7, <2>2 DEF McuTrans, McuStates
  <2>6. (~Closing(frame)) \in BOOLEAN
    BY DEF Closing
  <2>7. mcu' \in McuStates
    <3> HIDE DEF prefix, files
    <3>1. QED
      BY <2>2, <2>4, <2>5, <2>6 DEF McuStates
  <2>8. UNCHANGED <<hostVars, caller, rx>>
    BY <1>7 DEF McuTrans
  <2>9. QED
    BY <2>7, <2>8 DEF TypeOK, hostVars
<1>8. CASE McuNoAnswer \/ McuReject \/ McuRestart \/ Lose
  <2>1. UNCHANGED <<hostVars, caller, rx>>
    BY <1>8 DEF McuNoAnswer, McuReject, McuRestart, Lose
  <2>2. mcu' = mcu \/ mcu' = [mcu EXCEPT !.flag = FALSE]
    BY <1>8 DEF McuNoAnswer, McuReject, McuRestart, Lose
  <2>3. mcu' \in McuStates
    <3>1. mcu \in McuStates
      BY DEF TypeOK
    <3>2. QED
      BY <2>2, <3>1, McuClears
  <2>4. QED
    BY <2>1, <2>3 DEF TypeOK, hostVars
<1>9. CASE UNCHANGED vars
  BY <1>9 DEF vars, TypeOK
<1>10. QED
  BY <1>1, <1>2, <1>3, <1>4, <1>5, <1>6, <1>7, <1>8, <1>9 DEF Next, RxStep, McuStep

-----------------------------------------------------------------------------
(* One request at a time, of the file that is loaded                       *)

LEMMA Lengths ==
  ASSUME WireOK
  PROVE  /\ Len(toMcu) \in Nat /\ Len(toHost) \in Nat /\ Underway \in Nat
         /\ toMcu = << >> <=> Len(toMcu) = 0
         /\ toHost = << >> <=> Len(toHost) = 0
  BY DEF WireOK, Underway, Sending

\* Taking the oldest frame off either wire.
LEMMA TailMcu ==
  ASSUME WireOK, toMcu # << >>
  PROVE  Tail(toMcu) \in Seq(McuFrames) /\ Len(Tail(toMcu)) = Len(toMcu) - 1
  BY DEF WireOK

LEMMA TailHost ==
  ASSUME WireOK, toHost # << >>
  PROVE  Tail(toHost) \in Seq(HostFrames) /\ Len(Tail(toHost)) = Len(toHost) - 1
  BY DEF WireOK

LEMMA AppendMcu ==
  ASSUME WireOK, NEW frame \in McuFrames
  PROVE  Append(toMcu, frame) \in Seq(McuFrames) /\ Len(Append(toMcu, frame)) = Len(toMcu) + 1
  BY DEF WireOK

LEMMA AppendHost ==
  ASSUME WireOK, NEW frame \in HostFrames
  PROVE  Append(toHost, frame) \in Seq(HostFrames) /\ Len(Append(toHost, frame)) = Len(toHost) + 1
  BY DEF WireOK

\* A frame on the way to the MCU is the only thing under way.
LEMMA AloneOnWire ==
  ASSUME WireOK, TurnInv
  PROVE  /\ toMcu # << >> => Len(toMcu) = 1 /\ Len(toHost) = 0 /\ rx # "send"
         /\ toHost # << >> => Len(toHost) = 1 /\ Len(toMcu) = 0 /\ rx # "send"
         /\ rx = "send" => Len(toMcu) = 0 /\ Len(toHost) = 0
         /\ Underway = 0 => Len(toMcu) = 0 /\ Len(toHost) = 0 /\ rx # "send"
         /\ toMcu # << >> \/ toHost # << >> \/ rx = "send" => Underway = 1
<1>1. PICK a \in Nat, b \in Nat : a = Len(toMcu) /\ b = Len(toHost)
  BY Lengths
<1>2. (toMcu = << >> <=> a = 0) /\ (toHost = << >> <=> b = 0)
  BY <1>1, Lengths
<1>3. Underway = a + b + Sending /\ Underway <= 1
  BY <1>1 DEF Underway, TurnInv
<1>4. Sending \in Nat /\ (rx = "send" <=> Sending = 1) /\ (rx # "send" <=> Sending = 0)
  BY DEF Sending
<1>5. QED
  BY <1>1, <1>2, <1>3, <1>4

\* A step that neither caller nor state nor image notices, and that adds
\* nothing to what is under way, disturbs nothing.
LEMMA Calm ==
  ASSUME OtaInd, UNCHANGED <<g_fw_len, g_fw_buf, caller, g_state>>, WireOK',
         toMcu' = toMcu \/ toMcu' = << >>, Underway' <= Underway
  PROVE  TurnInv' /\ ImageInv'
<1>1. Underway \in Nat /\ Underway' \in Nat
  <2>1. Underway \in Nat
    BY Lengths DEF OtaInd
  <2>2. Len(toMcu') \in Nat /\ Len(toHost') \in Nat
    BY DEF WireOK
  <2>3. QED
    BY <2>1, <2>2 DEF Underway, Sending
<1>2. TurnInv'
  BY <1>1 DEF OtaInd, TurnInv, InProgress
<1>3. PacketFromImage'
  <2>1. CASE toMcu' = toMcu
    BY <2>1 DEF OtaInd, ImageInv, PacketFromImage
  <2>2. CASE toMcu' = << >>
    BY <2>2 DEF PacketFromImage
  <2>3. QED
    BY <2>1, <2>2
<1>4. caller' # "idle" \/ InProgress' \/ Underway' = 1 => Loaded'
  <2>1. Underway <= 1
    BY DEF OtaInd, TurnInv
  <2>2. Underway' = 1 => Underway = 1
    BY <1>1, <2>1
  <2>3. InProgress' <=> InProgress
    BY DEF InProgress
  <2>4. Loaded' <=> Loaded
    BY DEF Loaded
  <2>5. QED
    BY <2>2, <2>3, <2>4 DEF OtaInd, ImageInv
<1>5. QED
  BY <1>2, <1>3, <1>4 DEF ImageInv

LEMMA CallerKeepsInd ==
  ASSUME OtaInd,
         \/ \E f \in Files : OtaStartTooLarge(f) \/ OtaStartNoMemory(f) \/ OtaStartLoad(f)
         \/ CallerStep
  PROVE  WireOK' /\ TurnInv' /\ ImageInv'
<1>1. ASSUME NEW f \in Files, OtaStartTooLarge(f) \/ OtaStartNoMemory(f) \/ OtaStartLoad(f)
      PROVE  WireOK' /\ TurnInv' /\ ImageInv'
  <2>1. caller = "idle" /\ ~InProgress /\ UNCHANGED <<g_state, rx, toMcu, toHost>>
    BY <1>1 DEF OtaStartTooLarge, OtaStartNoMemory, OtaStartLoad, wire
  <2>2. Underway = 0 /\ toMcu = << >>
    BY <2>1, AloneOnWire, Lengths DEF OtaInd, TurnInv
  <2>3. Underway' = 0 /\ ~InProgress' /\ toMcu' = << >> /\ WireOK'
    BY <2>1, <2>2 DEF OtaInd, WireOK, Underway, Sending, InProgress
  <2>4. TurnInv' /\ PacketFromImage'
    BY <2>3 DEF TurnInv, PacketFromImage
  <2>5. caller' = "idle" \/ Loaded'
    BY <1>1 DEF OtaStartTooLarge, OtaStartNoMemory, OtaStartLoad, Loaded
  <2>6. QED
    BY <2>3, <2>4, <2>5 DEF ImageInv
<1>2. CASE OtaStartSend
  <2>1. ~InProgress /\ caller = "send" /\ Loaded
    BY <1>2 DEF OtaStartSend, OtaInd, TurnInv, ImageInv
  <2>2. toMcu = << >> /\ Len(toMcu) = 0 /\ Len(toHost) = 0 /\ rx # "send"
    BY <2>1, AloneOnWire, Lengths DEF OtaInd, TurnInv
  <2>3. StartFrame(g_fw_len) \in McuFrames
    BY DEF StartFrame, McuFrames, OtaInd, TypeOK
  <2>4. WireOK' /\ Len(toMcu') = 1
    BY <1>2, <2>2, <2>3, AppendMcu DEF OtaStartSend, OtaInd, WireOK
  <2>5. Underway' = 1
    BY <1>2, <2>2, <2>4 DEF OtaStartSend, Underway, Sending
  <2>6. TurnInv'
    BY <1>2, <2>5 DEF OtaStartSend, TurnInv
  <2>7. Loaded'
    BY <1>2, <2>1 DEF OtaStartSend, hostVars, Loaded
  <2>8. PacketFromImage'
    <3>1. toMcu' = << StartFrame(g_fw_len) >>
      BY <1>2, <2>2 DEF OtaStartSend
    <3>2. QED
      BY <3>1 DEF PacketFromImage, StartFrame
  <2>9. QED
    BY <2>4, <2>6, <2>7, <2>8 DEF ImageInv
<1>3. CASE OtaStartSetState \/ OtaStartResetOffset
  <2>1. /\ UNCHANGED <<g_fw_len, g_fw_buf, rx, toMcu, toHost>>
        /\ caller \in {"state", "offset"} /\ caller' \in {"offset", "idle"}
        /\ InProgress' \/ (caller = "offset" /\ g_state' = g_state)
    BY <1>3 DEF OtaStartSetState, OtaStartResetOffset, wire, InProgress
  <2>2. WireOK' /\ Underway' = Underway
    BY <2>1 DEF OtaInd, WireOK, Underway, Sending
  <2>3. TurnInv'
    BY <2>1, <2>2 DEF OtaInd, TurnInv, InProgress
  <2>4. Loaded'
    BY <2>1 DEF OtaInd, ImageInv, Loaded
  <2>5. PacketFromImage'
    BY <2>1 DEF OtaInd, ImageInv, PacketFromImage
  <2>6. QED
    BY <2>2, <2>3, <2>4, <2>5 DEF ImageInv
<1>4. QED
  BY <1>1, <1>2, <1>3 DEF CallerStep

LEMMA RxKeepsInd ==
  ASSUME OtaInd, RxStep
  PROVE  WireOK' /\ TurnInv' /\ ImageInv'
<1> USE DEF OtaInd
<1>1. CASE RxIgnore \/ RxErrorReply
  <2>1. /\ toHost # << >> /\ toHost' = Tail(toHost) /\ rx' = rx
        /\ UNCHANGED <<g_fw_len, g_fw_buf, caller, toMcu>>
        /\ g_state' = g_state \/ ~InProgress'
    BY <1>1 DEF RxIgnore, RxErrorReply, Receive, hostVars, InProgress
  <2>2. Len(toHost) = 1 /\ Len(toMcu) = 0 /\ rx # "send"
    BY <2>1, AloneOnWire
  <2>3. toMcu' = << >> /\ toHost' \in Seq(HostFrames) /\ Len(toHost') = 0 /\ Len(toMcu') = 0
    BY <2>1, <2>2, TailHost, Lengths
  <2>4. WireOK' /\ Underway' = 0
    BY <2>1, <2>2, <2>3 DEF WireOK, Underway, Sending
  <2>5. Underway = 1
    BY <2>1, AloneOnWire
  <2>6. caller # "send"
    BY <2>5 DEF TurnInv
  <2>7. TurnInv' /\ PacketFromImage'
    BY <2>1, <2>3, <2>4, <2>6 DEF TurnInv, PacketFromImage
  <2>8. Loaded'
    BY <2>1, <2>5 DEF ImageInv, Loaded
  <2>9. QED
    BY <2>4, <2>7, <2>8 DEF ImageInv
<1>2. CASE RxStartReply \/ RxTransReply
  <2>1. /\ toHost # << >> /\ toHost' = Tail(toHost) /\ rx' = "send"
        /\ UNCHANGED <<g_fw_len, g_fw_buf, caller, toMcu>>
        /\ g_state' = g_state \/ InProgress'
    BY <1>2 DEF RxStartReply, RxTransReply, Receive, InProgress
  <2>2. Len(toHost) = 1 /\ Len(toMcu) = 0 /\ Underway = 1
    BY <2>1, AloneOnWire
  <2>3. toMcu' = << >> /\ toHost' \in Seq(HostFrames) /\ Len(toHost') = 0 /\ Len(toMcu') = 0
    BY <2>1, <2>2, TailHost, Lengths
  <2>4. WireOK' /\ Underway' = 1
    BY <2>1, <2>3 DEF WireOK, Underway, Sending
  <2>5. caller # "send" /\ (caller = "state" \/ InProgress)
    BY <2>2 DEF TurnInv
  <2>6. TurnInv' /\ PacketFromImage'
    BY <2>1, <2>3, <2>4, <2>5 DEF TurnInv, PacketFromImage, InProgress
  <2>7. Loaded'
    BY <2>1, <2>2 DEF ImageInv, Loaded
  <2>8. QED
    BY <2>4, <2>6, <2>7 DEF ImageInv
<1>3. CASE RxFinish \/ RxNoMemory
  <2>1. /\ rx = "send" /\ rx' = "idle"
        /\ UNCHANGED <<g_fw_len, g_fw_buf, caller, toMcu, toHost>>
        /\ g_state' = g_state \/ ~InProgress'
    BY <1>3 DEF RxFinish, RxNoMemory, hostVars, wire, InProgress
  <2>2. Len(toHost) = 0 /\ Len(toMcu) = 0 /\ Underway = 1
    BY <2>1, AloneOnWire
  <2>3. WireOK' /\ Underway' = 0 /\ toMcu' = << >>
    BY <2>1, <2>2, Lengths DEF WireOK, Underway, Sending
  <2>4. caller # "send"
    BY <2>2 DEF TurnInv
  <2>5. TurnInv' /\ PacketFromImage'
    BY <2>1, <2>3, <2>4 DEF TurnInv, PacketFromImage
  <2>6. Loaded'
    BY <2>1, <2>2 DEF ImageInv, Loaded
  <2>7. QED
    BY <2>3, <2>5, <2>6 DEF ImageInv
<1>4. CASE RxSendPacket
  <2> DEFINE frame == TransFrame(g_fw_buf, g_current_offset, ChunkLen)
  <2>1. /\ rx = "send" /\ rx' = "idle" /\ ~AllSent
        /\ UNCHANGED <<g_state, g_fw_len, g_fw_buf, caller, toHost>>
        /\ toMcu' = toMcu \/ toMcu' = Append(toMcu, frame)
    BY <1>4 DEF RxSendPacket, hostVars, SendTrans
  <2>2. Len(toHost) = 0 /\ Len(toMcu) = 0 /\ Underway = 1 /\ toMcu = << >>
    BY <2>1, AloneOnWire, Lengths
  <2>3. Loaded
    BY <2>2 DEF ImageInv
  <2>4. ChunkLen \in Nat /\ g_current_offset \in Nat /\ g_fw_len \in Nat /\ g_packet_size \in Nat
    BY ChunkIsNat DEF TypeOK
  <2>5. frame \in McuFrames
    BY <2>3, <2>4 DEF TransFrame, McuFrames, Loaded
  <2>6. g_current_offset + ChunkLen <= g_fw_len
    BY <2>1, <2>4 DEF AllSent, ChunkLen
  <2>7. WireOK' /\ Underway' \in {0, 1}
    <3>1. CASE toMcu' = toMcu
      BY <2>1, <2>2, <3>1 DEF WireOK, Underway, Sending
    <3>2. CASE toMcu' = Append(toMcu, frame)
      <4>1. toMcu' \in Seq(McuFrames) /\ Len(toMcu') = 1
        BY <2>2, <2>5, <3>2, AppendMcu
      <4>2. QED
        BY <2>1, <2>2, <4>1 DEF WireOK, Underway, Sending
    <3>3. QED
      BY <2>1, <3>1, <3>2
  <2>8. caller # "send" /\ (caller = "state" \/ InProgress)
    BY <2>2 DEF TurnInv
  <2>9. TurnInv'
    BY <2>1, <2>7, <2>8 DEF TurnInv, InProgress
  <2>10. Loaded'
    BY <2>1, <2>3 DEF Loaded
  <2>11. PacketFromImage'
    <3>1. CASE toMcu' = << >>
      BY <3>1 DEF PacketFromImage
    <3>2. CASE toMcu' = << frame >>
      <4>1. g_fw_buf # NoFile
        BY <2>3, Sizes DEF Loaded
      <4>2. QED
        BY <2>1, <2>3, <2>6, <3>2, <4>1 DEF PacketFromImage, TransFrame, Loaded
    <3>3. QED
      BY <2>1, <2>2, <3>1, <3>2
  <2>12. QED
    BY <2>7, <2>9, <2>10, <2>11 DEF ImageInv
<1>5. QED
  BY <1>1, <1>2, <1>3, <1>4 DEF RxStep

LEMMA McuKeepsInd ==
  ASSUME OtaInd, McuStep \/ McuRestart \/ Lose
  PROVE  WireOK' /\ TurnInv' /\ ImageInv'
<1> USE DEF OtaInd
<1>1. UNCHANGED <<g_fw_len, g_fw_buf, caller, g_state, rx>>
  BY DEF McuStep, McuStart, McuTrans, McuNoAnswer, McuReject, McuRestart, Lose, hostVars
<1>2. CASE McuStart \/ McuTrans \/ McuReject
  <2>1. PICK reply \in HostFrames :
          toMcu # << >> /\ toMcu' = Tail(toMcu) /\ toHost' = Append(toHost, reply)
    <3>1. CASE McuStart
      <4>1. mcu.size \in PackageSizes
        BY DEF TypeOK, McuStates
      <4>2. [cmd |-> "START", ok |-> TRUE, size |-> mcu.size] \in HostFrames
        BY <4>1 DEF HostFrames
      <4>3. QED
        BY <3>1, <4>2 DEF McuStart, McuTakes
    <3>2. CASE McuTrans
      BY <3>2 DEF McuTrans, McuTakes, HostFrames
    <3>3. CASE McuReject
      BY <3>3 DEF McuReject, McuTakes, HostFrames
    <3>4. QED
      BY <1>2, <3>1, <3>2, <3>3
  <2>2. Len(toMcu) = 1 /\ Len(toHost) = 0 /\ rx # "send" /\ Underway = 1
    BY <2>1, AloneOnWire
  <2>3. toMcu' \in Seq(McuFrames) /\ Len(toMcu') = 0 /\ toMcu' = << >>
    BY <2>1, <2>2, TailMcu
  <2>4. toHost' \in Seq(HostFrames) /\ Len(toHost') = 1
    BY <2>1, <2>2, AppendHost
  <2>5. WireOK' /\ Underway' = 1
    BY <1>1, <2>2, <2>3, <2>4 DEF WireOK, Underway, Sending
  <2>6. QED
    BY <1>1, <2>2, <2>3, <2>5, Calm
<1>3. CASE McuNoAnswer
  <2>1. toMcu # << >> /\ toMcu' = Tail(toMcu) /\ toHost' = toHost
    BY <1>3 DEF McuNoAnswer, McuTakes
  <2>2. Len(toMcu) = 1 /\ Len(toHost) = 0 /\ rx # "send" /\ Underway = 1
    BY <2>1, AloneOnWire
  <2>3. toMcu' \in Seq(McuFrames) /\ Len(toMcu') = 0 /\ toMcu' = << >>
    BY <2>1, <2>2, TailMcu
  <2>4. WireOK' /\ Underway' = 0
    BY <1>1, <2>1, <2>2, <2>3 DEF WireOK, Underway, Sending
  <2>5. QED
    BY <1>1, <2>2, <2>3, <2>4, Calm
<1>4. CASE McuRestart
  <2>1. UNCHANGED <<toMcu, toHost, rx>>
    BY <1>1, <1>4 DEF McuRestart, wire
  <2>2. WireOK' /\ Underway' = Underway
    BY <2>1 DEF WireOK, Underway, Sending
  <2>3. QED
    BY <1>1, <2>1, <2>2, Calm, Lengths
<1>5. CASE Lose
  <2>1. CASE toMcu # << >> /\ toMcu' = Tail(toMcu) /\ UNCHANGED toHost
    <3>1. Len(toMcu) = 1 /\ Len(toHost) = 0 /\ rx # "send" /\ Underway = 1
      BY <2>1, AloneOnWire
    <3>2. toMcu' \in Seq(McuFrames) /\ Len(toMcu') = 0 /\ toMcu' = << >>
      BY <2>1, <3>1, TailMcu
    <3>3. WireOK' /\ Underway' = 0
      BY <1>1, <2>1, <3>1, <3>2 DEF WireOK, Underway, Sending
    <3>4. QED
      BY <1>1, <3>1, <3>2, <3>3, Calm
  <2>2. CASE toHost # << >> /\ toHost' = Tail(toHost) /\ UNCHANGED toMcu
    <3>1. Len(toHost) = 1 /\ Len(toMcu) = 0 /\ rx # "send" /\ Underway = 1
      BY <2>2, AloneOnWire
    <3>2. toHost' \in Seq(HostFrames) /\ Len(toHost') = 0
      BY <2>2, <3>1, TailHost
    <3>3. WireOK' /\ Underway' = 0
      BY <1>1, <2>2, <3>1, <3>2 DEF WireOK, Underway, Sending
    <3>4. QED
      BY <1>1, <2>2, <3>1, <3>3, Calm
  <2>3. QED
    BY <1>5, <2>1, <2>2 DEF Lose
<1>6. QED
  BY <1>2, <1>3, <1>4, <1>5 DEF McuStep

-----------------------------------------------------------------------------

LEMMA StepOtaInd == OtaInd /\ [Next]_vars => OtaInd'
<1> SUFFICES ASSUME OtaInd, [Next]_vars PROVE OtaInd'
  OBVIOUS
<1>1. TypeOK'
  BY StepTypeOK DEF OtaInd
<1>2. CASE UNCHANGED vars
  BY <1>1, <1>2 DEF OtaInd, vars, WireOK, TurnInv, ImageInv, PacketFromImage, Underway,
                    Sending, InProgress, Loaded
<1>3. CASE Next
  <2>1. WireOK' /\ TurnInv' /\ ImageInv'
    BY <1>3, CallerKeepsInd, RxKeepsInd, McuKeepsInd DEF Next
  <2>2. QED
    BY <1>1, <2>1 DEF OtaInd
<1>4. QED
  BY <1>2, <1>3

LEMMA AlwaysOtaInd == Spec => []OtaInd
<1>1. QED
  BY InitOtaInd, StepOtaInd, PTL DEF Spec

\* Every variable keeps its type whatever is lost and whoever is late.  Offset
\* and length stay naturals: an offset is never beyond the end by underflow.
THEOREM OtaTypeCorrect == Spec => []TypeOK
<1>1. OtaInd => TypeOK
  BY DEF OtaInd
<1>2. QED
  BY <1>1, AlwaysOtaInd, PTL

\* At most one request, reply or packet in preparation exists, although the
\* state is set only after UPGRADE_START was sent and no reply names its packet.
THEOREM OneAtATime == Spec => []StopAndWait
<1>1. OtaInd => StopAndWait
  BY DEF OtaInd, TurnInv, Underway, Sending, StopAndWait
<1>2. QED
  BY <1>1, AlwaysOtaInd, PTL

\* A packet on the wire holds bytes of the loaded file and lies inside it:
\* ota_start never replaces buffer or length while a packet is on its way.
THEOREM PacketsComeFromImage == Spec => []PacketFromImage
<1>1. OtaInd => PacketFromImage
  BY DEF OtaInd, ImageInv
<1>2. QED
  BY <1>1, AlwaysOtaInd, PTL

-----------------------------------------------------------------------------
(* What the MCU has written                                                *)

\* A packet, its acknowledgement, or the turn to send the next one.
Transfer ==
    \/ toMcu # << >> /\ Head(toMcu).cmd = "TRANS"
    \/ toHost # << >> /\ Head(toHost).ok
    \/ rx = "send"

\* What carries NoGap and DoneMeansDelivered: the MCU has written bytes of the
\* loaded file only, and the offset counts no byte it has not written.  A caller
\* that is held up in ota_start may set the offset back, but never forward.
DeliveryInv ==
    /\ Transfer => mcu.prefix <= g_fw_len /\ mcu.files \subseteq {g_fw_buf}
    /\ toMcu # << >> /\ Head(toMcu).cmd = "TRANS" =>
         /\ Head(toMcu).off <= mcu.prefix
         /\ g_current_offset + ChunkLen <= Head(toMcu).off + Head(toMcu).len
    /\ toHost # << >> /\ Head(toHost).ok /\ Head(toHost).cmd = "TRANS" =>
         g_current_offset + ChunkLen <= mcu.prefix
    /\ rx = "send" => g_current_offset <= mcu.prefix

LEMMA InitDelivery == Init => DeliveryInv
  BY DEF Init, DeliveryInv, Transfer

LEMMA CallerKeepsDelivery ==
  ASSUME OtaInd, DeliveryInv,
         \/ \E f \in Files : OtaStartTooLarge(f) \/ OtaStartNoMemory(f) \/ OtaStartLoad(f)
         \/ CallerStep
  PROVE  DeliveryInv'
<1>1. ASSUME NEW f \in Files, OtaStartTooLarge(f) \/ OtaStartNoMemory(f) \/ OtaStartLoad(f)
      PROVE  DeliveryInv'
  <2>1. caller = "idle" /\ ~InProgress /\ UNCHANGED <<rx, toMcu, toHost>>
    BY <1>1 DEF OtaStartTooLarge, OtaStartNoMemory, OtaStartLoad, wire
  <2>2. toMcu = << >> /\ toHost = << >> /\ rx # "send"
    BY <2>1, AloneOnWire, Lengths DEF OtaInd, TurnInv
  <2>3. QED
    BY <2>1, <2>2 DEF DeliveryInv, Transfer
<1>2. CASE OtaStartSend
  <2>1. toMcu = << >> /\ toHost = << >> /\ rx # "send"
    BY <1>2, AloneOnWire, Lengths DEF OtaStartSend, OtaInd, TurnInv
  <2>2. toMcu' = << StartFrame(g_fw_len) >> /\ UNCHANGED <<toHost, rx>>
    BY <1>2, <2>1 DEF OtaStartSend
  <2>3. Head(toMcu').cmd = "START"
    BY <2>2 DEF StartFrame
  <2>4. QED
    BY <2>1, <2>2, <2>3 DEF DeliveryInv, Transfer
<1>3. CASE OtaStartSetState
  BY <1>3 DEF OtaStartSetState, wire, DeliveryInv, Transfer, ChunkLen
<1>4. CASE OtaStartResetOffset
  <2>1. /\ g_current_offset' = 0
        /\ UNCHANGED <<g_packet_size, g_fw_len, g_fw_buf, rx, toMcu, toHost, mcu>>
    BY <1>4 DEF OtaStartResetOffset, wire
  <2>2. /\ g_current_offset \in Nat /\ g_fw_len \in Nat /\ g_packet_size \in Nat
        /\ mcu.prefix \in Nat
    BY DEF OtaInd, TypeOK, McuStates
  <2>3. g_current_offset' + ChunkLen' <= g_current_offset + ChunkLen
    BY <2>1, <2>2 DEF ChunkLen
  <2>4. ChunkLen \in Nat /\ ChunkLen' \in Nat
    BY <2>1, <2>2 DEF ChunkLen
  <2>5. Transfer' <=> Transfer
    BY <2>1 DEF Transfer
  <2>6. ASSUME toMcu' # << >>, Head(toMcu').cmd = "TRANS"
        PROVE  /\ Head(toMcu').off <= mcu'.prefix
               /\ g_current_offset' + ChunkLen' <= Head(toMcu').off + Head(toMcu').len
    <3>1. Head(toMcu).off \in Nat /\ Head(toMcu).len \in Nat
      BY <2>1, <2>6, HeadOfWire, McuFrameFields DEF OtaInd
    <3>2. QED
      BY <2>1, <2>2, <2>3, <2>4, <2>6, <3>1 DEF DeliveryInv
  <2>7. ASSUME toHost' # << >>, Head(toHost').ok, Head(toHost').cmd = "TRANS"
        PROVE  g_current_offset' + ChunkLen' <= mcu'.prefix
    <3>1. g_current_offset + ChunkLen <= mcu.prefix
      BY <2>1, <2>7 DEF DeliveryInv
    <3>2. mcu'.prefix = mcu.prefix /\ g_current_offset' \in Nat
      BY <2>1
    <3>3. g_current_offset' + ChunkLen' <= mcu.prefix
      <4>1. g_current_offset' + ChunkLen' \in Nat /\ g_current_offset + ChunkLen \in Nat
        <5>1. ASSUME NEW a \in Nat, NEW b \in Nat PROVE a + b \in Nat
          OBVIOUS
        <5>2. g_current_offset' + ChunkLen' \in Nat
          BY <2>4, <3>2, <5>1
        <5>3. g_current_offset + ChunkLen \in Nat
          BY <2>2, <2>4, <5>1
        <5>4. QED
          BY <5>2, <5>3
      <4>2. ASSUME NEW a \in Nat, NEW b \in Nat, NEW c \in Nat, a <= b, b <= c PROVE a <= c
        BY <4>2
      <4>3. QED
        BY <2>2, <2>3, <3>1, <4>1, <4>2
    <3>4. QED
      BY <3>2, <3>3
  <2>8. QED
    BY <2>1, <2>2, <2>5, <2>6, <2>7 DEF DeliveryInv
<1>5. QED
  BY <1>1, <1>2, <1>3, <1>4 DEF CallerStep

LEMMA RxKeepsDelivery ==
  ASSUME OtaInd, DeliveryInv, RxStep
  PROVE  DeliveryInv'
<1>1. CASE RxIgnore \/ RxErrorReply
  <2>1. toHost # << >> /\ toHost' = Tail(toHost) /\ UNCHANGED <<rx, toMcu>>
    BY <1>1 DEF RxIgnore, RxErrorReply, Receive
  <2>2. Len(toHost) = 1 /\ Len(toMcu) = 0 /\ rx # "send"
    BY <2>1, AloneOnWire DEF OtaInd
  <2>3. toMcu' = << >> /\ toHost' = << >> /\ rx' # "send"
    BY <2>1, <2>2, TailHost, Lengths DEF OtaInd, WireOK
  <2>4. QED
    BY <2>3 DEF DeliveryInv, Transfer
<1>2. CASE RxStartReply \/ RxTransReply
  <2>1. /\ toHost # << >> /\ toHost' = Tail(toHost) /\ Head(toHost).ok
        /\ UNCHANGED <<g_fw_len, g_fw_buf, toMcu, mcu>>
        /\ \/ g_current_offset' = 0
           \/ Head(toHost).cmd = "TRANS" /\ g_current_offset' = g_current_offset + ChunkLen
    <3>1. CASE RxStartReply
      BY <3>1 DEF RxStartReply, Receive
    <3>2. CASE RxTransReply
      BY <3>2 DEF RxTransReply, Receive
    <3>3. QED
      BY <1>2, <3>1, <3>2
  <2>2. Len(toHost) = 1 /\ Len(toMcu) = 0
    BY <2>1, AloneOnWire DEF OtaInd
  <2>3. toMcu' = << >> /\ toHost' = << >>
    BY <2>1, <2>2, TailHost, Lengths DEF OtaInd, WireOK
  <2>4. Transfer
    BY <2>1 DEF Transfer
  <2>5. mcu.prefix \in Nat
    BY DEF OtaInd, TypeOK, McuStates
  <2>6. g_current_offset' <= mcu'.prefix
    BY <2>1, <2>5 DEF DeliveryInv
  <2>7. QED
    BY <2>1, <2>3, <2>4, <2>6 DEF DeliveryInv
<1>3. CASE RxFinish \/ RxNoMemory
  <2>1. rx = "send" /\ rx' = "idle" /\ UNCHANGED <<toMcu, toHost>>
    BY <1>3 DEF RxFinish, RxNoMemory, wire
  <2>2. toMcu' = << >> /\ toHost' = << >>
    BY <2>1, AloneOnWire, Lengths DEF OtaInd
  <2>3. QED
    BY <2>1, <2>2 DEF DeliveryInv, Transfer
<1>4. CASE RxSendPacket
  <2> DEFINE frame == TransFrame(g_fw_buf, g_current_offset, ChunkLen)
  <2>1. /\ rx = "send" /\ rx' = "idle"
        /\ UNCHANGED <<g_packet_size, g_fw_len, g_fw_buf, g_current_offset, toHost, mcu>>
        /\ toMcu' = toMcu \/ toMcu' = Append(toMcu, frame)
    BY <1>4 DEF RxSendPacket, hostVars, SendTrans
  <2>2. toMcu = << >> /\ toHost = << >>
    BY <2>1, AloneOnWire, Lengths DEF OtaInd
  <2>3. g_current_offset <= mcu.prefix /\ mcu.prefix <= g_fw_len /\ mcu.files \subseteq {g_fw_buf}
    BY <2>1 DEF DeliveryInv, Transfer
  <2>4. CASE toMcu' = toMcu
    BY <2>1, <2>2, <2>4 DEF DeliveryInv, Transfer
  <2>5. CASE toMcu' = Append(toMcu, frame)
    <3>1. toMcu' = << frame >>
      BY <2>2, <2>5
    <3>2. Head(toMcu').off = g_current_offset /\ Head(toMcu').len = ChunkLen
      BY <3>1 DEF TransFrame
    <3>3. ChunkLen' = ChunkLen
      BY <2>1 DEF ChunkLen
    <3>4. g_current_offset + ChunkLen \in Nat
      BY ChunkIsNat DEF OtaInd, TypeOK
    <3>5. QED
      BY <2>1, <2>2, <2>3, <3>2, <3>3, <3>4 DEF DeliveryInv
  <2>6. QED
    BY <2>1, <2>4, <2>5
<1>5. QED
  BY <1>1, <1>2, <1>3, <1>4 DEF RxStep

LEMMA McuKeepsDelivery ==
  ASSUME OtaInd, DeliveryInv, McuStep \/ McuRestart \/ Lose
  PROVE  DeliveryInv'
<1>1. /\ UNCHANGED <<g_packet_size, g_fw_len, g_fw_buf, g_current_offset, rx>>
      /\ ChunkLen' = ChunkLen
  BY DEF McuStep, McuStart, McuTrans, McuNoAnswer, McuReject, McuRestart, Lose, hostVars, ChunkLen
<1>2. g_fw_len \in Nat /\ g_current_offset + ChunkLen \in Nat /\ mcu \in McuStates
  BY ChunkIsNat DEF OtaInd, TypeOK
<1>3. CASE McuStart
  <2>1. /\ toMcu # << >> /\ toMcu' = Tail(toMcu) /\ mcu'.prefix = 0 /\ mcu'.files = {}
        /\ toHost' = Append(toHost, [cmd |-> "START", ok |-> TRUE, size |-> mcu.size])
    BY <1>2, <1>3 DEF McuStart, McuTakes, McuStates
  <2>2. toMcu' = << >> /\ toHost = << >> /\ rx # "send"
    BY <2>1, AloneOnWire, TailMcu, Lengths DEF OtaInd, WireOK
  <2>3. Head(toHost').cmd = "START"
    BY <2>1, <2>2
  <2>4. QED
    BY <1>1, <1>2, <2>1, <2>2, <2>3 DEF DeliveryInv
<1>4. CASE McuTrans
  <2> DEFINE frame == Head(toMcu)
  <2>1. toMcu # << >> /\ frame.cmd = "TRANS" /\ toMcu' = Tail(toMcu)
    BY <1>4 DEF McuTrans, McuTakes
  <2>2. toMcu' = << >> /\ toHost = << >> /\ rx # "send" /\ Len(toMcu) = 1
    BY <2>1, AloneOnWire, TailMcu, Lengths DEF OtaInd, WireOK
  <2>3. frame.off \in Nat /\ frame.len \in Nat /\ mcu.prefix \in Nat
    BY <1>2, <2>1, HeadOfWire, McuFrameFields DEF OtaInd, McuStates
  <2>4. /\ mcu.prefix <= g_fw_len /\ mcu.files \subseteq {g_fw_buf} /\ frame.off <= mcu.prefix
        /\ g_current_offset + ChunkLen <= frame.off + frame.len
    BY <2>1 DEF DeliveryInv, Transfer
  <2>5. frame.file = g_fw_buf /\ frame.off + frame.len <= g_fw_len
    <3>1. frame = toMcu[1] /\ 1 \in 1..Len(toMcu)
      BY <2>1, <2>2
    <3>2. QED
      BY <2>1, <3>1 DEF OtaInd, ImageInv, PacketFromImage
  <2>6. /\ mcu'.prefix = IF frame.off + frame.len > mcu.prefix
                         THEN frame.off + frame.len ELSE mcu.prefix
        /\ mcu'.files \subseteq mcu.files \cup {frame.file}
    BY <1>2, <1>4, <2>4 DEF McuTrans, McuStates
  <2>7. mcu'.prefix <= g_fw_len /\ g_current_offset + ChunkLen <= mcu'.prefix
    BY <1>2, <2>3, <2>4, <2>5, <2>6
  <2>8. mcu'.files \subseteq {g_fw_buf}
    BY <2>4, <2>5, <2>6
  <2>9. QED
    BY <1>1, <2>2, <2>7, <2>8 DEF DeliveryInv
<1>5. CASE McuNoAnswer
  <2>1. toMcu # << >> /\ toMcu' = Tail(toMcu) /\ toHost' = toHost
    BY <1>5 DEF McuNoAnswer, McuTakes
  <2>2. toMcu' = << >> /\ toHost' = << >> /\ rx' # "send"
    BY <1>1, <2>1, AloneOnWire, TailMcu, Lengths DEF OtaInd, WireOK
  <2>3. QED
    BY <2>2 DEF DeliveryInv, Transfer
<1>6. CASE McuReject
  <2>1. PICK cmd \in {"START", "TRANS"} :
          /\ toMcu # << >> /\ toMcu' = Tail(toMcu)
          /\ toHost' = Append(toHost, [cmd |-> cmd, ok |-> FALSE])
    BY <1>6 DEF McuReject, McuTakes
  <2>2. toMcu' = << >> /\ toHost = << >> /\ rx' # "send"
    BY <1>1, <2>1, AloneOnWire, TailMcu, Lengths DEF OtaInd, WireOK
  <2>3. ~Head(toHost').ok
    BY <2>1, <2>2
  <2>4. QED
    BY <2>2, <2>3 DEF DeliveryInv, Transfer
<1>7. CASE McuRestart
  <2>1. UNCHANGED <<toMcu, toHost>>
    BY <1>7 DEF McuRestart, wire
  <2>2. mcu'.prefix = mcu.prefix /\ mcu'.files = mcu.files
    BY <1>2, <1>7 DEF McuRestart, McuStates
  <2>3. QED
    BY <1>1, <2>1, <2>2 DEF DeliveryInv, Transfer
<1>8. CASE Lose
  <2>1. toMcu' = << >> /\ toHost' = << >> /\ rx' # "send"
    <3>1. CASE toMcu # << >> /\ toMcu' = Tail(toMcu) /\ UNCHANGED toHost
      BY <1>1, <3>1, AloneOnWire, TailMcu, Lengths DEF OtaInd, WireOK
    <3>2. CASE toHost # << >> /\ toHost' = Tail(toHost) /\ UNCHANGED toMcu
      BY <1>1, <3>2, AloneOnWire, TailHost, Lengths DEF OtaInd, WireOK
    <3>3. QED
      BY <1>8, <3>1, <3>2 DEF Lose
  <2>2. QED
    BY <2>1 DEF DeliveryInv, Transfer
<1>9. QED
  BY <1>3, <1>4, <1>5, <1>6, <1>7, <1>8 DEF McuStep

LEMMA StepDelivery == OtaInd /\ DeliveryInv /\ [Next]_vars => DeliveryInv'
<1> SUFFICES ASSUME OtaInd, DeliveryInv, [Next]_vars PROVE DeliveryInv'
  OBVIOUS
<1>1. CASE UNCHANGED vars
  BY <1>1 DEF vars, DeliveryInv, Transfer, ChunkLen
<1>2. CASE Next
  BY <1>2, CallerKeepsDelivery, RxKeepsDelivery, McuKeepsDelivery DEF Next
<1>3. QED
  BY <1>1, <1>2

LEMMA AlwaysDelivery == Spec => [](OtaInd /\ DeliveryInv)
<1>1. QED
  BY InitOtaInd, InitDelivery, StepOtaInd, StepDelivery, PTL DEF Spec

\* No packet starts beyond what the MCU has, even when frames are lost and the
\* caller of ota_start sets the offset back after the transfer has begun.
THEOREM PacketsLeaveNoGap == Spec => []NoGap
<1>1. OtaInd /\ DeliveryInv => NoGap
  <2> SUFFICES ASSUME OtaInd, DeliveryInv, NEW i \in 1..Len(toMcu), toMcu[i].cmd = "TRANS"
               PROVE  toMcu[i].off <= mcu.prefix
    BY DEF NoGap
  <2>1. toMcu # << >> /\ Len(toMcu) = 1
    BY AloneOnWire, Lengths DEF OtaInd
  <2>2. toMcu[i] = Head(toMcu)
    BY <2>1
  <2>3. QED
    BY <2>1, <2>2 DEF DeliveryInv
<1>2. QED
  BY <1>1, AlwaysDelivery, PTL

\* The handler reaches OTA_DONE only when the MCU has every byte of the loaded
\* file and of no other, although no reply says which packet it answers.
THEOREM DoneIsDelivered == Spec => DoneMeansDelivered
<1>1. ASSUME OtaInd, DeliveryInv, [Next]_vars, g_state' = "DONE", g_state # "DONE"
      PROVE  mcu.prefix = g_fw_len /\ mcu.files \subseteq {g_fw_buf}
  <2>1. RxFinish
    BY <1>1 DEF Next, vars, CallerStep, RxStep, McuStep, McuRestart, Lose, hostVars, OtaStartTooLarge,
        OtaStartNoMemory, OtaStartLoad, OtaStartSend, OtaStartSetState, OtaStartResetOffset,
        RxIgnore, RxStartReply, RxTransReply, RxErrorReply, RxSendPacket, RxNoMemory,
        McuStart, McuTrans, McuNoAnswer, McuReject
  <2>2. rx = "send" /\ g_current_offset >= g_fw_len
    BY <2>1 DEF RxFinish, AllSent
  <2>3. mcu.prefix \in Nat /\ g_current_offset \in Nat /\ g_fw_len \in Nat
    BY <1>1 DEF OtaInd, TypeOK, McuStates
  <2>4. QED
    BY <1>1, <2>2, <2>3 DEF DeliveryInv, Transfer
<1>2. QED
  BY <1>1, AlwaysDelivery, PTL DEF Spec, DoneMeansDelivered
=============================================================================
