----------------------------- MODULE OtaUpgrade -----------------------------
(***************************************************************************)
(* Firmware upgrade of the MCU over the UART (main_service/src/            *)
(* ota_handler.c) with the MCU's side of the exchange (doc/mcu_sdk/mcu_sdk *)
(* /system.c) at the other end.                                            *)
(*                                                                         *)
(* Two threads of the service write the handler's variables, none of which *)
(* has a lock: the caller of ota_start and the UART receive thread         *)
(* (ota_handle_mcu_msg).  A thread's steps end where the other thread can  *)
(* see or disturb what it does next: around each send and each assignment  *)
(* the other one reads.                                                    *)
(*                                                                         *)
(* The wire carries whole frames.  A firmware image is a file name with a  *)
(* size; offsets and lengths are the real byte counts.                     *)
(***************************************************************************)
EXTENDS Integers, Sequences

CONSTANTS Files,         \* firmware files ota_start may be given
          FileSize,      \* their sizes in bytes
          MaxFwSize,     \* MAX_FW_SIZE
          PackageSizes,  \* packet sizes an MCU may ask for
          MaxPayload,    \* the longest payload tuya_send_cmd sends
          Faults,        \* frames may be lost, malloc may fail, the MCU may restart
          McuRejects,    \* the MCU may answer with an error
          PromptCaller,  \* ota_start returns before the MCU's answer can arrive
          NoFile         \* no firmware buffer

ASSUME OtaAssumption ==
    /\ FileSize \in [Files -> Nat]
    /\ MaxFwSize \in Nat
    /\ PackageSizes \subseteq {256, 512, 1024}
    /\ PackageSizes # {}
    /\ MaxPayload \in Nat
    /\ {Faults, McuRejects, PromptCaller} \subseteq BOOLEAN
    /\ NoFile \notin Files

VARIABLES g_state,           \* ota_state_t
          g_packet_size,     \* packet size the MCU asked for
          g_fw_len,          \* size of the file opened last
          g_fw_buf,          \* the file whose bytes the buffer holds
          g_current_offset,  \* first byte the MCU has not acknowledged
          caller,            \* where the thread in ota_start is
          rx,                \* where the UART receive thread is
          toMcu, toHost,     \* frames on the wire, oldest first
          mcu                \* the MCU: see McuInit

hostVars == <<g_state, g_packet_size, g_fw_len, g_fw_buf, g_current_offset>>
wire == <<toMcu, toHost>>
vars == <<g_state, g_packet_size, g_fw_len, g_fw_buf, g_current_offset,
          caller, rx, toMcu, toHost, mcu>>

States == {"IDLE", "STARTING", "SENDING", "DONE", "ERROR"}

\* flag: firm_update_flag; size, length: firm_size, firm_length; prefix: bytes
\* written without a gap since the upgrade began; files: the files they came
\* from.
McuInit(size) == [flag |-> FALSE, size |-> size, length |-> 0,
                  prefix |-> 0, files |-> {}]

McuStates == [flag : BOOLEAN, size : PackageSizes, length : Nat,
              prefix : Nat, files : SUBSET Files]

Init ==
    /\ g_state = "IDLE"
    /\ g_packet_size = 256
    /\ g_fw_len = 0
    /\ g_fw_buf = NoFile
    /\ g_current_offset = 0
    /\ caller = "idle"
    /\ rx = "idle"
    /\ toMcu = << >>
    /\ toHost = << >>
    /\ mcu \in {McuInit(size) : size \in PackageSizes}

StartFrame(len) == [cmd |-> "START", len |-> len]
TransFrame(file, off, len) == [cmd |-> "TRANS", file |-> file, off |-> off, len |-> len]

-----------------------------------------------------------------------------
(* ota_start, on whatever thread the service calls it from                 *)

InProgress_OnlySending == g_state = "SENDING"
InProgress_OnlyStarting == g_state = "STARTING"

\* is_ota_in_progress
InProgress == g_state \in {"STARTING", "SENDING"}

\* The file is too large.  Its size has already replaced the old one.
OtaStartTooLarge(f) ==
    /\ caller = "idle"
    /\ ~InProgress
    /\ FileSize[f] > MaxFwSize
    /\ g_fw_len' = FileSize[f]
    /\ UNCHANGED <<g_state, g_packet_size, g_fw_buf, g_current_offset, caller, rx, wire, mcu>>

\* The old buffer is freed and the new one cannot be had.
OtaStartNoMemory(f) ==
    /\ Faults
    /\ caller = "idle"
    /\ ~InProgress
    /\ FileSize[f] <= MaxFwSize
    /\ g_fw_len' = FileSize[f]
    /\ g_fw_buf' = NoFile
    /\ UNCHANGED <<g_state, g_packet_size, g_current_offset, caller, rx, wire, mcu>>

\* The file is read into the buffer.
OtaStartLoad(f) ==
    /\ caller = "idle"
    /\ ~InProgress
    /\ FileSize[f] <= MaxFwSize
    /\ g_fw_len' = FileSize[f]
    /\ g_fw_buf' = f
    /\ caller' = "send"
    /\ UNCHANGED <<g_state, g_packet_size, g_current_offset, rx, wire, mcu>>

\* UPGRADE_START goes out while g_state still has its old value, ...
OtaStartSend ==
    /\ caller = "send"
    /\ toMcu' = Append(toMcu, StartFrame(g_fw_len))
    /\ caller' = "state"
    /\ UNCHANGED <<hostVars, rx, toHost, mcu>>

\* ... then the state changes, ...
OtaStartSetState ==
    /\ caller = "state"
    /\ g_state' = "STARTING"
    /\ caller' = "offset"
    /\ UNCHANGED <<g_packet_size, g_fw_len, g_fw_buf, g_current_offset, rx, wire, mcu>>

\* ... then the offset, and ota_start returns 0.
OtaStartResetOffset ==
    /\ caller = "offset"
    /\ g_current_offset' = 0
    /\ caller' = "idle"
    /\ UNCHANGED <<g_state, g_packet_size, g_fw_len, g_fw_buf, rx, wire, mcu>>

-----------------------------------------------------------------------------
(* ota_handle_mcu_msg and send_next_packet, on the UART receive thread     *)

\* The reply the receive thread takes off the wire.
Receive(cmd) ==
    /\ rx = "idle"
    /\ toHost # << >>
    /\ Head(toHost).cmd = cmd
    /\ toHost' = Tail(toHost)

\* A reply in OTA_IDLE is dropped.
RxIgnore ==
    /\ g_state = "IDLE"
    /\ \E cmd \in {"START", "TRANS"} : Receive(cmd)
    /\ UNCHANGED <<hostVars, caller, rx, toMcu, mcu>>

RxStartReply_KeepsOffset ==
    /\ g_state # "IDLE"
    /\ Receive("START")
    /\ Head(toHost).ok
    /\ g_packet_size' = Head(toHost).size
    /\ g_state' = "SENDING"
    /\ rx' = "send"
    /\ UNCHANGED <<g_fw_len, g_fw_buf, g_current_offset, caller, toMcu, mcu>>

\* The MCU accepts and names its packet size.
RxStartReply ==
    /\ g_state # "IDLE"
    /\ Receive("START")
    /\ Head(toHost).ok
    /\ g_packet_size' = Head(toHost).size
    /\ g_state' = "SENDING"
    /\ g_current_offset' = 0
    /\ rx' = "send"
    /\ UNCHANGED <<g_fw_len, g_fw_buf, caller, toMcu, mcu>>

\* uint32 remain = g_fw_len - g_current_offset wraps to a large value when the
\* offset is beyond the end, and a chunk is never longer than a packet.
ChunkLen ==
    IF g_current_offset <= g_fw_len /\ g_fw_len - g_current_offset <= g_packet_size
    THEN g_fw_len - g_current_offset
    ELSE g_packet_size

\* The MCU has written the packet: count its bytes.
RxTransReply ==
    /\ g_state # "IDLE"
    /\ Receive("TRANS")
    /\ Head(toHost).ok
    /\ g_current_offset' = g_current_offset + ChunkLen
    /\ rx' = "send"
    /\ UNCHANGED <<g_state, g_packet_size, g_fw_len, g_fw_buf, caller, toMcu, mcu>>

\* An empty answer to UPGRADE_START or a nonzero one to UPGRADE_TRANS.
RxErrorReply ==
    /\ g_state # "IDLE"
    /\ \E cmd \in {"START", "TRANS"} : Receive(cmd)
    /\ ~Head(toHost).ok
    /\ g_state' = "ERROR"
    /\ UNCHANGED <<g_packet_size, g_fw_len, g_fw_buf, g_current_offset, caller, rx, toMcu, mcu>>

AllSent_SkipsLast == g_current_offset + g_packet_size >= g_fw_len
AllSent == g_current_offset >= g_fw_len

\* send_next_packet: everything is acknowledged.
RxFinish ==
    /\ rx = "send"
    /\ AllSent
    /\ g_state' = "DONE"
    /\ rx' = "idle"
    /\ UNCHANGED <<g_packet_size, g_fw_len, g_fw_buf, g_current_offset, caller, wire, mcu>>

SendTrans_OffByOne(len) ==
    IF 4 + len >= MaxPayload
    THEN UNCHANGED toMcu
    ELSE toMcu' = Append(toMcu, TransFrame(g_fw_buf, g_current_offset, len))

\* tuya_send_cmd drops a payload beyond its limit and reports nothing.
SendTrans(len) ==
    IF 4 + len > MaxPayload
    THEN UNCHANGED toMcu
    ELSE toMcu' = Append(toMcu, TransFrame(g_fw_buf, g_current_offset, len))

\* send_next_packet: offset and data of the next chunk.
RxSendPacket ==
    /\ rx = "send"
    /\ ~AllSent
    /\ SendTrans(ChunkLen)
    /\ rx' = "idle"
    /\ UNCHANGED <<hostVars, caller, toHost, mcu>>

\* send_next_packet finds no memory for the payload and returns.
RxNoMemory ==
    /\ Faults
    /\ rx = "send"
    /\ ~AllSent
    /\ rx' = "idle"
    /\ UNCHANGED <<hostVars, caller, wire, mcu>>

-----------------------------------------------------------------------------
(* The MCU: system.c, UPDATE_START_CMD and UPDATE_TRANS_CMD                *)

\* The MCU answers only once the caller has left ota_start, if it is prompt.
McuTakes(cmd) ==
    /\ toMcu # << >>
    /\ Head(toMcu).cmd = cmd
    /\ PromptCaller => caller = "idle"
    /\ toMcu' = Tail(toMcu)

McuStart ==
    /\ McuTakes("START")
    /\ mcu' = [mcu EXCEPT !.flag = TRUE, !.length = Head(toMcu).len,
                          !.prefix = 0, !.files = {}]
    /\ toHost' = Append(toHost, [cmd |-> "START", ok |-> TRUE, size |-> mcu.size])
    /\ UNCHANGED <<hostVars, caller, rx>>

\* The closing packet carries no data and the length as its offset.
Closing(frame) == frame.len = 0 /\ frame.off = mcu.length

\* A packet is written where its offset says, and answered.
McuTrans ==
    LET frame == Head(toMcu) IN
    /\ McuTakes("TRANS")
    /\ mcu.flag
    /\ frame.len <= mcu.size
    /\ mcu' = [mcu EXCEPT !.flag = ~Closing(frame),
                          !.files = IF Closing(frame) THEN @ ELSE @ \cup {frame.file},
                          !.prefix = IF frame.off <= @ /\ frame.off + frame.len > @
                                     THEN frame.off + frame.len
                                     ELSE @]
    /\ toHost' = Append(toHost, [cmd |-> "TRANS", ok |-> TRUE])
    /\ UNCHANGED <<hostVars, caller, rx>>

\* A packet outside an upgrade, or larger than announced, gets no answer.
McuNoAnswer ==
    LET frame == Head(toMcu) IN
    /\ McuTakes("TRANS")
    /\ ~(mcu.flag /\ frame.len <= mcu.size)
    /\ mcu' = [mcu EXCEPT !.flag = FALSE]
    /\ UNCHANGED <<hostVars, caller, rx, toHost>>

\* An MCU that reports errors, which the handler is prepared for.
McuReject ==
    /\ McuRejects
    /\ \E cmd \in {"START", "TRANS"} :
         /\ McuTakes(cmd)
         /\ toHost' = Append(toHost, [cmd |-> cmd, ok |-> FALSE])
    /\ UNCHANGED <<hostVars, caller, rx, mcu>>

\* The MCU restarts and forgets that an upgrade is under way.
McuRestart ==
    /\ Faults
    /\ mcu.flag
    /\ mcu' = [mcu EXCEPT !.flag = FALSE]
    /\ UNCHANGED <<hostVars, caller, rx, wire>>

\* A frame is lost: the port is closed, the write fails, the checksum is wrong.
Lose ==
    /\ Faults
    /\ \/ toMcu # << >> /\ toMcu' = Tail(toMcu) /\ UNCHANGED toHost
       \/ toHost # << >> /\ toHost' = Tail(toHost) /\ UNCHANGED toMcu
    /\ UNCHANGED <<hostVars, caller, rx, mcu>>

-----------------------------------------------------------------------------

CallerStep == OtaStartSend \/ OtaStartSetState \/ OtaStartResetOffset
RxStep == RxIgnore \/ RxStartReply \/ RxTransReply \/ RxErrorReply \/ RxFinish
            \/ RxSendPacket \/ RxNoMemory
McuStep == McuStart \/ McuTrans \/ McuNoAnswer \/ McuReject

Next ==
    \/ \E f \in Files : OtaStartTooLarge(f) \/ OtaStartNoMemory(f) \/ OtaStartLoad(f)
    \/ CallerStep
    \/ RxStep
    \/ McuStep \/ McuRestart \/ Lose

\* A thread inside a function goes on, and the MCU answers what reaches it.
\* Nobody has to start an upgrade.
Fairness == WF_vars(CallerStep) /\ WF_vars(RxStep) /\ WF_vars(McuStep)

Spec == Init /\ [][Next]_vars

-----------------------------------------------------------------------------
(* Properties                                                              *)

\* Every variable has its type.
TypeOK ==
    /\ g_state \in States
    /\ g_packet_size \in {256, 512, 1024}
    /\ g_fw_len \in Nat
    /\ g_fw_buf \in Files \cup {NoFile}
    /\ g_current_offset \in Nat
    /\ caller \in {"idle", "send", "state", "offset"}
    /\ rx \in {"idle", "send"}
    /\ mcu \in McuStates

\* Stop and wait: at most one request, reply or send in preparation exists.
\* Replies carry no offset, so everything else rests on this.
StopAndWait == Len(toMcu) + Len(toHost) + (IF rx = "send" THEN 1 ELSE 0) <= 1

\* A packet under way holds bytes of the file that is loaded now, and lies
\* inside it: nobody replaces the buffer or its length during a transfer.
PacketFromImage ==
    \A i \in 1..Len(toMcu) : toMcu[i].cmd = "TRANS" =>
        /\ g_fw_buf # NoFile /\ toMcu[i].file = g_fw_buf
        /\ g_fw_len = FileSize[g_fw_buf]
        /\ toMcu[i].off + toMcu[i].len <= g_fw_len

\* A packet never starts beyond what the MCU has, so no chunk is skipped even
\* though an acknowledgement does not say which chunk it acknowledges.
NoGap ==
    \A i \in 1..Len(toMcu) : toMcu[i].cmd = "TRANS" /\ mcu.flag =>
        toMcu[i].off <= mcu.prefix

\* The handler reports "OTA Finished Successfully" only when the MCU has every
\* byte of the loaded file and of no other.
DoneMeansDelivered ==
    [][g_state' = "DONE" /\ g_state # "DONE" =>
         mcu.prefix = g_fw_len /\ mcu.files \subseteq {g_fw_buf}]_vars

\* ota_handler.h:9 and ota_handler.c:98: OTA_SENDING sends packets of the size
\* the MCU supports, so one is under way, acknowledged, or about to be sent.
SendingHasPacket ==
    g_state = "SENDING" => toMcu # << >> \/ toHost # << >> \/ rx = "send"
=============================================================================
