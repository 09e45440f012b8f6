------------------------------ MODULE TuyaFrame ------------------------------
(***************************************************************************)
(* The frame format of the serial line (main_service/src/tuya_protocol.c,  *)
(* lines 124-254): packing a frame and the byte-at-a-time parser as pure   *)
(* functions of the parser's fields.  Bytes are numbers below 256 and the  *)
(* checksum wraps like the code's uint8_t.                                 *)
(***************************************************************************)
EXTENDS Integers, Sequences

CONSTANT MaxData   \* sizeof(parser->data_buf): 1024 in the code

ASSUME FrameAssumption == MaxData \in Nat

ByteMax == 255
WordMax == 65535
Byte == 0..ByteMax
Word == 0..WordMax

\* tuya_check_sum: sum[i] is the uint8_t after i rounds of its loop.
CheckSum(bytes) ==
    LET sum[i \in 0..Len(bytes)] == IF i = 0 THEN 0 ELSE (sum[i - 1] + bytes[i]) % 256
    IN  sum[Len(bytes)]

\* tuya_pack_frame; the service's own frames have version 0, the MCU's 3.
FrameBytes(version, cmd, data) ==
    LET body == <<85, 170, version, cmd, Len(data) \div 256, Len(data) % 256>> \o data
    IN  Append(body, CheckSum(body))

-----------------------------------------------------------------------------
(* tuya_parser_process: one operator per state of the parser.  data_idx is *)
(* the length of data, the bytes stored so far.                            *)

ParseStates == {"HEAD_1", "HEAD_2", "VERSION", "CMD", "LEN_1", "LEN_2", "DATA", "CHECKSUM"}

\* tuya_parser_init
InitParser == [state |-> "HEAD_1", version |-> 0, cmd |-> 0, data_len |-> 0,
               data |-> << >>, checksum |-> 0]

Add_NoWrap(p, byte) == p.checksum + byte

\* A byte that belongs to the frame counts towards the checksum.
Add(p, byte) == (p.checksum + byte) % 256

AtHead1_KeepsSum(p, byte) ==
    IF byte = 85 THEN [p EXCEPT !.state = "HEAD_2", !.checksum = Add(p, 85)] ELSE p

AtHead1(p, byte) ==
    IF byte = 85 THEN [p EXCEPT !.state = "HEAD_2", !.checksum = 85] ELSE p

AtHead2(p, byte) ==
    IF byte = 170
    THEN [p EXCEPT !.state = "VERSION", !.checksum = Add(p, 170)]
    ELSE [p EXCEPT !.state = "HEAD_1"]

AtHeader(p, byte) ==
    CASE p.state = "VERSION" -> [p EXCEPT !.state = "CMD", !.version = byte, !.checksum = Add(p, byte)]
      [] p.state = "CMD"     -> [p EXCEPT !.state = "LEN_1", !.cmd = byte, !.checksum = Add(p, byte)]
      [] p.state = "LEN_1"   -> [p EXCEPT !.state = "LEN_2", !.data_len = 256 * byte, !.checksum = Add(p, byte)]

\* The state after the length is known, with the protection of data_buf.
AfterLength_Unprotected(len) == IF len = 0 THEN "CHECKSUM" ELSE "DATA"
AfterLength(len) ==
    IF len = 0 THEN "CHECKSUM" ELSE IF len > MaxData THEN "HEAD_1" ELSE "DATA"

AtLen2(p, byte) ==
    LET len == p.data_len + byte IN
    [p EXCEPT !.state = AfterLength(len), !.data_len = len, !.data = << >>,
              !.checksum = Add(p, byte)]

AtData(p, byte) ==
    [p EXCEPT !.state = IF Len(p.data) + 1 = p.data_len THEN "CHECKSUM" ELSE "DATA",
              !.data = Append(@, byte),
              !.checksum = Add(p, byte)]

AtCheckSum_Waits(p, byte) == IF byte = p.checksum THEN [p EXCEPT !.state = "HEAD_1"] ELSE p

\* A frame is over, good or bad.
AtCheckSum(p, byte) == [p EXCEPT !.state = "HEAD_1"]

Process(p, byte) ==
    CASE p.state = "HEAD_1" -> AtHead1(p, byte)
      [] p.state = "HEAD_2" -> AtHead2(p, byte)
      [] p.state \in {"VERSION", "CMD", "LEN_1"} -> AtHeader(p, byte)
      [] p.state = "LEN_2" -> AtLen2(p, byte)
      [] p.state = "DATA" -> AtData(p, byte)
      [] p.state = "CHECKSUM" -> AtCheckSum(p, byte)

Completes_Unchecked(p, byte) == p.state = "CHECKSUM"

\* tuya_parser_process returns 1.
Completes(p, byte) == p.state = "CHECKSUM" /\ p.checksum = byte

-----------------------------------------------------------------------------
(* tuya_dispatch_mcu_frame: who gets a frame                               *)

Handler(cmd) ==
    CASE cmd = 0   -> "heartbeat"
      [] cmd = 1   -> "product_info"
      [] cmd = 2   -> "work_mode"
      [] cmd = 3   -> "wifi_state"
      [] cmd = 4   -> "reset"
      [] cmd = 7   -> "dp_report"
      [] cmd \in {10, 11} -> "ota"
      [] cmd = 34  -> "cmd_22"
      [] cmd = 38  -> "cmd_26"
      [] cmd = 113 -> "get_m_version"
      [] OTHER     -> "default"
=============================================================================
