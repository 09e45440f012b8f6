----------------------------- MODULE IotCommand -----------------------------
(***************************************************************************)
(* From a named control to bytes for the MCU and back: the table of data   *)
(* points and execute_single_iot_call (main_service/src/cloud_llm.c), the  *)
(* packing of one data point (tuya_protocol.c, lines 149-185), and how the *)
(* MCU unpacks it (doc/mcu_sdk/mcu_sdk/system.c and mcu_api.c).            *)
(*                                                                         *)
(* A JSON value is a record [kind, valueint] as cJSON leaves it: valueint  *)
(* is 1 for true, a number cut to 32 bits, and 0 for everything else.      *)
(***************************************************************************)
EXTENDS Integers, Sequences

CONSTANTS DpMap,      \* g_iot_dp_map: method -> [dp_id, dp_type]
          NoPayload   \* what a rejected call gives

DpTypes == {"RAW", "BOOL", "VALUE", "ENUM"}

ASSUME IotAssumption ==
    /\ \A method \in DOMAIN DpMap :
          DpMap[method].dp_id \in 1..255 /\ DpMap[method].dp_type \in DpTypes
    /\ \A a, b \in DOMAIN DpMap : DpMap[a].dp_id = DpMap[b].dp_id => a = b

Absent == [kind |-> "absent", valueint |-> 0]

-----------------------------------------------------------------------------
(* The service                                                             *)

\* The byte of a 32-bit two's complement number that >> and & 0xFF leave.
ByteOf(value, weight) == (value \div weight) % 256

BigEndian_Swapped(value) == <<ByteOf(value, 1), ByteOf(value, 256), ByteOf(value, 65536), ByteOf(value, 16777216)>>

BigEndian(value) == <<ByteOf(value, 16777216), ByteOf(value, 65536), ByteOf(value, 256), ByteOf(value, 1)>>

\* tuya_pack_dp_raw: id, type, length and value; 64 bytes are room enough.
PackDp(dp, bytes) ==
    <<dp.dp_id, dp.dp_type, Len(bytes) \div 256, Len(bytes) % 256>> \o bytes

\* The payload of a call, or NoPayload: no value, no such method, or a raw
\* data point.  A value of another kind than the data point's is not refused.
Payload(method, val) ==
    IF val = Absent \/ method \notin DOMAIN DpMap THEN NoPayload
    ELSE LET dp == DpMap[method] IN
         CASE dp.dp_type = "BOOL"  -> PackDp(dp, <<IF val.kind = "true" THEN 1 ELSE 0>>)
           [] dp.dp_type = "VALUE" -> PackDp(dp, BigEndian(val.valueint))
           [] dp.dp_type = "ENUM"  -> PackDp(dp, <<val.valueint % 256>>)
           [] OTHER                -> NoPayload

-----------------------------------------------------------------------------
(* The MCU                                                                 *)

\* byte_to_int; the handlers take the result as they declare it, here signed.
FromBytes(b) ==
    (IF b[1] > 127 THEN b[1] - 256 ELSE b[1]) * 16777216 + b[2] * 65536 + b[3] * 256 + b[4]

\* data_point_handle for the one data point of a payload: which one, and what
\* value its handler gets.
McuUnpacks(payload) ==
    LET len   == payload[3] * 256 + payload[4]
        value == SubSeq(payload, 5, 4 + len)
    IN  [dp_id |-> payload[1], dp_type |-> payload[2],
         value |-> IF payload[2] = "VALUE" THEN FromBytes(value) ELSE value[1]]

-----------------------------------------------------------------------------
(* The meaning of a call, by its descriptor                                *)

\* The value is of the kind the descriptor of the method asks for.
Typed(method, val) ==
    CASE DpMap[method].dp_type = "BOOL"  -> val.kind \in {"true", "false"}
      [] DpMap[method].dp_type = "VALUE" -> val.kind = "number"
      [] OTHER -> FALSE

Meaning(method, val) ==
    [dp_id |-> DpMap[method].dp_id, dp_type |-> DpMap[method].dp_type,
     value |-> IF val.kind = "number" THEN val.valueint ELSE IF val.kind = "true" THEN 1 ELSE 0]
=============================================================================
