--------------------------- MODULE McuDataPoints ---------------------------
(***************************************************************************)
(* The data points of the device: the table of the MCU, its handlers for   *)
(* data points that are set, and its reports (doc/mcu_sdk/mcu_sdk          *)
(* /protocol.c and mcu_api.c), next to the service's own table             *)
(* (main_service/src/cloud_llm.c).  The two tables are written by hand in  *)
(* two programs, and nothing but the number of a data point ties a control *)
(* of the service to a handler of the MCU.                                 *)
(***************************************************************************)
EXTENDS Integers, Sequences

\* DP_TYPE_...: the second byte of a data point.
TypeCode == [RAW |-> 0, BOOL |-> 1, VALUE |-> 2, STRING |-> 3, ENUM |-> 4, BITMAP |-> 5]

\* Type of a data point, given those that are raw and those that are numbers.
Typing(raw, numbers, dp) ==
    IF dp \in raw THEN "RAW" ELSE IF dp \in numbers THEN "VALUE" ELSE "BOOL"

\* g_iot_dp_map of the service, a data point standing for its method.
ServiceType ==
    [dp \in 101..152 |->
        Typing({106, 122, 123, 131, 134},
               {102, 103, 104, 107, 108, 109, 110, 113, 125, 126, 127, 129, 130, 140,
                141, 142, 143, 145, 146, 147, 148, 150, 151}, dp)]

\* The methods of g_iot_dp_map that set something; the others are called get_...
Settable ==
    {101, 102, 103, 104, 105, 108, 117, 118, 120, 124, 125, 126, 127, 128, 129, 130,
     133, 137, 138, 140, 141, 143, 144, 149, 152}

\* download_cmd of the MCU.
DownloadType ==
    [dp \in 101..152 |->
        CASE dp \in {106, 122, 123, 131, 134} -> "RAW"
          [] dp \in {101, 105, 111, 112, 114, 115, 116, 117, 118, 119, 120, 121, 124, 128,
                     132, 133, 135, 136, 137, 138, 139, 144, 149, 152} -> "BOOL"
          [] OTHER -> "VALUE"]

-----------------------------------------------------------------------------
(* dp_download_..._handle: each reads a value of its kind and reports it   *)

\* Handlers that read a bool, and handlers that read a value, each of them for
\* the data point it also reports.
Handlers(bools, values) ==
    [dp \in bools \cup values |->
        [reads |-> IF dp \in bools THEN "BOOL" ELSE "VALUE", reports |-> dp]]

HeatingAndFan_Pasted == [Handlers({101, 105}, {102, 103, 104}) EXCEPT ![104].reports = 102]

\* Heating, its temperatures, fan.
HeatingAndFan == Handlers({101, 105}, {102, 103, 104})

\* Lower fan temperature, side protection, automatic mode, traffic.
ProtectionAndModes == Handlers({117, 118, 120, 124}, {108})

\* Times of sleep, alarm, run and traffic, light.
TimesAndLight == Handlers({128}, {125, 126, 127, 129})

\* End of traffic, unbinding, rotation, fan threshold.
RotationAndUnbind == Handlers({133, 137, 138}, {130, 140})

\* Heat threshold, rotation command, position, wake-up, mute.
CommandsAndSwitches == Handlers({144, 149, 152}, {141, 143})

\* dp_download_handle: which handler a data point has.
DownloadHandler ==
    LET Areas == {HeatingAndFan, ProtectionAndModes, TimesAndLight, RotationAndUnbind,
                  CommandsAndSwitches}
        Dps   == UNION {DOMAIN area : area \in Areas}
    IN  [dp \in Dps |-> (CHOOSE area \in Areas : dp \in DOMAIN area)[dp]]

-----------------------------------------------------------------------------
(* Reports                                                                 *)

\* Id, type and length, as every report writes them before the value.
DpHead(dp, kind, len) == <<dp, TypeCode[kind], len \div 256, len % 256>>

\* mcu_dp_raw_update, ..._bool_, ..._value_, ..._string_ and ..._enum_update: a
\* value is the sequence of its bytes.
DpData(dp, kind, bytes) ==
    DpHead(dp, kind, Len(bytes)) \o
        (IF kind = "BOOL" THEN <<IF bytes[1] = 0 THEN 0 ELSE 1>> ELSE bytes)

\* mcu_dp_fault_update takes the shortest of one, two or four bytes.
FaultData(dp, bytes) ==
    LET short == IF bytes[1] = 0 /\ bytes[2] = 0
                 THEN IF bytes[3] = 0 THEN <<bytes[4]>> ELSE <<bytes[3], bytes[4]>>
                 ELSE bytes
    IN  DpHead(dp, "BITMAP", Len(short)) \o short

\* The data of a report [dp, kind, bytes].
ReportData(r) == IF r.kind = "BITMAP" THEN FaultData(r.dp, r.bytes) ELSE DpData(r.dp, r.kind, r.bytes)

\* The _syn functions send the same data with a command that is answered.
SynReport(r) == [cmd |-> 34, data |-> ReportData(r)]

\* The _syn_timestamp functions send seven bytes of time before them.
TimedReport(r) == [cmd |-> 38, data |-> r.time \o ReportData(r)]

\* A report the application makes, in one of the three ways.
Report(r) ==
    CASE r.way = "plain" -> [cmd |-> 7, data |-> ReportData(r)]
      [] r.way = "syn"   -> SynReport(r)
      [] r.way = "timed" -> TimedReport(r)

-----------------------------------------------------------------------------
(* Data points that are set                                                *)

\* mcu_get_dp_download_bool and mcu_get_dp_download_value; a value's four bytes
\* stay as they are through byte_to_int and back.
Reads(kind, bytes) == IF kind = "BOOL" THEN <<bytes[1]>> ELSE SubSeq(bytes, 1, 4)

\* data_point_handle: a data point whose type is the table's goes to its handler,
\* which reports it.  Without a handler nothing happens, also for an id that is
\* not in the table, where the type is compared with what lies behind the table.
DataPointHandle(id, type, bytes) ==
    IF /\ id \in DOMAIN DownloadHandler
       /\ type = TypeCode[DownloadType[id]]
    THEN LET handler == DownloadHandler[id] IN
         << [way |-> "plain", dp |-> handler.reports, kind |-> handler.reads,
             bytes |-> Reads(handler.reads, bytes)] >>
    ELSE << >>

DpLen(data, i) == data[i + 2] * 256 + data[i + 3]

\* The loop over the data points of DATA_QUERT_CMD: what is reported, in order.
DataQuery(data) ==
    LET Handle(i) ==
            DataPointHandle(data[i], data[i + 1], SubSeq(data, i + 4, i + 3 + DpLen(data, i)))
        from[i \in Nat] ==
            IF i > Len(data) THEN << >> ELSE Handle(i) \o from[i + DpLen(data, i) + 4]
    IN  from[1]
=============================================================================
