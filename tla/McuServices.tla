---------------------------- MODULE McuServices ----------------------------
(***************************************************************************)
(* The services of the cellular module as the MCU SDK offers them to the   *)
(* application (doc/mcu_sdk/mcu_sdk/mcu_api.c and protocol.c): which frame *)
(* each call sends, and which function of the application gets the answer  *)
(* and what it learns from it.  A call and its answer are tied together    *)
(* only by the code of the service in the first byte of both, written down *)
(* once for the call and once for the answer.                              *)
(*                                                                         *)
(* All services are switched on, CELLULAR_MODULE_TYPE is 1.  The functions *)
(* that get the answers are templates whose branches are to be filled in:  *)
(* modelled is which of them is called and which branch it takes.          *)
(***************************************************************************)
EXTENDS Integers, Sequences, TLC
SeqOps == INSTANCE SequencesExt

GET_CELLULAR_CMD == 113
SET_CELLULAR_CMD == 114
EXPAND_SERVICE_CMD == 52

-----------------------------------------------------------------------------
(* Calls that send a frame of their own command                            *)

\* A frame of the command, the bytes fixed by the call, then its arguments.
Sends(cmd, fixed, takes) == [cmd |-> cmd, fixed |-> fixed, takes |-> takes]

Query(sub) == Sends(GET_CELLULAR_CMD, <<sub>>, << >>)
Setting(sub, takes) == Sends(SET_CELLULAR_CMD, <<sub>>, takes)
Bare(cmd) == Sends(cmd, << >>, << >>)

PlainCalls ==
    [get_green_time |-> Bare(12), get_system_time |-> Bare(28), heart_stop |-> Bare(37),
     get_connect_status |-> Bare(43), get_module_mac |-> Bare(45),
     get_remain_memory |-> Bare(15), get_rssi |-> Bare(36), set_feature_test |-> Bare(14)]

LockCalls ==
    [get_unix_time_zone |-> Bare(27), get_schedule_temp_pass |-> Bare(20),
     set_pswd_base |-> Sends(23, << >>, <<"byte", "byte">>),
     set_offline_dynamic_pswd |-> Sends(22, << >>, <<"bytes", "counted">>)]

-----------------------------------------------------------------------------
(* Calls of the cellular services                                          *)

IdentityCalls ==
    [get_work_mode |-> Query(1), get_IMSI |-> Query(2), get_IMCI |-> Query(3), get_IMEI |-> Query(4)]

GnssCalls ==
    [get_gnss_location |-> Query(16), get_gnss_rssi |-> Query(17), get_gnss_speed |-> Query(18),
     get_gnss_course |-> Query(19), get_gnss_hdop |-> Query(22), get_gnss_altitude |-> Query(23),
     ctl_gnss_filter |-> Setting(24, <<"byte">>), get_gnss_info |-> Query(26),
     control_gnss |-> Setting(129, <<"byte", "byte">>),
     reset_gnss |-> Setting(131, <<"byte", "byte">>)]

\* The period and the data point that carries the reports.
AutoReport(sub) == Setting(sub, <<"word", "byte">>)

LocationCalls ==
    [control_wifi_location |-> Setting(130, <<"byte">>), get_wifi_location |-> Query(32),
     get_lbs_location |-> Query(33), set_gnss_lat_lg_location |-> Query(41),
     set_auto_rpt_gps |-> AutoReport(144), set_auto_rpt_wifi |-> AutoReport(145),
     set_auto_rpt_lbs |-> AutoReport(146), get_location_track_status |-> Query(48)]

GnssPowerCalls ==
    [control_gnss_power |-> Setting(133, <<"byte">>), get_gnss_power_status |-> Query(34),
     ctl_agnss |-> Setting(134, <<"byte">>)]

Phone(fixed, takes) == Sends(GET_CELLULAR_CMD, <<35>> \o fixed, takes)

PhoneCalls ==
    [phone_callin_rsp |-> Phone(<<0>>, << >>), phone_callout |-> Phone(<<1>>, <<"bytes">>),
     phone_answer |-> Phone(<<2>>, << >>), phone_hungup |-> Phone(<<3>>, << >>),
     get_phone_status |-> Phone(<<4>>, << >>),
     send_dtmf |-> Setting(149, <<"byte">>), ctl_dtmf_monitor |-> Setting(153, <<"byte">>)]

\* The text of a message is number and content in one JSON object.
SmsCalls ==
    [recv_sms_rsp |-> Sends(GET_CELLULAR_CMD, <<36, 0>>, <<"byte">>),
     send_sms |-> Sends(GET_CELLULAR_CMD, <<36, 1>>, <<"bytes">>)]

PowerAndSoundCalls ==
    [get_battery |-> Query(37), get_charging_status |-> Query(38),
     set_volume |-> Setting(135, <<"byte", "byte">>),
     audio_play |-> Sends(GET_CELLULAR_CMD, <<39>>, <<"byte", "byte", "byte", "bytes">>),
     get_audio_play_status |-> Query(40), ctrl_low_vol_power |-> Setting(136, <<"byte">>),
     ctrl_ble_conn |-> Setting(137, <<"byte">>), ctrl_volte |-> Setting(148, <<"byte">>),
     ctrl_mute |-> Setting(151, <<"byte", "byte">>), set_offline_duration |-> Setting(150, <<"word">>)]

ModuleCalls ==
    [open_expand_reset |-> Sends(EXPAND_SERVICE_CMD, <<4>>, << >>),
     cellular_reset |-> Setting(152, << >>),
     set_wakeup_gpio |-> Setting(155, <<"byte", "byte">>), switch_sim_hotplug |-> Setting(158, <<"byte">>),
     get_ver |-> Query(65), get_nettype |-> Query(67)]

PlmnCall == [get_plmn |-> Query(72)]

Adc(operation, takes) == Sends(SET_CELLULAR_CMD, <<160, operation>>, takes)

AdcCalls ==
    [adc_init |-> Adc(0, <<"byte", "word">>), adc_read |-> Adc(1, <<"byte", "byte">>),
     adc_interval |-> Adc(2, <<"byte", "word", "byte">>), adc_deinit |-> Adc(4, <<"byte">>)]

Gpio(operation, takes) == Sends(SET_CELLULAR_CMD, <<161, operation>>, takes)

GpioCalls ==
    [gpio_init |-> Gpio(0, <<"byte", "byte", "byte", "byte">>), gpio_deinit |-> Gpio(1, <<"byte">>),
     gpio_write |-> Gpio(2, <<"byte", "byte">>), gpio_read |-> Gpio(3, <<"byte">>),
     gpio_write_interval |-> Gpio(4, <<"byte", "byte", "word", "word">>)]

RegularCalls ==
    PlainCalls @@ LockCalls @@ IdentityCalls @@ GnssCalls @@ LocationCalls @@ GnssPowerCalls
    @@ PhoneCalls @@ SmsCalls @@ PowerAndSoundCalls @@ ModuleCalls @@ PlmnCall @@ AdcCalls @@ GpioCalls

\* set_cellular_uart_byte and set_cellular_uart_buffer: an argument in the frame.
Field(kind, arg) ==
    CASE kind = "byte"    -> <<arg>>
      [] kind = "word"    -> <<arg \div 256, arg % 256>>
      [] kind = "bytes"   -> arg
      [] kind = "counted" -> <<Len(arg)>> \o arg

RegularRequest(call, args) ==
    LET format == RegularCalls[call] IN
    [cmd |-> format.cmd,
     data |-> format.fixed \o
              SeqOps!FlattenSeq([i \in DOMAIN args |-> Field(format.takes[i], args[i])])]

\* A call that returns before it sends anything.
NoRequest == [cmd |-> -1, data |-> << >>]

\* The filter value comes in tenths, the least step it has on the line.
FilterRequest(tenths) ==
    IF tenths < 0 \/ tenths > 1000 THEN NoRequest
    ELSE [cmd |-> SET_CELLULAR_CMD, data |-> <<25>> \o Field("word", tenths)]

\* A level is read, set, or has another control code that goes through as it is.
LevelRequest(sub, limit, ctrl, level) ==
    IF ctrl = 1 /\ level > limit THEN NoRequest
    ELSE [cmd |-> GET_CELLULAR_CMD,
          data |-> <<sub, ctrl>> \o (IF ctrl = 0 THEN << >> ELSE <<IF ctrl = 1 THEN level ELSE 0>>)]

MicGainRequest(ctrl, gain) == LevelRequest(70, 30, ctrl, gain)
SideGainRequest(ctrl, gain) == LevelRequest(71, 99, ctrl, gain)

\* The time until the radio is released goes out with the code of the side gain.
RrcRequest(ctrl, rrc) == LevelRequest(71, 20, ctrl, rrc)

\* Load a part of an audio file, and operations on one or, with 5, on all of them.
MemAudioRequest(ctrl, audio_id, port, part) ==
    LET Sent(rest) == [cmd |-> GET_CELLULAR_CMD, data |-> <<73, ctrl>> \o rest]
    IN  CASE ctrl = 1 -> Sent(<<audio_id, part.format>> \o Field("word", part.total)
                                \o Field("word", part.offset) \o part.data)
          [] ctrl \in {2, 4} -> Sent(<<audio_id>>)
          [] ctrl = 3 -> Sent(<<audio_id, port>>)
          [] ctrl = 5 -> Sent(<< >>)
          [] OTHER -> NoRequest

\* Text to speech: the options of playing, a query, or nothing behind the code.
TtsRequest(ctrl, play, query) ==
    [cmd |-> GET_CELLULAR_CMD,
     data |-> <<69>> \o (IF ctrl = 1 THEN play ELSE IF ctrl = 2 THEN query ELSE << >>)]

-----------------------------------------------------------------------------
(* Functions of the application that get the answers                       *)

\* What a function makes of the bytes it gets: whether it goes to its branch for
\* success, and what it finds there.
Given(ok, found) == [ok |-> ok, found |-> found]

\* How the functions read an answer.
Reading(how, p) ==
    CASE how = "all"      -> Given(TRUE, p)                  \* takes it as it is
      [] how = "value"    -> Given(TRUE, <<p[1]>>)           \* a value of one byte
      [] how = "flag"     -> Given(p[1] # 0, << >>)          \* 0 is a failure
      [] how = "one"      -> Given(p[1] = 1, Tail(p))        \* only 1 is a success
      [] how = "flagged"  -> Given(p[1] # 0, IF p[1] = 0 THEN << >> ELSE Tail(p))
      [] how = "zero"     -> Given(p[1] = 0, Tail(p))        \* 0 is a success
      [] how = "not_one"  -> Given(p[1] # 1, Tail(p))        \* 1 is a failure
      [] how = "both"     -> Given(p[1] # 0 /\ p[2] # 0, << >>)
      [] how = "operated" -> Given(p[2] # 0, <<p[1]>>)       \* operation, then a flag
      [] how = "on_port"  -> Given(p[3] = 0, <<p[1], p[2]>>) \* operation, port, error
      [] how = "played"   -> Given(p[4] # 0, << >>)          \* three bytes of options first
      [] how = "counted"  -> Given(p[1] = 5 \/ p[2] = 0, <<p[1], p[2]>>)
      [] how = "level"    -> Given(p[2] # 0, IF p[1] = 0 THEN <<p[3]>> ELSE << >>)
      [] how = "request"  -> Given(TRUE, << >>)              \* nothing in it matters

Result(stub, how) == [stub |-> stub, how |-> how]

TimeResults ==
    (12 :> Result("mcu_get_greentime", "one")) @@ (28 :> Result("mcu_write_rtctime", "one"))

SynResults ==
    (35 :> Result("get_upload_syn_result", "flag"))
    @@ (38 :> Result("get_upload_syn_timestamp_result", "flag"))
    @@ (43 :> Result("get_cellular_status", "value"))

ModuleStateResults ==
    (45 :> Result("mcu_get_mac", "not_one")) @@ (15 :> Result("remain_memory_result", "all"))
    @@ (36 :> Result("get_cellular_rssi_result", "flagged"))
    @@ (14 :> Result("get_feature_test_result", "all"))

IdentityResults ==
    (1 :> Result("get_cellular_work_mode_result", "value"))
    @@ (2 :> Result("get_cellular_IMSI_result", "all")) @@ (3 :> Result("get_cellular_IMCI_result", "all"))
    @@ (4 :> Result("get_cellular_IMEI_result", "all"))

GnssResults ==
    (16 :> Result("get_gnss_location_result", "flagged")) @@ (17 :> Result("get_gnss_rssi_result", "flagged"))
    @@ (18 :> Result("get_gnss_speed_result", "flagged")) @@ (19 :> Result("get_gnss_course_result", "flagged"))
    @@ (22 :> Result("get_gnss_hdop_result", "flagged")) @@ (23 :> Result("get_gnss_altitude_result", "flagged"))

GnssControlResults ==
    (24 :> Result("ctl_gnss_filter_result", "flag")) @@ (25 :> Result("set_gnss_filter_result", "flag"))
    @@ (26 :> Result("get_gnss_info_result", "flagged"))
    @@ (32 :> Result("get_cellular_wifi_location_result", "flagged"))
    @@ (129 :> Result("get_set_gnss_result", "both"))

LocationResults_Swapped ==
    (130 :> Result("set_cellular_wifi_result", "flag")) @@ (131 :> Result("reset_gnss_result", "flag"))
    @@ (33 :> Result("get_cellular_lbs_location_result", "flagged"))
    @@ (34 :> Result("get_gnss_power_status_result", "value"))
    @@ (133 :> Result("get_set_agnss_result", "flag"))
    @@ (134 :> Result("get_set_gnss_power_result", "flag"))

LocationResults ==
    (130 :> Result("set_cellular_wifi_result", "flag")) @@ (131 :> Result("reset_gnss_result", "flag"))
    @@ (33 :> Result("get_cellular_lbs_location_result", "flagged"))
    @@ (34 :> Result("get_gnss_power_status_result", "value"))
    @@ (133 :> Result("get_set_gnss_power_result", "flag"))
    @@ (134 :> Result("get_set_agnss_result", "flag"))

ReportResults ==
    (41 :> Result("get_gnss_location_lat_lg_result", "flagged"))
    @@ (144 :> Result("get_set_cellular_auto_rpt_gps_result", "flag"))
    @@ (145 :> Result("get_set_cellular_auto_rpt_wifi_result", "flag"))
    @@ (146 :> Result("get_set_cellular_auto_rpt_lbs_result", "flag"))
    @@ (48 :> Result("get_cellular_location_track_status_result", "all"))

SmsResults ==
    (36 :> Result("get_contrl_sms_result", "operated"))

PowerResults ==
    (37 :> Result("get_cellular_vbat_vol_result", "value"))
    @@ (38 :> Result("get_vbat_charging_status_result", "value"))

SoundResults ==
    (135 :> Result("get_set_cellular_volume_result", "operated"))
    @@ (39 :> Result("get_contrl_cellulat_audio_play_result", "played"))
    @@ (40 :> Result("get_voice_play_status_result", "operated"))
    @@ (42 :> Result("get_voice_play_finish_result", "value"))

SwitchResults ==
    (136 :> Result("get_set_cellular_ctrl_low_vol_power_result", "flag"))
    @@ (150 :> Result("get_set_cellular_ctrl_offline_result", "flag"))
    @@ (137 :> Result("get_set_cellular_ctrl_ble_conn_result", "flag"))
    @@ (147 :> Result("get_set_cellular_send_shorturl_result", "all"))
    @@ (148 :> Result("get_set_cellular_ctrl_volte_result", "flag"))

\* A tone is the other side's, or the module's answer to one that was sent.
DtmfResult(cmd) ==
    IF cmd = GET_CELLULAR_CMD THEN Result("get_dtmf_value_result", "value")
    ELSE Result("get_dtmf_ack_result", "flag")

InfoResults ==
    (65 :> Result("get_cellular_ver_result", "flagged")) @@ (67 :> Result("get_cellular_nettype_result", "value"))
    @@ (70 :> Result("contrl_cellular_mic_gain_result", "level"))
    @@ (71 :> Result("contrl_cellular_side_gain_result", "level"))

EventResults ==
    (151 :> Result("get_set_cellular_ctrl_mute_result", "operated"))
    @@ (153 :> Result("get_set_cellular_ctrl_dtmf_result", "flag"))
    @@ (154 :> Result("get_cellular_warning_result", "value"))
    @@ (155 :> Result("get_set_cellular_wakeup_gpio_result", "flag"))
    @@ (157 :> Result("get_cellular_reboot_result", "request"))
    @@ (158 :> Result("get_set_cellular_sim_hotplug_result", "flag"))

PortResults ==
    (160 :> Result("set_cellular_adc_result", "on_port")) @@ (161 :> Result("set_celular_gpio_result", "on_port"))
    @@ (74 :> Result("get_cellular_rrc_result", "zero")) @@ (72 :> Result("get_cellular_plmn_result", "flagged"))
    @@ (73 :> Result("get_cellular_contrl_mem_audio_result", "counted"))
    @@ (69 :> Result("get_cellular_ctrl_tts_result", "zero"))

\* cellular_service_process by the first byte of the frame: location, then the rest.
LocationService == IdentityResults @@ GnssResults @@ GnssControlResults @@ LocationResults @@ ReportResults

DeviceService ==
    SmsResults @@ PowerResults @@ SoundResults @@ SwitchResults @@ InfoResults @@ EventResults @@ PortResults

\* Some functions return at once when the data is short.
TooShort(sub, p) ==
    \/ sub \in {35, 36} /\ Len(p) < 2
    \/ sub = 32 /\ Len(p) < 2
    \/ sub = 39 /\ Len(p) < 4

\* What the application is told: by which function, and what it makes of it.
Tell(result, p) == << [stub |-> result.stub, given |-> Reading(result.how, p)] >>

\* The application's part in an answer or a notice of a service that keeps no
\* state; a code nobody knows reaches nobody.
Told(cmd, sub, p) ==
    CASE TooShort(sub, p) -> << >>
      [] sub = 149 -> Tell(DtmfResult(cmd), p)
      [] sub \in DOMAIN LocationService -> Tell(LocationService[sub], p)
      [] sub \in DOMAIN DeviceService -> Tell(DeviceService[sub], p)
      [] OTHER -> << >>

\* get_contrl_phone_result: where the call is after an answer or an incoming call.
CallStatus(now, p) ==
    LET After(good, bad) == IF p[2] = 0 THEN good ELSE bad
    IN  CASE p[1] = 0 -> "DIALING"
          [] p[1] = 1 -> After("CALL_FAILED", "DIALING")
          [] p[1] = 2 -> After("CALLING", "CALL_FAILED")
          [] p[1] = 3 -> After("IDLE", "CALLING")
          [] p[1] = 4 /\ p[2] \in 0..3 -> <<"DIALING", "IDLE", "CALL_FAILED", "CALLING">>[p[2] + 1]
          [] OTHER -> now

-----------------------------------------------------------------------------
(* Lock, reset and weather                                                 *)

TimeZoneResult == Result("get_unix_time_zone", "one")

\* 0 is a correct password.
OfflinePasswordResult == Result("get_offline_dynamic_pswd_result", "zero")

\* The six bytes of each entry of a schedule.
Schedule(count, bytes) == [i \in 1..count |-> SubSeq(bytes, 6 * i - 5, 6 * i)]

\* get_schedule_temp_pass_handle: the passwords have one length or another,
\* depending on whether the base of the passwords was set; the application is
\* called once for each, or once for a failure.
TempPasswords(base_set, p) ==
    LET pass_len == IF base_set THEN p[4] ELSE p[3]
        Count(at) == p[at + 15 + pass_len]
        Password(at) ==
            [stub |-> "schedule_temp_pass_data",
             given |-> Given(TRUE, <<p[at], SubSeq(p, at + 15, at + 14 + pass_len),
                                     Schedule(Count(at), SubSeq(p, at + 16 + pass_len, Len(p)))>>)]
        starts[i \in Nat] == IF i = 1 THEN 5 ELSE starts[i-1] + 16 + pass_len + 6 * Count(starts[i-1])
    IN  IF p[1] = 1 THEN [i \in 1..p[2] |-> Password(starts[i])]
        ELSE << [stub |-> "schedule_temp_pass_data", given |-> Given(FALSE, << >>)] >>

\* Answers to the switch for notices of resets.
ResetResult == Result("open_expand_service_reset_result", "flag")

\* A reset and a change of the module's own firmware: each notice is answered.
ResetNotice(p) == << [cmd |-> EXPAND_SERVICE_CMD, data |-> <<5>>] >>
FotaNotice(p) == << [cmd |-> EXPAND_SERVICE_CMD, data |-> <<9>>] >>

\* mcu_open_weather: each option with its length in front.
WeatherRequest(options) ==
    [cmd |-> 32, data |-> SeqOps!FlattenSeq([i \in DOMAIN options |-> Field("counted", options[i])])]

WeatherResult == Result("weather_open_return_handle", "one")

\* weather_data_raw_handle: name, day, type and value of each item, up to one of
\* no known type.  The length of a name, with its prefix, is taken to be from 2 to
\* 16: system.c:348 copies two bytes less into 15 without a check.
WeatherItems(p) ==
    LET Known(i) == p[i + 1 + p[i]] \in {0, 1}
        Value(i) == i + 2 + p[i]
        Item(i) == [stub |-> "weather_data_user_handle",
                    given |-> Given(TRUE, <<SubSeq(p, i + 3, i + p[i] - 2), p[i + p[i]] - 48,
                                            SubSeq(p, Value(i) + 1, Value(i) + p[Value(i)])>>)]
        from[i \in Nat] ==
            IF i > Len(p) \/ ~Known(i) THEN << >>
            ELSE <<Item(i)>> \o from[Value(i) + p[Value(i)] + 1]
    IN  IF p[1] = 1 THEN from[2] ELSE << >>

\* The answer, which a wrong type prevents.
WeatherAnswered(p) ==
    LET Next(i) == i + 3 + p[i] + p[i + 2 + p[i]]
        good[i \in Nat] == i > Len(p) \/ (p[i + 1 + p[i]] \in {0, 1} /\ good[Next(i)])
    IN  p[1] = 1 /\ good[2]
=============================================================================
