---------------------------- MODULE McuFirmware ----------------------------
(***************************************************************************)
(* The firmware of the MCU as the SDK builds it (doc/mcu_sdk/mcu_sdk): the *)
(* serial input of McuSerial, data_handle for every frame it finds, the    *)
(* data points, and the calls of the application.  At the other end is the *)
(* module with the cloud behind it, which sends frames of its own and      *)
(* answers calls; here it is external.                                     *)
(*                                                                         *)
(* The upgrade of the firmware is the module OtaUpgrade.                   *)
(***************************************************************************)
EXTENDS McuSerial, McuDataPoints, McuServices

CONSTANTS ProductInfo,    \* the JSON text of the product's key and version
          WeatherOptions  \* what the weather service is asked for

VARIABLES flags,    \* the flags of the SDK and the application
          effect,   \* the last step's frames, and what it told the application
          asked,    \* the call the module has not answered
          expected, \* frames the module has sent and the MCU has not handled
          noise,    \* bytes that are no frame, since the last frame was sent
          plain     \* no noise since the start was such that it hides a frame or forms one

env == <<flags, effect, asked, expected, noise, plain>>
mcuVars == <<serialVars, env>>

NoCall == [call |-> "none", args |-> << >>]
Quiet == [frames |-> << >>, told |-> << >>]

\* cellular_protocol_init and the initial values of the flags.
StartFlags ==
    [work_state |-> 255, reset_cellular |-> FALSE, set_mode |-> FALSE, mcu_reset |-> FALSE,
     weather_sent |-> FALSE, pswd_base |-> FALSE, call |-> "IDLE"]

McuInit ==
    /\ SerialInit /\ line = << >>
    /\ flags = StartFlags /\ effect = Quiet
    /\ asked = NoCall /\ expected = << >>
    /\ noise = << >> /\ plain = TRUE

-----------------------------------------------------------------------------
(* data_handle: the flags afterwards, the frames written, the application  *)

Writes(f, frames) == [flags |-> f, frames |-> frames, told |-> << >>]
Tells(f, told) == [flags |-> f, frames |-> << >>, told |-> told]
Empty(cmd) == << [cmd |-> cmd, data |-> << >>] >>

\* heat_beat_check: 0 for the first heartbeat after a restart, then 1.
HeartBeat(f) ==
    Writes([f EXCEPT !.mcu_reset = TRUE],
           << [cmd |-> 0, data |-> <<IF f.mcu_reset THEN 1 ELSE 0>>] >>)

\* product_info_update
ProductInfoAnswer(f) == Writes(f, << [cmd |-> 1, data |-> ProductInfo] >>)

\* The first time the module has a network the weather service is opened.
CellularState(f, state) ==
    LET opens == state \in {3, 4, 6} /\ ~f.weather_sent
    IN  Writes([f EXCEPT !.work_state = state, !.weather_sent = @ \/ opens],
               Empty(3) \o (IF opens THEN << WeatherRequest(WeatherOptions) >> ELSE << >>))

\* A frame of data points is answered by reports.
SetDataPoints(f, data) ==
    LET reports == DataQuery(data) IN Writes(f, [i \in DOMAIN reports |-> Report(reports[i])])

\* The services of the module: a call, a request to reboot, all the others.
CellularService(f, cmd, data) ==
    LET p == Tail(data) IN
    CASE data[1] = 35 /\ TooShort(35, p) -> Tells(f, << >>)
      [] data[1] = 35 ->
            [flags |-> [f EXCEPT !.call = CallStatus(@, p)],
             frames |-> IF p[1] = 0 THEN << RegularRequest("phone_callin_rsp", << >>) >> ELSE << >>,
             told |-> << [stub |-> "get_contrl_phone_result", given |-> Given(TRUE, p)] >>]
      [] data[1] = 157 ->
            [flags |-> f, frames |-> << [cmd |-> SET_CELLULAR_CMD, data |-> <<157>>] >>,
             told |-> Told(cmd, 157, p)]
      [] OTHER -> Tells(f, Told(cmd, data[1], p))

ExpandService(f, data) ==
    CASE data[1] = 4 -> Tells(f, Tell(ResetResult, Tail(data)))
      [] data[1] = 5 -> Writes(f, ResetNotice(Tail(data)))
      [] data[1] = 9 -> Writes(f, FotaNotice(Tail(data)))
      [] OTHER -> Tells(f, << >>)

\* get_set_psw_base_result: 0 is the success.
PswdBase(f, result) ==
    [flags |-> [f EXCEPT !.pswd_base = result = 0], frames |-> << >>,
     told |-> << [stub |-> "get_set_psw_base_result", given |-> Given(result = 0, << >>)] >>]

\* The results of the other commands.
PlainResults ==
    TimeResults @@ SynResults @@ ModuleStateResults @@ (32 :> WeatherResult)
    @@ (27 :> TimeZoneResult) @@ (22 :> OfflinePasswordResult)

\* A state query runs a template of the application, and the
\* upgrade's commands are not switched on.
DataHandle(f, cmd, data) ==
    CASE cmd = 0 -> HeartBeat(f)
      [] cmd = 1 -> ProductInfoAnswer(f)
      [] cmd = 2 -> Writes(f, Empty(2))
      [] cmd = 3 -> CellularState(f, data[1])
      [] cmd = 4 -> Tells([f EXCEPT !.reset_cellular = TRUE], << >>)
      [] cmd = 5 -> Tells([f EXCEPT !.set_mode = TRUE], << >>)
      [] cmd = 6 -> SetDataPoints(f, data)
      [] cmd \in DOMAIN PlainResults -> Tells(f, Tell(PlainResults[cmd], data))
      [] cmd = 33 -> [flags |-> f, told |-> WeatherItems(data),
                      frames |-> IF WeatherAnswered(data) THEN Empty(33) ELSE << >>]
      [] cmd = 20 -> Tells(f, TempPasswords(f.pswd_base, data))
      [] cmd = 23 -> PswdBase(f, data[1])
      [] cmd = EXPAND_SERVICE_CMD -> ExpandService(f, data)
      [] cmd \in {GET_CELLULAR_CMD, SET_CELLULAR_CMD} -> CellularService(f, cmd, data)
      [] OTHER -> Tells(f, << >>)

-----------------------------------------------------------------------------
(* The steps                                                               *)

\* The command and the data of the frame at offset.
FrameCmd == At(3)
FrameData == SubSeq(FrameAtOffset, 7, FrameLen - 1)

\* The frame at offset is the oldest one the module has sent.
IsOldest == expected # << >> /\ Head(expected).bytes = FrameAtOffset

\* A frame is handled.
Deliver ==
    /\ Dispatch
    /\ LET done == DataHandle(flags, FrameCmd, FrameData) IN
       /\ flags' = done.flags
       /\ effect' = [frames |-> done.frames, told |-> done.told]
    /\ asked' = IF IsOldest /\ Head(expected).answer THEN NoCall ELSE asked
    /\ expected' = IF IsOldest THEN Tail(expected) ELSE expected
    /\ UNCHANGED <<noise, plain>>

\* A step that the application does not notice.
Quietly == effect' = Quiet /\ UNCHANGED <<flags, asked, expected, noise, plain>>

Interrupt == ReceiveInput /\ Quietly

MainLoop == \/ Service /\ Quietly
            \/ Deliver

\* What a call of the application writes.
Request(call, args) ==
    CASE call = "set_gnss_filter" -> FilterRequest(args[1])
      [] call = "mic_gain"  -> MicGainRequest(args[1], args[2])
      [] call = "side_gain" -> SideGainRequest(args[1], args[2])
      [] call = "rrc"       -> RrcRequest(args[1], args[2])
      [] call = "mem_audio" -> MemAudioRequest(args[1], args[2], args[3], args[4])
      [] call = "tts"       -> TtsRequest(args[1], args[2], args[3])
      [] call = "reset_cellular" -> [cmd |-> 4, data |-> << >>]
      [] call = "set_cellular_mode" -> [cmd |-> 5, data |-> args]
      [] call = "send_dtmf" /\ flags.call # "CALLING" -> NoRequest
      [] OTHER -> RegularRequest(call, args)

\* Between two runs of the service the application calls a function of the SDK.
\* The two that the module acknowledges first clear their flag.
ApiCall(call, args) ==
    LET request == Request(call, args) IN
    /\ pc = "main"
    /\ asked = NoCall
    /\ flags' = [flags EXCEPT !.reset_cellular = @ /\ call # "reset_cellular",
                              !.set_mode = @ /\ call # "set_cellular_mode"]
    /\ effect' = [frames |-> IF request = NoRequest THEN << >> ELSE <<request>>, told |-> << >>]
    /\ asked' = IF request = NoRequest THEN NoCall ELSE [call |-> call, args |-> args]
    /\ UNCHANGED <<serialVars, expected, noise, plain>>

\* The application reports a data point on its own.
ApiReport(r) ==
    /\ pc = "main"
    /\ effect' = [frames |-> << Report(r) >>, told |-> << >>]
    /\ UNCHANGED <<serialVars, flags, asked, expected, noise, plain>>

\* Bytes before a frame that the search passes whatever they are cut into: where it
\* may take them for the head of a frame, that frame fits the buffer, is complete
\* with the first three bytes of the real one, and has a wrong sum.
Harmless(bytes) ==
    LET next == bytes \o <<85, 170, MCU_RX_VER>>
        total == [i \in 1..Len(bytes) |->
                     IF i + 5 <= Len(next) /\ SubSeq(next, i, i + 2) = <<85, 170, MCU_RX_VER>>
                     THEN Total(next[i + 4], next[i + 5]) ELSE ProcessBuf + PROTOCOL_HEAD + 1]
    IN  \A i \in 1..Len(bytes) : total[i] <= ProcessBuf + PROTOCOL_HEAD =>
            /\ total[i] \in 1..ProcessBuf /\ i + total[i] - 1 <= Len(next)
            /\ CheckSum(SubSeq(next, i, i + total[i] - 2)) # next[i + total[i] - 1]

\* The MCU loses its power and starts again, in the middle of a frame or not.
\* A frame that was on the line as a whole will still be received; of another one
\* the rest is noise.
Restart ==
    LET Untouched == IF expected # << >> /\ line = Seqs!Last(expected).bytes
                     THEN << Seqs!Last(expected) >> ELSE << >>
    IN  /\ rx_buf' = [i \in 0..N-1 |-> 0] /\ rx_buf_in' = 0 /\ rx_buf_out' = 0
        /\ process_buf' = << >> /\ offset' = 0 /\ pc' = "main"
        /\ arrived' = << >> /\ UNCHANGED <<line, overrun>>
        /\ flags' = StartFlags /\ effect' = Quiet
        /\ asked' = NoCall /\ expected' = Untouched
        /\ noise' = IF Untouched = << >> THEN line ELSE << >>
        /\ plain' = Harmless(noise')

-----------------------------------------------------------------------------
(* The module                                                              *)

\* A frame of the module's own: data points set from the cloud, notices, answers
\* to the host.
ModuleSends(cmd, data, answer) ==
    LET bytes == FrameBytes(MCU_RX_VER, cmd, data) IN
    /\ Len(bytes) <= ProcessBuf
    /\ line = << >>
    /\ line' = bytes
    /\ expected' = Append(expected, [bytes |-> bytes, answer |-> answer])
    /\ effect' = Quiet
    /\ noise' = << >>
    /\ UNCHANGED <<ring, loop, ghosts, flags, asked, plain>>

\* The answer to a call starts with the code of its service.
ModuleAnswers(body) ==
    LET request == Request(asked.call, asked.args)
        code == IF request.cmd \in {GET_CELLULAR_CMD, SET_CELLULAR_CMD, EXPAND_SERVICE_CMD}
                THEN <<request.data[1]>> ELSE << >>
    IN  /\ asked # NoCall
        /\ ModuleSends(request.cmd, code \o body, TRUE)

\* Something that is no frame.
Disturb(bytes) ==
    /\ Transmit(bytes)
    /\ noise' = noise \o bytes
    /\ plain' = (plain /\ Harmless(noise'))
    /\ effect' = Quiet
    /\ UNCHANGED <<flags, asked, expected>>

\* The firmware with any application, any module and any disturbances.
FirmwareNext ==
    \/ Interrupt \/ MainLoop \/ Restart
    \/ \E call, args : ApiCall(call, args)
    \/ \E r : ApiReport(r)
    \/ \E cmd \in Byte, data \in Seq(Byte), answer \in BOOLEAN :
          Len(data) \in Word /\ ModuleSends(cmd, data, answer)
    \/ \E bytes \in Seq(Byte) : Disturb(bytes)

FirmwareSpec == McuInit /\ [][FirmwareNext]_mcuVars

-----------------------------------------------------------------------------
(* Properties                                                              *)

\* The function of the application that the SDK's documentation pairs with a call.
ResultOf ==
    [get_green_time |-> "mcu_get_greentime", get_system_time |-> "mcu_write_rtctime",
     get_connect_status |-> "get_cellular_status", get_module_mac |-> "mcu_get_mac",
     get_remain_memory |-> "remain_memory_result", get_rssi |-> "get_cellular_rssi_result",
     set_feature_test |-> "get_feature_test_result", get_unix_time_zone |-> "get_unix_time_zone",
     get_schedule_temp_pass |-> "schedule_temp_pass_data", set_pswd_base |-> "get_set_psw_base_result",
     set_offline_dynamic_pswd |-> "get_offline_dynamic_pswd_result",
     get_work_mode |-> "get_cellular_work_mode_result", get_IMSI |-> "get_cellular_IMSI_result",
     get_IMCI |-> "get_cellular_IMCI_result", get_IMEI |-> "get_cellular_IMEI_result",
     get_gnss_location |-> "get_gnss_location_result", get_gnss_rssi |-> "get_gnss_rssi_result",
     get_gnss_speed |-> "get_gnss_speed_result", get_gnss_course |-> "get_gnss_course_result",
     get_gnss_hdop |-> "get_gnss_hdop_result", get_gnss_altitude |-> "get_gnss_altitude_result",
     ctl_gnss_filter |-> "ctl_gnss_filter_result", set_gnss_filter |-> "set_gnss_filter_result",
     get_gnss_info |-> "get_gnss_info_result", control_gnss |-> "get_set_gnss_result",
     reset_gnss |-> "reset_gnss_result", control_wifi_location |-> "set_cellular_wifi_result",
     get_wifi_location |-> "get_cellular_wifi_location_result",
     get_lbs_location |-> "get_cellular_lbs_location_result",
     set_gnss_lat_lg_location |-> "get_gnss_location_lat_lg_result",
     set_auto_rpt_gps |-> "get_set_cellular_auto_rpt_gps_result",
     set_auto_rpt_wifi |-> "get_set_cellular_auto_rpt_wifi_result",
     set_auto_rpt_lbs |-> "get_set_cellular_auto_rpt_lbs_result",
     get_location_track_status |-> "get_cellular_location_track_status_result",
     control_gnss_power |-> "get_set_gnss_power_result",
     get_gnss_power_status |-> "get_gnss_power_status_result", ctl_agnss |-> "get_set_agnss_result",
     phone_callin_rsp |-> "get_contrl_phone_result", phone_callout |-> "get_contrl_phone_result",
     phone_answer |-> "get_contrl_phone_result", phone_hungup |-> "get_contrl_phone_result",
     get_phone_status |-> "get_contrl_phone_result", send_dtmf |-> "get_dtmf_ack_result",
     ctl_dtmf_monitor |-> "get_set_cellular_ctrl_dtmf_result",
     recv_sms_rsp |-> "get_contrl_sms_result", send_sms |-> "get_contrl_sms_result",
     get_battery |-> "get_cellular_vbat_vol_result",
     get_charging_status |-> "get_vbat_charging_status_result",
     set_volume |-> "get_set_cellular_volume_result",
     audio_play |-> "get_contrl_cellulat_audio_play_result",
     get_audio_play_status |-> "get_voice_play_status_result",
     ctrl_low_vol_power |-> "get_set_cellular_ctrl_low_vol_power_result",
     ctrl_ble_conn |-> "get_set_cellular_ctrl_ble_conn_result",
     ctrl_volte |-> "get_set_cellular_ctrl_volte_result", ctrl_mute |-> "get_set_cellular_ctrl_mute_result",
     set_offline_duration |-> "get_set_cellular_ctrl_offline_result",
     open_expand_reset |-> "open_expand_service_reset_result",
     set_wakeup_gpio |-> "get_set_cellular_wakeup_gpio_result",
     switch_sim_hotplug |-> "get_set_cellular_sim_hotplug_result",
     get_ver |-> "get_cellular_ver_result", get_nettype |-> "get_cellular_nettype_result",
     mic_gain |-> "contrl_cellular_mic_gain_result", side_gain |-> "contrl_cellular_side_gain_result",
     get_plmn |-> "get_cellular_plmn_result", mem_audio |-> "get_cellular_contrl_mem_audio_result",
     tts |-> "get_cellular_ctrl_tts_result",
     adc_init |-> "set_cellular_adc_result", adc_read |-> "set_cellular_adc_result",
     adc_interval |-> "set_cellular_adc_result", adc_deinit |-> "set_cellular_adc_result",
     gpio_init |-> "set_celular_gpio_result", gpio_deinit |-> "set_celular_gpio_result",
     gpio_write |-> "set_celular_gpio_result", gpio_read |-> "set_celular_gpio_result",
     gpio_write_interval |-> "set_celular_gpio_result"]

\* The application has learned of an answer: by its flag or by the function.
Reached(call) ==
    CASE call = "reset_cellular" -> flags'.reset_cellular
      [] call = "set_cellular_mode" -> flags'.set_mode
      [] call \in DOMAIN ResultOf ->
            Len(effect'.told) = 1 /\ effect'.told[1].stub = ResultOf[call]
      [] OTHER -> TRUE

\* The answer to a call reaches the function of the application that is there for
\* that call: the codes in the requests of mcu_api.c and those in the dispatch of
\* protocol.c agree.  rrc is left out, whose request has another call's code, and
\* so are cellular_reset and heart_stop, whose answers have no function.
AnswersReach ==
    [][Deliver /\ ~overrun /\ IsOldest /\ Head(expected).answer => Reached(asked.call)]_mcuVars

\* Every frame the module sends is handled in the end, if the ring never overruns
\* and what precedes it on the line is harmless: it holds the search up, but does
\* not stop it.  Other noise does: the head of a frame that is longer than the
\* buffer, or whose length wraps to 0.
FramesHandled == expected # << >> ~> expected = << >> \/ overrun \/ ~plain

\* What is handled is what was sent, byte by byte and in its order, wherever a
\* frame is cut into pieces by the ring, with any harmless noise before it, and
\* also when the MCU has started again in the middle of a frame
\* (cellular_uart_service with uart_receive_input).  Other noise may form a frame.
InOrder == [][Deliver /\ ~overrun /\ plain => IsOldest]_mcuVars

\* A data point that the service can set is answered by one report, which has the
\* id, the type and the value that were sent: the tables of the service and of the
\* MCU, the handlers and the reports agree.  Any other is not reported
\* (cloud_llm.c, data_point_handle, dp_download_handle and the update functions).
DpAnswered ==
    [][Deliver /\ FrameCmd = 6 =>
        effect'.frames = IF FrameData[1] \in Settable
                      THEN << [cmd |-> 7, data |-> FrameData] >> ELSE << >>]_mcuVars
=============================================================================
