---------------------------- MODULE MC_IpcServer ----------------------------
(* Small instances of the control channel for TLC. *)
EXTENDS IpcServer, TLC

SmallDpMap ==
    ("set_hotSw" :> [dp_id |-> 101, dp_type |-> "BOOL"])
      @@ ("set_rotate_command" :> [dp_id |-> 143, dp_type |-> "VALUE"])
      @@ ("get_IMEI" :> [dp_id |-> 106, dp_type |-> "RAW"])

AnIntent(method, kind, n) ==
    [type |-> "intent", method |-> method, val |-> [kind |-> kind, valueint |-> n]]

\* The texts that are JSON.  Every other text is not.
SmallRequests ==
    (<<"p">> :> [type |-> "ping", method |-> "", val |-> Absent])
      @@ (<<"h">> :> AnIntent("set_hotSw", "true", 1))
      @@ (<<"r", "a">> :> AnIntent("set_rotate_command", "number", -258))
      @@ (<<"i">> :> AnIntent("get_IMEI", "string", 0))

\* Two that become commands and two that do not, one that fills the buffer, one
\* that is cut in two of which the second is JSON, and an empty one.
SmallTexts == {<<"h">>, <<"r", "a">>, <<"p">>, <<"i">>, <<"h", "1", "1">>,
               <<"x", "x", "x", "h">>, << >>}

SmallProducers == {"ipc"}
SmallConsumers == {"main"}
NoMessages == {}
=============================================================================
