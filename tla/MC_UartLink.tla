---------------------------- MODULE MC_UartLink ----------------------------
(* Small instances of the serial port for TLC. *)
EXTENDS UartLink
=============================================================================
