---------------------------- MODULE MC_MsgQueue ----------------------------
(* Small instances of the message queue for TLC. *)
EXTENDS MsgQueue
=============================================================================
