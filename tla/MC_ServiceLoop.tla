--------------------------- MODULE MC_ServiceLoop ---------------------------
(* Small instances of the whole service for TLC. *)
EXTENDS ServiceLoop

SmallProducers == {"sdk", "ipc", "rx"}
SmallConsumers == {"main"}
SmallMessage == {"dp", "query", "online", "offline"}
=============================================================================
