--------------------------- MODULE MC_TuyaParser ---------------------------
(* Small instances of the receive side for TLC. *)
EXTENDS TuyaParser

Frame(cmd, data) == [version |-> 3, cmd |-> cmd, data |-> data]

\* Payloads that look like a header, like a length, like a header in a header;
\* an empty one and the longest one.  The first two are free of 0x55.
SmallFrames == {Frame(0, << >>), Frame(38, <<3, 0, 170>>),
                Frame(7, <<85, 170>>), Frame(34, <<0, 1, 85, 170>>)}
SmallNoise == {85, 170, 0, 4}
=============================================================================
