---------------------------- MODULE MCStreamPump ----------------------------
(* Small instances of StreamPump: inputs of up to three slices, outputs up *)
(* to beyond four times the smallest buffer, buffers from none at all to   *)
(* one more than half of the largest size there is.                        *)
EXTENDS StreamPump

MCSrcLens == 0 .. 5
MCOutLens == 1 .. 9
MCCaps == 0 .. 10

=============================================================================
