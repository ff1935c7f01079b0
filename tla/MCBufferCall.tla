---------------------------- MODULE MCBufferCall ----------------------------
(* Small instances of BufferCall: first buffers below, at and above the    *)
(* sizes of the output.                                                    *)
EXTENDS BufferCall

MCStyles == {"blob", "init", "cipher", "into"}
MCFirstCaps == 0 .. 4
MCSizes == 1 .. 5

=============================================================================
