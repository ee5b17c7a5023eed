-------------------------- MODULE MCLatencyCounter --------------------------
(* A host that reads the last latency and writes and reads the clear       *)
(* register.                                                               *)
EXTENDS LatencyCounter

LastAndClear == {{}, {Clear}, {Last}}
=============================================================================
