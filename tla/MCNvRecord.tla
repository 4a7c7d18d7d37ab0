---------------------------- MODULE MCNvRecord ----------------------------
(* NvRecord for TLC: three records, one writer between write and touch.    *)
EXTENDS NvRecord
=============================================================================
