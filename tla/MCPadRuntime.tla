---------------------------- MODULE MCPadRuntime ----------------------------
(* One key, two generations, one CounterSync, one power cut or restart,   *)
(* one NVS fault.  Two keys are two entries of the same checkpoint, set   *)
(* one after the other; the generation is already a second entry, so one  *)
(* key meets every torn write but that between the two keys.              *)
EXTENDS PadRuntime

CONSTANT k1

OneKey == {k1}
MCGenerations == {1, 2}
MCCounts == {0, 1}
=============================================================================
