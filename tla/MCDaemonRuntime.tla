--------------------------- MODULE MCDaemonRuntime ----------------------------
(* Three attempts and a save that fails; a period set over IPC in and around *)
(* a map; two maps with tosu or the pad going away.                          *)
EXTENDS DaemonRuntime

MCBudgets ==
    {[attempts |-> 3, syncs |-> 0, faults |-> 0, sets |-> 0],
     [attempts |-> 1, syncs |-> 1, faults |-> 0, sets |-> 1],
     [attempts |-> 2, syncs |-> 0, faults |-> 1, sets |-> 0]}
===============================================================================
