----------------------------- MODULE CounterRules -----------------------------
(***************************************************************************)
(* What a pad and a PC may make of two records of the same lifetime        *)
(* counters: the reconciliation of opad-storage, the acceptance rule of    *)
(* the firmware, and the new baselines of the daemon.                      *)
(*                                                                         *)
(* A record is the generation and one count per key.  The device id it     *)
(* also carries only feeds a log line, and the map_key counts are never    *)
(* stored nor sent, so neither is here.                                    *)
(***************************************************************************)
EXTENDS Integers

CONSTANT Keys   \* the pad's keys

Zero     == [k \in Keys |-> 0]
Records  == [gen : Nat, k : [Keys -> Nat]]
NoRecord == [gen |-> 0, k |-> Zero]     \* CounterState::default, and no row

Higher(m, n) == IF m > n THEN m ELSE n

\* Mutants: equal generations add up; equal generations follow the pad
ReconcileAdds(pc, esp) ==
    IF pc.gen > esp.gen THEN pc
    ELSE IF esp.gen > pc.gen THEN esp
    ELSE [gen |-> pc.gen, k |-> [k \in Keys |-> pc.k[k] + esp.k[k]]]

ReconcileFollowsPad(pc, esp) == IF pc.gen > esp.gen THEN pc ELSE esp

\* reconcile_counters: the newer generation, else the highest count of each key
Reconcile(pc, esp) ==
    IF pc.gen > esp.gen THEN pc
    ELSE IF esp.gen > pc.gen THEN esp
    ELSE [gen |-> pc.gen, k |-> [k \in Keys |-> Higher(pc.k[k], esp.k[k])]]

\* counters_validate_sync_acceptance, for the pad's counters `now`
Acceptable(now, target, force) ==
    \/ force
    \/ target.gen > now.gen
    \/ target.gen = now.gen /\ \A k \in Keys : target.k[k] >= now.k[k]

\* Nothing of b is missing from a: a is newer, or as new and nowhere lower
AtLeast(a, b) ==
    \/ a.gen > b.gen
    \/ a.gen = b.gen /\ \A k \in Keys : a.k[k] >= b.k[k]

\* counter_reset: zeros above what reconciliation chose and the pad reported
CounterReset(reconciled, device) ==
    [gen |-> Higher(reconciled.gen, device.gen + 1), k |-> Zero]

\* RestoreDeviceFromPc, ImportPcFromDevice: counts k as a new baseline
NewBaseline(row, device, k) ==
    [gen |-> Higher(row.gen, device.gen) + 1, k |-> k]
=============================================================================
