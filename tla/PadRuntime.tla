------------------------------ MODULE PadRuntime ------------------------------
(***************************************************************************)
(* The pad's runtime supervisor and its lifetime counters.                 *)
(*                                                                         *)
(* Four things touch the same state and none waits for the others: the key *)
(* interrupt counts presses; the protocol task handles HostStatus and      *)
(* CounterSync messages; the supervisor task wakes every 100 ms, moves     *)
(* PLAYING -> COOLDOWN -> IDLE and checkpoints the counters to NVS; and    *)
(* power may go at any moment.  s_lock covers a CounterSync and a          *)
(* checkpoint; s_state is read and stored without it.                      *)
(*                                                                         *)
(* Abstractions.  Time is the facts the code derives from it: `quiet` (3 s *)
(* without a HostStatus(playing)), and a cooldown or a checkpoint that is  *)
(* due whenever the supervisor finds it so.  The two NVS counter entries   *)
(* are one function over Keys.  ESP-IDF stores each nvs_set on its own, so *)
(* power can go between two of them.  Config and layout flushes, which the *)
(* supervisor makes beside a checkpoint, touch none of this state.         *)
(***************************************************************************)
EXTENDS Integers

CONSTANTS
    Keys,         \* the pad's keys
    Generations,  \* counter generations a host may name
    Counts,       \* lifetime counts a host may name
    MaxPresses,   \* bound: presses in a behaviour
    MaxSyncs,     \* bound: CounterSync messages in a behaviour
    MaxCuts,      \* bound: power cuts in a behaviour
    MaxFaults     \* bound: NVS opens that fail in a behaviour

ASSUME DomainAssumption ==
    /\ Generations \subseteq Nat
    /\ Counts \subseteq Nat
    /\ "gen" \notin Keys

VARIABLES
    state,     \* s_state
    gen,       \* s_generation
    ram,       \* s_lifetime_presses, per key
    saved,     \* s_last_saved_key1/2
    ready,     \* s_initialized and s_counters_nvs_ok
    booted,    \* counters_init has returned and the supervisor runs
    nvs,       \* flash: [gen, k]
    lock,      \* who holds s_lock
    write,     \* the checkpoint in progress: snapshot and entries still to set
    sup,       \* the supervisor's place in its loop
    proto,     \* the protocol task's place in its handler
    msg,       \* the CounterSync being handled
    base,      \* the counts it was validated against
    ckptReq,   \* s_checkpoint_requested
    restart,   \* s_restart_requested
    quiet,     \* no HostStatus(playing) for GAMEPLAY_TIMEOUT_US
    bounds,    \* presses, syncs, cuts and faults so far
    ledger,    \* history: what each counter must read
    peak,      \* history: the newest generation and the most counted in it
    heard,     \* history: the host says a map is on, until its silence voids it
    genLost    \* history: s_generation changed and NVS could not be opened

counters == <<gen, ram, saved, ready, booted>>
flash    == <<nvs, lock, write>>
tasks    == <<sup, proto, msg, base>>
flags    == <<ckptReq, restart, quiet>>
history  == <<ledger, peak, heard, genLost>>
vars     == <<state, counters, flash, tasks, flags, bounds, history>>

Zero     == [k \in Keys |-> 0]
NoWrite  == [gen |-> 0, k |-> Zero, todo |-> {}]
NoMsg    == [gen |-> 0, k |-> Zero, force |-> FALSE]
Messages == [gen : Generations, k : [Keys -> Counts], force : BOOLEAN]
Entries  == {"gen"} \cup Keys

Count(what) == bounds' = [bounds EXCEPT ![what] = @ + 1]

-----------------------------------------------------------------------------
Init ==
    /\ state = "idle"
    /\ gen = 1 /\ ram = Zero /\ saved = Zero /\ ready = FALSE /\ booted = FALSE
    /\ nvs \in [gen : Generations, k : [Keys -> Counts]]
    /\ lock = "free" /\ write = NoWrite
    /\ sup = "wait" /\ proto = "wait" /\ msg = NoMsg /\ base = Zero
    /\ ckptReq = FALSE /\ restart = FALSE /\ quiet = TRUE
    /\ bounds = [presses |-> 0, syncs |-> 0, cuts |-> 0, faults |-> 0]
    /\ ledger = Zero /\ peak = nvs /\ heard = FALSE /\ genLost = FALSE

(***************************************************************************)
(* Boot: counters_init adds what flash holds to what the key interrupt has *)
(* counted since HID came up.  The protocol task is already running.       *)
(***************************************************************************)
StartFrom(stored) ==
    /\ ~booted
    /\ booted' = TRUE /\ ready' = TRUE
    /\ nvs' = stored /\ gen' = stored.gen /\ saved' = stored.k
    /\ ram' = [k \in Keys |-> ram[k] + stored.k[k]]
    /\ ledger' = [k \in Keys |-> ledger[k] + stored.k[k]]
    /\ UNCHANGED <<state, lock, write, tasks, flags, bounds, peak, heard, genLost>>

CountersInit == StartFrom(nvs)

\* A corrupt or outdated NVS partition is erased and starts over
CountersInitErased == StartFrom([gen |-> 1, k |-> Zero])

\* NVS cannot be used: the pad keeps counting, in RAM only
CountersInitFailed ==
    /\ ~booted
    /\ booted' = TRUE
    /\ UNCHANGED <<state, gen, ram, saved, ready, flash, tasks, flags, bounds, history>>

\* The key interrupt accepts a press
Press(k) ==
    /\ bounds.presses < MaxPresses
    /\ Count("presses")
    /\ ram' = [ram EXCEPT ![k] = @ + 1]
    /\ ledger' = [ledger EXCEPT ![k] = @ + 1]
    /\ peak' = [peak EXCEPT !.k[k] = @ + 1]
    /\ UNCHANGED <<state, gen, saved, ready, booted, flash, tasks, flags, heard, genLost>>

-----------------------------------------------------------------------------
(* checkpoint_locked, run by whichever task holds s_lock *)

BeginWrite == write' = [gen |-> gen, k |-> ram, todo |-> Entries]

WriteGeneration ==
    /\ "gen" \in write.todo
    /\ nvs' = [nvs EXCEPT !.gen = write.gen]
    /\ write' = [write EXCEPT !.todo = @ \ {"gen"}]
    /\ UNCHANGED <<state, counters, lock, tasks, flags, bounds, history>>

WriteKey(k) ==
    /\ "gen" \notin write.todo
    /\ k \in write.todo
    /\ nvs' = [nvs EXCEPT !.k[k] = write.k[k]]
    /\ write' = [write EXCEPT !.todo = @ \ {k}]
    /\ UNCHANGED <<state, counters, lock, tasks, flags, bounds, history>>

\* Mutant: s_last_saved follows the counters as they are when the write ends
WrittenAsItIsNow ==
    /\ write.todo = {}
    /\ saved' = ram
    /\ lock' = "free" /\ write' = NoWrite
    /\ genLost' = FALSE
    /\ UNCHANGED <<state, gen, ram, ready, booted, nvs, msg, base, flags, bounds,
                   ledger, peak, heard>>

\* s_last_saved follows the snapshot written, not the counters as they are now
Written ==
    /\ write.todo = {}
    /\ saved' = write.k
    /\ lock' = "free" /\ write' = NoWrite
    /\ genLost' = FALSE
    /\ UNCHANGED <<state, gen, ram, ready, booted, nvs, msg, base, flags, bounds,
                   ledger, peak, heard>>

-----------------------------------------------------------------------------
(* The supervisor task *)

SupervisorWakes(next) ==
    /\ booted /\ sup = "wait"
    /\ sup' = next
    /\ UNCHANGED <<counters, flash, proto, msg, base, bounds>>

\* PLAYING and 3 s of silence: runtime_notify_gameplay(FALSE), its store to come
SupGameplayTimeout ==
    /\ state = "playing" /\ quiet
    /\ SupervisorWakes("toCooldown")
    /\ heard' = FALSE
    /\ UNCHANGED <<state, flags, ledger, peak, genLost>>

SupStoreCooldown ==
    /\ sup = "toCooldown"
    /\ state' = "cooldown" /\ sup' = "wait"
    /\ UNCHANGED <<counters, flash, proto, msg, base, flags, bounds, history>>

\* COOLDOWN has lasted 5 s; the store that follows does not look again
SupCooldownOver ==
    /\ state = "cooldown"
    /\ SupervisorWakes("toIdle")
    /\ UNCHANGED <<state, flags, history>>

SupStoreIdle ==
    /\ sup = "toIdle"
    /\ state' = "idle" /\ sup' = "checkpoint"
    /\ UNCHANGED <<counters, flash, proto, msg, base, flags, bounds, history>>

\* Mutant: only a requested checkpoint is made
CheckpointWhenAsked ==
    /\ state = "idle" /\ ckptReq
    /\ SupervisorWakes("checkpoint")
    /\ ckptReq' = FALSE
    /\ UNCHANGED <<state, restart, quiet, history>>

\* IDLE: a requested checkpoint at once, a dirty counter when it has aged
SupCheckpointDue ==
    /\ state = "idle" /\ (ckptReq \/ ram # saved)
    /\ SupervisorWakes("checkpoint")
    /\ ckptReq' = FALSE
    /\ UNCHANGED <<state, restart, quiet, history>>

\* restart_now: save first, whether or not anything is dirty
SupRestart ==
    /\ restart /\ state = "idle"
    /\ SupervisorWakes("restart")
    /\ UNCHANGED <<state, flags, history>>

\* counters_checkpoint under s_lock: skipped outside IDLE, or when clean
SupCheckpoint ==
    /\ sup \in {"checkpoint", "restart"} /\ lock = "free"
    /\ IF ready /\ state = "idle" /\ (sup = "restart" \/ ram # saved)
          THEN /\ lock' = "sup" /\ BeginWrite
               /\ sup' = IF sup = "restart" THEN "restartWriting" ELSE "writing"
          ELSE /\ sup' = IF sup = "restart" THEN "reboot" ELSE "wait"
               /\ UNCHANGED <<lock, write>>
    /\ UNCHANGED <<state, counters, nvs, proto, msg, base, flags, bounds, history>>

SupWritten ==
    /\ lock = "sup"
    /\ sup' = IF sup = "restartWriting" THEN "reboot" ELSE "wait"
    /\ Written
    /\ UNCHANGED proto

\* NVS does not open: the counters stay dirty, the next round tries again
SupOpenFails ==
    /\ sup \in {"checkpoint", "restart"} /\ lock = "free"
    /\ ready /\ state = "idle" /\ (sup = "restart" \/ ram # saved)
    /\ bounds.faults < MaxFaults
    /\ Count("faults")
    /\ sup' = IF sup = "restart" THEN "reboot" ELSE "wait"
    /\ UNCHANGED <<state, counters, flash, proto, msg, base, flags, history>>

-----------------------------------------------------------------------------
(* The protocol task: HostStatus, i.e. runtime_notify_gameplay *)

\* s_state is read here and stored in a step of its own
HostPlaying ==
    /\ proto = "wait"
    /\ quiet' = FALSE
    /\ IF state = "playing"
          THEN heard' = TRUE /\ UNCHANGED proto
          ELSE proto' = "toPlaying" /\ UNCHANGED heard
    /\ UNCHANGED <<state, counters, flash, sup, msg, base, ckptReq, restart,
                   bounds, ledger, peak, genLost>>

ProtoStorePlaying ==
    /\ proto = "toPlaying"
    /\ state' = "playing" /\ heard' = TRUE /\ proto' = "wait"
    /\ UNCHANGED <<counters, flash, sup, msg, base, flags, bounds, ledger, peak, genLost>>

HostNotPlaying ==
    /\ proto = "wait"
    /\ IF state = "playing"
          THEN proto' = "toCooldown" /\ UNCHANGED heard
          ELSE heard' = FALSE /\ UNCHANGED proto
    /\ UNCHANGED <<state, counters, flash, sup, msg, base, flags, bounds,
                   ledger, peak, genLost>>

ProtoStoreCooldown ==
    /\ proto = "toCooldown"
    /\ state' = "cooldown" /\ heard' = FALSE /\ proto' = "wait"
    /\ UNCHANGED <<counters, flash, sup, msg, base, flags, bounds, ledger, peak, genLost>>

-----------------------------------------------------------------------------
(* The protocol task: CounterSync, i.e. counters_sync_from_host *)

\* counters_validate_sync_acceptance
SyncAccepted(m) ==
    \/ m.force
    \/ m.gen > gen
    \/ m.gen = gen /\ \A k \in Keys : m.k[k] >= ram[k]

\* Mutant: the state is left to the checkpoint to look at
ReceiveInAnyState(m) ==
    /\ proto = "wait" /\ ready
    /\ bounds.syncs < MaxSyncs
    /\ Count("syncs")
    /\ msg' = m /\ proto' = "sync"
    /\ UNCHANGED <<state, counters, flash, sup, base, flags, history>>

\* Refused at once unless IDLE with NVS up; a refusal changes nothing here
SyncReceive(m) ==
    /\ proto = "wait" /\ ready /\ state = "idle"
    /\ bounds.syncs < MaxSyncs
    /\ Count("syncs")
    /\ msg' = m /\ proto' = "sync"
    /\ UNCHANGED <<state, counters, flash, sup, base, flags, history>>

SyncReject ==
    /\ proto = "sync" /\ lock = "free"
    /\ ~SyncAccepted(msg)
    /\ proto' = "wait"
    /\ UNCHANGED <<state, counters, flash, sup, msg, base, flags, bounds, history>>

\* A new generation starts from its baseline; within one the most counted holds
NewPeak(m) ==
    IF m.gen # peak.gen
       THEN [gen |-> m.gen, k |-> m.k]
       ELSE [peak EXCEPT !.k = [k \in Keys |-> IF m.k[k] > @[k] THEN m.k[k] ELSE @[k]]]

SyncAccept ==
    /\ proto = "sync" /\ lock = "free"
    /\ SyncAccepted(msg)
    /\ lock' = "proto" /\ proto' = "rebase"
    /\ gen' = msg.gen /\ base' = ram
    /\ ledger' = msg.k /\ peak' = NewPeak(msg)
    /\ UNCHANGED <<state, ram, saved, ready, booted, nvs, write, sup, msg, flags,
                   bounds, heard, genLost>>

\* Mutants: the target is stored; the difference is taken the wrong way round
RebaseStores ==
    /\ proto = "rebase"
    /\ ram' = msg.k
    /\ proto' = "checkpoint"
    /\ UNCHANGED <<state, gen, saved, ready, booted, flash, sup, msg, base, flags,
                   bounds, history>>

RebaseBackwards ==
    /\ proto = "rebase"
    /\ ram' = [k \in Keys |-> ram[k] + (base[k] - msg.k[k])]
    /\ proto' = "checkpoint"
    /\ UNCHANGED <<state, gen, saved, ready, booted, flash, sup, msg, base, flags,
                   bounds, history>>

\* rebase_lifetime_presses: the difference is added, never the target stored
SyncRebase ==
    /\ proto = "rebase"
    /\ ram' = [k \in Keys |-> ram[k] + (msg.k[k] - base[k])]
    /\ proto' = "checkpoint"
    /\ UNCHANGED <<state, gen, saved, ready, booted, flash, sup, msg, base, flags,
                   bounds, history>>

\* checkpoint_locked(TRUE) again returns ESP_OK without writing outside IDLE
SyncCheckpoint ==
    /\ proto = "checkpoint"
    /\ IF state = "idle"
          THEN BeginWrite /\ proto' = "writing" /\ UNCHANGED lock
          ELSE lock' = "free" /\ proto' = "wait" /\ UNCHANGED write
    /\ UNCHANGED <<state, counters, nvs, sup, msg, base, flags, bounds, history>>

SyncOpenFails ==
    /\ proto = "checkpoint" /\ state = "idle"
    /\ bounds.faults < MaxFaults
    /\ Count("faults")
    /\ lock' = "free" /\ proto' = "wait"
    /\ genLost' = (genLost \/ nvs.gen # gen)
    /\ UNCHANGED <<state, counters, nvs, write, sup, msg, base, flags, ledger,
                   peak, heard>>

SyncWritten ==
    /\ proto = "writing"
    /\ proto' = "wait"
    /\ Written
    /\ UNCHANGED sup

RestartRequest ==
    /\ proto = "wait" /\ ~restart /\ bounds.cuts < MaxCuts
    /\ restart' = TRUE
    /\ UNCHANGED <<state, counters, flash, tasks, ckptReq, quiet, bounds, history>>

-----------------------------------------------------------------------------
(* The world outside *)

\* 3 s pass without a HostStatus(playing)
HostQuiet ==
    /\ ~quiet
    /\ quiet' = TRUE
    /\ UNCHANGED <<state, counters, flash, tasks, ckptReq, restart, bounds, history>>

\* USB suspend: usb_event_handler asks for a checkpoint
UsbSuspend ==
    /\ ~ckptReq
    /\ ckptReq' = TRUE
    /\ UNCHANGED <<state, counters, flash, tasks, restart, quiet, bounds, history>>

\* RAM is gone; flash keeps what was set, even of a write cut short
PowerUp ==
    /\ state' = "idle"
    /\ gen' = 1 /\ ram' = Zero /\ saved' = Zero /\ ready' = FALSE /\ booted' = FALSE
    /\ lock' = "free" /\ write' = NoWrite
    /\ sup' = "wait" /\ proto' = "wait" /\ msg' = NoMsg /\ base' = Zero
    /\ ckptReq' = FALSE /\ restart' = FALSE /\ quiet' = TRUE
    /\ ledger' = Zero /\ heard' = FALSE /\ genLost' = FALSE
    /\ UNCHANGED <<nvs, peak>>

PowerCut ==
    /\ bounds.cuts < MaxCuts
    /\ Count("cuts")
    /\ PowerUp

SupReboot ==
    /\ sup = "reboot"
    /\ Count("cuts")
    /\ PowerUp

-----------------------------------------------------------------------------
SupervisorNext ==
    \/ SupGameplayTimeout \/ SupStoreCooldown
    \/ SupCooldownOver \/ SupStoreIdle
    \/ SupCheckpointDue \/ SupRestart
    \/ SupCheckpoint \/ SupOpenFails \/ SupWritten \/ SupReboot

ProtocolNext ==
    \/ HostPlaying \/ ProtoStorePlaying
    \/ HostNotPlaying \/ ProtoStoreCooldown
    \/ \E m \in Messages : SyncReceive(m)
    \/ SyncReject \/ SyncAccept \/ SyncRebase
    \/ SyncCheckpoint \/ SyncOpenFails \/ SyncWritten
    \/ RestartRequest

Next ==
    \/ CountersInit \/ CountersInitErased \/ CountersInitFailed
    \/ \E k \in Keys : Press(k)
    \/ WriteGeneration
    \/ \E k \in Keys : WriteKey(k)
    \/ SupervisorNext
    \/ ProtocolNext
    \/ HostQuiet \/ UsbSuspend \/ PowerCut

Spec == Init /\ [][Next]_vars

(***************************************************************************)
(* Fairness: both tasks keep being scheduled, a handler that began runs to *)
(* its end, and time passes.  Nothing is assumed of the host, the keys,    *)
(* the power or which of two messages comes first.                         *)
(***************************************************************************)
FairSpec ==
    /\ Spec
    /\ WF_vars(CountersInit) /\ WF_vars(HostQuiet)
    /\ WF_vars(WriteGeneration) /\ \A k \in Keys : WF_vars(WriteKey(k))
    /\ WF_vars(SupGameplayTimeout) /\ WF_vars(SupStoreCooldown)
    /\ WF_vars(SupCooldownOver) /\ WF_vars(SupStoreIdle)
    /\ WF_vars(SupCheckpointDue) /\ WF_vars(SupCheckpoint) /\ WF_vars(SupWritten)
    /\ WF_vars(SupReboot)
    /\ WF_vars(ProtoStorePlaying) /\ WF_vars(ProtoStoreCooldown)
    /\ WF_vars(SyncReject) /\ WF_vars(SyncAccept) /\ WF_vars(SyncRebase)
    /\ WF_vars(SyncCheckpoint) /\ WF_vars(SyncWritten)

-----------------------------------------------------------------------------
(* Type invariant *)
TypeOK ==
    /\ state \in {"idle", "playing", "cooldown"}
    /\ gen \in Nat /\ ram \in [Keys -> Nat] /\ saved \in [Keys -> Nat]
    /\ ready \in BOOLEAN /\ booted \in BOOLEAN
    /\ nvs \in [gen : Nat, k : [Keys -> Nat]]
    /\ lock \in {"free", "sup", "proto"}
    /\ write \in [gen : Nat, k : [Keys -> Nat], todo : SUBSET Entries]
    /\ sup \in {"wait", "toCooldown", "toIdle", "checkpoint", "writing",
                "restart", "restartWriting", "reboot"}
    /\ proto \in {"wait", "toPlaying", "toCooldown", "sync", "rebase",
                  "checkpoint", "writing"}
    /\ msg \in [gen : Nat, k : [Keys -> Nat], force : BOOLEAN]
    /\ base \in [Keys -> Nat]
    /\ ckptReq \in BOOLEAN /\ restart \in BOOLEAN /\ quiet \in BOOLEAN
    /\ bounds \in [presses : Nat, syncs : Nat, cuts : Nat, faults : Nat]
    /\ ledger \in [Keys -> Nat]
    /\ peak \in [gen : Nat, k : [Keys -> Nat]]
    /\ heard \in BOOLEAN /\ genLost \in BOOLEAN

(***************************************************************************)
(* Every press counts exactly once.  A CounterSync moves the counters to   *)
(* its target by adding a difference while the key interrupt goes on       *)
(* counting, so a press in the middle of one is in the result              *)
(* (rebase_lifetime_presses, counters_init).                               *)
(***************************************************************************)
LedgerExact ==
    \A k \in Keys :
        ledger[k] = IF proto = "rebase" THEN ram[k] + (msg.k[k] - base[k]) ELSE ram[k]

(***************************************************************************)
(* A pad that believes its counters are clean would lose nothing to a      *)
(* power cut: flash holds them, and their generation too unless a sync     *)
(* could not open NVS.  The supervisor skips a clean checkpoint on the     *)
(* strength of this (counters_is_dirty, checkpoint_locked).                *)
(***************************************************************************)
CleanMeansSafe ==
    (ready /\ lock = "free" /\ ram = saved) =>
        nvs.k = ram /\ (nvs.gen = gen \/ genLost)

(***************************************************************************)
(* The checkpoint that ends an accepted CounterSync is never the one that  *)
(* returns ESP_OK without writing: s_state was IDLE when the message was   *)
(* taken and neither task can have moved it since, so "success" in the     *)
(* reply means flash was written (counters_sync_from_host).                *)
(***************************************************************************)
AcceptedSyncIsWritten == proto = "checkpoint" => state = "idle"

(***************************************************************************)
(* Once no map is on, everything counted reaches flash, through lost       *)
(* HostStatus messages, timeouts, failed NVS opens and a restart           *)
(* (runtime_supervisor_task).                                              *)
(***************************************************************************)
PressesReachFlash ==
    (<>[]~heard) => <>[](ready => nvs.k = ram /\ (nvs.gen = gen \/ genLost))

(***************************************************************************)
(* counters.c calls it a strict invariant: no flash write in gameplay.  No *)
(* write passes its IDLE check while the host says a map is on.            *)
(***************************************************************************)
NoCheckpointInPlay ==
    [][write.todo = {} /\ write'.todo # {} => ~heard]_vars

(***************************************************************************)
(* A pad never shows more presses than it counted since the baseline of    *)
(* its generation: what a reset or a restore replaced stays replaced       *)
(* (sync.rs counter_reset, "so the pad cannot out-rank the reset").        *)
(***************************************************************************)
BaselineHolds ==
    (ready /\ proto # "rebase" /\ gen = peak.gen) =>
        \A k \in Keys : ram[k] <= peak.k[k]
=============================================================================
