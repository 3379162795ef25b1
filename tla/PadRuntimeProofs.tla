--------------------------- MODULE PadRuntimeProofs ---------------------------
(***************************************************************************)
(* Safety of PadRuntime for every set of keys, generations and counts and  *)
(* for every bound.  The invariants the model checker verifies are not     *)
(* inductive: that a sync's last checkpoint finds IDLE needs to know that  *)
(* the supervisor cannot be holding a stale IDLE or COOLDOWN, and that     *)
(* flash agrees with s_last_saved needs the progress of a half-done write. *)
(***************************************************************************)
EXTENDS PadRuntime, TLAPS

Syncing == {"rebase", "checkpoint", "writing"}

(* s_lock is held exactly for the part of a task that needs it *)
LockHeld ==
    /\ lock = "sup" <=> sup \in {"writing", "restartWriting"}
    /\ lock = "proto" <=> proto \in Syncing

(* Nothing leaves IDLE behind a sync's back: the supervisor's pending      *)
(* stores were decided outside IDLE, and only its own store enters IDLE    *)
IdleStays ==
    /\ sup \in {"toCooldown", "toIdle"} => state # "idle"
    /\ proto \in {"sync", "rebase", "checkpoint"} => state = "idle"

(* Locking and syncing wait for counters_init *)
Started ==
    /\ ready => booted
    /\ lock # "free" => ready
    /\ proto = "sync" => ready

Writing == lock = "sup" \/ proto = "writing"

(* A write in progress: what it no longer has to do is on flash *)
WriteProgress ==
    /\ ~Writing => write.todo = {}
    /\ Writing =>
          /\ write.gen = gen
          /\ "gen" \notin write.todo => nvs.gen = write.gen
          /\ \A k \in Keys : k \notin write.todo => nvs.k[k] = write.k[k]

(* Between writes s_last_saved is what flash holds *)
FlashFollows ==
    /\ ready /\ ~Writing => saved = nvs.k
    /\ ready /\ lock = "free" => nvs.gen = gen \/ genLost

(* A sync's difference is never negative below what was counted *)
BaseCounted == proto = "rebase" => \A k \in Keys : base[k] <= ram[k]

IInv ==
    /\ TypeOK /\ LockHeld /\ IdleStays /\ Started
    /\ WriteProgress /\ FlashFollows /\ BaseCounted /\ LedgerExact

-----------------------------------------------------------------------------
USE DomainAssumption

(* The initial states satisfy the invariant: nothing is held, written or  *)
(* counted yet *)
LEMMA InitIInv == Init => IInv
<1> SUFFICES ASSUME Init PROVE IInv
    OBVIOUS
<1> USE DEF Init, Zero, NoWrite, NoMsg
<1>1. TypeOK
    BY DEF TypeOK, Entries
<1>2. LockHeld /\ IdleStays /\ Started
    BY DEF LockHeld, IdleStays, Started, Syncing
<1>3. WriteProgress /\ FlashFollows
    BY DEF WriteProgress, Writing, FlashFollows
<1>4. BaseCounted /\ LedgerExact
    BY DEF BaseCounted, LedgerExact
<1>5. QED
    BY <1>1, <1>2, <1>3, <1>4 DEF IInv

(* What a reset writes is well typed *)
LEMMA ZeroType ==
    /\ Zero \in [Keys -> Nat]
    /\ NoWrite \in [gen : Nat, k : [Keys -> Nat], todo : SUBSET Entries]
    /\ NoMsg \in [gen : Nat, k : [Keys -> Nat], force : BOOLEAN]
BY DEF Zero, NoWrite, NoMsg

(* A reset of the pad, whatever caused it, leaves it well typed *)
LEMMA PowerUpType ==
    ASSUME TypeOK, PowerUp,
           bounds' \in [presses : Nat, syncs : Nat, cuts : Nat, faults : Nat]
    PROVE  TypeOK'
BY ZeroType DEF TypeOK, PowerUp, Entries

(* Every step keeps the types; a sync's difference stays a natural number *)
(* because the counters only grew since it was taken (BaseCounted).       *)
LEMMA TypeStep ==
    TypeOK /\ BaseCounted /\ [Next]_vars => TypeOK'
<1> SUFFICES ASSUME TypeOK, BaseCounted, [Next]_vars PROVE TypeOK'
    OBVIOUS
<1> USE DEF TypeOK, Entries, BaseCounted, counters, flash, tasks, flags, history
<1>1. CASE CountersInit
    BY <1>1 DEF CountersInit, StartFrom
<1>2. CASE CountersInitErased
    BY <1>2 DEF CountersInitErased, StartFrom, Zero
<1>3. CASE CountersInitFailed
    BY <1>3 DEF CountersInitFailed
<1>4. CASE \E k \in Keys : Press(k)
    BY <1>4 DEF Press, Count
<1>5. CASE WriteGeneration
    BY <1>5 DEF WriteGeneration
<1>6. CASE \E k \in Keys : WriteKey(k)
    BY <1>6 DEF WriteKey
<1>7. CASE SupGameplayTimeout
    BY <1>7 DEF SupGameplayTimeout, SupervisorWakes
<1>8. CASE SupStoreCooldown
    BY <1>8 DEF SupStoreCooldown
<1>9. CASE SupCooldownOver
    BY <1>9 DEF SupCooldownOver, SupervisorWakes
<1>10. CASE SupStoreIdle
    BY <1>10 DEF SupStoreIdle
<1>11. CASE SupCheckpointDue
    <2>1. ckptReq' \in BOOLEAN
        BY <1>11, Zenon DEF SupCheckpointDue
    <2>2. QED
        BY <1>11, <2>1 DEF SupCheckpointDue, SupervisorWakes
<1>12. CASE SupRestart
    BY <1>12 DEF SupRestart, SupervisorWakes
<1>13. CASE SupCheckpoint
    BY <1>13 DEF SupCheckpoint, BeginWrite
<1>14. CASE SupOpenFails
    BY <1>14 DEF SupOpenFails, Count
<1>15. CASE SupWritten
    <2>1. genLost' \in BOOLEAN
        BY <1>15, Zenon DEF SupWritten, Written
    <2>2. saved' \in [Keys -> Nat] /\ write' \in [gen : Nat, k : [Keys -> Nat], todo : SUBSET Entries]
        BY <1>15, ZeroType DEF SupWritten, Written
    <2>3. QED
        BY <1>15, <2>1, <2>2 DEF SupWritten, Written
<1>16. CASE SupReboot
    <2>1. bounds' \in [presses : Nat, syncs : Nat, cuts : Nat, faults : Nat]
        BY <1>16 DEF SupReboot, Count
    <2>2. QED
        BY <1>16, <2>1, PowerUpType DEF SupReboot
<1>17. CASE HostPlaying
    <2>1. heard' \in BOOLEAN /\ quiet' \in BOOLEAN
        BY <1>17, Zenon DEF HostPlaying
    <2>2. proto' \in {"wait", "toPlaying"} \cup {proto}
        BY <1>17 DEF HostPlaying
    <2>3. QED
        BY <1>17, <2>1, <2>2 DEF HostPlaying
<1>18. CASE ProtoStorePlaying
    BY <1>18 DEF ProtoStorePlaying
<1>19. CASE HostNotPlaying
    <2>1. CASE state = "playing"
        BY <1>19, <2>1 DEF HostNotPlaying
    <2>2. CASE state # "playing"
        <3>1. heard' \in BOOLEAN
            BY <1>19, <2>2, Zenon DEF HostNotPlaying
        <3>2. QED
            BY <1>19, <2>2, <3>1 DEF HostNotPlaying
    <2>3. QED
        BY <2>1, <2>2
<1>20. CASE ProtoStoreCooldown
    <2>1. heard' \in BOOLEAN
        BY <1>20, Zenon DEF ProtoStoreCooldown
    <2>2. QED
        BY <1>20, <2>1 DEF ProtoStoreCooldown
<1>21. CASE \E m \in Messages : SyncReceive(m)
    <2>1. PICK m \in Messages : SyncReceive(m)
        BY <1>21
    <2>2. m \in [gen : Nat, k : [Keys -> Nat], force : BOOLEAN]
        BY DomainAssumption DEF Messages
    <2>3. bounds' \in [presses : Nat, syncs : Nat, cuts : Nat, faults : Nat]
        BY <2>1 DEF SyncReceive, Count
    <2>4. QED
        BY <2>1, <2>2, <2>3 DEF SyncReceive
<1>22. CASE SyncReject
    BY <1>22 DEF SyncReject
<1>23. CASE SyncAccept
    BY <1>23 DEF SyncAccept, SyncAccepted, NewPeak
<1>24. CASE SyncRebase
    BY <1>24 DEF SyncRebase
<1>25. CASE SyncCheckpoint
    BY <1>25 DEF SyncCheckpoint, BeginWrite
<1>26. CASE SyncOpenFails
    BY <1>26 DEF SyncOpenFails, Count
<1>27. CASE SyncWritten
    <2>1. genLost' \in BOOLEAN
        BY <1>27, Zenon DEF SyncWritten, Written
    <2>2. saved' \in [Keys -> Nat] /\ write' \in [gen : Nat, k : [Keys -> Nat], todo : SUBSET Entries]
        BY <1>27, ZeroType DEF SyncWritten, Written
    <2>3. QED
        BY <1>27, <2>1, <2>2 DEF SyncWritten, Written
<1>28. CASE RestartRequest
    BY <1>28 DEF RestartRequest
<1>29. CASE HostQuiet
    BY <1>29 DEF HostQuiet
<1>30. CASE UsbSuspend
    BY <1>30 DEF UsbSuspend
<1>31. CASE PowerCut
    <2>1. bounds' \in [presses : Nat, syncs : Nat, cuts : Nat, faults : Nat]
        BY <1>31 DEF PowerCut, Count
    <2>2. QED
        BY <1>31, <2>1, PowerUpType DEF PowerCut
<1>32. CASE UNCHANGED vars
    BY <1>32 DEF vars
<1>33. QED
    BY <1>1, <1>2, <1>3, <1>4, <1>5, <1>6, <1>7, <1>8, <1>9, <1>10, <1>11, <1>12, <1>13, <1>14, <1>15, <1>16, <1>17, <1>18, <1>19, <1>20, <1>21, <1>22, <1>23, <1>24, <1>25, <1>26, <1>27, <1>28, <1>29, <1>30, <1>31, <1>32 DEF Next, SupervisorNext, ProtocolNext

(* Every step keeps the lock discipline, and no step takes the pad out of *)
(* IDLE while a sync holds the answer of its IDLE check.                   *)
LEMMA ControlStep ==
    TypeOK /\ LockHeld /\ IdleStays /\ Started /\ [Next]_vars => (LockHeld /\ IdleStays /\ Started)'
<1> SUFFICES ASSUME TypeOK, LockHeld, IdleStays, Started, [Next]_vars PROVE (LockHeld /\ IdleStays /\ Started)'
    OBVIOUS
<1> USE DEF TypeOK, LockHeld, IdleStays, Started, Syncing, counters, flash, tasks, flags, history
<1>1. CASE CountersInit
    BY <1>1 DEF CountersInit, StartFrom
<1>2. CASE CountersInitErased
    BY <1>2 DEF CountersInitErased, StartFrom, Zero
<1>3. CASE CountersInitFailed
    BY <1>3 DEF CountersInitFailed
<1>4. CASE \E k \in Keys : Press(k)
    BY <1>4 DEF Press, Count
<1>5. CASE WriteGeneration
    BY <1>5 DEF WriteGeneration
<1>6. CASE \E k \in Keys : WriteKey(k)
    BY <1>6 DEF WriteKey
<1>7. CASE SupGameplayTimeout
    BY <1>7 DEF SupGameplayTimeout, SupervisorWakes
<1>8. CASE SupStoreCooldown
    BY <1>8 DEF SupStoreCooldown
<1>9. CASE SupCooldownOver
    BY <1>9 DEF SupCooldownOver, SupervisorWakes
<1>10. CASE SupStoreIdle
    BY <1>10 DEF SupStoreIdle
<1>11. CASE SupCheckpointDue
    BY <1>11 DEF SupCheckpointDue, SupervisorWakes
<1>12. CASE SupRestart
    BY <1>12 DEF SupRestart, SupervisorWakes
<1>13. CASE SupCheckpoint
    BY <1>13 DEF SupCheckpoint, BeginWrite
<1>14. CASE SupOpenFails
    BY <1>14 DEF SupOpenFails, Count
<1>15. CASE SupWritten
    BY <1>15 DEF SupWritten, Written, NoWrite, Zero
<1>16. CASE SupReboot
    BY <1>16 DEF SupReboot, PowerUp, Count, NoWrite, NoMsg, Zero
<1>17. CASE HostPlaying
    BY <1>17 DEF HostPlaying
<1>18. CASE ProtoStorePlaying
    BY <1>18 DEF ProtoStorePlaying
<1>19. CASE HostNotPlaying
    BY <1>19 DEF HostNotPlaying
<1>20. CASE ProtoStoreCooldown
    BY <1>20 DEF ProtoStoreCooldown
<1>21. CASE \E m \in Messages : SyncReceive(m)
    BY <1>21 DEF SyncReceive, Messages, Count
<1>22. CASE SyncReject
    BY <1>22 DEF SyncReject
<1>23. CASE SyncAccept
    BY <1>23 DEF SyncAccept, SyncAccepted, NewPeak
<1>24. CASE SyncRebase
    BY <1>24 DEF SyncRebase
<1>25. CASE SyncCheckpoint
    BY <1>25 DEF SyncCheckpoint, BeginWrite
<1>26. CASE SyncOpenFails
    BY <1>26 DEF SyncOpenFails, Count
<1>27. CASE SyncWritten
    BY <1>27 DEF SyncWritten, Written, NoWrite, Zero
<1>28. CASE RestartRequest
    BY <1>28 DEF RestartRequest
<1>29. CASE HostQuiet
    BY <1>29 DEF HostQuiet
<1>30. CASE UsbSuspend
    BY <1>30 DEF UsbSuspend
<1>31. CASE PowerCut
    BY <1>31 DEF PowerCut, PowerUp, Count, NoWrite, NoMsg, Zero
<1>32. CASE UNCHANGED vars
    BY <1>32 DEF vars
<1>33. QED
    BY <1>1, <1>2, <1>3, <1>4, <1>5, <1>6, <1>7, <1>8, <1>9, <1>10, <1>11, <1>12, <1>13, <1>14, <1>15, <1>16, <1>17, <1>18, <1>19, <1>20, <1>21, <1>22, <1>23, <1>24, <1>25, <1>26, <1>27, <1>28, <1>29, <1>30, <1>31, <1>32 DEF Next, SupervisorNext, ProtocolNext

(* Every step keeps flash and s_last_saved in step: half-done writes are *)
(* accounted for entry by entry.                                         *)
LEMMA FlashStep ==
    TypeOK /\ LockHeld /\ IdleStays /\ Started /\ WriteProgress /\ FlashFollows /\ [Next]_vars => (WriteProgress /\ FlashFollows)'
<1> SUFFICES ASSUME TypeOK, LockHeld, IdleStays, Started, WriteProgress, FlashFollows, [Next]_vars PROVE (WriteProgress /\ FlashFollows)'
    OBVIOUS
<1> USE DEF TypeOK, LockHeld, IdleStays, Started, Syncing, WriteProgress, FlashFollows, Writing, Entries, counters, flash, tasks, flags, history
<1>1. CASE CountersInit
    BY <1>1 DEF CountersInit, StartFrom
<1>2. CASE CountersInitErased
    BY <1>2 DEF CountersInitErased, StartFrom, Zero
<1>3. CASE CountersInitFailed
    BY <1>3 DEF CountersInitFailed
<1>4. CASE \E k \in Keys : Press(k)
    BY <1>4 DEF Press, Count
<1>5. CASE WriteGeneration
    BY <1>5 DEF WriteGeneration
<1>6. CASE \E k \in Keys : WriteKey(k)
    BY <1>6 DEF WriteKey
<1>7. CASE SupGameplayTimeout
    BY <1>7 DEF SupGameplayTimeout, SupervisorWakes
<1>8. CASE SupStoreCooldown
    BY <1>8 DEF SupStoreCooldown
<1>9. CASE SupCooldownOver
    BY <1>9 DEF SupCooldownOver, SupervisorWakes
<1>10. CASE SupStoreIdle
    BY <1>10 DEF SupStoreIdle
<1>11. CASE SupCheckpointDue
    BY <1>11 DEF SupCheckpointDue, SupervisorWakes
<1>12. CASE SupRestart
    BY <1>12 DEF SupRestart, SupervisorWakes
<1>13. CASE SupCheckpoint
    BY <1>13 DEF SupCheckpoint, BeginWrite
<1>14. CASE SupOpenFails
    BY <1>14 DEF SupOpenFails, Count
<1>15. CASE SupWritten
    BY <1>15 DEF SupWritten, Written, NoWrite, Zero
<1>16. CASE SupReboot
    BY <1>16 DEF SupReboot, PowerUp, Count, NoWrite, NoMsg, Zero
<1>17. CASE HostPlaying
    BY <1>17 DEF HostPlaying
<1>18. CASE ProtoStorePlaying
    BY <1>18 DEF ProtoStorePlaying
<1>19. CASE HostNotPlaying
    BY <1>19 DEF HostNotPlaying
<1>20. CASE ProtoStoreCooldown
    BY <1>20 DEF ProtoStoreCooldown
<1>21. CASE \E m \in Messages : SyncReceive(m)
    BY <1>21 DEF SyncReceive, Messages, Count
<1>22. CASE SyncReject
    BY <1>22 DEF SyncReject
<1>23. CASE SyncAccept
    BY <1>23 DEF SyncAccept, SyncAccepted, NewPeak
<1>24. CASE SyncRebase
    BY <1>24 DEF SyncRebase
<1>25. CASE SyncCheckpoint
    BY <1>25 DEF SyncCheckpoint, BeginWrite
<1>26. CASE SyncOpenFails
    BY <1>26 DEF SyncOpenFails, Count
<1>27. CASE SyncWritten
    BY <1>27 DEF SyncWritten, Written, NoWrite, Zero
<1>28. CASE RestartRequest
    BY <1>28 DEF RestartRequest
<1>29. CASE HostQuiet
    BY <1>29 DEF HostQuiet
<1>30. CASE UsbSuspend
    BY <1>30 DEF UsbSuspend
<1>31. CASE PowerCut
    BY <1>31 DEF PowerCut, PowerUp, Count, NoWrite, NoMsg, Zero
<1>32. CASE UNCHANGED vars
    BY <1>32 DEF vars
<1>33. QED
    BY <1>1, <1>2, <1>3, <1>4, <1>5, <1>6, <1>7, <1>8, <1>9, <1>10, <1>11, <1>12, <1>13, <1>14, <1>15, <1>16, <1>17, <1>18, <1>19, <1>20, <1>21, <1>22, <1>23, <1>24, <1>25, <1>26, <1>27, <1>28, <1>29, <1>30, <1>31, <1>32 DEF Next, SupervisorNext, ProtocolNext

(* Every step counts each press once *)
LEMMA LedgerStep ==
    TypeOK /\ LockHeld /\ Started /\ BaseCounted /\ LedgerExact /\ [Next]_vars => (BaseCounted /\ LedgerExact)'
<1> SUFFICES ASSUME TypeOK, LockHeld, Started, BaseCounted, LedgerExact, [Next]_vars PROVE (BaseCounted /\ LedgerExact)'
    OBVIOUS
<1> USE DEF TypeOK, LockHeld, Started, Syncing, BaseCounted, LedgerExact, counters, flash, tasks, flags, history
<1>1. CASE CountersInit
    BY <1>1 DEF CountersInit, StartFrom
<1>2. CASE CountersInitErased
    BY <1>2 DEF CountersInitErased, StartFrom, Zero
<1>3. CASE CountersInitFailed
    BY <1>3 DEF CountersInitFailed
<1>4. CASE \E k \in Keys : Press(k)
    BY <1>4 DEF Press, Count
<1>5. CASE WriteGeneration
    BY <1>5 DEF WriteGeneration
<1>6. CASE \E k \in Keys : WriteKey(k)
    BY <1>6 DEF WriteKey
<1>7. CASE SupGameplayTimeout
    BY <1>7 DEF SupGameplayTimeout, SupervisorWakes
<1>8. CASE SupStoreCooldown
    BY <1>8 DEF SupStoreCooldown
<1>9. CASE SupCooldownOver
    BY <1>9 DEF SupCooldownOver, SupervisorWakes
<1>10. CASE SupStoreIdle
    BY <1>10 DEF SupStoreIdle
<1>11. CASE SupCheckpointDue
    BY <1>11 DEF SupCheckpointDue, SupervisorWakes
<1>12. CASE SupRestart
    BY <1>12 DEF SupRestart, SupervisorWakes
<1>13. CASE SupCheckpoint
    BY <1>13 DEF SupCheckpoint, BeginWrite
<1>14. CASE SupOpenFails
    BY <1>14 DEF SupOpenFails, Count
<1>15. CASE SupWritten
    BY <1>15 DEF SupWritten, Written, NoWrite, Zero
<1>16. CASE SupReboot
    BY <1>16 DEF SupReboot, PowerUp, Count, NoWrite, NoMsg, Zero
<1>17. CASE HostPlaying
    BY <1>17 DEF HostPlaying
<1>18. CASE ProtoStorePlaying
    BY <1>18 DEF ProtoStorePlaying
<1>19. CASE HostNotPlaying
    BY <1>19 DEF HostNotPlaying
<1>20. CASE ProtoStoreCooldown
    BY <1>20 DEF ProtoStoreCooldown
<1>21. CASE \E m \in Messages : SyncReceive(m)
    BY <1>21 DEF SyncReceive, Messages, Count
<1>22. CASE SyncReject
    BY <1>22 DEF SyncReject
<1>23. CASE SyncAccept
    BY <1>23 DEF SyncAccept, SyncAccepted, NewPeak
<1>24. CASE SyncRebase
    BY <1>24 DEF SyncRebase
<1>25. CASE SyncCheckpoint
    BY <1>25 DEF SyncCheckpoint, BeginWrite
<1>26. CASE SyncOpenFails
    BY <1>26 DEF SyncOpenFails, Count
<1>27. CASE SyncWritten
    BY <1>27 DEF SyncWritten, Written, NoWrite, Zero
<1>28. CASE RestartRequest
    BY <1>28 DEF RestartRequest
<1>29. CASE HostQuiet
    BY <1>29 DEF HostQuiet
<1>30. CASE UsbSuspend
    BY <1>30 DEF UsbSuspend
<1>31. CASE PowerCut
    BY <1>31 DEF PowerCut, PowerUp, Count, NoWrite, NoMsg, Zero
<1>32. CASE UNCHANGED vars
    BY <1>32 DEF vars
<1>33. QED
    BY <1>1, <1>2, <1>3, <1>4, <1>5, <1>6, <1>7, <1>8, <1>9, <1>10, <1>11, <1>12, <1>13, <1>14, <1>15, <1>16, <1>17, <1>18, <1>19, <1>20, <1>21, <1>22, <1>23, <1>24, <1>25, <1>26, <1>27, <1>28, <1>29, <1>30, <1>31, <1>32 DEF Next, SupervisorNext, ProtocolNext

(* What the runs check follows from the invariant *)
LEMMA PropertiesFollow ==
    IInv => TypeOK /\ LedgerExact /\ CleanMeansSafe /\ AcceptedSyncIsWritten
<1> SUFFICES ASSUME IInv PROVE TypeOK /\ LedgerExact /\ CleanMeansSafe /\ AcceptedSyncIsWritten
    OBVIOUS
<1>1. CleanMeansSafe
    BY DEF IInv, CleanMeansSafe, FlashFollows, Writing, LockHeld, Syncing
<1>2. AcceptedSyncIsWritten
    BY DEF IInv, AcceptedSyncIsWritten, IdleStays
<1>3. QED
    BY <1>1, <1>2 DEF IInv

(* The invariant is inductive *)
THEOREM Invariance == Spec => []IInv
<1>1. IInv /\ [Next]_vars => IInv'
    BY TypeStep, ControlStep, FlashStep, LedgerStep DEF IInv
<1>2. QED
    BY InitIInv, <1>1, PTL DEF Spec

(* Types hold in every reachable state *)
THEOREM TypeCorrect == Spec => []TypeOK
BY Invariance, PropertiesFollow, PTL

(* No press is lost or counted twice, whatever a sync and the key interrupt *)
(* interleave (rebase_lifetime_presses)                                     *)
THEOREM PressesCountOnce == Spec => []LedgerExact
BY Invariance, PropertiesFollow, PTL

(* Skipping a clean checkpoint never leaves anything unsaved               *)
(* (counters_is_dirty)                                                     *)
THEOREM CleanIsOnFlash == Spec => []CleanMeansSafe
BY Invariance, PropertiesFollow, PTL

(* The silent skip at the end of an accepted CounterSync is never taken    *)
(* (counters_sync_from_host)                                               *)
THEOREM SyncReachesFlash == Spec => []AcceptedSyncIsWritten
BY Invariance, PropertiesFollow, PTL
=============================================================================
