-------------------------- MODULE MCCounterSyncWatch --------------------------
(***************************************************************************)
(* CounterSync with two history variables beside it, for the properties    *)
(* that speak of what happened earlier.  They follow the steps and never   *)
(* hinder one; Alone is CounterSync with both at rest, for those that do   *)
(* not need them.                                                          *)
(***************************************************************************)
EXTENDS CounterSync

VARIABLES
    missed,    \* since the last sync began: one failed, or a connect got none
    cleared    \* the last reset of a connected pad, and the presses since

watched == <<vars, missed, cleared>>

\* perform_sync begins with the pad; it gives up; a pad connects outside IDLE
WatchSyncs ==
    missed' = IF sync.at = "none" /\ sync'.at = "poll" THEN FALSE
              ELSE missed \/ SyncNotIdle \/ SyncFail \/ (Hello /\ mode # "idle")

WatchResets ==
    cleared' = IF ResetZero /\ known /\ connected THEN mem'
               ELSE IF cleared = NoRecord THEN cleared
               ELSE [cleared EXCEPT !.k = [k \in Keys |-> @[k] + (ledger'[k] - ledger[k])]]

WatchInit == Init /\ missed = FALSE /\ cleared = NoRecord

WatchNext == Next /\ WatchSyncs /\ WatchResets

WatchSpec == WatchInit /\ [][WatchNext]_watched

Alone == WatchInit /\ [][Next /\ UNCHANGED <<missed, cleared>>]_watched

(***************************************************************************)
(* Fairness: the daemon's loop and the running sync are scheduled, a lost  *)
(* port is opened again, the pad answers polls and frames, and its         *)
(* cooldown ends.  Nothing is assumed of the player, the cable or the      *)
(* user.  Answers to frames are strongly fair: only the bound on the queue *)
(* disables them now and then.                                             *)
(***************************************************************************)
FairSpec ==
    /\ WatchSpec
    /\ WF_vars(LinkUp) /\ WF_vars(PadIdle) /\ WF_vars(PadStatus)
    /\ SF_vars(\E heard \in BOOLEAN : PadSync(heard))
    /\ WF_vars(Hello) /\ WF_vars(Status) /\ WF_vars(SyncResult) /\ WF_vars(Gone)
    /\ WF_vars(PeriodicSync) /\ WF_vars(SyncCompleted)
    /\ \A by \in {"runtime", "ipc"} : WF_vars(SyncStart(by))
    /\ WF_vars(SyncNotIdle) /\ WF_vars(SyncLoad) /\ WF_vars(SyncSave)
    /\ WF_vars(SyncSend) /\ WF_vars(SyncTimeout)
    /\ WF_vars(SyncAccepted) /\ WF_vars(SyncRejected) /\ WF_vars(SyncFail)
    /\ WF_vars(SyncStore) /\ WF_vars(SyncPublish)

(***************************************************************************)
(* Once no map is on any more, both sides end up equal: the presses of the *)
(* map are in the row, and a pad that came back older has the row's counts *)
(* (perform_sync, on_event).  The exception is a sync that failed, or that *)
(* a connect did not get, with nothing after it to ask for another.        *)
(***************************************************************************)
BothSidesEqual == <>[](mode # "playing") /\ <>[]~missed => <>[](row = pad)

(***************************************************************************)
(* A reset of a connected pad stays: once its push is delivered, in its    *)
(* generation or a later one the pad shows only presses made since.        *)
(* docs/recovery.md says the newer generation wins unconditionally, so     *)
(* nothing overwrites an intentional reset.                                *)
(***************************************************************************)
ResetHolds ==
    (cleared # NoRecord /\ pad.gen >= cleared.gen /\ ipc = NoIpc /\ toPad = <<>>) =>
        \A k \in Keys : pad.k[k] <= cleared.k[k]

-----------------------------------------------------------------------------
(* Bounds.  One key: the merge takes the keys one by one. *)
CONSTANT k1
OneKey == {k1}

(* A user request among presses, maps, syncs and a loss; or two cuts and a *)
(* crash, from a PC that may not know the pad.                             *)
OneRequestOrCuts ==
    {[newPC |-> FALSE, presses |-> 1, requests |-> 1, cuts |-> 0, lost |-> 1, crashes |-> 0],
     [newPC |-> TRUE, presses |-> 1, requests |-> 0, cuts |-> 2, lost |-> 1, crashes |-> 1]}
CutAndCrash == {[newPC |-> TRUE, presses |-> 1, requests |-> 0, cuts |-> 1, lost |-> 0, crashes |-> 1]}
OneRequest == {[newPC |-> FALSE, presses |-> 0, requests |-> 1, cuts |-> 0, lost |-> 0, crashes |-> 0]}
=============================================================================
